--------------------------- MODULE MCRepoWatcher ---------------------------
(* Small instances of RepoWatcher. *)
EXTENDS RepoWatcher, TLC

CONSTANTS r1, x, y

(* Two branches with the same name, as a/b and a-b have. *)
MCNamesCollide == <<r1, x>> :> 1 @@ <<r1, y>> :> 1
=============================================================================
