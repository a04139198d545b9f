---------------------------- MODULE MCTreeMerge ----------------------------
(* A small instance of TreeMerge. *)
EXTENDS TreeMerge

CONSTANTS f, g, d, x, y

(* Two files, and d, which is a file or a directory with a file f. *)
MCPaths == {<<f>>, <<g>>, <<d>>, <<d, f>>}

(* Renamed with or without a change. *)
MCAlike == {<<x, y>>}
=============================================================================
