--------------------------- MODULE MCScpiControl ---------------------------
(* Small instances of ScpiControl for TLC.  There is no symmetry set: the    *)
(* runs check liveness.                                                      *)
EXTENDS ScpiControl
=============================================================================
