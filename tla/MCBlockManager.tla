--------------------------- MODULE MCBlockManager ---------------------------
(* TLC instance of BlockManager. *)
EXTENDS BlockManager
=============================================================================
