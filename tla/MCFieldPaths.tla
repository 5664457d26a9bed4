---------------------------- MODULE MCFieldPaths ----------------------------
(* Components of three bits, and numbers that reach every operation.       *)
EXTENDS FieldPaths

MCNumbers == {0, 1, 7}
MCVarints == -1..1
=============================================================================
