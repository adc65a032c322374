--------------------------- MODULE MCStarkGarble ----------------------------
(***************************************************************************)
(* Blocks of three bits and up to two gates: traces whose rows are filled  *)
(* up from three, and from six, to eight.                                  *)
(***************************************************************************)
EXTENDS StarkGarble

SomeBlocks == {{}, {0, 2}}
=============================================================================
