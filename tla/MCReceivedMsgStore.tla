------------------------ MODULE MCReceivedMsgStore -------------------------
(* ReceivedMsgStore with a ring of two, so that it wraps around, and up to *)
(* three files, whose names are interchangeable.                           *)
EXTENDS ReceivedMsgStore, TLC

NameSymmetry == Permutations(Names)
=============================================================================
