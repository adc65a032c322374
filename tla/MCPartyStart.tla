--------------------------- MODULE MCPartyStart -----------------------------
(***************************************************************************)
(* Two parties.                                                            *)
(***************************************************************************)
EXTENDS PartyStart

Ports == [default_port : BOOLEAN]
=============================================================================
