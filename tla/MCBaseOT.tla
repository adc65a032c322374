----------------------------- MODULE MCBaseOT -------------------------------
(***************************************************************************)
(* Two transfers; any function will do for pkHash.                         *)
(***************************************************************************)
EXTENDS BaseOT

Hash3(k) == (3 * k + 5) % Q
=============================================================================
