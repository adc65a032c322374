------------------------------- MODULE MCPPSS -------------------------------
(***************************************************************************)
(* Small lanes; the hashes are any functions that depend on all they get.  *)
(***************************************************************************)
EXTENDS PPSS

HashPair(u, v) == [l \in Lanes |-> (3 * u[l] + v[1 - l] + u[1 - l] * v[l] + 1) % M]
HashHalf(v) == [l \in Lanes |-> (v[l] + v[0] * v[1] + 1) % M]

AnyValue == Value
OneValue == {[l \in Lanes |-> 1 - l]}
=============================================================================
