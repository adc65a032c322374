---------------------------- MODULE MCTransfers -----------------------------
(***************************************************************************)
(* Two base transfers and blocks of two bits.  Any functions will do for   *)
(* pkHash and the generators; the latter is neither constant nor periodic  *)
(* in the positions used.                                                  *)
(***************************************************************************)
EXTENDS Transfers

Hash3(k) == (3 * k + 5) % Q

(* A number for each string of the base transfers and each other seed.     *)
StringNumber(str) == IF str[1] = "hash" THEN 5 * str[2][2] + str[3] + 40 ELSE str[2]
Number(seed) ==
    CASE seed[1] = "base" -> 5 * seed[2] + 11 * seed[3] + 2
      [] seed[1] = "prg" -> 3 * StringNumber(seed[2]) + 1
      [] seed[1] = "pad" -> 7 * seed[2] + 3 * seed[3] + 17
      [] seed[1] = "chi" -> 7 * seed[2] + 3 * seed[3] + 23
      [] seed[1] = "key" -> 7 * seed[2] + 3 * seed[3] + 31

Quadratic(seed, i) == ((i * i * 7 + i * Number(seed) * 3 + Number(seed) * 5) % 11) % 2 = 0

(* Inputs that fill a block, do not, and none at all; in one slice and in  *)
(* two.                                                                    *)
MCPrograms ==
    {[nsubloops |-> 1, n |-> n] : n \in {<<>>, <<0, 1, 2>>, <<3, 0, 1>>, <<1, 2, 2>>}}
      \cup {[nsubloops |-> 2, n |-> n] : n \in {<<3, 3>>}}
=============================================================================
