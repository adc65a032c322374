----------------------------- MODULE HalfGates ------------------------------
(***************************************************************************)
(* The half-gates garbling of an AND gate: two rows Tg and Te per gate,    *)
(* each hiding one half of the product under hashes of the input labels.   *)
(* The hash is the fixed-key MMO construction, tweaked by the gate's       *)
(* number and the half's; about the permutation and the tweaks only the    *)
(* type is assumed.                                                        *)
(***************************************************************************)
EXTENDS Labels, Naturals

CONSTANTS AesKeys,     \* the keys of the fixed-key permutation
          AES,         \* encrypt() for each key
          TweakIds,    \* how many gate identifiers a tweak tells apart (2^32)
          GidMask,     \* the block an identifier is XORed in as
          TMask        \* the block the half's number (0 or 1) is XORed in as

ASSUME HashOK == /\ AES \in [AesKeys -> [Key -> Key]]
                 /\ TweakIds \in Nat \ {0}
                 /\ GidMask \in [0 .. TweakIds - 1 -> Key]
                 /\ TMask \in [{0, 1} -> Key]

mmo_hash(aes, x) == xor_block(AES[aes][x], x)

tweak(x, gid, t) == xor_block(xor_block(x, GidMask[gid % TweakIds]), TMask[t])

H(aes, x, gid, t) == mmo_hash(aes, tweak(x, gid, t))

(* The table <<Tg, Te>> of an AND gate with zero labels a0 and b0 ...      *)
and_table(aes, d, a0, b0, gid) ==
    LET Ha0 == H(aes, a0, gid, 0)
        Ha1 == H(aes, xor_block(a0, d), gid, 0)
        Hb0 == H(aes, b0, gid, 1)
        Hb1 == H(aes, xor_block(b0, d), gid, 1)
    IN  << xor_block(xor_block(Ha0, Ha1), If(lsb(b0), d)),
           xor_block(xor_block(Hb0, Hb1), a0) >>

(* ... and the zero label of its output.                                   *)
and_zero(aes, d, a0, b0, gid) ==
    LET T   == and_table(aes, d, a0, b0, gid)
        wg0 == xor_block(H(aes, a0, gid, 0), If(lsb(a0), T[1]))
        we0 == xor_block(H(aes, b0, gid, 1), If(lsb(b0), xor_block(T[2], a0)))
    IN  xor_block(wg0, we0)

(* Mutant: the evaluator half forgets to XOR in the left label.            *)
and_eval_no_left(aes, wa, wb, T, gid) ==
    LET wg == xor_block(H(aes, wa, gid, 0), If(lsb(wa), T[1]))
        we == xor_block(H(aes, wb, gid, 1), If(lsb(wb), T[2]))
    IN  xor_block(wg, we)

(* The label the evaluator computes from active labels wa and wb.          *)
and_eval(aes, wa, wb, T, gid) ==
    LET wg == xor_block(H(aes, wa, gid, 0), If(lsb(wa), T[1]))
        we == xor_block(H(aes, wb, gid, 1), If(lsb(wb), xor_block(T[2], wa)))
    IN  xor_block(wg, we)
=============================================================================
