------------------------------- MODULE Labels -------------------------------
(***************************************************************************)
(* The wire labels of the garbled circuits: 128-bit blocks, here the set   *)
(* of the positions of their one bits, so that the XOR of two labels is    *)
(* the symmetric difference.  Position 0 is the least significant bit,     *)
(* the "signal" or point-and-permute bit of a label.                       *)
(***************************************************************************)

CONSTANT Bits    \* the bit positions of a block (0..127 in the code)

ASSUME SignalBit == 0 \in Bits

Key == SUBSET Bits

ZeroKey == {}

xor_block(a, b) == (a \ b) \union (b \ a)

lsb(x) == 0 \in x

(* `if (c) y = xor_block(y, x)': x when the condition holds, else zero.    *)
If(c, x) == IF c THEN x ELSE ZeroKey

(* label_for_bit(wire0, delta, bit)                                        *)
label_for_bit(wire0, delta, bit) == xor_block(wire0, If(bit, delta))

(* `if (lsb(x)) x = xor_block(x, delta)': the label of the pair {x,        *)
(* x XOR delta} whose least significant bit is clear.                      *)
clear_lsb(x, delta) == xor_block(x, If(lsb(x), delta))
=============================================================================
