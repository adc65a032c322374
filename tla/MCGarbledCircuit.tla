-------------------------- MODULE MCGarbledCircuit --------------------------
(* Small instances of GarbledCircuit.                                      *)
EXTENDS GarbledCircuit

Gate(t, a, b, o) == [type |-> t, in0 |-> a, in1 |-> b, out |-> o]

Circuit(n0, n1, nout, gates) ==
    [n_input0 |-> n0, n_input1 |-> n1, n_output |-> nout,
     n_wires |-> n0 + n1 + Len(gates), gates |-> gates]

(* The gates that may write wire o of a circuit in which all lower wires   *)
(* are written before; load_bristol() stores the input of an INV twice.    *)
GatesFor(o) == {Gate(t, a, b, o) : t \in {"XOR", "AND"}, a \in 0 .. o - 1, b \in 0 .. o - 1}
               \union {Gate("INV", a, a, o) : a \in 0 .. o - 1}

(* All circuits with one bit of each party and two gates, and one with     *)
(* three gates whose middle gate reads the label of a NOT twice.           *)
MCCircuitSet ==
    {Circuit(1, 1, 1, <<g, h>>) : g \in GatesFor(2), h \in GatesFor(3)}
    \union {Circuit(1, 1, 2, <<Gate("INV", 0, 0, 2), Gate("AND", 2, 2, 3),
                               Gate("AND", 3, 1, 4)>>)}

(* Two keys of the permutation.  On two-bit blocks every permutation is    *)
(* affine, so that for some circuits masks may cancel which would not      *)
(* cancel under AES; the theorems of GarbledCircuitProofs hold for all     *)
(* functions.                                                              *)
MCAES == [a1 |-> [x \in Key |-> CASE x = {} -> {1} [] x = {0} -> {} [] x = {1} -> {0, 1} [] OTHER -> {0}],
          a2 |-> [x \in Key |-> CASE x = {} -> {} [] x = {0} -> {1} [] x = {1} -> {0} [] OTHER -> {0, 1}]]

MCGidMask == [i \in 0 .. 1 |-> IF i = 1 THEN {1} ELSE {}]
MCTMask == [i \in {0, 1} |-> IF i = 1 THEN {0} ELSE {}]
=============================================================================
