------------------------------ MODULE Circuits ------------------------------
(***************************************************************************)
(* Boolean circuits as load_bristol() returns them: wires 0..n_wires-1,    *)
(* the first n_input0 + n_input1 of which are inputs and the last n_output *)
(* of which are outputs, and a list of XOR, AND and INV gates.             *)
(***************************************************************************)
EXTENDS Naturals, Sequences, FiniteSets

CONSTANT CircuitSet    \* the circuits that are considered

GateTypes == {"XOR", "AND", "INV"}

Wires(c)  == 0 .. c.n_wires - 1
Inputs(c) == 0 .. c.n_input0 + c.n_input1 - 1
Gates(c)  == 1 .. Len(c.gates)

(* The wires that have a value when the k-th gate is reached.              *)
Defined(c, k) == Inputs(c) \union {c.gates[j].out : j \in {h \in Gates(c) : h < k}}

(* How many AND gates come before the k-th gate.                           *)
AndsBefore(c, k) == Cardinality({j \in Gates(c) : j < k /\ c.gates[j].type = "AND"})

(* output_wires[i]                                                         *)
output_wire(c, i) == c.n_wires - c.n_output + i

Outputs(c) == 0 .. c.n_output - 1

(***************************************************************************)
(* What the code relies on and load_bristol() does not check: gates come   *)
(* in topological order, every wire is written once, and the outputs are   *)
(* written.                                                                *)
(***************************************************************************)
IsCircuit(c) ==
    /\ c.n_wires \in Nat /\ c.n_input0 \in Nat /\ c.n_input1 \in Nat /\ c.n_output \in Nat
    /\ c.gates \in Seq([type : GateTypes, in0 : Nat, in1 : Nat, out : Nat])
    /\ Inputs(c) \subseteq Wires(c)
    /\ \A k \in Gates(c) :
         /\ c.gates[k].in0 \in Defined(c, k)
         /\ c.gates[k].in1 \in Defined(c, k)
         /\ c.gates[k].out \in Wires(c) \ Defined(c, k)
    /\ c.n_output <= c.n_wires
    /\ \A i \in Outputs(c) : output_wire(c, i) \in Defined(c, Len(c.gates) + 1)

ASSUME CircuitsOK == \A c \in CircuitSet : IsCircuit(c)
=============================================================================
