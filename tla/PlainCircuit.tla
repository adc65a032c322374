---------------------------- MODULE PlainCircuit ----------------------------
(***************************************************************************)
(* What evaluating a garbled circuit promises: the computation of          *)
(* eval_circuit_plain(), which runs through the gates in order and applies *)
(* each one to bits.                                                       *)
(***************************************************************************)
EXTENDS Circuits

VARIABLES circ,      \* the circuit
          in_bits,   \* the input bits
          k,         \* the next gate
          w,         \* the wires' values
          out        \* the output bits; the empty function until they are read

vars == <<circ, in_bits, k, w, out>>

NoOutput == [i \in {} |-> FALSE]

Init ==
    /\ circ \in CircuitSet
    /\ in_bits \in [Inputs(circ) -> BOOLEAN]
    /\ k = 1
    /\ w = [i \in Wires(circ) |-> IF i \in Inputs(circ) THEN in_bits[i] ELSE FALSE]
    /\ out = NoOutput

(* The bit a gate computes.                                                *)
GateFunction(type, a, b) ==
    CASE type = "XOR" -> a # b
      [] type = "AND" -> a /\ b
      [] type = "INV" -> ~a

EvalGate ==
    LET g == circ.gates[k] IN
    /\ k \in Gates(circ)
    /\ w' = [w EXCEPT ![g.out] = GateFunction(g.type, w[g.in0], w[g.in1])]
    /\ k' = k + 1
    /\ UNCHANGED <<circ, in_bits, out>>

ReadOutputs ==
    /\ k = Len(circ.gates) + 1
    /\ out = NoOutput
    /\ out' = [i \in Outputs(circ) |-> w[output_wire(circ, i)]]
    /\ UNCHANGED <<circ, in_bits, k, w>>

Next == EvalGate \/ ReadOutputs

Spec == Init /\ [][Next]_vars
=============================================================================
