--------------------------- MODULE GarbledCircuit ---------------------------
(***************************************************************************)
(* Garbling one circuit with half-gates, free XOR and free NOT, handing    *)
(* the evaluator one label per input wire, evaluating on labels, decoding: *)
(* garble_circuit(), label_for_bit(), make_share_labels(),                 *)
(* encode_shares(), reconstruct_label(), eval_circuit_labels() and         *)
(* decode_outputs().                                                       *)
(*                                                                         *)
(* Random blocks and bits are chosen by existential quantification.  The   *)
(* fixed-key permutation and the tweaks are constants about which only the *)
(* type is assumed.                                                        *)
(***************************************************************************)
EXTENDS HalfGates, Circuits

VARIABLES circ,        \* the circuit both parties have loaded
          in_bits,     \* the bit of every input wire
          aes_key,     \* the key of the permutation, sent with the tables
          phase,       \* "inputs", "garble", "labels", "eval" or "done"
          k,           \* the next gate of the loop that is running
          and_id,      \* its AND gate counter
          delta,       \* the garbler's global offset
          wire0,       \* the zero label of each wire
          tables,      \* the AND gates' tables
          out_decode,  \* the decoding bit of each output
          w,           \* the evaluator's active labels
          out          \* the decoded output bits

vars == <<circ, in_bits, aes_key, phase, k, and_id, delta, wire0, tables,
          out_decode, w, out>>

NoOutput == [i \in {} |-> FALSE]

Init ==
    /\ circ \in CircuitSet
    /\ in_bits \in [Inputs(circ) -> BOOLEAN]
    /\ aes_key \in AesKeys
    /\ phase = "inputs"
    /\ k = 1 /\ and_id = 0
    /\ delta = ZeroKey
    /\ wire0 = [i \in Wires(circ) |-> ZeroKey]
    /\ tables = <<>>
    /\ out_decode = NoOutput
    /\ w = [i \in Wires(circ) |-> ZeroKey]
    /\ out = NoOutput
-----------------------------------------------------------------------------
(* make_delta(), and a random zero label for each input wire.              *)
GarbleInputs ==
    /\ phase = "inputs"
    /\ \E d \in Key, r \in [Inputs(circ) -> Key] :
         /\ delta' = d \union {0}
         /\ wire0' = [i \in Wires(circ) |-> IF i \in Inputs(circ)
                                            THEN clear_lsb(r[i], delta')
                                            ELSE ZeroKey]
    /\ phase' = "garble"
    /\ UNCHANGED <<circ, in_bits, aes_key, k, and_id, tables, out_decode, w, out>>

(* Mutant: a NOT gate keeps the zero label.                                *)
GarbleFree_inv_noop ==
    LET g == circ.gates[k] IN
    /\ phase = "garble" /\ k \in Gates(circ)
    /\ g.type # "AND"
    /\ wire0' = [wire0 EXCEPT ![g.out] =
                    xor_block(wire0[g.in0], If(g.type = "XOR", wire0[g.in1]))]
    /\ k' = k + 1
    /\ UNCHANGED <<circ, in_bits, aes_key, phase, and_id, delta, tables,
                   out_decode, w, out>>

(* One round of the loop of garble_circuit() for a free gate ...           *)
GarbleFree ==
    LET g == circ.gates[k] IN
    /\ phase = "garble" /\ k \in Gates(circ)
    /\ g.type # "AND"
    /\ wire0' = [wire0 EXCEPT ![g.out] =
                    xor_block(wire0[g.in0],
                              IF g.type = "XOR" THEN wire0[g.in1] ELSE delta)]
    /\ k' = k + 1
    /\ UNCHANGED <<circ, in_bits, aes_key, phase, and_id, delta, tables,
                   out_decode, w, out>>

(* ... and for an AND gate.                                                *)
GarbleAnd ==
    LET g == circ.gates[k] IN
    /\ phase = "garble" /\ k \in Gates(circ)
    /\ g.type = "AND"
    /\ wire0' = [wire0 EXCEPT ![g.out] = and_zero(aes_key, delta, wire0[g.in0], wire0[g.in1], and_id)]
    /\ tables' = Append(tables, and_table(aes_key, delta, wire0[g.in0], wire0[g.in1], and_id))
    /\ and_id' = and_id + 1
    /\ k' = k + 1
    /\ UNCHANGED <<circ, in_bits, aes_key, phase, delta, out_decode, w, out>>

GarbleOutputs ==
    /\ phase = "garble" /\ k = Len(circ.gates) + 1
    /\ out_decode' = [i \in Outputs(circ) |-> lsb(wire0[output_wire(circ, i)])]
    /\ phase' = "labels"
    /\ UNCHANGED <<circ, in_bits, aes_key, k, and_id, delta, wire0, tables, w, out>>

(***************************************************************************)
(* The label of an evaluator's input bit goes through two shares: the      *)
(* client splits the bit into r and r XOR bit, the server the zero label   *)
(* into s0 and s1, and each share's label is chosen by an oblivious        *)
(* transfer.                                                               *)
(***************************************************************************)
share_label(d, zero, bit, r, s) ==
    LET s0_0 == clear_lsb(s, d)
        s1_0 == xor_block(zero, s0_0)
        lab0 == label_for_bit(s0_0, d, r)
        lab1 == label_for_bit(s1_0, d, r # bit)
    IN  xor_block(lab0, lab1)

(* Mutant: the evaluator's loop starts at the gate after the last.         *)
SelectLabels_no_reset ==
    /\ phase = "labels"
    /\ w' = [i \in Wires(circ) |-> IF i \in Inputs(circ)
                                   THEN label_for_bit(wire0[i], delta, in_bits[i])
                                   ELSE ZeroKey]
    /\ phase' = "eval"
    /\ k' = k + 1 /\ and_id' = 0
    /\ UNCHANGED <<circ, in_bits, aes_key, delta, wire0, tables, out_decode, out>>

(* The evaluator obtains one label for each input wire and starts its loop.*)
SelectLabels ==
    /\ phase = "labels"
    /\ \E r \in [Inputs(circ) -> BOOLEAN], s \in [Inputs(circ) -> Key] :
         w' = [i \in Wires(circ) |->
                 IF i \notin Inputs(circ) THEN ZeroKey
                 ELSE IF i < circ.n_input0 THEN label_for_bit(wire0[i], delta, in_bits[i])
                 ELSE share_label(delta, wire0[i], in_bits[i], r[i], s[i])]
    /\ phase' = "eval"
    /\ k' = 1 /\ and_id' = 0
    /\ UNCHANGED <<circ, in_bits, aes_key, delta, wire0, tables, out_decode, out>>

(* Mutant: the evaluator counts every gate as an AND gate.                 *)
EvalFree_counts ==
    LET g == circ.gates[k] IN
    /\ phase = "eval" /\ k \in Gates(circ)
    /\ g.type # "AND"
    /\ w' = [w EXCEPT ![g.out] = xor_block(w[g.in0], If(g.type = "XOR", w[g.in1]))]
    /\ k' = k + 1 /\ and_id' = and_id + 1
    /\ UNCHANGED <<circ, in_bits, aes_key, phase, delta, wire0, tables, out_decode, out>>

(* One round of the loop of eval_circuit_labels().                         *)
EvalFree ==
    LET g == circ.gates[k] IN
    /\ phase = "eval" /\ k \in Gates(circ)
    /\ g.type # "AND"
    /\ w' = [w EXCEPT ![g.out] = xor_block(w[g.in0], If(g.type = "XOR", w[g.in1]))]
    /\ k' = k + 1
    /\ UNCHANGED <<circ, in_bits, aes_key, phase, and_id, delta, wire0, tables,
                   out_decode, out>>

EvalAnd ==
    LET g == circ.gates[k] IN
    /\ phase = "eval" /\ k \in Gates(circ)
    /\ g.type = "AND"
    /\ w' = [w EXCEPT ![g.out] = and_eval(aes_key, w[g.in0], w[g.in1], tables[and_id + 1], and_id)]
    /\ and_id' = and_id + 1
    /\ k' = k + 1
    /\ UNCHANGED <<circ, in_bits, aes_key, phase, delta, wire0, tables, out_decode, out>>

decode_outputs ==
    /\ phase = "eval" /\ k = Len(circ.gates) + 1
    /\ out' = [i \in Outputs(circ) |-> lsb(w[output_wire(circ, i)]) # out_decode[i]]
    /\ phase' = "done"
    /\ UNCHANGED <<circ, in_bits, aes_key, k, and_id, delta, wire0, tables, out_decode, w>>

Next == \/ GarbleInputs \/ GarbleFree \/ GarbleAnd \/ GarbleOutputs
        \/ SelectLabels \/ EvalFree \/ EvalAnd \/ decode_outputs

Spec == Init /\ [][Next]_vars
-----------------------------------------------------------------------------
Phases == {"inputs", "garble", "labels", "eval", "done"}

TypeOK ==
    /\ circ \in CircuitSet
    /\ in_bits \in [Inputs(circ) -> BOOLEAN]
    /\ aes_key \in AesKeys
    /\ phase \in Phases
    /\ k \in 1 .. Len(circ.gates) + 1
    /\ and_id \in Nat
    /\ delta \in Key
    /\ wire0 \in [Wires(circ) -> Key]
    /\ tables \in Seq(Key \X Key)
    /\ out_decode \in {NoOutput} \union [Outputs(circ) -> BOOLEAN]
    /\ w \in [Wires(circ) -> Key]
    /\ out \in {NoOutput} \union [Outputs(circ) -> BOOLEAN]

Evaluating == phase \in {"eval", "done"}

(***************************************************************************)
(* The evaluator's AND counter walks through the garbler's tables: at an   *)
(* AND gate there is a table left for it, and at the end none is.          *)
(***************************************************************************)
TablesInStep ==
    Evaluating => /\ k \in Gates(circ) /\ circ.gates[k].type = "AND"
                       => and_id < Len(tables)
                  /\ k = Len(circ.gates) + 1 => and_id = Len(tables)

(***************************************************************************)
(* Every label the evaluator computes is one of the two labels the garbler *)
(* gave that wire.                                                         *)
(***************************************************************************)
ActiveLabels ==
    Evaluating => \A i \in Defined(circ, k) :
                    w[i] \in {wire0[i], xor_block(wire0[i], delta)}

(***************************************************************************)
(* The inductive invariant behind these: the counters count AND gates,     *)
(* every gate the garbler has passed satisfies its garbling equation (its  *)
(* wires are written once, so the equation stays true), and the decoding   *)
(* bits are those of the final zero labels.                                *)
(***************************************************************************)
GarbledUpTo == IF phase \in {"inputs", "garble"} THEN k ELSE Len(circ.gates) + 1

GateGarbled(j) ==
    LET g   == circ.gates[j]
        id  == AndsBefore(circ, j)
        in0 == wire0[g.in0]
        in1 == wire0[g.in1]
    IN  IF g.type = "AND"
        THEN /\ wire0[g.out] = and_zero(aes_key, delta, in0, in1, id)
             /\ id < Len(tables)
             /\ tables[id + 1] = and_table(aes_key, delta, in0, in1, id)
        ELSE wire0[g.out] = xor_block(in0, IF g.type = "XOR" THEN in1 ELSE delta)

PhaseOK ==
    /\ phase = "inputs" => k = 1
    /\ phase \in {"labels", "done"} => k = Len(circ.gates) + 1
    /\ phase # "inputs" => 0 \in delta
    /\ phase # "done" => out = NoOutput
    /\ phase \in {"labels", "eval", "done"} =>
         out_decode = [i \in Outputs(circ) |-> lsb(wire0[output_wire(circ, i)])]

CountersOK ==
    /\ and_id = AndsBefore(circ, k)
    /\ Len(tables) = AndsBefore(circ, GarbledUpTo)

IInv ==
    /\ TypeOK
    /\ PhaseOK
    /\ CountersOK
    /\ \A j \in Gates(circ) : j < GarbledUpTo => GateGarbled(j)
    /\ ActiveLabels

(***************************************************************************)
(* Evaluation on labels implements evaluation on bits: the bit of a wire   *)
(* is whether its active label differs from its zero label, and the        *)
(* decoded outputs are the outputs of eval_circuit_plain().                *)
(***************************************************************************)
kBar == IF Evaluating THEN k ELSE 1

wBar == [i \in Wires(circ) |->
           IF Evaluating THEN i \in Defined(circ, k) /\ w[i] # wire0[i]
           ELSE i \in Inputs(circ) /\ in_bits[i]]

Plain == INSTANCE PlainCircuit WITH k <- kBar, w <- wBar

(* PlainCircuit's Spec under that mapping.                                 *)
EvaluatesPlain == Plain!Spec
=============================================================================
