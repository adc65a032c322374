------------------------ MODULE GarbledCircuitProofs ------------------------
(***************************************************************************)
(* Garbling and evaluating a circuit implements evaluating it on bits, for *)
(* every well-formed circuit, every input, every hash and every choice of  *)
(* random labels.                                                          *)
(***************************************************************************)
EXTENDS GarbledCircuit, FiniteSetTheorems, TLAPS

-----------------------------------------------------------------------------
(* The algebra of labels, and the correctness of one gate: free XOR, free  *)
(* NOT and the half-gates AND, for every block length and every hash.      *)

(* The XOR of two blocks is a block.                                       *)
LEMMA XorType == \A a, b \in Key : xor_block(a, b) \in Key
BY DEF xor_block, Key

(* XORing the same block twice cancels.                                    *)
LEMMA XorSelf == \A a, b : xor_block(xor_block(a, b), b) = a
BY DEF xor_block

(* The zero block is neutral.                                              *)
LEMMA XorZero == \A a : xor_block(a, ZeroKey) = a
BY DEF xor_block, ZeroKey

(* XOR is associative ...                                                  *)
LEMMA XorAssoc == \A a, b, c : xor_block(xor_block(a, b), c) = xor_block(a, xor_block(b, c))
BY DEF xor_block

(* ... and commutative.                                                    *)
LEMMA XorComm == \A a, b : xor_block(a, b) = xor_block(b, a)
BY DEF xor_block

(* The signal bit of an XOR is the XOR of the signal bits.                 *)
LEMMA LsbXor == \A a, b : lsb(xor_block(a, b)) <=> (lsb(a) /\ ~lsb(b)) \/ (~lsb(a) /\ lsb(b))
BY DEF xor_block, lsb

(* With d's signal bit set, the two labels of a wire are different.        *)
LEMMA TwoLabels == ASSUME NEW x, NEW d, 0 \in d
                   PROVE  xor_block(x, d) # x
BY DEF xor_block

(* The two halves of an AND gate: d is the offset, a and b the input bits, *)
(* pa and pb the signal bits of the zero labels.                           *)
LEMMA GarblerHalf ==
    \A Ha0, Ha1, d : \A a, pa, pb \in BOOLEAN : \A Tg :
       Tg = xor_block(xor_block(Ha0, Ha1), If(pb, d)) =>
         xor_block(IF a THEN Ha1 ELSE Ha0, If(pa # a, Tg))
           = xor_block(xor_block(Ha0, If(pa, Tg)), If(a /\ pb, d))
<1> SUFFICES ASSUME NEW Ha0, NEW Ha1, NEW d, NEW a \in BOOLEAN,
                    NEW pa \in BOOLEAN, NEW pb \in BOOLEAN
             PROVE  LET Tg == xor_block(xor_block(Ha0, Ha1), If(pb, d))
                    IN  xor_block(IF a THEN Ha1 ELSE Ha0, If(pa # a, Tg))
                          = xor_block(xor_block(Ha0, If(pa, Tg)), If(a /\ pb, d))
    OBVIOUS
<1>1. CASE a /\ pa /\ pb   BY <1>1 DEF xor_block, If, ZeroKey
<1>2. CASE a /\ ~pa /\ pb  BY <1>2 DEF xor_block, If, ZeroKey
<1>3. CASE a /\ pa /\ ~pb  BY <1>3 DEF xor_block, If, ZeroKey
<1>4. CASE a /\ ~pa /\ ~pb BY <1>4 DEF xor_block, If, ZeroKey
<1>5. CASE ~a              BY <1>5 DEF xor_block, If, ZeroKey
<1> QED BY <1>1, <1>2, <1>3, <1>4, <1>5

(* The same for the evaluator half, whose row also hides the left label.   *)
LEMMA EvaluatorHalf ==
    \A Hb0, Hb1, a0, d : \A a, b, pb \in BOOLEAN : \A Te :
       Te = xor_block(xor_block(Hb0, Hb1), a0) =>
         xor_block(IF b THEN Hb1 ELSE Hb0, If(pb # b, xor_block(Te, xor_block(a0, If(a, d)))))
           = xor_block(xor_block(Hb0, If(pb, xor_block(Te, a0))), If(a /\ (pb # b), d))
<1> SUFFICES ASSUME NEW Hb0, NEW Hb1, NEW a0, NEW d, NEW a \in BOOLEAN,
                    NEW b \in BOOLEAN, NEW pb \in BOOLEAN
             PROVE  LET Te == xor_block(xor_block(Hb0, Hb1), a0)
                    IN  xor_block(IF b THEN Hb1 ELSE Hb0,
                                  If(pb # b, xor_block(Te, xor_block(a0, If(a, d)))))
                          = xor_block(xor_block(Hb0, If(pb, xor_block(Te, a0))),
                                      If(a /\ (pb # b), d))
    OBVIOUS
<1>1. CASE b /\ pb         BY <1>1 DEF xor_block, If, ZeroKey
<1>2. CASE b /\ ~pb /\ a   BY <1>2 DEF xor_block, If, ZeroKey
<1>3. CASE b /\ ~pb /\ ~a  BY <1>3 DEF xor_block, If, ZeroKey
<1>4. CASE ~b /\ pb /\ a   BY <1>4 DEF xor_block, If, ZeroKey
<1>5. CASE ~b /\ pb /\ ~a  BY <1>5 DEF xor_block, If, ZeroKey
<1>6. CASE ~b /\ ~pb       BY <1>6 DEF xor_block, If, ZeroKey
<1> QED BY <1>1, <1>2, <1>3, <1>4, <1>5, <1>6
-----------------------------------------------------------------------------
(* The tweaked hash returns a block.                                       *)
LEMMA HType == ASSUME NEW aes \in AesKeys, NEW x \in Key, NEW gid \in Nat, NEW t \in {0, 1}
               PROVE  H(aes, x, gid, t) \in Key
<1>1. gid % TweakIds \in 0 .. TweakIds - 1
  BY HashOK
<1>2. tweak(x, gid, t) \in Key
  BY <1>1, HashOK, XorType DEF tweak
<1> QED BY <1>2, HashOK, XorType DEF H, mmo_hash

(* A conditional block is a block.                                         *)
LEMMA IfType == \A c \in BOOLEAN : \A x \in Key : If(c, x) \in Key
BY DEF If, ZeroKey, Key

(* A signal bit is a bit.                                                  *)
LEMMA LsbType == \A x : lsb(x) \in BOOLEAN
BY DEF lsb

(* Tables, zero labels and active labels of AND gates are blocks.          *)
LEMMA AndTypes ==
    ASSUME NEW aes \in AesKeys, NEW d \in Key, NEW a \in Key, NEW b \in Key, NEW gid \in Nat
    PROVE  /\ and_table(aes, d, a, b, gid) \in Key \X Key
           /\ and_zero(aes, d, a, b, gid) \in Key
           /\ \A T \in Key \X Key : and_eval(aes, a, b, T, gid) \in Key
<1> USE XorType, HType, IfType, LsbType
<1>1. and_table(aes, d, a, b, gid) \in Key \X Key
  BY DEF and_table
<1>2. and_zero(aes, d, a, b, gid) \in Key
  BY <1>1 DEF and_zero
<1>3. ASSUME NEW T \in Key \X Key
      PROVE  and_eval(aes, a, b, T, gid) \in Key
  BY <1>3 DEF and_eval
<1> QED BY <1>1, <1>2, <1>3

(***************************************************************************)
(* The half-gates identity: evaluating an AND gate on the labels of bits a *)
(* and b yields the label of a /\ b, for every hash.                       *)
(***************************************************************************)
LEMMA HalfGate ==
    ASSUME NEW aes, NEW d, 0 \in d, NEW a0, NEW b0, NEW gid, NEW a \in BOOLEAN, NEW b \in BOOLEAN
    PROVE  and_eval(aes, label_for_bit(a0, d, a), label_for_bit(b0, d, b),
                    and_table(aes, d, a0, b0, gid), gid)
             = label_for_bit(and_zero(aes, d, a0, b0, gid), d, a /\ b)
<1> DEFINE wa == label_for_bit(a0, d, a)
           wb == label_for_bit(b0, d, b)
           Ha0 == H(aes, a0, gid, 0)
           Ha1 == H(aes, xor_block(a0, d), gid, 0)
           Hb0 == H(aes, b0, gid, 1)
           Hb1 == H(aes, xor_block(b0, d), gid, 1)
           Tg == xor_block(xor_block(Ha0, Ha1), If(lsb(b0), d))
           Te == xor_block(xor_block(Hb0, Hb1), a0)
           wg0 == xor_block(Ha0, If(lsb(a0), Tg))
           we0 == xor_block(Hb0, If(lsb(b0), xor_block(Te, a0)))
           wg == xor_block(H(aes, wa, gid, 0), If(lsb(wa), Tg))
           we == xor_block(H(aes, wb, gid, 1), If(lsb(wb), xor_block(Te, wa)))
<1>1. /\ H(aes, wa, gid, 0) = IF a THEN Ha1 ELSE Ha0
      /\ H(aes, wb, gid, 1) = IF b THEN Hb1 ELSE Hb0
  BY XorZero DEF label_for_bit, If
<1>2. /\ lsb(wa) = (lsb(a0) # a)
      /\ lsb(wb) = (lsb(b0) # b)
  <2>1. lsb(d)  BY DEF lsb
  <2> QED BY <2>1, LsbXor, LsbType, XorZero DEF label_for_bit, If
<1>3. wg = xor_block(wg0, If(a /\ lsb(b0), d))
  <2>1. xor_block(IF a THEN Ha1 ELSE Ha0, If(lsb(a0) # a, Tg))
          = xor_block(wg0, If(a /\ lsb(b0), d))
    BY GarblerHalf, LsbType
  <2> QED BY <1>1, <1>2, <2>1
<1>4. we = xor_block(we0, If(a /\ (lsb(b0) # b), d))
  <2>1. xor_block(IF b THEN Hb1 ELSE Hb0,
                  If(lsb(b0) # b, xor_block(Te, xor_block(a0, If(a, d)))))
          = xor_block(we0, If(a /\ (lsb(b0) # b), d))
    BY EvaluatorHalf, LsbType
  <2>2. wa = xor_block(a0, If(a, d))  BY DEF label_for_bit
  <2> QED BY <1>1, <1>2, <2>1, <2>2
<1>5. xor_block(wg, we) = xor_block(xor_block(wg0, we0), If(a /\ b, d))
  <2> HIDE DEF wg, we, wg0, we0
  <2> QED BY <1>3, <1>4, LsbType DEF xor_block, If, ZeroKey
<1> QED BY <1>5 DEF and_eval, and_zero, and_table, label_for_bit
-----------------------------------------------------------------------------
(* A label of a wire is the label of the bit `it differs from the zero     *)
(* label'.                                                                 *)
LEMMA LabelBit == ASSUME NEW d, 0 \in d, NEW z, NEW x \in {z, xor_block(z, d)}
                  PROVE  x = label_for_bit(z, d, x # z)
BY TwoLabels, XorZero DEF label_for_bit, If

(* Conversely, the label of a bit is one of the two and decodes to it.     *)
LEMMA BitLabel == ASSUME NEW d, 0 \in d, NEW z, NEW b \in BOOLEAN
                  PROVE  /\ label_for_bit(z, d, b) \in {z, xor_block(z, d)}
                         /\ (label_for_bit(z, d, b) # z) = b
BY TwoLabels, XorZero DEF label_for_bit, If

(* Free XOR: XORing labels XORs their bits.                                *)
LEMMA FreeXor == ASSUME NEW d, NEW x, NEW y, NEW a \in BOOLEAN, NEW b \in BOOLEAN
                 PROVE  xor_block(label_for_bit(x, d, a), label_for_bit(y, d, b))
                          = label_for_bit(xor_block(x, y), d, a # b)
<1>1. CASE a /\ b    BY <1>1 DEF label_for_bit, xor_block, If, ZeroKey
<1>2. CASE a /\ ~b   BY <1>2 DEF label_for_bit, xor_block, If, ZeroKey
<1>3. CASE ~a /\ b   BY <1>3 DEF label_for_bit, xor_block, If, ZeroKey
<1>4. CASE ~a /\ ~b  BY <1>4 DEF label_for_bit, xor_block, If, ZeroKey
<1> QED BY <1>1, <1>2, <1>3, <1>4

(* Free NOT: the same label read against the swapped zero label.           *)
LEMMA FreeNot == ASSUME NEW d, NEW x, NEW a \in BOOLEAN
                 PROVE  label_for_bit(x, d, a) = label_for_bit(xor_block(x, d), d, ~a)
<1>1. CASE a   BY <1>1 DEF label_for_bit, xor_block, If, ZeroKey
<1>2. CASE ~a  BY <1>2 DEF label_for_bit, xor_block, If, ZeroKey
<1> QED BY <1>1, <1>2

-----------------------------------------------------------------------------
(* A gate reads wires that are defined and writes one that is not, and     *)
(* earlier gates only touch defined wires.                                 *)
LEMMA CircuitFacts ==
    ASSUME NEW c, IsCircuit(c), NEW n \in Gates(c)
    PROVE  LET g == c.gates[n] IN
           /\ g.type \in GateTypes
           /\ g.in0 \in Defined(c, n) /\ g.in1 \in Defined(c, n)
           /\ g.out \in Wires(c) \ Defined(c, n)
           /\ Defined(c, n + 1) = Defined(c, n) \union {g.out}
           /\ \A j \in Gates(c) : j < n =>
                /\ c.gates[j].in0 \in Defined(c, n) /\ c.gates[j].in1 \in Defined(c, n)
                /\ c.gates[j].out \in Defined(c, n)
<1> Len(c.gates) \in Nat  BY DEF IsCircuit
<1> n \in Nat  BY DEF Gates
<1>1. c.gates[n].type \in GateTypes
  <2> DEFINE Gate == [type : GateTypes, in0 : Nat, in1 : Nat, out : Nat]
  <2>1. c.gates \in Seq(Gate)  BY DEF IsCircuit
  <2>2. n \in 1 .. Len(c.gates)  BY DEF Gates
  <2>3. c.gates[n] \in Gate
    <3> HIDE DEF Gate
    <3> QED BY <2>1, <2>2
  <2> QED BY <2>3
<1>2. /\ c.gates[n].in0 \in Defined(c, n) /\ c.gates[n].in1 \in Defined(c, n)
      /\ c.gates[n].out \in Wires(c) \ Defined(c, n)
  BY DEF IsCircuit
<1>3. Defined(c, n + 1) = Defined(c, n) \union {c.gates[n].out}
  BY DEF Defined, Gates
<1>4. ASSUME NEW j \in Gates(c), j < n
      PROVE  /\ c.gates[j].in0 \in Defined(c, n) /\ c.gates[j].in1 \in Defined(c, n)
             /\ c.gates[j].out \in Defined(c, n)
  <2>1. Defined(c, j) \subseteq Defined(c, n)
    BY <1>4 DEF Defined, Gates
  <2> QED BY <1>4, <2>1 DEF IsCircuit, Defined
<1> QED BY <1>1, <1>2, <1>3, <1>4

(* Defined wires are wires, and inputs are always defined.                 *)
LEMMA DefinedWires ==
    ASSUME NEW c, IsCircuit(c), NEW n
    PROVE  Defined(c, n) \subseteq Wires(c) /\ Inputs(c) \subseteq Defined(c, n)
BY DEF Defined, IsCircuit

(* Before the first gate only the inputs are defined.                      *)
LEMMA DefinedFirst ==
    ASSUME NEW c, IsCircuit(c)
    PROVE  Defined(c, 1) = Inputs(c)
<1> Len(c.gates) \in Nat  BY DEF IsCircuit
<1> QED BY DEF Defined, Gates

(* The AND count of garble_circuit() and eval_circuit_labels() starts at 0 *)
(* and grows by one at each AND gate.                                      *)
LEMMA AndsFacts ==
    ASSUME NEW c, IsCircuit(c)
    PROVE  /\ AndsBefore(c, 1) = 0
           /\ \A n \in Nat : AndsBefore(c, n) \in Nat
           /\ \A n \in Gates(c) :
                AndsBefore(c, n + 1) = IF c.gates[n].type = "AND" THEN AndsBefore(c, n) + 1
                                                                  ELSE AndsBefore(c, n)
<1> DEFINE S(n) == {j \in Gates(c) : j < n /\ c.gates[j].type = "AND"}
<1> Len(c.gates) \in Nat  BY DEF IsCircuit
<1>1. IsFiniteSet(Gates(c))
  BY FS_Interval DEF Gates
<1>2. \A n : IsFiniteSet(S(n))
  BY <1>1, FS_Subset
<1>3. S(1) = {}
  BY DEF Gates
<1>4. ASSUME NEW n \in Gates(c)
      PROVE  Cardinality(S(n + 1)) = IF c.gates[n].type = "AND" THEN Cardinality(S(n)) + 1
                                                                ELSE Cardinality(S(n))
  <2>1. CASE c.gates[n].type = "AND"
    <3>1. S(n + 1) = S(n) \union {n} /\ n \notin S(n)
      BY <2>1 DEF Gates
    <3> HIDE DEF S
    <3> QED BY <2>1, <3>1, <1>2, FS_AddElement
  <2>2. CASE c.gates[n].type # "AND"
    <3>1. S(n + 1) = S(n)
      BY <2>2 DEF Gates
    <3> QED BY <2>2, <3>1
  <2> QED BY <2>1, <2>2
<1>5. \A n \in Nat : Cardinality(S(n)) \in Nat
  BY <1>2, FS_CardinalityType
<1>6. Cardinality(S(1)) = 0
  BY <1>3, FS_EmptySet
<1> QED BY <1>4, <1>5, <1>6 DEF AndsBefore
-----------------------------------------------------------------------------
(* Facts every step needs about the circuit of a reachable state.          *)
LEMMA CircFacts ==
    ASSUME TypeOK
    PROVE  /\ IsCircuit(circ)
           /\ Len(circ.gates) \in Nat /\ k \in Nat
           /\ Gates(circ) = 1 .. Len(circ.gates)
<1>1. IsCircuit(circ)  BY CircuitsOK DEF TypeOK
<1>2. Len(circ.gates) \in Nat  BY <1>1 DEF IsCircuit
<1> QED BY <1>1, <1>2 DEF TypeOK, Gates

(* The initial states satisfy the inductive invariant.                     *)
LEMMA InitIInv == Init => IInv
<1> SUFFICES ASSUME Init PROVE IInv  OBVIOUS
<1> USE DEF Init
<1>0. IsCircuit(circ)
  BY CircuitsOK
<1>1. IsCircuit(circ) /\ Len(circ.gates) \in Nat
  BY <1>0 DEF IsCircuit
<1>2. TypeOK
  BY <1>1 DEF TypeOK, Phases, ZeroKey, Key
<1>3. PhaseOK
  BY DEF PhaseOK
<1>4. CountersOK
  BY <1>1, AndsFacts DEF CountersOK, GarbledUpTo
<1>5. \A j \in Gates(circ) : j < GarbledUpTo => GateGarbled(j)
  BY <1>1 DEF Gates, GarbledUpTo
<1>6. ActiveLabels
  BY DEF ActiveLabels, Evaluating
<1> QED BY <1>2, <1>3, <1>4, <1>5, <1>6 DEF IInv

(* Every step of garbling and evaluating keeps the types.                  *)
LEMMA TypeStep == TypeOK /\ CountersOK /\ (\A j \in Gates(circ) : j < GarbledUpTo => GateGarbled(j))
                    /\ [Next]_vars => TypeOK'
<1> SUFFICES ASSUME TypeOK, CountersOK,
                    \A j \in Gates(circ) : j < GarbledUpTo => GateGarbled(j),
                    [Next]_vars
             PROVE  TypeOK'
    OBVIOUS
<1>0. /\ IsCircuit(circ) /\ Len(circ.gates) \in Nat
      /\ Gates(circ) = 1 .. Len(circ.gates)
      /\ Inputs(circ) \subseteq Wires(circ)
  BY CircFacts, DefinedWires DEF Defined
<1>w. \A n \in Gates(circ) : /\ circ.gates[n].in0 \in Wires(circ)
                             /\ circ.gates[n].in1 \in Wires(circ)
                             /\ circ.gates[n].out \in Wires(circ)
  BY <1>0, CircuitFacts, DefinedWires
<1>z. ZeroKey \in Key  BY DEF ZeroKey, Key
<1>1. CASE GarbleInputs
  <2>1. PICK d \in Key, r \in [Inputs(circ) -> Key] :
             /\ delta' = d \union {0}
             /\ wire0' = [i \in Wires(circ) |-> IF i \in Inputs(circ)
                                                THEN clear_lsb(r[i], delta') ELSE ZeroKey]
    BY <1>1 DEF GarbleInputs
  <2>2. delta' \in Key  BY <2>1, SignalBit DEF Key
  <2>3. \A i \in Inputs(circ) : clear_lsb(r[i], delta') \in Key
    BY <2>2, XorType, IfType, LsbType DEF clear_lsb
  <2>4. wire0' \in [Wires(circ) -> Key]
    BY <2>1, <2>3, <1>z
  <2> QED BY <1>1, <2>2, <2>4 DEF TypeOK, GarbleInputs, Phases
<1>2. CASE GarbleFree
  <2>1. wire0' \in [Wires(circ) -> Key]
    BY <1>2, <1>w, XorType DEF TypeOK, GarbleFree
  <2> QED BY <1>2, <1>0, <2>1 DEF TypeOK, GarbleFree
<1>3. CASE GarbleAnd
  <2> DEFINE g == circ.gates[k]
  <2>1. /\ and_zero(aes_key, delta, wire0[g.in0], wire0[g.in1], and_id) \in Key
        /\ and_table(aes_key, delta, wire0[g.in0], wire0[g.in1], and_id) \in Key \X Key
    BY <1>3, <1>w, AndTypes DEF TypeOK, GarbleAnd
  <2>2. wire0' \in [Wires(circ) -> Key]
    BY <1>3, <1>w, <2>1 DEF TypeOK, GarbleAnd
  <2>3. tables' \in Seq(Key \X Key)
    BY <1>3, <2>1 DEF TypeOK, GarbleAnd
  <2> QED BY <1>3, <1>0, <2>2, <2>3 DEF TypeOK, GarbleAnd
<1>4. CASE GarbleOutputs
  BY <1>4, LsbType DEF TypeOK, GarbleOutputs, Phases
<1>5. CASE SelectLabels
  <2>1. \A i \in Inputs(circ) : \A r \in BOOLEAN : \A x \in Key :
           /\ label_for_bit(wire0[i], delta, in_bits[i]) \in Key
           /\ share_label(delta, wire0[i], in_bits[i], r, x) \in Key
    BY <1>0, XorType, IfType, LsbType DEF TypeOK, label_for_bit, share_label, clear_lsb
  <2>2. w' \in [Wires(circ) -> Key]
    BY <1>5, <2>1, <1>z DEF SelectLabels
  <2> QED BY <1>5, <1>0, <2>2 DEF TypeOK, SelectLabels, Phases
<1>6. CASE EvalFree
  <2>1. w' \in [Wires(circ) -> Key]
    BY <1>6, <1>w, XorType, IfType DEF TypeOK, EvalFree
  <2> QED BY <1>6, <1>0, <2>1 DEF TypeOK, EvalFree
<1>7. CASE EvalAnd
  <2>1. GateGarbled(k) /\ and_id = AndsBefore(circ, k)
    BY <1>7, <1>0 DEF EvalAnd, GarbledUpTo, CountersOK
  <2>2. and_id + 1 \in 1 .. Len(tables)
    BY <1>7, <2>1 DEF GateGarbled, EvalAnd, TypeOK
  <2>3. tables[and_id + 1] \in Key \X Key
    BY <2>2 DEF TypeOK
  <2>4. w' \in [Wires(circ) -> Key]
    BY <1>7, <1>w, <2>3, AndTypes DEF TypeOK, EvalAnd
  <2> QED BY <1>7, <1>0, <2>4 DEF TypeOK, EvalAnd
<1>8. CASE decode_outputs
  BY <1>8, LsbType DEF TypeOK, decode_outputs, Phases
<1>9. CASE UNCHANGED vars
  BY <1>9 DEF TypeOK, vars
<1> QED BY <1>1, <1>2, <1>3, <1>4, <1>5, <1>6, <1>7, <1>8, <1>9 DEF Next

(* Every step keeps what holds of each phase.                              *)
LEMMA PhaseStep == IInv /\ [Next]_vars => PhaseOK'
<1> SUFFICES ASSUME IInv, [Next]_vars PROVE PhaseOK'  OBVIOUS
<1> USE DEF IInv, PhaseOK
<1>0. Len(circ.gates) \in Nat  BY CircFacts
<1>1. CASE GarbleInputs   BY <1>1, <1>0 DEF GarbleInputs
<1>2. CASE GarbleFree     BY <1>2, <1>0 DEF GarbleFree
<1>3. CASE GarbleAnd      BY <1>3, <1>0 DEF GarbleAnd
<1>4. CASE GarbleOutputs  BY <1>4, <1>0 DEF GarbleOutputs
<1>5. CASE SelectLabels   BY <1>5, <1>0 DEF SelectLabels
<1>6. CASE EvalFree       BY <1>6, <1>0 DEF EvalFree
<1>7. CASE EvalAnd        BY <1>7, <1>0 DEF EvalAnd
<1>8. CASE decode_outputs BY <1>8, <1>0 DEF decode_outputs
<1>9. CASE UNCHANGED vars BY <1>9 DEF vars
<1> QED BY <1>1, <1>2, <1>3, <1>4, <1>5, <1>6, <1>7, <1>8, <1>9 DEF Next

(* Every step keeps the counters equal to the number of AND gates.         *)
LEMMA CountersStep == IInv /\ [Next]_vars => CountersOK'
<1> SUFFICES ASSUME IInv, [Next]_vars PROVE CountersOK'  OBVIOUS
<1> USE DEF IInv, CountersOK, GarbledUpTo
<1>0. /\ IsCircuit(circ) /\ Len(circ.gates) \in Nat /\ k \in Nat
  BY CircFacts
<1>a. /\ AndsBefore(circ, 1) = 0
      /\ AndsBefore(circ, k) \in Nat
      /\ k \in Gates(circ) =>
           AndsBefore(circ, k + 1) = IF circ.gates[k].type = "AND"
                                     THEN AndsBefore(circ, k) + 1 ELSE AndsBefore(circ, k)
  BY <1>0, AndsFacts
<1>1. CASE GarbleInputs   BY <1>1 DEF GarbleInputs
<1>2. CASE GarbleFree     BY <1>2, <1>a DEF GarbleFree
<1>3. CASE GarbleAnd
  <2>1. Len(tables') = Len(tables) + 1
    BY <1>3 DEF GarbleAnd, TypeOK
  <2> QED BY <1>3, <1>a, <2>1 DEF GarbleAnd
<1>4. CASE GarbleOutputs  BY <1>4 DEF GarbleOutputs
<1>5. CASE SelectLabels   BY <1>5, <1>a DEF SelectLabels
<1>6. CASE EvalFree       BY <1>6, <1>a DEF EvalFree
<1>7. CASE EvalAnd        BY <1>7, <1>a DEF EvalAnd
<1>8. CASE decode_outputs BY <1>8 DEF decode_outputs
<1>9. CASE UNCHANGED vars BY <1>9 DEF vars
<1> QED BY <1>1, <1>2, <1>3, <1>4, <1>5, <1>6, <1>7, <1>8, <1>9 DEF Next

(* Every step keeps the garbling equations of the gates passed so far.     *)
LEMMA GatesStep ==
    IInv /\ [Next]_vars => (\A j \in Gates(circ) : j < GarbledUpTo => GateGarbled(j))'
<1> SUFFICES ASSUME IInv, [Next]_vars, NEW j \in Gates(circ)', (j < GarbledUpTo)'
             PROVE  GateGarbled(j)'
    OBVIOUS
<1>0. /\ IsCircuit(circ) /\ Len(circ.gates) \in Nat /\ k \in Nat
      /\ Gates(circ) = 1 .. Len(circ.gates)
  BY CircFacts DEF IInv
<1>c. circ' = circ /\ j \in Gates(circ)
  BY DEF Next, vars, GarbleInputs, GarbleFree, GarbleAnd, GarbleOutputs, SelectLabels,
         EvalFree, EvalAnd, decode_outputs
(* Writing the output wire of gate k and appending a table disturbs no     *)
(* earlier gate's equation.                                                *)
<1>e. ASSUME phase = "garble", k \in Gates(circ), j < k,
             UNCHANGED <<aes_key, delta>>,
             NEW x, wire0' = [wire0 EXCEPT ![circ.gates[k].out] = x],
             \A n \in 1 .. Len(tables) : n <= Len(tables') /\ tables'[n] = tables[n],
             Len(tables') \in Nat
      PROVE  GateGarbled(j)'
  <2>1. GateGarbled(j)
    BY <1>e, <1>c DEF IInv, GarbledUpTo
  <2>2. /\ wire0'[circ.gates[j].in0] = wire0[circ.gates[j].in0]
        /\ wire0'[circ.gates[j].in1] = wire0[circ.gates[j].in1]
        /\ wire0'[circ.gates[j].out] = wire0[circ.gates[j].out]
    BY <1>0, <1>c, <1>e, CircuitFacts, DefinedWires DEF IInv, TypeOK
  <2>3. AndsBefore(circ, j) \in Nat /\ j \in Nat
    BY <1>0, <1>c, AndsFacts
  <2>4. AndsBefore(circ, j) < Len(tables) =>
          /\ AndsBefore(circ, j) < Len(tables')
          /\ tables'[AndsBefore(circ, j) + 1] = tables[AndsBefore(circ, j) + 1]
    <3> Len(tables) \in Nat  BY DEF IInv, TypeOK
    <3> QED BY <1>e, <2>3
  <2>5. circ.gates[j].type = "AND" =>
          (wire0[circ.gates[j].out] = and_zero(aes_key, delta, wire0[circ.gates[j].in0],
                                               wire0[circ.gates[j].in1], AndsBefore(circ, j)))'
    BY <2>1, <2>2, <1>c, <1>e DEF GateGarbled
  <2>6. circ.gates[j].type = "AND" =>
          /\ AndsBefore(circ, j) < Len(tables')
          /\ tables'[AndsBefore(circ, j) + 1] =
               and_table(aes_key', delta', wire0'[circ.gates[j].in0],
                         wire0'[circ.gates[j].in1], AndsBefore(circ, j))
    BY <2>1, <2>2, <2>4, <1>c, <1>e DEF GateGarbled
  <2>7. circ.gates[j].type # "AND" =>
          wire0'[circ.gates[j].out] =
            xor_block(wire0'[circ.gates[j].in0],
                      IF circ.gates[j].type = "XOR" THEN wire0'[circ.gates[j].in1] ELSE delta')
    BY <2>1, <2>2, <1>c, <1>e DEF GateGarbled
  <2> QED BY <2>5, <2>6, <2>7, <1>c DEF GateGarbled
<1>1. CASE GarbleInputs
  BY <1>1, <1>0, <1>c DEF GarbleInputs, GarbledUpTo, IInv, PhaseOK
<1>2. CASE GarbleFree
  <2> DEFINE g == circ.gates[k]
  <2>1. CASE j < k
    <3> DEFINE x == xor_block(wire0[g.in0], IF g.type = "XOR" THEN wire0[g.in1] ELSE delta)
    <3>1. /\ phase = "garble" /\ k \in Gates(circ) /\ UNCHANGED <<aes_key, delta>>
          /\ wire0' = [wire0 EXCEPT ![circ.gates[k].out] = x]
          /\ tables' = tables
      BY <1>2 DEF GarbleFree
    <3>2. /\ \A n \in 1 .. Len(tables) : n <= Len(tables') /\ tables'[n] = tables[n]
          /\ Len(tables') \in Nat
      BY <3>1 DEF IInv, TypeOK
    <3> HIDE DEF x
    <3> QED BY <3>1, <3>2, <1>e, <2>1
  <2>2. CASE j = k
    <3>1. /\ wire0'[g.in0] = wire0[g.in0]
          /\ wire0'[g.in1] = wire0[g.in1]
          /\ wire0'[g.out] = xor_block(wire0[g.in0],
                                       IF g.type = "XOR" THEN wire0[g.in1] ELSE delta)
      BY <1>0, <1>2, CircuitFacts, DefinedWires DEF IInv, TypeOK, GarbleFree
    <3> QED BY <1>2, <1>c, <2>2, <3>1 DEF GarbleFree, GateGarbled
  <2> QED BY <1>0, <1>c, <1>2, <2>1, <2>2 DEF GarbleFree, GarbledUpTo
<1>3. CASE GarbleAnd
  <2> DEFINE g == circ.gates[k]
             T == and_table(aes_key, delta, wire0[g.in0], wire0[g.in1], and_id)
  <2>0. T \in Key \X Key
    <3>1. g.in0 \in Wires(circ) /\ g.in1 \in Wires(circ)
      BY <1>0, <1>3, CircuitFacts, DefinedWires DEF GarbleAnd
    <3> QED BY <3>1, AndTypes DEF IInv, TypeOK
  <2>1. CASE j < k
    <3>1. /\ \A n \in 1 .. Len(tables) : n <= Len(tables') /\ tables'[n] = tables[n]
          /\ Len(tables') \in Nat
      <4>1. tables' = Append(tables, T)  BY <1>3 DEF GarbleAnd
      <4> HIDE DEF T
      <4> QED BY <2>0, <4>1 DEF IInv, TypeOK
    <3> HIDE DEF T
    <3> QED BY <1>3, <1>e, <2>1, <3>1 DEF GarbleAnd
  <2>2. CASE j = k
    <3>1. /\ wire0'[g.in0] = wire0[g.in0]
          /\ wire0'[g.in1] = wire0[g.in1]
          /\ wire0'[g.out] = and_zero(aes_key, delta, wire0[g.in0], wire0[g.in1], and_id)
      BY <1>0, <1>3, CircuitFacts, DefinedWires DEF IInv, TypeOK, GarbleAnd
    <3>2. and_id = AndsBefore(circ, k) /\ Len(tables) = and_id
      BY <1>3 DEF IInv, CountersOK, GarbledUpTo, GarbleAnd
    <3>3. and_id < Len(tables') /\ tables'[and_id + 1] = T
      <4>1. tables' = Append(tables, T)  BY <1>3 DEF GarbleAnd
      <4> HIDE DEF T
      <4> QED BY <2>0, <3>2, <4>1 DEF IInv, TypeOK
    <3> QED BY <1>3, <1>c, <2>2, <3>1, <3>2, <3>3 DEF GarbleAnd, GateGarbled
  <2> QED BY <1>0, <1>c, <1>3, <2>1, <2>2 DEF GarbleAnd, GarbledUpTo
<1>4. ASSUME UNCHANGED <<aes_key, delta, wire0, tables>>, GarbledUpTo' = GarbledUpTo
      PROVE  GateGarbled(j)'
  <2>1. GateGarbled(j)
    BY <1>4, <1>c DEF IInv
  <2> QED BY <1>4, <1>c, <2>1 DEF GateGarbled
<1>5. CASE GarbleOutputs
  BY <1>5, <1>4 DEF GarbleOutputs, GarbledUpTo
<1>6. CASE SelectLabels
  BY <1>6, <1>4 DEF SelectLabels, GarbledUpTo
<1>7. CASE EvalFree
  BY <1>7, <1>4 DEF EvalFree, GarbledUpTo
<1>8. CASE EvalAnd
  BY <1>8, <1>4 DEF EvalAnd, GarbledUpTo
<1>9. CASE decode_outputs
  BY <1>9, <1>4 DEF decode_outputs, GarbledUpTo
<1>10. CASE UNCHANGED vars
  BY <1>10, <1>4 DEF vars, GarbledUpTo
<1> QED BY <1>1, <1>2, <1>3, <1>5, <1>6, <1>7, <1>8, <1>9, <1>10 DEF Next
-----------------------------------------------------------------------------
(* The two share labels the client obtains combine to the label of its bit.*)
LEMMA SharesCombine ==
    ASSUME NEW d, NEW z, NEW s, NEW r \in BOOLEAN, NEW b \in BOOLEAN
    PROVE  share_label(d, z, b, r, s) = label_for_bit(z, d, b)
<1> DEFINE s0 == clear_lsb(s, d)
<1>1. xor_block(label_for_bit(s0, d, r), label_for_bit(xor_block(z, s0), d, r # b))
        = label_for_bit(z, d, b)
  <2> HIDE DEF s0
  <2>1. CASE r /\ b    BY <2>1 DEF label_for_bit, xor_block, If, ZeroKey
  <2>2. CASE r /\ ~b   BY <2>2 DEF label_for_bit, xor_block, If, ZeroKey
  <2>3. CASE ~r /\ b   BY <2>3 DEF label_for_bit, xor_block, If, ZeroKey
  <2>4. CASE ~r /\ ~b  BY <2>4 DEF label_for_bit, xor_block, If, ZeroKey
  <2> QED BY <2>1, <2>2, <2>3, <2>4
<1> QED BY <1>1 DEF share_label

Bit(i) == w[i] # wire0[i]

(* Evaluating the gate k puts the label of the gate's bit on its output.   *)
LEMMA EvalGateLabel ==
    ASSUME IInv, EvalFree \/ EvalAnd
    PROVE  LET g == circ.gates[k] IN
           w' = [w EXCEPT ![g.out] =
                   label_for_bit(wire0[g.out], delta,
                                 Plain!GateFunction(g.type, Bit(g.in0), Bit(g.in1)))]
<1> DEFINE g == circ.gates[k]
<1>0. /\ IsCircuit(circ) /\ k \in Gates(circ) /\ Len(circ.gates) \in Nat
      /\ Gates(circ) = 1 .. Len(circ.gates)
      /\ phase = "eval" /\ 0 \in delta
  BY CircFacts DEF IInv, EvalFree, EvalAnd, PhaseOK
<1>1. /\ w[g.in0] = label_for_bit(wire0[g.in0], delta, Bit(g.in0))
      /\ w[g.in1] = label_for_bit(wire0[g.in1], delta, Bit(g.in1))
  BY <1>0, CircuitFacts, LabelBit DEF IInv, ActiveLabels, Evaluating, Bit
<1>2. GateGarbled(k) /\ g.type \in GateTypes
  BY <1>0, CircuitFacts DEF IInv, GarbledUpTo
<1>3. Bit(g.in0) \in BOOLEAN /\ Bit(g.in1) \in BOOLEAN
  BY DEF Bit
<1>4. CASE g.type = "XOR"
  <2>1. w' = [w EXCEPT ![g.out] = xor_block(w[g.in0], w[g.in1])]
    BY <1>4 DEF EvalFree, EvalAnd, If
  <2>2. xor_block(w[g.in0], w[g.in1])
          = label_for_bit(wire0[g.out], delta, Bit(g.in0) # Bit(g.in1))
    BY <1>1, <1>2, <1>3, <1>4, FreeXor DEF GateGarbled
  <2> QED BY <1>4, <2>1, <2>2 DEF Plain!GateFunction
<1>5. CASE g.type = "INV"
  <2>1. w' = [w EXCEPT ![g.out] = w[g.in0]]
    BY <1>5, XorZero DEF EvalFree, EvalAnd, If
  <2>2. w[g.in0] = label_for_bit(wire0[g.out], delta, ~Bit(g.in0))
    BY <1>1, <1>2, <1>3, <1>5, FreeNot DEF GateGarbled
  <2> QED BY <1>5, <2>1, <2>2 DEF Plain!GateFunction
<1>6. CASE g.type = "AND"
  <2>1. w' = [w EXCEPT ![g.out] = and_eval(aes_key, w[g.in0], w[g.in1],
                                           tables[and_id + 1], and_id)]
    BY <1>6 DEF EvalFree, EvalAnd
  <2>2. /\ and_id = AndsBefore(circ, k)
        /\ tables[and_id + 1] = and_table(aes_key, delta, wire0[g.in0], wire0[g.in1], and_id)
        /\ wire0[g.out] = and_zero(aes_key, delta, wire0[g.in0], wire0[g.in1], and_id)
    BY <1>2, <1>6 DEF GateGarbled, IInv, CountersOK
  <2>3. and_eval(aes_key, w[g.in0], w[g.in1], tables[and_id + 1], and_id)
          = label_for_bit(wire0[g.out], delta, Bit(g.in0) /\ Bit(g.in1))
    <3>1. and_eval(aes_key, label_for_bit(wire0[g.in0], delta, Bit(g.in0)),
                            label_for_bit(wire0[g.in1], delta, Bit(g.in1)),
                   and_table(aes_key, delta, wire0[g.in0], wire0[g.in1], and_id), and_id)
            = label_for_bit(and_zero(aes_key, delta, wire0[g.in0], wire0[g.in1], and_id),
                            delta, Bit(g.in0) /\ Bit(g.in1))
      BY <1>0, <1>3, HalfGate
    <3> QED BY <1>1, <2>2, <3>1
  <2> QED BY <1>6, <2>1, <2>3 DEF Plain!GateFunction
<1> QED BY <1>2, <1>4, <1>5, <1>6 DEF GateTypes

(* The input labels the evaluator obtains are the labels of the input bits.*)
LEMMA SelectedLabels ==
    ASSUME IInv, SelectLabels
    PROVE  \A i \in Inputs(circ) : w'[i] = label_for_bit(wire0[i], delta, in_bits[i])
<1>1. PICK r \in [Inputs(circ) -> BOOLEAN], s \in [Inputs(circ) -> Key] :
        w' = [i \in Wires(circ) |->
                 IF i \notin Inputs(circ) THEN ZeroKey
                 ELSE IF i < circ.n_input0 THEN label_for_bit(wire0[i], delta, in_bits[i])
                 ELSE share_label(delta, wire0[i], in_bits[i], r[i], s[i])]
  BY DEF SelectLabels
<1>2. ASSUME NEW i \in Inputs(circ)
      PROVE  w'[i] = label_for_bit(wire0[i], delta, in_bits[i])
  <2>1. i \in Wires(circ)
    BY CircFacts, DefinedWires DEF IInv
  <2>2. share_label(delta, wire0[i], in_bits[i], r[i], s[i])
          = label_for_bit(wire0[i], delta, in_bits[i])
    BY SharesCombine DEF IInv, TypeOK
  <2> QED BY <1>1, <2>1, <2>2
<1> QED BY <1>2

(* Every step keeps the evaluator on labels of its wires.                  *)
LEMMA ActiveStep == IInv /\ [Next]_vars => ActiveLabels'
<1> SUFFICES ASSUME IInv, [Next]_vars, Evaluating', NEW i \in Defined(circ, k)'
             PROVE  (w[i] \in {wire0[i], xor_block(wire0[i], delta)})'
    BY DEF ActiveLabels
<1>0. /\ IsCircuit(circ) /\ Len(circ.gates) \in Nat
      /\ Gates(circ) = 1 .. Len(circ.gates)
  BY CircFacts DEF IInv
<1>1. CASE SelectLabels
  <2>1. i \in Inputs(circ)
    BY <1>0, <1>1, DefinedFirst DEF SelectLabels
  <2>2. in_bits[i] \in BOOLEAN /\ 0 \in delta
    BY <1>1, <2>1 DEF IInv, TypeOK, PhaseOK, SelectLabels
  <2>3. w'[i] \in {wire0[i], xor_block(wire0[i], delta)}
    BY <1>1, <2>1, <2>2, SelectedLabels, BitLabel
  <2> QED BY <1>1, <2>3 DEF SelectLabels
<1>2. CASE EvalFree \/ EvalAnd
  <2> DEFINE g == circ.gates[k]
             b == Plain!GateFunction(g.type, Bit(g.in0), Bit(g.in1))
  <2>1. /\ k \in Gates(circ) /\ phase = "eval" /\ k' = k + 1
        /\ UNCHANGED <<circ, wire0, delta>>
    BY <1>2 DEF EvalFree, EvalAnd
  <2>2. w' = [w EXCEPT ![g.out] = label_for_bit(wire0[g.out], delta, b)]
    BY <1>2, EvalGateLabel
  <2>3. /\ g.out \in Wires(circ) \ Defined(circ, k)
        /\ Defined(circ, k + 1) = Defined(circ, k) \union {g.out}
        /\ g.type \in GateTypes
    BY <1>0, <2>1, CircuitFacts
  <2>4. b \in BOOLEAN
    BY <2>3 DEF Plain!GateFunction, Bit, GateTypes
  <2>5. CASE i = g.out
    <3> HIDE DEF b
    <3>1. w'[i] = label_for_bit(wire0[i], delta, b)
      BY <2>2, <2>3, <2>5 DEF IInv, TypeOK
    <3> QED BY <2>1, <2>4, <3>1, BitLabel DEF IInv, PhaseOK
  <2>6. CASE i # g.out
    <3> HIDE DEF b
    <3>1. i \in Defined(circ, k) /\ w'[i] = w[i]
      BY <2>1, <2>2, <2>3, <2>6 DEF IInv, TypeOK
    <3> QED BY <2>1, <3>1 DEF IInv, ActiveLabels, Evaluating
  <2> QED BY <2>5, <2>6
<1>3. CASE decode_outputs
  BY <1>3 DEF decode_outputs, IInv, ActiveLabels, Evaluating
<1>4. CASE UNCHANGED vars
  BY <1>4 DEF vars, IInv, ActiveLabels, Evaluating
<1> QED BY <1>1, <1>2, <1>3, <1>4
        DEF Next, Evaluating, GarbleInputs, GarbleFree, GarbleAnd, GarbleOutputs

(***************************************************************************)
(* The inductive invariant of garbling and evaluating a circuit.           *)
(***************************************************************************)
THEOREM Invariance == Spec => []IInv
<1>1. IInv /\ [Next]_vars => IInv'
  BY TypeStep, PhaseStep, CountersStep, GatesStep, ActiveStep DEF IInv
<1> QED BY <1>1, InitIInv, PTL DEF Spec

(***************************************************************************)
(* For every circuit, every permutation and every choice of random labels, *)
(* the state of garble_circuit() and eval_circuit_labels() has its type.   *)
(***************************************************************************)
THEOREM TypeCorrect == Spec => []TypeOK
BY Invariance, PTL DEF IInv

(***************************************************************************)
(* Every label eval_circuit_labels() computes is a label of its wire.      *)
(***************************************************************************)
THEOREM LabelsCorrect == Spec => []ActiveLabels
BY Invariance, PTL DEF IInv

(***************************************************************************)
(* The evaluator never reads past the tables and uses them all.            *)
(***************************************************************************)
THEOREM TablesCorrect == Spec => []TablesInStep
<1>1. IInv => TablesInStep
  <2> SUFFICES ASSUME IInv, Evaluating PROVE TablesInStep  BY DEF TablesInStep
  <2>1. GarbledUpTo = Len(circ.gates) + 1  BY DEF Evaluating, GarbledUpTo
  <2>2. CASE k \in Gates(circ) /\ circ.gates[k].type = "AND"
    <3>1. GateGarbled(k)  BY <2>1, <2>2, CircFacts DEF IInv
    <3>2. and_id < Len(tables)
      BY <2>2, <3>1 DEF GateGarbled, IInv, CountersOK
    <3>3. k # Len(circ.gates) + 1
      BY <2>2, CircFacts DEF IInv
    <3> QED BY <3>2, <3>3 DEF TablesInStep
  <2>3. CASE ~(k \in Gates(circ) /\ circ.gates[k].type = "AND")
    BY <2>1, <2>3 DEF TablesInStep, IInv, CountersOK
  <2> QED BY <2>2, <2>3
<1> QED BY <1>1, Invariance, PTL
-----------------------------------------------------------------------------
(* PlainCircuit reads circuits as GarbledCircuit does.                     *)
LEMMA SameCircuit == \A c : /\ Plain!Wires(c) = Wires(c)
                            /\ Plain!Inputs(c) = Inputs(c)
                            /\ Plain!Gates(c) = Gates(c)
                            /\ Plain!Outputs(c) = Outputs(c)
                            /\ \A i : Plain!output_wire(c, i) = output_wire(c, i)
BY DEF Plain!Wires, Wires, Plain!Inputs, Inputs, Plain!Gates, Gates,
       Plain!Outputs, Outputs, Plain!output_wire, output_wire

(* The initial states map to initial states of eval_circuit_plain().       *)
LEMMA RefineInit == Init => Plain!Init
<1> SUFFICES ASSUME Init PROVE Plain!Init  OBVIOUS
<1>1. \A i \in Inputs(circ) : in_bits[i] \in BOOLEAN
  BY DEF Init
<1>2. wBar = [i \in Wires(circ) |-> IF i \in Inputs(circ) THEN in_bits[i] ELSE FALSE]
  BY <1>1 DEF Init, wBar, Evaluating
<1> QED BY <1>2, SameCircuit DEF Init, Plain!Init, kBar, Evaluating, Plain!NoOutput, NoOutput

(***************************************************************************)
(* The labels' bits evolve as the bits of eval_circuit_plain() do, and     *)
(* decode_outputs() returns its outputs.                                   *)
(***************************************************************************)
LEMMA RefineStep == IInv /\ IInv' /\ [Next]_vars => [Plain!Next]_(Plain!vars)
<1> SUFFICES ASSUME IInv, IInv', [Next]_vars PROVE [Plain!Next]_(Plain!vars)  OBVIOUS
<1>0. /\ IsCircuit(circ) /\ Len(circ.gates) \in Nat
      /\ Gates(circ) = 1 .. Len(circ.gates)
  BY CircFacts DEF IInv
<1> USE DEF kBar, wBar, Evaluating, Plain!vars
<1>1. CASE GarbleInputs \/ GarbleFree \/ GarbleAnd \/ GarbleOutputs
  BY <1>1 DEF GarbleInputs, GarbleFree, GarbleAnd, GarbleOutputs
<1>2. CASE SelectLabels
  <2>1. /\ phase = "labels" /\ phase' = "eval" /\ k' = 1
        /\ UNCHANGED <<circ, in_bits, delta, wire0, out>> /\ 0 \in delta
    BY <1>2 DEF SelectLabels, IInv, PhaseOK
  <2>2. \A i \in Inputs(circ) : (w'[i] # wire0[i]) = in_bits[i]
    BY <1>2, <2>1, SelectedLabels, BitLabel DEF IInv, TypeOK
  <2>3. Defined(circ, 1) = Inputs(circ)
    BY <1>0, DefinedFirst
  <2>4. wBar' = wBar
    <3>1. wBar' = [i \in Wires(circ) |-> i \in Inputs(circ) /\ w'[i] # wire0[i]]
      BY <2>1, <2>3
    <3>2. wBar = [i \in Wires(circ) |-> i \in Inputs(circ) /\ in_bits[i]]
      BY <2>1
    <3>3. \A i \in Wires(circ) : (i \in Inputs(circ) /\ w'[i] # wire0[i])
                                   = (i \in Inputs(circ) /\ in_bits[i])
      BY <2>2 DEF IInv, TypeOK
    <3> QED BY <3>1, <3>2, <3>3
  <2> QED BY <2>1, <2>4
<1>3. CASE EvalFree \/ EvalAnd
  <2> DEFINE g == circ.gates[k]
             b == Plain!GateFunction(g.type, Bit(g.in0), Bit(g.in1))
  <2>1. /\ k \in Gates(circ) /\ phase = "eval" /\ phase' = "eval" /\ k' = k + 1
        /\ UNCHANGED <<circ, in_bits, wire0, delta, out>> /\ 0 \in delta
    BY <1>3 DEF EvalFree, EvalAnd, IInv, PhaseOK
  <2>2. w' = [w EXCEPT ![g.out] = label_for_bit(wire0[g.out], delta, b)]
    BY <1>3, EvalGateLabel
  <2>3. /\ g.in0 \in Defined(circ, k) /\ g.in1 \in Defined(circ, k)
        /\ g.out \in Wires(circ) \ Defined(circ, k)
        /\ Defined(circ, k + 1) = Defined(circ, k) \union {g.out}
        /\ g.type \in GateTypes
        /\ Defined(circ, k) \subseteq Wires(circ)
    BY <1>0, <2>1, CircuitFacts, DefinedWires
  <2>4. b \in BOOLEAN
    BY <2>3 DEF Plain!GateFunction, Bit, GateTypes
  <2>5. /\ wBar[g.in0] = Bit(g.in0) /\ wBar[g.in1] = Bit(g.in1)
    BY <2>1, <2>3 DEF Bit
  <2>6. wBar' = [wBar EXCEPT ![g.out] = b]
    <3> HIDE DEF b
    <3>1. wBar' = [i \in Wires(circ) |-> i \in Defined(circ, k + 1) /\ w'[i] # wire0[i]]
      BY <2>1
    <3>2. wBar = [i \in Wires(circ) |-> i \in Defined(circ, k) /\ w[i] # wire0[i]]
      BY <2>1
    <3>3. ASSUME NEW i \in Wires(circ)
          PROVE  (i \in Defined(circ, k + 1) /\ w'[i] # wire0[i])
                   = IF i = g.out THEN b ELSE (i \in Defined(circ, k) /\ w[i] # wire0[i])
      <4>1. CASE i = g.out
        <5>1. w'[i] = label_for_bit(wire0[i], delta, b)
          BY <2>2, <4>1 DEF IInv, TypeOK
        <5>2. (w'[i] # wire0[i]) = b
          BY <2>1, <2>4, <5>1, BitLabel
        <5> QED BY <2>3, <4>1, <5>2
      <4>2. CASE i # g.out
        <5>1. w'[i] = w[i]
          BY <2>2, <4>2 DEF IInv, TypeOK
        <5> QED BY <2>3, <4>2, <5>1
      <4> QED BY <4>1, <4>2
    <3> QED BY <3>1, <3>2, <3>3
  <2>7. Plain!EvalGate
    <3>1. b = Plain!GateFunction(g.type, wBar[g.in0], wBar[g.in1])
      BY <2>5
    <3> HIDE DEF b, wBar
    <3> QED BY <2>1, <2>6, <3>1, SameCircuit DEF Plain!EvalGate
  <2> QED BY <2>7 DEF Plain!Next
<1>4. CASE decode_outputs
  <2>1. /\ phase = "eval" /\ phase' = "done" /\ k = Len(circ.gates) + 1
        /\ UNCHANGED <<circ, in_bits, k, w, wire0>> /\ out = NoOutput /\ 0 \in delta
    BY <1>4 DEF decode_outputs, IInv, PhaseOK
  <2>2. ASSUME NEW i \in Outputs(circ)
        PROVE  (lsb(w[output_wire(circ, i)]) # out_decode[i]) = wBar[output_wire(circ, i)]
    <3> DEFINE o == output_wire(circ, i)
    <3>1. o \in Defined(circ, k) /\ o \in Wires(circ)
      <4>1. o \in Defined(circ, k)  BY <1>0, <2>1 DEF IsCircuit
      <4> QED BY <4>1, <1>0, DefinedWires
    <3>2. w[o] \in {wire0[o], xor_block(wire0[o], delta)}
      BY <2>1, <3>1 DEF IInv, ActiveLabels
    <3>3. out_decode[i] = lsb(wire0[o])
      BY <2>1 DEF IInv, PhaseOK
    <3>4. wBar[o] = (w[o] # wire0[o])
      BY <2>1, <3>1
    <3> HIDE DEF o, wBar
    <3>5. lsb(delta)  BY <2>1 DEF lsb
    <3>6. CASE w[o] = wire0[o]
      BY <3>3, <3>4, <3>6, LsbType DEF o
    <3>7. CASE w[o] = xor_block(wire0[o], delta)
      <4>1. w[o] # wire0[o]  BY <3>7, <2>1, TwoLabels
      <4>2. lsb(w[o]) # lsb(wire0[o])  BY <3>5, <3>7, LsbXor, LsbType
      <4> QED BY <3>3, <3>4, <4>1, <4>2 DEF o
    <3> QED BY <3>2, <3>6, <3>7 DEF o
  <2>3. out' = [i \in Outputs(circ) |-> wBar[output_wire(circ, i)]]
    <3> HIDE DEF wBar
    <3> QED BY <1>4, <2>2 DEF decode_outputs
  <2>4. wBar' = wBar /\ kBar' = kBar /\ kBar = Len(circ.gates) + 1
    BY <2>1
  <2>5. Plain!ReadOutputs
    <3> HIDE DEF wBar, kBar
    <3> QED BY <2>1, <2>3, <2>4, SameCircuit DEF Plain!ReadOutputs, Plain!NoOutput, NoOutput
  <2> QED BY <2>5 DEF Plain!Next
<1>5. CASE UNCHANGED vars
  BY <1>5 DEF vars
<1> QED BY <1>1, <1>2, <1>3, <1>4, <1>5 DEF Next

(***************************************************************************)
(* Garbled evaluation implements eval_circuit_plain(): whatever the        *)
(* circuit, the inputs, the permutation and the random labels, the decoded *)
(* outputs are the circuit's outputs.                                      *)
(***************************************************************************)
THEOREM Refinement == Spec => EvaluatesPlain
<1>1. Spec => Plain!Init
  BY RefineInit DEF Spec
<1>2. Spec => [][Plain!Next]_(Plain!vars)
  BY Invariance, RefineStep, PTL DEF Spec
<1> QED BY <1>1, <1>2, PTL DEF EvaluatesPlain, Plain!Spec
=============================================================================
