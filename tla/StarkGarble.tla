----------------------------- MODULE StarkGarble ----------------------------
(***************************************************************************)
(* voprf-bench/stark-garble: the proof that the tables of a garbled        *)
(* circuit satisfy the half-gate equations.  The garbler dumps a witness   *)
(* and a public file (voprf_ser.hpp), `prove' checks the witness, lays it  *)
(* out as a trace with a row for each bit of each AND gate, and `verify'   *)
(* recomputes the binding of the proof to the public values and has the    *)
(* constraints checked.                                                    *)
(*                                                                         *)
(* Hashes are perfect: a hash is what was hashed.  Of the library, the     *)
(* proof is the trace: verification succeeds when the trace satisfies the  *)
(* transition constraints in all rows but the last, the assertions hold    *)
(* and the public inputs are those it was proved with.  Between the steps  *)
(* one thing may be changed, as in the negative test.                      *)
(***************************************************************************)
EXTENDS Labels, Integers, FiniteSets

CONSTANTS K,        \* bits of a block
          P,        \* order of the field
          Blocks,   \* labels and hashes that occur
          MaxAnd    \* AND gates of a circuit

ASSUME StarkAssumption ==
    /\ K \in Nat \ {0} /\ Bits = 0 .. K - 1
    /\ P \in Nat /\ P > 4
    /\ Blocks \subseteq Key
    /\ MaxAnd \in Nat

VARIABLES pc,
          w,        \* the witness
          public,   \* the public file
          proof,
          changed,  \* what was changed, if anything
          verdict   \* of verify, with or without the public file

vars == <<pc, w, public, proof, changed, verdict>>

PublicFields == {"cm", "gc_hash", "R_root", "out_hash"}
Genuine == [f \in PublicFields |-> "genuine"]

Init ==
    /\ pc = "garble"
    /\ w = [n_and |-> 0] /\ public = Genuine
    /\ proof = [pub |-> 0]
    /\ changed = "nothing"
    /\ verdict = "none"
-----------------------------------------------------------------------------
(* serialize_stark_witness and serialize_public_binding: the gates as      *)
(* garbled (HalfGates!and_table), the hashes any blocks.                   *)
Garbled(delta, a0, b0, ha0, ha1, hb0, hb1) ==
    [a0 |-> a0, b0 |-> b0, ha0 |-> ha0, ha1 |-> ha1, hb0 |-> hb0, hb1 |-> hb1,
     tg |-> xor_block(xor_block(ha0, ha1), If(lsb(b0), delta)),
     te |-> xor_block(xor_block(hb0, hb1), a0),
     pa |-> IF lsb(a0) THEN 1 ELSE 0,
     pb |-> IF lsb(b0) THEN 1 ELSE 0]

Garble ==
    /\ pc = "garble"
    /\ \E n_and \in 0 .. MaxAnd, delta \in Blocks :
         \E labels \in [0 .. n_and - 1 -> Blocks \X Blocks \X Blocks \X Blocks] :
           w' = [n_and |-> n_and, delta |-> delta, fields |-> Genuine,
                 gates |-> [i \in 0 .. n_and - 1 |->
                    LET l == labels[i] IN
                    Garbled(delta, l[1], l[2], l[3], l[4], xor_block(l[3], l[2]), l[4])]]
    /\ pc' = "prove"
    /\ UNCHANGED <<public, proof, changed, verdict>>
-----------------------------------------------------------------------------
Flip(b, bit) == xor_block(b, {bit})

ChangeWitness ==
    /\ pc = "prove" /\ changed = "nothing"
    /\ \E i \in 0 .. w.n_and - 1 :
         \/ \E f \in {"tg", "te"}, bit \in Bits :
              w' = [w EXCEPT !.gates[i][f] = Flip(@, bit)] /\ changed' = "tables"
         \/ \E f \in {"a0", "b0", "ha0", "ha1", "hb0", "hb1"}, bit \in Bits :
              w' = [w EXCEPT !.gates[i][f] = Flip(@, bit)] /\ changed' = "hidden"
         \/ \E f \in {"pa", "pb"}, v \in 0 .. 2 :
              w' = [w EXCEPT !.gates[i][f] = v] /\ changed' = "hidden"
    /\ UNCHANGED <<pc, public, proof, verdict>>

ChangePublic ==
    /\ pc \in {"prove", "verify"} /\ changed = "nothing"
    /\ \E f \in PublicFields : public' = [public EXCEPT ![f] = "other"]
    /\ changed' = "public"
    /\ UNCHANGED <<pc, w, proof, verdict>>

ChangeProof ==
    /\ pc = "verify" /\ changed = "nothing"
    /\ \/ \E f \in PublicFields : proof' = [proof EXCEPT !.fields[f] = "other"]
       \/ proof' = [proof EXCEPT !.binding.n_and = @ + 1]
       \/ proof' = [proof EXCEPT !.pub.n_and = @ + 1]
       \/ proof' = [proof EXCEPT !.pub.n_bits = @ + 1]
    /\ changed' = "proof"
    /\ UNCHANGED <<pc, w, public, verdict>>
-----------------------------------------------------------------------------
get_bit(block, bit) == IF bit \in block THEN 1 ELSE 0

Odd(n) == n % 2

(* The two equations of check_half_gates; & with pb, a byte, is bitwise.   *)
BitOK(delta, g, bit) ==
    /\ get_bit(g.tg, bit) = Odd(get_bit(g.ha0, bit) + get_bit(g.ha1, bit)
                                + Odd(g.pb) * get_bit(delta, bit))
    /\ get_bit(g.te, bit) = Odd(get_bit(g.hb0, bit) + get_bit(g.hb1, bit) + get_bit(g.a0, bit))

check_half_gates ==
    \A i \in 0 .. w.n_and - 1 :
        LET g == w.gates[i] IN
        /\ g.pa <= 1 /\ g.pb <= 1
        /\ \A bit \in Bits : BitOK(w.delta, g, bit)

binding_hash(fields, n_and) == [fields |-> fields, n_and |-> n_and]
binding_to_field(b) == [i \in 0 .. 3 |-> <<i, b>>]

n_bits == w.n_and * K

next_pow2(n) == LET powers == {2 ^ e : e \in 3 .. n + 3} IN
                CHOOSE p \in powers : p >= n /\ \A q \in powers : q >= n => q >= p

Max2(a, b) == IF a > b THEN a ELSE b
trace_len == next_pow2(Max2(n_bits, 4))

(* The columns of a row that constraints or assertions are about.          *)
Row(delta, g, bit) ==
    [pa |-> g.pa, pb |-> g.pb, ha0 |-> get_bit(g.ha0, bit), ha1 |-> get_bit(g.ha1, bit),
     d |-> get_bit(delta, bit), tg |-> get_bit(g.tg, bit),
     pbd |-> Odd(g.pb) * get_bit(delta, bit),
     hb0 |-> get_bit(g.hb0, bit), hb1 |-> get_bit(g.hb1, bit),
     a0 |-> get_bit(g.a0, bit), te |-> get_bit(g.te, bit)]

(* Mutant: the rows that fill up the trace have zeros for the tables.      *)
PaddingRow_of_zeros ==
    [Row(w.delta, w.gates[w.n_and - 1], K - 1) EXCEPT !.te = 0, !.tg = 0]

PaddingRow == Row(w.delta, w.gates[w.n_and - 1], K - 1)

build_trace ==
    [row \in 0 .. trace_len - 1 |->
        [air |-> IF row < n_bits THEN Row(w.delta, w.gates[row \div K], row % K)
                 ELSE PaddingRow,
         bind |-> binding_to_field(binding_hash(w.fields, w.n_and))[row % 4]]]

(* do_prove.  Without AND gates there is no last gate to fill up with: the *)
(* index underflows.                                                       *)
Prove ==
    /\ pc = "prove"
    /\ IF ~check_half_gates THEN pc' = "refused" /\ UNCHANGED proof
       ELSE IF w.n_and = 0 THEN pc' = "panic" /\ UNCHANGED proof
       ELSE LET b == binding_hash(w.fields, w.n_and)
                pub == [bind |-> binding_to_field(b), n_and |-> w.n_and, n_bits |-> n_bits] IN
            /\ proof' = [pub |-> pub, binding |-> b, fields |-> w.fields,
                         trace |-> build_trace, proved_for |-> pub]
            /\ pc' = "verify"
    /\ UNCHANGED <<w, public, changed, verdict>>
-----------------------------------------------------------------------------
IsZero(x) == x % P = 0
IsBit(x) == IsZero(x * (x - 1))

(* Mutant: the product of all three is counted twice, not four times.      *)
xor3_two(a, b, c) == a + b + c - 2 * (a * b + a * c + b * c) + 2 * a * b * c
xor3(a, b, c) == a + b + c - 2 * (a * b + a * c + b * c) + 4 * a * b * c

evaluate_transition(r) ==
    /\ IsBit(r.pa) /\ IsBit(r.pb) /\ IsBit(r.ha0) /\ IsBit(r.ha1) /\ IsBit(r.d) /\ IsBit(r.tg)
    /\ IsZero(r.pbd - r.pb * r.d)
    /\ IsZero(r.tg - xor3(r.ha0, r.ha1, r.pbd))
    /\ IsBit(r.hb0) /\ IsBit(r.hb1) /\ IsBit(r.a0) /\ IsBit(r.te)
    /\ IsZero(r.te - xor3(r.hb0, r.hb1, r.a0))

get_assertions(pub, trace) == \A i \in 0 .. 3 : trace[i].bind = pub.bind[i]

(* winterfell::verify.                                                     *)
Accepts(p) ==
    /\ p.pub = p.proved_for
    /\ get_assertions(p.pub, p.trace)
    /\ \A row \in DOMAIN p.trace :
         row + 1 \in DOMAIN p.trace => evaluate_transition(p.trace[row].air)

(* Mutant: believes the binding that is in the file.                       *)
BindingOK_as_given(p) == binding_to_field(p.binding) = p.pub.bind

BindingOK(p) ==
    LET bh == binding_hash(p.fields, p.pub.n_and) IN
    bh = p.binding /\ binding_to_field(bh) = p.pub.bind

Verify(with_public) ==
    /\ pc = "verify"
    /\ verdict' = IF /\ with_public => public = proof.fields
                     /\ BindingOK(proof)
                     /\ Accepts(proof)
                  THEN (IF with_public THEN "ok with public" ELSE "ok") ELSE "fail"
    /\ pc' = "verified"
    /\ UNCHANGED <<w, public, proof, changed>>

Next ==
    \/ Garble \/ ChangeWitness \/ ChangePublic \/ Prove \/ ChangeProof
    \/ \E with_public \in BOOLEAN : Verify(with_public)

Spec == Init /\ [][Next]_vars
-----------------------------------------------------------------------------
OK == {"ok", "ok with public"}

(* A garbled circuit with an AND gate is proved, and the proof verifies,   *)
(* however many rows fill up the trace ("check: pass = STARK",             *)
(* results/RESULTS.md:110).                                                *)
HonestVerifies ==
    changed = "nothing" =>
        /\ pc = "verified" => verdict \in OK
        /\ pc # "refused"
        /\ pc = "panic" => w.n_and = 0

(* The arithmetic of the constraints says of a row what the check of the   *)
(* witness says of the bit: neither accepts what the other rejects         *)
(* (main.rs:172-189, 264-310).                                             *)
Arithmetized ==
    pc # "garble" =>
        \A i \in 0 .. w.n_and - 1, bit \in Bits :
            LET g == w.gates[i] IN
            evaluate_transition(Row(w.delta, g, bit)) <=>
                g.pa <= 1 /\ g.pb <= 1 /\ BitOK(w.delta, g, bit)

(* What the negative tests are for: no proof is made of a circuit whose    *)
(* tables were changed, and one that verifies has not been changed, nor    *)
(* has the public file it is verified with                                 *)
(* (PROMPT_ROUTE_B_NEW_SERVER.md:101).                                     *)
ChangesNoticed ==
    /\ changed = "tables" => pc \notin {"verify", "verified"}
    /\ verdict \in OK => changed # "proof"
    /\ verdict = "ok with public" => changed # "public"
=============================================================================
