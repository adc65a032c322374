---------------------------- MODULE OTExtension -----------------------------
(***************************************************************************)
(* The correlated OT extension that gives the evaluator the labels of its  *)
(* inputs (OT/OTExtensionWithMatrix.cpp, OT/OTCorrelator.hpp,              *)
(* OT/OTExtension.cpp, driven by YaoGarbler::process_receiver_inputs and   *)
(* YaoEvalInput::exchange).  Both parties expand the seeds of the base     *)
(* transfers with the same generators and must use the same part of their  *)
(* output although the extensions have different sizes, are rounded up,    *)
(* padded and sent in slices.                                              *)
(*                                                                         *)
(* A row of the matrices is a block, the set of its one bits; column j     *)
(* comes from base transfer j.  PRG(s, i) is the i-th bit of the generator *)
(* with seed s.  The receiver has two seeds for each column j, the sender  *)
(* has the one for its bit j of delta: what the base transfers promise.    *)
(* Transfers composes this module with BaseOT.  The code has 128 bits;     *)
(* transposing is left out, the matrices being written row by row.         *)
(*                                                                         *)
(* The least bit of a label is its signal.  It is 0 in the garbler's       *)
(* labels for zero and 1 in delta, so that the evaluator can tell from the *)
(* label it gets which bit it is for, and aborts if it is the wrong one.   *)
(***************************************************************************)
EXTENDS Labels, Integers, Sequences, FiniteSets

CONSTANTS K,          \* base transfers = bits of a block
          Programs,   \* nsubloops, and the numbers of inputs in turn
          PRG(_, _)

rounded(n) == ((n + K - 1) \div K) * K

ASSUME OTExtensionAssumption ==
    /\ K \in Nat \ {0} /\ Bits = 0 .. K - 1
    /\ \A P \in Programs :
         /\ P.nsubloops \in Nat \ {0} /\ P.n \in Seq(Nat)
         /\ \A k \in DOMAIN P.n :
              P.n[k] > 0 => ((rounded(P.n[k]) + 2 * K) % (P.nsubloops * K)) = 0

VARIABLES
    delta,    \* baseReceiverInput of the sender
    passive,  \* passive_only
    program,
    G_sender,   \* the receiver's seeds, two for each base transfer
    G_receiver, \* the sender's, one for each
    r,        \* the receiver: place, extension, slice of it that is next
    s,        \* the sender: the same
    r_used,   \* how much of the output of each G_sender is used
    s_used,   \* how much of that of each G_receiver
    inputs,   \* the evaluator's input bits
    x,        \* choice bits, the padded copy of them
    t, q,     \* receiverOutputMatrix, senderOutputMatrices[0]
    to_s,     \* messages to the sender
    to_r,     \* messages to the receiver
    wires     \* labels of the evaluator's inputs, one sequence per extension

nsubloops == program.nsubloops
slice(n) == ((rounded(n) + 2 * K) \div nsubloops) \div K

setup == <<delta, passive, program, G_sender, G_receiver>>
receiver == <<r, r_used, inputs, x, t, wires>>
sender == <<s, s_used, q>>
vars == <<setup, receiver, sender, to_s, to_r>>

nOTs(n) == slice(n) * nsubloops * K
Rows(n, i) == i * slice(n) * K + 1 .. (i + 1) * slice(n) * K

At(pc, ext, i) == [pc |-> pc, ext |-> ext, slice |-> i]
Size(p) == program.n[p.ext]

(* The i-th bits of the generators with the given seeds.                   *)
Expand(seeds, i) == {j \in Bits : PRG(seeds[j], i)}
Column(bit) == [j \in Bits |-> G_sender[j][bit]]

(* The garbler's labels for zero, at random but for the signal, and the    *)
(* padding of the choice bits.                                             *)
key(ext, i) == {j \in Bits \ {0} : PRG(<<"key", ext, j>>, i)}
padding(ext, i) == PRG(<<"pad", ext, 0>>, i)
chi(ext, n) == [i \in 1 .. nOTs(n) |-> {j \in Bits : PRG(<<"chi", ext, j>>, i)}]

Start ==
    /\ passive \in BOOLEAN
    /\ program \in Programs
    /\ r = At("idle", 1, 0) /\ s = At("idle", 1, 0)
    /\ r_used = 0 /\ s_used = 0
    /\ inputs = <<>> /\ x = <<>> /\ t = <<>> /\ q = <<>>
    /\ to_s = <<>> /\ to_r = <<>>
    /\ wires = <<>>

(* What base transfers promise ("Receiver outputs (according to choice     *)
(* bits)", BaseOT.h:46): two strings for each transfer, and those for the  *)
(* bits d.                                                                 *)
PromisedStrings == [j \in Bits |-> [c \in 0 .. 1 |-> <<"base", j, c>>]]
Chosen(d) == [j \in Bits |-> PromisedStrings[j][IF j \in d THEN 1 ELSE 0]]

(* OTExtension::init with them.                                            *)
Init ==
    /\ delta \in Key
    /\ G_sender = PromisedStrings /\ G_receiver = Chosen(delta)
    /\ Start
-----------------------------------------------------------------------------
(* extend_correlated: nothing to do for no inputs; else the matrices are   *)
(* resized and the receiver pads its choice bits, at random where the rows *)
(* will be discarded.                                                      *)
First(n) == IF n = 0 THEN "keys" ELSE "slices"

(* Mutant: randomizes the last word before the discarded ones, too.        *)
Padded_one_more(ext, n, input) ==
    [i \in 1 .. nOTs(n) |->
        IF i > nOTs(n) - 2 * K - 1 THEN padding(ext, i)
        ELSE i <= n /\ input[i]]

Padded(ext, n, input) ==
    [i \in 1 .. nOTs(n) |->
        IF i > nOTs(n) - 2 * K THEN padding(ext, i)
        ELSE i <= n /\ input[i]]

ReceiverBegins ==
    /\ r.pc = "idle" /\ r.ext \in DOMAIN program.n
    /\ r' = At(First(Size(r)), r.ext, 0)
    /\ t' = IF Size(r) = 0 THEN t ELSE [i \in 1 .. nOTs(Size(r)) |-> ZeroKey]
    /\ inputs' \in [1 .. Size(r) -> BOOLEAN]
    /\ x' = IF Size(r) = 0 THEN x ELSE Padded(r.ext, Size(r), inputs')
    /\ UNCHANGED <<setup, r_used, wires, sender, to_s, to_r>>

SenderBegins ==
    /\ s.pc = "idle" /\ s.ext \in DOMAIN program.n
    /\ s' = At(First(Size(s)), s.ext, 0)
    /\ q' = IF Size(s) = 0 THEN q ELSE [i \in 1 .. nOTs(Size(s)) |-> ZeroKey]
    /\ UNCHANGED <<setup, s_used, receiver, to_s, to_r>>

(* Where a party goes after slice i.                                       *)
AfterSlice(p) ==
    IF p.slice + 1 < nsubloops THEN At("slices", p.ext, p.slice + 1)
    ELSE At(IF passive THEN "keys" ELSE "check", p.ext, 0)

(* expand() and correlate() of the receiver: t0 stays, t0 + t1 + x is sent. *)
ReceiverSlice ==
    LET rows == Rows(Size(r), r.slice)
        pos(i) == r_used + (i - r.slice * slice(Size(r)) * K)
        t0(i) == Expand(Column(0), pos(i))
        t1(i) == Expand(Column(1), pos(i)) IN
    /\ r.pc = "slices"
    /\ t' = [i \in DOMAIN t |-> IF i \in rows THEN t0(i) ELSE t[i]]
    /\ r_used' = r_used + slice(Size(r)) * K
    /\ to_s' = Append(to_s, [i \in rows |->
                 xor_block(xor_block(t0(i), t1(i)), If(x[i], Bits))])
    /\ r' = AfterSlice(r)
    /\ UNCHANGED <<setup, inputs, x, wires, sender, to_r>>

conditional_add(row, u) == xor_block(row, u \cap delta)

(* Mutant: the generators start again with every extension.                *)
SenderUsed_restarts(n) == 0
SenderUsed(n) == s_used + slice(n) * K

SenderSlice ==
    LET rows == Rows(Size(s), s.slice)
        pos(i) == s_used + (i - s.slice * slice(Size(s)) * K)
        u == Head(to_s) IN
    /\ s.pc = "slices" /\ to_s # <<>>
    /\ to_s' = Tail(to_s)
    /\ q' = [i \in DOMAIN q |-> IF i \in rows
         THEN conditional_add(Expand(G_receiver, pos(i)), u[i]) ELSE q[i]]
    /\ s_used' = SenderUsed(Size(s))
    /\ s' = AfterSlice(s)
    /\ UNCHANGED <<setup, receiver, to_r>>
-----------------------------------------------------------------------------
(* check_correlation: the products are of polynomials, and not reduced.    *)
(* Sum(a, b) is the sum of the products of the rows of a and b.            *)
Odd(set) == Cardinality(set) % 2 = 1

Sum(a, b) ==
    {n \in 0 .. 2 * K - 2 : Odd({e \in (DOMAIN a) \X Bits :
        e[2] \in a[e[1]] /\ n - e[2] \in b[e[1]]})}

mul128(a, b) == {n \in 0 .. 2 * K - 2 : Odd({j \in a : n - j \in b})}

ReceiverCheck ==
    LET c == chi(r.ext, Size(r)) IN
    /\ r.pc = "check"
    /\ to_s' = Append(to_s,
         [x |-> {j \in Bits : Odd({i \in DOMAIN x : x[i] /\ j \in c[i]})}, t |-> Sum(t, c)])
    /\ r' = At("keys", r.ext, 0)
    /\ UNCHANGED <<setup, r_used, inputs, x, t, wires, sender, to_r>>

(* check_iteration on the sender's side.                                   *)
SenderCheck ==
    LET m == Head(to_s) IN
    /\ s.pc = "check" /\ to_s # <<>>
    /\ to_s' = Tail(to_s)
    /\ s' = At(IF xor_block(mul128(m.x, delta), Sum(q, chi(s.ext, Size(s)))) = m.t
                 THEN "keys" ELSE "throws", s.ext, 0)
    /\ UNCHANGED <<setup, s_used, q, receiver, to_r>>
-----------------------------------------------------------------------------
(* process_receiver_inputs: the labels, hidden by the sender's rows.       *)
(* Mutant: no message when there are no inputs.                            *)
SendLabels_unless_empty ==
    /\ s.pc = "keys"
    /\ to_r' = IF Size(s) = 0 THEN to_r
               ELSE Append(to_r, [i \in 1 .. Size(s) |-> xor_block(key(s.ext, i), q[i])])
    /\ s' = At("idle", s.ext + 1, 0)
    /\ UNCHANGED <<setup, s_used, q, receiver, to_s>>

SendLabels ==
    /\ s.pc = "keys"
    /\ to_r' = Append(to_r, [i \in 1 .. Size(s) |-> xor_block(key(s.ext, i), q[i])])
    /\ s' = At("idle", s.ext + 1, 0)
    /\ UNCHANGED <<setup, s_used, q, receiver, to_s>>

(* YaoEvalInput::exchange, then YaoEvalWire::finalize_input and set() for  *)
(* each input: the signal of the label is to be the input bit.             *)
unhidden(i) == xor_block(Head(to_r)[i], t[i])
SignalsAgree == \A i \in 1 .. Size(r) : lsb(unhidden(i)) <=> inputs[i]

GetLabels ==
    /\ r.pc = "keys" /\ to_r # <<>> /\ SignalsAgree
    /\ to_r' = Tail(to_r)
    /\ wires' = Append(wires, [i \in 1 .. Size(r) |->
         [label |-> unhidden(i), value |-> inputs[i]]])
    /\ r' = At("idle", r.ext + 1, 0)
    /\ UNCHANGED <<setup, r_used, inputs, x, t, sender, to_s>>

(* The assertion fails, and the process ends with the message in its hands. *)
RefuseLabels ==
    /\ r.pc = "keys" /\ to_r # <<>> /\ ~SignalsAgree
    /\ r' = At("aborts", r.ext, 0)
    /\ UNCHANGED <<setup, r_used, inputs, x, t, wires, sender, to_s, to_r>>

Receiver == ReceiverBegins \/ ReceiverSlice \/ ReceiverCheck \/ GetLabels \/ RefuseLabels
Sender == SenderBegins \/ SenderSlice \/ SenderCheck \/ SendLabels
Next == Receiver \/ Sender

(* The two parties are running processes.                                  *)
Fairness == WF_vars(Receiver) /\ WF_vars(Sender)

Spec == Init /\ [][Next]_vars /\ Fairness
-----------------------------------------------------------------------------
Block(n) == [1 .. n -> Key]

(* The type invariant.                                                     *)
TypeOK ==
    /\ delta \in Key /\ passive \in BOOLEAN
    /\ \A p \in {r, s} :
         /\ p.pc \in {"idle", "slices", "check", "keys", "throws", "aborts"}
         /\ p.ext \in 1 .. Len(program.n) + 1
         /\ p.slice \in 0 .. nsubloops - 1
         /\ p.pc # "idle" => p.ext \in DOMAIN program.n
    /\ r.pc # "idle" => inputs \in [1 .. Size(r) -> BOOLEAN]
    /\ r.pc # "idle" /\ Size(r) > 0 =>
         x \in [1 .. nOTs(Size(r)) -> BOOLEAN] /\ t \in Block(nOTs(Size(r)))
    /\ s.pc # "idle" /\ Size(s) > 0 => q \in Block(nOTs(Size(s)))
    /\ r_used \in Nat /\ s_used \in Nat

(* What the base transfers promise: the sender has the seeds of its choice. *)
Promised ==
    \A j \in Bits : G_receiver[j] = G_sender[j][IF j \in delta THEN 1 ELSE 0]

(* When the sender has done an extension, its rows and the receiver's      *)
(* differ by delta exactly where the choice bit is set, in the rows to be  *)
(* discarded, too: whatever extensions came before, the two were at the    *)
(* same place of the generators' output (OTCorrelator.hpp:26-112).         *)
Correlated ==
    s.pc \in {"check", "keys"} /\ r.ext = s.ext /\ r.pc = "keys" /\ Size(s) > 0 /\ Promised =>
        \A i \in 1 .. nOTs(Size(s)) : q[i] = xor_block(t[i], If(x[i], delta))

(* The evaluator gets the garbler's label for the value of each of its     *)
(* inputs, and never finds the signal of another (YaoEvalWire.cpp:157-212, *)
(* YaoGarbler.cpp:166).                                                    *)
LabelsOfInputs ==
    Promised =>
      /\ r.pc # "aborts"
      /\ \A e \in DOMAIN wires : \A i \in 1 .. program.n[e] :
           wires[e][i].label = label_for_bit(key(e, i), delta, wires[e][i].value)
=============================================================================
