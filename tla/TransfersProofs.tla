--------------------------- MODULE TransfersProofs --------------------------
(***************************************************************************)
(* The correlated OT extension gives the evaluator the labels of its       *)
(* inputs, for blocks of any size, any generators and any sequence of      *)
(* extensions that divide into slices, behind any base transfers that keep *)
(* their promise.                                                          *)
(*                                                                         *)
(* Nothing that is sent says to which extension, slice or row it belongs.  *)
(* The two parties agree because they take the same steps in the same      *)
(* order: the invariant counts them.  The receiver can only be ahead       *)
(* within an extension, by the slices under way; the sender can be ahead   *)
(* by extensions that transfer nothing.                                    *)
(***************************************************************************)
EXTENDS Transfers, TLAPS

Len1(n) == slice(n) * K      \* rows of a slice

(* How many messages of the extension it is in a party has sent or         *)
(* received, and how many rows it has done.                                *)
Finish == IF passive THEN nsubloops ELSE nsubloops + 1

Steps(p) ==
    IF p.pc = "slices" THEN p.slice
    ELSE IF p.pc = "check" THEN nsubloops
    ELSE IF p.pc \in {"keys", "throws", "aborts"} /\ Size(p) > 0 THEN Finish
    ELSE 0

RowsDone(p) ==
    IF p.pc = "slices" THEN p.slice * Len1(Size(p))
    ELSE IF p.pc \in {"check", "keys", "throws", "aborts"} /\ Size(p) > 0 THEN nOTs(Size(p))
    ELSE 0

PlaceOK(p) ==
    /\ p \in [pc : {"idle", "slices", "check", "keys", "throws", "aborts"},
             ext : Nat \ {0}, slice : Nat]
    /\ p.pc # "idle" => p.ext \in DOMAIN program.n
    /\ p.pc = "slices" => Size(p) > 0 /\ p.slice < nsubloops
    /\ p.pc = "check" => Size(p) > 0 /\ ~ passive

PlacesOK ==
    /\ program \in Programs /\ passive \in BOOLEAN /\ delta \in Key
    /\ PlaceOK(r) /\ PlaceOK(s) /\ r.pc # "throws" /\ s.pc # "aborts"
    /\ r_used \in Nat /\ s_used \in Nat

IsSeq(c) == \E S : c \in Seq(S)

(* The parties are in the same extension, or the sender has left behind    *)
(* the receiver's and others that transfer nothing.                        *)
LagOK ==
    /\ IsSeq(to_s) /\ IsSeq(to_r)
    /\ r.ext <= s.ext /\ Len(to_r) = s.ext - r.ext
    /\ s.ext = r.ext => /\ Steps(s) + Len(to_s) = Steps(r)
                        /\ s_used + RowsDone(r) = r_used + RowsDone(s)
                        /\ r.pc # "aborts"
    /\ s.ext > r.ext => /\ to_s = <<>> /\ Steps(s) = 0 /\ s_used = r_used
                        /\ IF r.pc = "idle" THEN program.n[r.ext] = 0 ELSE r.pc \in {"keys", "aborts"}
                        /\ \A e \in r.ext + 1 .. s.ext - 1 : program.n[e] = 0

(* Where the generators were when the receiver's extension began.          *)
Pos == r_used - RowsDone(r)

(* A message: the rows of a slice, made with the given columns of seeds    *)
(* and choice bits.                                                        *)
IsSlice(u, rows, c0, c1, bits, pos) ==
    \A i \in rows :
        u[i] = xor_block(xor_block(Expand(c0, pos + i), Expand(c1, pos + i)),
                         If(bits[i], Bits))

SliceOK(u, b) == IsSlice(u, Rows(Size(r), b), Column(0), Column(1), x, Pos)

ReceiverOK ==
    r.pc # "idle" /\ Size(r) > 0 =>
      /\ inputs \in [1 .. Size(r) -> BOOLEAN]
      /\ x = Padded(r.ext, Size(r), inputs)
      /\ DOMAIN t = 1 .. nOTs(Size(r))
      /\ \A i \in 1 .. RowsDone(r) : t[i] = Expand(Column(0), Pos + i)

Related(i) == q[i] = xor_block(t[i], If(x[i], delta))

SenderOK ==
    /\ s.pc # "idle" /\ Size(s) > 0 => DOMAIN q = 1 .. nOTs(Size(s))
    /\ s.ext = r.ext /\ Promised => \A i \in 1 .. RowsDone(s) : Related(i)

MessagesOK ==
    /\ s.ext = r.ext => \A k \in 1 .. Len(to_s) :
         Steps(s) + k <= nsubloops => SliceOK(to_s[k], Steps(s) + k - 1)
    /\ s.ext > r.ext /\ Promised => \A i \in 1 .. program.n[r.ext] :
         to_r[1][i] = xor_block(key(r.ext, i), xor_block(t[i], If(x[i], delta)))

WiresOK ==
    /\ IsSeq(wires) /\ Len(wires) = r.ext - 1
    /\ LabelsOfInputs

ExtensionOK == PlacesOK /\ LagOK /\ ReceiverOK /\ SenderOK /\ MessagesOK /\ WiresOK

(* A party that has not finished its setup has not begun an extension.     *)
(* The sender's setup is for its choice bits, with the signal bit set in   *)
(* the sessions that have extensions.                                      *)
SetupOK ==
    /\ pc = [p \in Parties |-> pc[p]] /\ DOMAIN receiver_inputs = Parties
    /\ pc[Garbler] # "extend" => s = At("idle", 1, 0)
    /\ pc[Evaluator] # "extend" => r = At("idle", 1, 0)
    /\ pc[Garbler] = "extend" => delta = choice(Garbler)
    /\ IF IsYao THEN receiver_inputs[Garbler][0] = 1 ELSE program.n = <<>>

ExtensionInv == ExtensionOK /\ SetupOK
-----------------------------------------------------------------------------
(* Dividing a number of the form d * m by m.                               *)
LEMMA DivideProduct ==
    ASSUME NEW d \in Nat, NEW m \in Nat \ {0}
    PROVE  (d * m) \div m = d
<1> DEFINE a == d * m
           e == a \div m
<1>1. a \in Nat /\ e \in Nat
  BY SMT
<1>2. m * e <= a /\ a < m * e + m
  BY SMT
<1> HIDE DEF e
<1>3. ~ e < d
  <2> SUFFICES ASSUME e < d PROVE FALSE
    OBVIOUS
  <2>1. e + 1 <= d
    BY <1>1
  <2>2. m * (e + 1) <= m * d
    BY <1>1, <2>1
  <2> QED BY <1>1, <1>2, <2>2
<1>4. ~ e > d
  <2> SUFFICES ASSUME e > d PROVE FALSE
    OBVIOUS
  <2>1. d + 1 <= e
    BY <1>1
  <2>2. m * (d + 1) <= m * e
    BY <1>1, <2>1
  <2> QED BY <1>1, <1>2, <2>2
<1>5. e = d
  BY <1>1, <1>3, <1>4
<1> QED BY <1>5 DEF e

(* What a multiple of a product is divided into.                           *)
LEMMA DivideTwice ==
    ASSUME NEW m \in Nat, NEW c \in Nat \ {0}, NEW k \in Nat \ {0}, m % (c * k) = 0
    PROVE  /\ (m \div c) \div k \in Nat
           /\ ((m \div c) \div k) * c * k = m
<1> DEFINE z == c * k
           d == m \div z
<1>1. z \in Nat \ {0}
  BY SMT
<1>2. d \in Nat /\ m = z * d + (m % z)
  <2> HIDE DEF z
  <2> QED BY <1>1, SMT
<1>3. d \in Nat /\ m = z * d
  BY <1>1, <1>2
<1> HIDE DEF d
<1>4. m = (d * k) * c /\ d * k \in Nat /\ (d * c) * k = m
  BY <1>3
<1>5. m \div c = d * k
  BY <1>4, DivideProduct
<1>6. (d * k) \div k = d
  BY <1>3, DivideProduct
<1> QED BY <1>3, <1>4, <1>5, <1>6

(* Rounding up loses nothing.                                              *)
LEMMA RoundedUp ==
    ASSUME NEW n \in Nat
    PROVE  rounded(n) \in Nat /\ n <= rounded(n)
<1> DEFINE a == n + K - 1
           d == a \div K
<1>1. K \in Nat \ {0}
  BY OTExtensionAssumption
<1>2. a \in Nat
  BY <1>1
<1>3. d \in Nat /\ K * d <= a /\ a < K * d + K
  <2> HIDE DEF a
  <2> QED BY <1>1, <1>2, SMT
<1> HIDE DEF d
<1>4. d * K \in Nat /\ d * K = K * d
  BY <1>1, <1>3
<1>5. n <= d * K
  BY <1>1, <1>3, <1>4
<1> QED BY <1>4, <1>5 DEF rounded, d

(* The sizes of an extension that transfers something: its slices have as  *)
(* many rows as the matrices, and the rows of the inputs are kept.         *)
LEMMA Numbers ==
    ASSUME program \in Programs
    PROVE  /\ nsubloops \in Nat \ {0} /\ K \in Nat \ {0} /\ Finish \in Nat
           /\ program.n \in Seq(Nat) /\ \A e \in DOMAIN program.n : program.n[e] \in Nat
<1>1. nsubloops \in Nat \ {0} /\ K \in Nat \ {0} /\ program.n \in Seq(Nat)
  BY OTExtensionAssumption DEF nsubloops
<1>2. Finish \in Nat
  BY <1>1 DEF Finish
<1> QED BY <1>1, <1>2

LEMMA SlicesFit ==
    ASSUME program \in Programs, NEW e \in DOMAIN program.n, program.n[e] > 0,
           NEW n, n = program.n[e]
    PROVE  /\ slice(n) \in Nat /\ Len1(n) \in Nat
           /\ nOTs(n) \in Nat /\ nOTs(n) = nsubloops * Len1(n)
           /\ n \in Nat /\ n <= nOTs(n) - 2 * K
<1> DEFINE m == rounded(n) + 2 * K
<1>1. /\ nsubloops \in Nat \ {0} /\ K \in Nat \ {0} /\ n \in Nat
      /\ m % (nsubloops * K) = 0
  BY Numbers, OTExtensionAssumption DEF nsubloops
<1>2. rounded(n) \in Nat /\ n <= rounded(n)
  BY <1>1, RoundedUp
<1>3. m \in Nat /\ n <= m - 2 * K
  BY <1>1, <1>2
<1>4. slice(n) = (m \div nsubloops) \div K
  BY DEF slice
<1> HIDE DEF m
<1> DEFINE c == nsubloops
           d == slice(n)
<1>5. d \in Nat /\ d * c * K = m
  <2>1. c \in Nat \ {0} /\ m \in Nat /\ K \in Nat \ {0} /\ m % (c * K) = 0
    BY <1>1, <1>3
  <2>2. d = (m \div c) \div K
    BY <1>4
  <2> HIDE DEF c, d
  <2>3. (m \div c) \div K \in Nat /\ ((m \div c) \div K) * c * K = m
    BY <2>1, DivideTwice
  <2> QED BY <2>2, <2>3
<1>6. Len1(n) \in Nat /\ slice(n) * nsubloops * K = nsubloops * Len1(n)
  BY <1>1, <1>5 DEF Len1
<1> QED BY <1>1, <1>3, <1>5, <1>6 DEF nOTs

(* The rows of slice b.                                                    *)
LEMMA RowsOfSlice ==
    ASSUME NEW n, slice(n) \in Nat, K \in Nat, NEW b \in Nat
    PROVE  /\ Rows(n, b) = b * Len1(n) + 1 .. b * Len1(n) + Len1(n)
           /\ b * slice(n) * K = b * Len1(n)
<1> DEFINE z == slice(n)
<1>1. b * z * K = b * (z * K)
  OBVIOUS
<1>2. (b + 1) * z * K = b * (z * K) + z * K
  OBVIOUS
<1> QED BY <1>1, <1>2 DEF Rows, Len1

(* Slices do not overlap and end with the matrix.                          *)
LEMMA SliceOrder ==
    ASSUME NEW a \in Nat, NEW b \in Nat, a < b, NEW l \in Nat
    PROVE  a * l + l <= b * l /\ a * l \in Nat /\ b * l \in Nat
<1>1. l * (a + 1) <= l * b
  OBVIOUS
<1> QED BY <1>1

(* How much a party has done follows from how many messages it has dealt   *)
(* with.                                                                   *)
LEMMA Progress ==
    ASSUME program \in Programs, NEW p, PlaceOK(p)
    PROVE  /\ Steps(p) \in Nat /\ RowsDone(p) \in Nat
           /\ Steps(p) = 0 => RowsDone(p) = 0
           /\ p.pc = "idle" => Steps(p) = 0 /\ RowsDone(p) = 0
           /\ p.pc # "idle" /\ Size(p) = 0 => Steps(p) = 0 /\ RowsDone(p) = 0
           /\ p.pc = "keys" /\ Steps(p) = 0 => Size(p) = 0
           /\ Steps(p) > 0 => Size(p) > 0 /\ p.pc # "idle"
           /\ Steps(p) <= Finish
<1>1. /\ nsubloops \in Nat \ {0} /\ K \in Nat \ {0} /\ Finish \in Nat /\ Finish >= nsubloops
      /\ \A e \in DOMAIN program.n : program.n[e] \in Nat
  BY Numbers DEF Finish
<1>2. CASE p.pc = "idle"
  BY <1>1, <1>2 DEF Steps, RowsDone
<1>3. CASE p.pc # "idle" /\ Size(p) > 0
  <2>1. p.ext \in DOMAIN program.n /\ p.slice \in Nat
    BY <1>3 DEF PlaceOK
  <2>2. Len1(Size(p)) \in Nat /\ nOTs(Size(p)) \in Nat
    BY <1>3, <2>1, SlicesFit DEF Size
  <2>3. p.slice * Len1(Size(p)) \in Nat /\ 0 * Len1(Size(p)) = 0
    BY <2>1, <2>2
  <2>4. p.pc \in {"slices", "check", "keys", "throws", "aborts"} /\ Size(p) \in Nat
    BY <1>1, <1>3, <2>1 DEF PlaceOK, Size
  <2>5. p.pc = "slices" => p.slice < nsubloops
    BY DEF PlaceOK
  <2> QED BY <1>1, <1>3, <2>1, <2>2, <2>3, <2>4, <2>5 DEF Steps, RowsDone
<1>4. CASE p.pc # "idle" /\ ~ Size(p) > 0
  <2>1. Size(p) \in Nat /\ p.pc \in {"keys", "throws", "aborts"}
    BY <1>1, <1>4 DEF PlaceOK, Size
  <2>2. Size(p) = 0
    BY <1>4, <2>1
  <2> QED BY <1>1, <1>4, <2>1, <2>2 DEF Steps, RowsDone
<1> QED BY <1>2, <1>3, <1>4
-----------------------------------------------------------------------------
(* The algebra of a row: what the sender makes of a row of the receiver's  *)
(* message, if it has the seeds of its choice.                             *)
LEMMA RowOfSender ==
    ASSUME Promised, delta \in Key, NEW i, NEW c, NEW u,
           u = xor_block(xor_block(Expand(Column(0), i), Expand(Column(1), i)), If(c, Bits))
    PROVE  conditional_add(Expand(G_receiver, i), u)
             = xor_block(Expand(Column(0), i), If(c, delta))
<1> DEFINE a == Expand(Column(0), i)
           b == Expand(Column(1), i)
           g == Expand(G_receiver, i)
<1>1. a \subseteq Bits /\ b \subseteq Bits /\ g \subseteq Bits /\ delta \subseteq Bits
  BY DEF Expand, Key
<1>2. ASSUME NEW j \in Bits
      PROVE  j \in g <=> IF j \in delta THEN j \in b ELSE j \in a
  <2>1. G_receiver[j] = IF j \in delta THEN Column(1)[j] ELSE Column(0)[j]
    BY <1>2 DEF Promised, Column
  <2> QED BY <1>2, <2>1 DEF Expand
<1>3. u = xor_block(xor_block(a, b), If(c, Bits))
  OBVIOUS
<1> SUFFICES xor_block(g, u \cap delta) = xor_block(a, If(c, delta))
  BY DEF conditional_add
<1> HIDE DEF a, b, g
<1>4. CASE c
  <2>1. u = xor_block(xor_block(a, b), Bits) /\ If(c, delta) = delta
    BY <1>3, <1>4 DEF If
  <2>2. xor_block(g, xor_block(xor_block(a, b), Bits) \cap delta) = xor_block(a, delta)
    BY <1>1, <1>2 DEF xor_block
  <2> QED BY <2>1, <2>2
<1>5. CASE ~ c
  <2>1. u = xor_block(xor_block(a, b), {}) /\ If(c, delta) = {}
    BY <1>3, <1>5 DEF If, ZeroKey
  <2>2. xor_block(g, xor_block(xor_block(a, b), {}) \cap delta) = xor_block(a, {})
    BY <1>1, <1>2 DEF xor_block
  <2> QED BY <2>1, <2>2
<1> QED BY <1>4, <1>5

(* What the receiver makes of a label that is hidden by a related row.     *)
LEMMA Unhide ==
    ASSUME NEW k, NEW a, NEW w
    PROVE  xor_block(xor_block(k, xor_block(a, w)), a) = xor_block(k, w)
BY DEF xor_block

(* The padded choice bits of the inputs are the inputs.                    *)
LEMMA PaddedInputs ==
    ASSUME NEW n \in Nat, nOTs(n) \in Nat, n <= nOTs(n) - 2 * K, K \in Nat, NEW e,
           NEW input, NEW i \in 1 .. n, input[i] \in BOOLEAN
    PROVE  Padded(e, n, input)[i] = input[i]
<1>1. i \in 1 .. nOTs(n) /\ ~ i > nOTs(n) - 2 * K /\ i <= n
  OBVIOUS
<1> QED BY <1>1 DEF Padded

(* Sequences of anything.                                                  *)
LEMMA SeqLen == ASSUME NEW c, IsSeq(c)
                PROVE  Len(c) \in Nat /\ DOMAIN c = 1 .. Len(c) /\ (c = <<>> <=> Len(c) = 0)
<1>1. PICK S : c \in Seq(S)
  BY DEF IsSeq
<1> QED BY <1>1

LEMMA SeqAppend ==
    ASSUME NEW c, IsSeq(c), NEW m
    PROVE  /\ IsSeq(Append(c, m)) /\ Len(Append(c, m)) = Len(c) + 1
           /\ \A k \in 1 .. Len(c) : Append(c, m)[k] = c[k]
           /\ Append(c, m)[Len(c) + 1] = m
<1>1. PICK S : c \in Seq(S)
  BY DEF IsSeq
<1> DEFINE T == S \cup {m}
<1>2. c \in Seq(T) /\ m \in T
  BY <1>1
<1> HIDE DEF T
<1>3. Append(c, m) \in Seq(T)
  BY <1>2
<1> QED BY <1>2, <1>3 DEF IsSeq

LEMMA SeqTail ==
    ASSUME NEW c, IsSeq(c), c # <<>>
    PROVE  /\ IsSeq(Tail(c)) /\ Len(Tail(c)) = Len(c) - 1 /\ Head(c) = c[1] /\ Len(c) > 0
           /\ \A k \in 1 .. Len(c) - 1 : Tail(c)[k] = c[k + 1]
<1>1. PICK S : c \in Seq(S)
  BY DEF IsSeq
<1>2. Tail(c) \in Seq(S)
  BY <1>1
<1> QED BY <1>1, <1>2 DEF IsSeq

(* The programs and the seeds stay what they are during the extensions.    *)
LEMMA Frame ==
    ASSUME UNCHANGED setup
    PROVE  /\ program' = program /\ passive' = passive /\ delta' = delta
           /\ nsubloops' = nsubloops /\ Finish' = Finish
           /\ \A n : nOTs(n)' = nOTs(n) /\ Len1(n)' = Len1(n)
           /\ \A n, b : Rows(n, b)' = Rows(n, b)
           /\ \A b : Column(b)' = Column(b)
           /\ Promised' = Promised
<1>1. program' = program /\ passive' = passive /\ delta' = delta
      /\ G_sender' = G_sender /\ G_receiver' = G_receiver
  BY DEF setup
<1>2. nsubloops' = nsubloops /\ Finish' = Finish
  BY <1>1 DEF nsubloops, Finish
<1>3. \A n : slice(n)' = slice(n)
  BY <1>2 DEF slice
<1>4. \A n : nOTs(n)' = nOTs(n) /\ Len1(n)' = Len1(n)
  BY <1>2, <1>3 DEF nOTs, Len1
<1>5. \A n, b : Rows(n, b)' = Rows(n, b)
  BY <1>3 DEF Rows
<1>6. \A b : Column(b)' = Column(b)
  BY <1>1 DEF Column
<1>7. Promised' = Promised
  BY <1>1 DEF Promised
<1> QED BY <1>1, <1>2, <1>4, <1>5, <1>6, <1>7
-----------------------------------------------------------------------------
(* One lemma for each action.                                              *)
LEMMA StepReceiverBegins == ExtensionOK /\ ReceiverBegins => ExtensionOK'
<1> SUFFICES ASSUME ExtensionOK, ReceiverBegins, NEW e, e = r.ext, NEW n, n = program.n[e]
             PROVE  ExtensionOK'
  OBVIOUS
<1>1. /\ PlacesOK /\ LagOK /\ ReceiverOK /\ SenderOK /\ MessagesOK /\ WiresOK
  BY DEF ExtensionOK
<1>2. /\ program \in Programs /\ PlaceOK(r) /\ PlaceOK(s) /\ e \in Nat \ {0}
      /\ r.pc = "idle" /\ e \in DOMAIN program.n /\ s.ext \in Nat
  BY <1>1 DEF PlacesOK, ReceiverBegins, PlaceOK
<1>3. /\ UNCHANGED setup /\ s' = s /\ to_s' = to_s /\ to_r' = to_r /\ wires' = wires
      /\ r_used' = r_used /\ s_used' = s_used /\ q' = q
      /\ r' = [pc |-> First(n), ext |-> e, slice |-> 0]
      /\ inputs' \in [1 .. n -> BOOLEAN]
      /\ n # 0 => x' = Padded(e, n, inputs') /\ t' = [i \in 1 .. nOTs(n) |-> ZeroKey]
  BY DEF ReceiverBegins, sender, At, Size
<1>4. program' = program /\ passive' = passive /\ delta' = delta
  BY <1>3, Frame
<1>5. n \in Nat /\ nsubloops \in Nat \ {0}
  BY <1>2, Numbers
<1>6. /\ r'.pc = First(n) /\ r'.ext = e /\ r'.slice = 0
      /\ First(n) = IF n = 0 THEN "keys" ELSE "slices"
  BY <1>3 DEF First
<1>7. Steps(r) = 0 /\ RowsDone(r) = 0
  BY <1>2, Progress
<1>8. Steps(r)' = 0 /\ RowsDone(r)' = 0 /\ Size(r)' = n
  <2>1. Size(r)' = n
    BY <1>4, <1>6 DEF Size
  <2>2. Steps(r)' = 0
    BY <1>5, <1>6, <2>1 DEF Steps
  <2>3. RowsDone(r)' = 0
    <3>1. CASE n = 0
      BY <1>5, <1>6, <2>1, <3>1 DEF RowsDone
    <3>2. CASE n # 0
      <4>1. Len1(n) \in Nat
        BY <1>2, <1>5, <3>2, SlicesFit
      <4>2. Len1(n)' = Len1(n)
        BY <1>3, Frame
      <4>3. 0 * Len1(n) = 0
        BY <4>1
      <4>4. r'.pc = "slices"
        BY <1>6, <3>2
      <4>5. RowsDone(r)' = r'.slice * Len1(n)'
        BY <4>4, <2>1 DEF RowsDone
      <4> QED BY <1>6, <4>2, <4>3, <4>5
    <3> QED BY <3>1, <3>2
  <2> QED BY <2>1, <2>2, <2>3
<1>9. Steps(s)' = Steps(s) /\ RowsDone(s)' = RowsDone(s) /\ Size(s)' = Size(s)
  BY <1>3, <1>4, Frame DEF Steps, RowsDone, Size
<1>10. PlacesOK'
  <2>1. PlaceOK(r)'
    BY <1>2, <1>4, <1>5, <1>6, <1>8, <1>3, Frame DEF PlaceOK
  <2>2. PlaceOK(s)'
    BY <1>2, <1>3, <1>4, <1>9, Frame DEF PlaceOK
  <2> QED BY <1>1, <1>3, <1>4, <1>6, <2>1, <2>2 DEF PlacesOK
<1>11. LagOK'
  BY <1>1, <1>2, <1>3, <1>4, <1>6, <1>7, <1>8, <1>9 DEF LagOK
<1>12. ReceiverOK'
  <2> SUFFICES ASSUME n > 0
               PROVE  /\ inputs' \in [1 .. n -> BOOLEAN]
                      /\ x' = Padded(e, n, inputs)'
                      /\ DOMAIN t' = 1 .. nOTs(n)'
    BY <1>4, <1>6, <1>8 DEF ReceiverOK
  <2>1. nOTs(n)' = nOTs(n)
    BY <1>3, Frame
  <2>2. Padded(e, n, inputs)' = Padded(e, n, inputs')
    BY <1>4, <2>1 DEF Padded
  <2> QED BY <1>3, <2>1, <2>2
<1>13. SenderOK'
  <2>1. nOTs(Size(s))' = nOTs(Size(s))
    BY <1>9, <1>3, Frame
  <2>2. s.ext = e => RowsDone(s) = 0
    <3>1. s.ext = e => Steps(s) + Len(to_s) = 0
      BY <1>1, <1>7 DEF LagOK
    <3>2. Len(to_s) \in Nat
      BY <1>1, SeqLen DEF LagOK
    <3>3. Steps(s) \in Nat /\ (Steps(s) = 0 => RowsDone(s) = 0)
      BY <1>2, Progress
    <3> QED BY <3>1, <3>2, <3>3
  <2> QED BY <1>1, <1>3, <1>4, <1>6, <1>9, <2>1, <2>2 DEF SenderOK
<1>14. MessagesOK'
  <2>1. s.ext = e => Len(to_s) = 0
    <3>1. s.ext = e => Steps(s) + Len(to_s) = 0
      BY <1>1, <1>7 DEF LagOK
    <3>2. Len(to_s) \in Nat
      BY <1>1, SeqLen DEF LagOK
    <3>3. Steps(s) \in Nat
      BY <1>2, Progress
    <3> QED BY <3>1, <3>2, <3>3
  <2>2. s.ext > e => n = 0
    BY <1>1, <1>2 DEF LagOK
  <2> QED BY <1>3, <1>4, <1>6, <2>1, <2>2 DEF MessagesOK
<1>15. WiresOK'
  BY <1>1, <1>3, <1>4, <1>6, Frame DEF WiresOK, LabelsOfInputs
<1> QED BY <1>10, <1>11, <1>12, <1>13, <1>14, <1>15 DEF ExtensionOK

LEMMA SenderKept ==
    ASSUME UNCHANGED setup, s' = s
    PROVE  /\ Steps(s)' = Steps(s) /\ RowsDone(s)' = RowsDone(s) /\ Size(s)' = Size(s)
           /\ PlaceOK(s)' = PlaceOK(s)
<1>1. /\ Steps(s)' = Steps(s) /\ RowsDone(s)' = RowsDone(s) /\ Size(s)' = Size(s)
  BY Frame DEF Steps, RowsDone, Size
<1> QED BY <1>1, Frame DEF PlaceOK

LEMMA ReceiverKept ==
    ASSUME UNCHANGED setup, r' = r
    PROVE  /\ Steps(r)' = Steps(r) /\ RowsDone(r)' = RowsDone(r) /\ Size(r)' = Size(r)
           /\ PlaceOK(r)' = PlaceOK(r)
           /\ r_used' = r_used => Pos' = Pos
           /\ r_used' = r_used /\ x' = x => \A u, b : SliceOK(u, b)' = SliceOK(u, b)
           /\ r_used' = r_used /\ t' = t /\ x' = x /\ inputs' = inputs => (ReceiverOK => ReceiverOK')
<1>1. /\ Steps(r)' = Steps(r) /\ RowsDone(r)' = RowsDone(r) /\ Size(r)' = Size(r)
  BY Frame DEF Steps, RowsDone, Size
<1>2. PlaceOK(r)' = PlaceOK(r)
  BY <1>1, Frame DEF PlaceOK
<1>3. ASSUME r_used' = r_used PROVE Pos' = Pos
  BY <1>1, <1>3 DEF Pos
<1>4. ASSUME r_used' = r_used, x' = x
      PROVE  \A u, b : SliceOK(u, b)' = SliceOK(u, b)
  <2>1. \A b : Rows(Size(r), b)' = Rows(Size(r), b)
    BY <1>1, Frame DEF Rows, slice
  <2> QED BY <1>1, <1>3, <1>4, <2>1, Frame DEF SliceOK
<1>5. ASSUME r_used' = r_used, t' = t, x' = x, inputs' = inputs, ReceiverOK
      PROVE  ReceiverOK'
  <2>1. nOTs(Size(r))' = nOTs(Size(r))
    BY <1>1, Frame DEF nOTs, slice
  <2>2. Padded(r.ext, Size(r), inputs)' = Padded(r.ext, Size(r), inputs)
    BY <1>1, <1>5, <2>1 DEF Padded
  <2> QED BY <1>1, <1>3, <1>5, <2>1, <2>2, Frame DEF ReceiverOK
<1> QED BY <1>1, <1>2, <1>3, <1>4, <1>5

LEMMA StepSenderBegins == ExtensionOK /\ SenderBegins => ExtensionOK'
<1> SUFFICES ASSUME ExtensionOK, SenderBegins, NEW e, e = s.ext, NEW n, n = program.n[e]
             PROVE  ExtensionOK'
  OBVIOUS
<1>1. /\ PlacesOK /\ LagOK /\ ReceiverOK /\ SenderOK /\ MessagesOK /\ WiresOK
  BY DEF ExtensionOK
<1>2. /\ program \in Programs /\ PlaceOK(r) /\ PlaceOK(s) /\ e \in Nat \ {0}
      /\ s.pc = "idle" /\ e \in DOMAIN program.n /\ r.ext \in Nat
  BY <1>1 DEF PlacesOK, SenderBegins, PlaceOK
<1>3. /\ UNCHANGED setup /\ r' = r /\ to_s' = to_s /\ to_r' = to_r /\ wires' = wires
      /\ r_used' = r_used /\ s_used' = s_used /\ x' = x /\ t' = t /\ inputs' = inputs
      /\ s' = [pc |-> First(n), ext |-> e, slice |-> 0]
      /\ n # 0 => q' = [i \in 1 .. nOTs(n) |-> ZeroKey]
  BY DEF SenderBegins, receiver, At, Size
<1>4. program' = program /\ passive' = passive /\ delta' = delta /\ Promised' = Promised
  BY <1>3, Frame
<1>5. n \in Nat /\ nsubloops \in Nat \ {0}
  BY <1>2, Numbers
<1>6. /\ s'.pc = First(n) /\ s'.ext = e /\ s'.slice = 0
      /\ First(n) = IF n = 0 THEN "keys" ELSE "slices"
  BY <1>3 DEF First
<1>7. Steps(s) = 0 /\ RowsDone(s) = 0
  BY <1>2, Progress
<1>8. Steps(s)' = 0 /\ RowsDone(s)' = 0 /\ Size(s)' = n
  <2>1. Size(s)' = n
    BY <1>4, <1>6 DEF Size
  <2>2. Steps(s)' = 0
    BY <1>5, <1>6, <2>1 DEF Steps
  <2>3. RowsDone(s)' = 0
    <3>1. CASE n = 0
      BY <1>5, <1>6, <2>1, <3>1 DEF RowsDone
    <3>2. CASE n # 0
      <4>1. Len1(n) \in Nat
        BY <1>2, <1>5, <3>2, SlicesFit
      <4>2. Len1(n)' = Len1(n)
        BY <1>3, Frame
      <4>3. 0 * Len1(n) = 0
        BY <4>1
      <4>4. s'.pc = "slices"
        BY <1>6, <3>2
      <4>5. RowsDone(s)' = s'.slice * Len1(n)'
        BY <4>4, <2>1 DEF RowsDone
      <4> QED BY <1>6, <4>2, <4>3, <4>5
    <3> QED BY <3>1, <3>2
  <2> QED BY <2>1, <2>2, <2>3
<1>9. /\ Steps(r)' = Steps(r) /\ RowsDone(r)' = RowsDone(r) /\ Size(r)' = Size(r)
      /\ PlaceOK(r)' /\ \A u, b : SliceOK(u, b)' = SliceOK(u, b)
  BY <1>2, <1>3, ReceiverKept
<1>10. PlacesOK'
  <2>1. PlaceOK(s)'
    BY <1>2, <1>4, <1>5, <1>6, <1>8, <1>3, Frame DEF PlaceOK
  <2> QED BY <1>1, <1>3, <1>4, <1>6, <1>9, <2>1 DEF PlacesOK
<1>11. LagOK'
  BY <1>1, <1>2, <1>3, <1>4, <1>6, <1>7, <1>8, <1>9 DEF LagOK
<1>12. ReceiverOK'
  BY <1>1, <1>3, ReceiverKept
<1>13. SenderOK'
  <2>1. nOTs(n)' = nOTs(n)
    BY <1>3, Frame
  <2>2. n # 0 => DOMAIN q' = 1 .. nOTs(n)
    BY <1>3
  <2>3. nOTs(Size(s))' = nOTs(n)
    BY <1>8, <2>1
  <2> QED BY <1>5, <1>6, <1>8, <2>2, <2>3 DEF SenderOK
<1>14. MessagesOK'
  BY <1>1, <1>3, <1>4, <1>6, <1>7, <1>8, <1>9, Frame DEF MessagesOK
<1>15. WiresOK'
  BY <1>1, <1>3, <1>4, Frame DEF WiresOK, LabelsOfInputs
<1> QED BY <1>10, <1>11, <1>12, <1>13, <1>14, <1>15 DEF ExtensionOK

(* The next place of a party, seen from the present state.                 *)
LEMMA ReceiverAt ==
    ASSUME UNCHANGED setup, NEW w, r' = w
    PROVE  /\ Steps(r)' = Steps(w) /\ RowsDone(r)' = RowsDone(w) /\ Size(r)' = Size(w)
           /\ PlaceOK(r)' = PlaceOK(w)
<1>1. /\ Steps(r)' = Steps(w) /\ RowsDone(r)' = RowsDone(w) /\ Size(r)' = Size(w)
  BY Frame DEF Steps, RowsDone, Size
<1> QED BY <1>1, Frame DEF PlaceOK

LEMMA SenderAt ==
    ASSUME UNCHANGED setup, NEW w, s' = w
    PROVE  /\ Steps(s)' = Steps(w) /\ RowsDone(s)' = RowsDone(w) /\ Size(s)' = Size(w)
           /\ PlaceOK(s)' = PlaceOK(w)
<1>1. /\ Steps(s)' = Steps(w) /\ RowsDone(s)' = RowsDone(w) /\ Size(s)' = Size(w)
  BY Frame DEF Steps, RowsDone, Size
<1> QED BY <1>1, Frame DEF PlaceOK

(* A slice is one message and Len1 rows.                                   *)
LEMMA OneSlice ==
    ASSUME program \in Programs, passive \in BOOLEAN, NEW p, PlaceOK(p), p.pc = "slices",
           NEW n, n = Size(p), NEW b, b = p.slice, NEW w, w = AfterSlice(p)
    PROVE  /\ n \in Nat /\ n > 0 /\ b \in Nat /\ K \in Nat /\ slice(n) \in Nat
           /\ Len1(n) \in Nat /\ nOTs(n) \in Nat /\ b * Len1(n) \in Nat
           /\ b < nsubloops /\ nsubloops \in Nat
           /\ Steps(p) = b /\ RowsDone(p) = b * Len1(n)
           /\ b * Len1(n) + Len1(n) <= nOTs(n)
           /\ PlaceOK(w) /\ w.ext = p.ext /\ Size(w) = n
           /\ w.pc \in {"slices", "check", "keys"}
           /\ Steps(w) = b + 1 /\ RowsDone(w) = b * Len1(n) + Len1(n)
<1>1. /\ p.ext \in DOMAIN program.n /\ n = program.n[p.ext] /\ n > 0 /\ b \in Nat
      /\ b < nsubloops /\ p.ext \in Nat \ {0}
  BY DEF PlaceOK, Size
<1>2. nsubloops \in Nat \ {0} /\ K \in Nat
  BY Numbers
<1>3. /\ slice(n) \in Nat /\ Len1(n) \in Nat /\ n \in Nat
      /\ nOTs(n) \in Nat /\ nOTs(n) = nsubloops * Len1(n)
  BY <1>1, SlicesFit
<1>4. b * Len1(n) + Len1(n) <= nOTs(n) /\ b * Len1(n) \in Nat
  BY <1>1, <1>2, <1>3, SliceOrder
<1>5. Steps(p) = b /\ RowsDone(p) = b * Len1(n)
  BY DEF Steps, RowsDone
<1>6. (b + 1) * Len1(n) = b * Len1(n) + Len1(n)
  BY <1>1, <1>3
<1>7. CASE b + 1 < nsubloops
  <2>1. w = [pc |-> "slices", ext |-> p.ext, slice |-> b + 1]
    BY <1>7 DEF AfterSlice, At
  <2>2. Size(w) = n
    BY <1>1, <2>1 DEF Size
  <2>3. Steps(w) = b + 1 /\ RowsDone(w) = (b + 1) * Len1(n)
    BY <2>1, <2>2 DEF Steps, RowsDone
  <2>4. PlaceOK(w)
    BY <1>1, <1>7, <2>1, <2>2 DEF PlaceOK
  <2> QED BY <1>1, <1>2, <1>3, <1>4, <1>5, <1>6, <2>1, <2>2, <2>3, <2>4
<1>8. CASE ~ b + 1 < nsubloops
  <2>1. w = [pc |-> IF passive THEN "keys" ELSE "check", ext |-> p.ext, slice |-> 0]
    BY <1>8 DEF AfterSlice, At
  <2>2. Size(w) = n
    BY <1>1, <2>1 DEF Size
  <2>3. b + 1 = nsubloops
    BY <1>1, <1>2, <1>8
  <2>4. Steps(w) = nsubloops /\ RowsDone(w) = nOTs(n)
    BY <1>1, <2>1, <2>2 DEF Steps, RowsDone, Finish
  <2>5. PlaceOK(w)
    BY <1>1, <2>1, <2>2 DEF PlaceOK
  <2>6. nOTs(n) = (b + 1) * Len1(n)
    BY <1>3, <2>3
  <2>7. w.ext = p.ext /\ w.pc \in {"slices", "check", "keys"}
    BY <2>1
  <2> QED BY <1>1, <1>2, <1>3, <1>4, <1>5, <1>6, <2>2, <2>3, <2>4, <2>5, <2>6, <2>7
<1> QED BY <1>7, <1>8

LEMMA StepReceiverSlice == ExtensionOK /\ ReceiverSlice => ExtensionOK'
<1> SUFFICES ASSUME ExtensionOK, ReceiverSlice, NEW n, n = Size(r), NEW b, b = r.slice,
                    NEW w, w = AfterSlice(r), NEW l, l = Len1(n), NEW d, d = b * l
             PROVE  ExtensionOK'
  OBVIOUS
<1>1. /\ PlacesOK /\ LagOK /\ ReceiverOK /\ SenderOK /\ MessagesOK /\ WiresOK
  BY DEF ExtensionOK
<1>2. /\ program \in Programs /\ passive \in BOOLEAN /\ PlaceOK(r) /\ PlaceOK(s)
      /\ r.pc = "slices" /\ r_used \in Nat /\ s_used \in Nat /\ r.ext \in Nat /\ s.ext \in Nat
  BY <1>1 DEF PlacesOK, ReceiverSlice, PlaceOK
<1>3. /\ n \in Nat /\ n > 0 /\ b \in Nat /\ K \in Nat /\ slice(n) \in Nat
      /\ l \in Nat /\ nOTs(n) \in Nat /\ d \in Nat
      /\ b < nsubloops /\ nsubloops \in Nat
      /\ Steps(r) = b /\ RowsDone(r) = d /\ d + l <= nOTs(n)
      /\ PlaceOK(w) /\ w.ext = r.ext /\ Size(w) = n
      /\ w.pc \in {"slices", "check", "keys"}
      /\ Steps(w) = b + 1 /\ RowsDone(w) = d + l
  BY <1>2, OneSlice
<1>4. Rows(n, b) = d + 1 .. d + l /\ b * slice(n) * K = d /\ slice(n) * K = l
  BY <1>3, RowsOfSlice DEF Len1
<1>5. PICK m : /\ to_s' = Append(to_s, m)
               /\ \A i \in Rows(n, b) :
                    m[i] = xor_block(xor_block(Expand(Column(0), r_used + (i - b * slice(n) * K)),
                                               Expand(Column(1), r_used + (i - b * slice(n) * K))),
                                     If(x[i], Bits))
  BY DEF ReceiverSlice
<1>6. /\ UNCHANGED setup /\ s' = s /\ to_r' = to_r /\ wires' = wires
      /\ s_used' = s_used /\ q' = q /\ inputs' = inputs /\ x' = x
      /\ r_used' = r_used + l /\ r' = w
  BY <1>4 DEF ReceiverSlice, sender
<1>7. t' = [i \in DOMAIN t |-> IF i \in Rows(n, b)
                                 THEN Expand(Column(0), r_used + (i - b * slice(n) * K)) ELSE t[i]]
  BY DEF ReceiverSlice
<1>8. /\ program' = program /\ passive' = passive /\ delta' = delta /\ Promised' = Promised
      /\ nsubloops' = nsubloops /\ \A z : nOTs(z)' = nOTs(z) /\ Column(z)' = Column(z)
      /\ \A z, y : Rows(z, y)' = Rows(z, y)
  BY <1>6, Frame
<1>9. Steps(r)' = b + 1 /\ RowsDone(r)' = d + l /\ Size(r)' = n /\ PlaceOK(r)'
  BY <1>3, <1>6, ReceiverAt
<1>10. /\ Steps(s)' = Steps(s) /\ RowsDone(s)' = RowsDone(s) /\ Size(s)' = Size(s) /\ PlaceOK(s)'
  BY <1>2, <1>6, SenderKept
<1>11. s.ext = r.ext /\ Steps(s) + Len(to_s) = b /\ s_used + d = r_used + RowsDone(s)
  BY <1>1, <1>2, <1>3 DEF LagOK
<1>12. Pos' = Pos /\ Pos = r_used - d
  BY <1>2, <1>3, <1>6, <1>9 DEF Pos
<1>13. /\ IsSeq(to_s') /\ Len(to_s') = Len(to_s) + 1 /\ Len(to_s) \in Nat
       /\ \A k \in 1 .. Len(to_s) : to_s'[k] = to_s[k]
       /\ to_s'[Len(to_s) + 1] = m
  BY <1>1, <1>5, SeqAppend, SeqLen DEF LagOK
<1>14. Steps(s) \in Nat /\ RowsDone(s) \in Nat
  BY <1>2, Progress
<1>15. PlacesOK'
  BY <1>1, <1>2, <1>3, <1>6, <1>8, <1>9, <1>10 DEF PlacesOK
<1>16. LagOK'
  <2>1. Steps(s)' + Len(to_s') = Steps(r)'
    BY <1>9, <1>10, <1>11, <1>13, <1>14, <1>3
  <2>2. s_used' + RowsDone(r)' = r_used' + RowsDone(s)'
    <3>1. s_used + (d + l) = (r_used + l) + RowsDone(s)
      <4>1. d \in Nat /\ l \in Nat /\ r_used \in Nat /\ s_used \in Nat /\ RowsDone(s) \in Nat
        BY <1>2, <1>3, <1>14
      <4>2. s_used + d = r_used + RowsDone(s)
        BY <1>11
      <4> QED BY <4>1, <4>2
    <3> QED BY <1>6, <1>9, <1>10, <3>1
  <2>3. r'.ext = r.ext /\ s'.ext = s.ext
    BY <1>3, <1>6
  <2> QED BY <1>1, <1>2, <1>3, <1>6, <1>11, <1>13, <2>1, <2>2, <2>3 DEF LagOK
<1>17. /\ inputs \in [1 .. n -> BOOLEAN] /\ x = Padded(r.ext, n, inputs) /\ DOMAIN t = 1 .. nOTs(n)
       /\ \A i \in 1 .. d : t[i] = Expand(Column(0), Pos + i)
  BY <1>1, <1>2, <1>3 DEF ReceiverOK
<1>18. \A i \in 1 .. d : t'[i] = t[i]
  <2> SUFFICES ASSUME NEW i \in 1 .. d PROVE t'[i] = t[i]
    OBVIOUS
  <2>1. d \in Nat /\ l \in Nat /\ nOTs(n) \in Nat /\ d + l <= nOTs(n)
    BY <1>3
  <2>2. i \in 1 .. nOTs(n) /\ i \notin d + 1 .. d + l
    BY <2>1
  <2> QED BY <1>4, <1>7, <1>17, <2>2
<1>19. \A i \in 1 .. d + l : t'[i] = Expand(Column(0), Pos + i)
  <2> SUFFICES ASSUME NEW i \in 1 .. d + l PROVE t'[i] = Expand(Column(0), Pos + i)
    OBVIOUS
  <2>1. CASE i \in 1 .. d
    BY <1>17, <1>18, <2>1
  <2>2. CASE i \notin 1 .. d
    <3>0. d \in Nat /\ l \in Nat /\ nOTs(n) \in Nat /\ d + l <= nOTs(n)
      BY <1>3
    <3>1. i \in d + 1 .. d + l /\ i \in 1 .. nOTs(n)
      BY <3>0, <2>2
    <3>2. r_used + (i - b * slice(n) * K) = Pos + i
      BY <1>2, <1>3, <1>4, <1>12
    <3> QED BY <1>4, <1>7, <1>17, <3>1, <3>2
  <2> QED BY <2>1, <2>2
<1>20. ReceiverOK'
  <2>1. DOMAIN t' = 1 .. nOTs(n)
    BY <1>7, <1>17
  <2>2. Padded(r.ext, Size(r), inputs)' = Padded(r.ext, n, inputs)
    BY <1>3, <1>6, <1>8, <1>9 DEF Padded
  <2>3. nOTs(Size(r))' = nOTs(n)
    BY <1>8, <1>9
  <2>4. \A i \in 1 .. RowsDone(r)' : t'[i] = Expand(Column(0)', Pos' + i)
    BY <1>8, <1>9, <1>12, <1>19
  <2> QED BY <1>6, <1>9, <1>17, <2>1, <2>2, <2>3, <2>4 DEF ReceiverOK
<1>21. SenderOK'
  <2>1. nOTs(Size(s))' = nOTs(Size(s))
    BY <1>6, <1>10, Frame
  <2>2. RowsDone(s) <= d
    <3>1. CASE s.pc = "slices"
      <4>1. Steps(s) = s.slice /\ s.slice \in Nat /\ Size(s) = n /\ RowsDone(s) = s.slice * l
        BY <1>2, <1>11, <3>1 DEF PlaceOK, Steps, RowsDone, Size
      <4>2. s.slice <= b
        BY <1>11, <1>13, <4>1
      <4>3. CASE s.slice = b
        BY <1>3, <4>1, <4>3
      <4>4. CASE s.slice < b
        BY <1>3, <4>1, <4>4, SliceOrder
      <4> QED BY <1>3, <4>1, <4>2, <4>3, <4>4
    <3>2. CASE s.pc # "slices"
      <4>1. Steps(s) <= b /\ Finish >= nsubloops
        BY <1>3, <1>11, <1>13, <1>14 DEF Finish
      <4>2. Steps(s) = 0
        BY <1>3, <3>2, <4>1 DEF Steps, Finish
      <4> QED BY <1>2, <1>3, <4>2, Progress
    <3> QED BY <3>1, <3>2
  <2>3. ASSUME NEW i \in 1 .. RowsDone(s), Related(i)
        PROVE  Related(i)'
    <3>1. t'[i] = t[i]
      BY <1>3, <1>14, <1>18, <2>2, <2>3
    <3> QED BY <1>6, <1>8, <2>3, <3>1 DEF Related
  <2>4. Promised => \A i \in 1 .. RowsDone(s) : Related(i)
    BY <1>1, <1>11 DEF SenderOK
  <2>5. s'.pc # "idle" /\ Size(s)' > 0 => DOMAIN q' = 1 .. nOTs(Size(s))'
    BY <1>1, <1>6, <1>10, <2>1 DEF SenderOK
  <2> QED BY <1>8, <1>10, <2>3, <2>4, <2>5 DEF SenderOK
<1>22. MessagesOK'
  <2>1. \A u, a : SliceOK(u, a)' = SliceOK(u, a)
    BY <1>6, <1>8, <1>9, <1>12 DEF SliceOK
  <2>2. SliceOK(m, b)
    <3> SUFFICES ASSUME NEW i \in Rows(n, b)
                 PROVE  m[i] = xor_block(xor_block(Expand(Column(0), Pos + i),
                                                   Expand(Column(1), Pos + i)), If(x[i], Bits))
      BY DEF SliceOK, IsSlice
    <3>1. i \in Int
      BY <1>3, <1>4
    <3>2. r_used + (i - b * slice(n) * K) = Pos + i
      BY <1>2, <1>3, <1>4, <1>12, <3>1
    <3> QED BY <1>5, <3>2
  <2>3. ASSUME NEW k \in 1 .. Len(to_s'), Steps(s) + k <= nsubloops
        PROVE  SliceOK(to_s[k], Steps(s) + k - 1)'
    <3>1. CASE k = Len(to_s) + 1
      <4>0. Steps(s) + (Len(to_s) + 1) - 1 = b
        BY <1>11, <1>13, <1>14
      <4>1. to_s'[k] = m /\ Steps(s) + k - 1 = b
        BY <1>13, <3>1, <4>0
      <4>2. SliceOK(to_s[k], Steps(s) + k - 1)' <=> SliceOK(m, b)'
        BY <1>10, <4>1 DEF SliceOK
      <4> QED BY <2>1, <2>2, <4>2
    <3>2. CASE k # Len(to_s) + 1
      <4>1. k \in 1 .. Len(to_s) /\ to_s'[k] = to_s[k]
        BY <1>13, <2>3, <3>2
      <4>2. SliceOK(to_s[k], Steps(s) + k - 1)
        BY <1>1, <1>11, <2>3, <4>1 DEF MessagesOK
      <4>3. PICK u, a : u = to_s[k] /\ a = Steps(s) + k - 1
        OBVIOUS
      <4>4. SliceOK(to_s[k], Steps(s) + k - 1)' <=> SliceOK(u, a)'
        BY <1>10, <4>1, <4>3 DEF SliceOK
      <4> QED BY <2>1, <4>2, <4>3, <4>4
    <3> QED BY <3>1, <3>2
  <2>4. s'.ext = r'.ext
    BY <1>3, <1>6, <1>11
  <2>5. ~ s'.ext > r'.ext
    BY <1>2, <1>6, <2>4
  <2> QED BY <1>8, <1>10, <2>3, <2>4, <2>5 DEF MessagesOK
<1>23. WiresOK'
  BY <1>1, <1>3, <1>6, <1>8 DEF WiresOK, LabelsOfInputs
<1> QED BY <1>15, <1>16, <1>20, <1>21, <1>22, <1>23 DEF ExtensionOK

(* Who has dealt with message b + 1 of an extension has the rows of slice b. *)
LEMMA RowsFollow ==
    ASSUME program \in Programs, passive \in BOOLEAN, NEW p, PlaceOK(p), NEW b \in Nat,
           b < nsubloops, Steps(p) >= b + 1, NEW n, n = program.n[p.ext], NEW l, l = Len1(n)
    PROVE  p.pc # "idle" /\ n > 0 /\ RowsDone(p) >= b * l + l /\ RowsDone(p) <= nOTs(n)
<1>1. nsubloops \in Nat
  BY Numbers
<1>2. p.pc # "idle" /\ n > 0 /\ n = Size(p) /\ p.ext \in DOMAIN program.n
  BY Progress DEF PlaceOK, Size
<1>3. l \in Nat /\ nOTs(n) = nsubloops * l /\ nOTs(n) \in Nat
  BY <1>2, SlicesFit
<1>4. CASE p.pc = "slices"
  <2>1. RowsDone(p) = p.slice * l /\ Steps(p) = p.slice /\ p.slice \in Nat /\ p.slice < nsubloops
    BY <1>2, <1>4 DEF RowsDone, Steps, PlaceOK
  <2>2. b < p.slice
    BY <2>1
  <2>3. p.slice * l >= b * l + l
    BY <1>3, <2>1, <2>2, SliceOrder
  <2>4. p.slice * l + l <= nOTs(n) /\ p.slice * l \in Nat
    BY <1>1, <1>3, <2>1, SliceOrder
  <2>5. RowsDone(p) >= b * l + l
    BY <2>1, <2>3
  <2>6. RowsDone(p) <= nOTs(n)
    <3> DEFINE z == p.slice * l
    <3>1. z + l <= nOTs(n) /\ z \in Nat /\ l \in Nat /\ nOTs(n) \in Nat /\ RowsDone(p) = z
      BY <1>3, <2>1, <2>4
    <3> HIDE DEF z
    <3> QED BY <3>1
  <2> QED BY <1>2, <2>5, <2>6
<1>5. CASE p.pc # "slices"
  <2>1. p.pc \in {"check", "keys", "throws", "aborts"}
    BY <1>2, <1>5 DEF PlaceOK
  <2>2. RowsDone(p) = nOTs(n)
    BY <1>2, <2>1 DEF RowsDone
  <2>3. nOTs(n) >= b * l + l
    <3>1. b * l + l <= nsubloops * l
      BY <1>1, <1>3, SliceOrder
    <3> QED BY <1>3, <3>1
  <2> QED BY <1>2, <1>3, <2>2, <2>3
<1> QED BY <1>4, <1>5

LEMMA StepSenderSlice == ExtensionOK /\ SenderSlice => ExtensionOK'
<1> SUFFICES ASSUME ExtensionOK, SenderSlice, NEW n, n = Size(s), NEW b, b = s.slice,
                    NEW w, w = AfterSlice(s), NEW l, l = Len1(n), NEW u, u = Head(to_s)
             PROVE  ExtensionOK'
  OBVIOUS
<1>0. PICK d : d = b * l
  OBVIOUS
<1>1. /\ PlacesOK /\ LagOK /\ ReceiverOK /\ SenderOK /\ MessagesOK /\ WiresOK
  BY DEF ExtensionOK
<1>2. /\ program \in Programs /\ passive \in BOOLEAN /\ PlaceOK(r) /\ PlaceOK(s) /\ delta \in Key
      /\ s.pc = "slices" /\ r_used \in Nat /\ s_used \in Nat /\ r.ext \in Nat /\ s.ext \in Nat
      /\ to_s # <<>>
  BY <1>1 DEF PlacesOK, SenderSlice, PlaceOK
<1>3. /\ n \in Nat /\ n > 0 /\ b \in Nat /\ K \in Nat /\ slice(n) \in Nat
      /\ l \in Nat /\ nOTs(n) \in Nat /\ d \in Nat
      /\ b < nsubloops /\ nsubloops \in Nat
      /\ Steps(s) = b /\ RowsDone(s) = d /\ d + l <= nOTs(n)
      /\ PlaceOK(w) /\ w.ext = s.ext /\ Size(w) = n
      /\ w.pc \in {"slices", "check", "keys"}
      /\ Steps(w) = b + 1 /\ RowsDone(w) = d + l
  BY <1>0, <1>2, OneSlice
<1>4. Rows(n, b) = d + 1 .. d + l /\ b * slice(n) * K = d /\ slice(n) * K = l
  BY <1>0, <1>3, RowsOfSlice DEF Len1
<1>5. /\ UNCHANGED setup /\ r' = r /\ to_r' = to_r /\ wires' = wires
      /\ r_used' = r_used /\ inputs' = inputs /\ x' = x /\ t' = t
      /\ s_used' = s_used + l /\ s' = w /\ to_s' = Tail(to_s)
  BY <1>4 DEF SenderSlice, receiver, SenderUsed
<1>6. q' = [i \in DOMAIN q |-> IF i \in Rows(n, b)
              THEN conditional_add(Expand(G_receiver, s_used + (i - b * slice(n) * K)), u[i])
              ELSE q[i]]
  BY DEF SenderSlice
<1>7. /\ program' = program /\ passive' = passive /\ delta' = delta /\ Promised' = Promised
      /\ nsubloops' = nsubloops /\ \A z : nOTs(z)' = nOTs(z)
  BY <1>5, Frame
<1>8. Steps(s)' = b + 1 /\ RowsDone(s)' = d + l /\ Size(s)' = n /\ PlaceOK(s)'
  BY <1>3, <1>5, SenderAt
<1>9. /\ Steps(r)' = Steps(r) /\ RowsDone(r)' = RowsDone(r) /\ Size(r)' = Size(r) /\ PlaceOK(r)'
      /\ \A v, a : SliceOK(v, a)' = SliceOK(v, a)
  BY <1>2, <1>5, ReceiverKept
<1>10. /\ IsSeq(to_s') /\ Len(to_s') = Len(to_s) - 1 /\ u = to_s[1]
       /\ Len(to_s) \in Nat /\ Len(to_s) > 0
       /\ \A k \in 1 .. Len(to_s) - 1 : to_s'[k] = to_s[k + 1]
  BY <1>1, <1>2, <1>5, SeqTail, SeqLen DEF LagOK
<1>11. s.ext = r.ext /\ b + Len(to_s) = Steps(r) /\ s_used + RowsDone(r) = r_used + d
  BY <1>1, <1>2, <1>3 DEF LagOK
<1>12. Steps(r) \in Nat /\ RowsDone(r) \in Nat
  BY <1>2, Progress
<1>13. r.pc # "idle" /\ Size(r) = n /\ RowsDone(r) >= d + l
  <2>1. Steps(r) >= b + 1
    BY <1>3, <1>10, <1>11
  <2>2. n = program.n[r.ext] /\ Size(r) = n
    BY <1>11 DEF Size
  <2> QED BY <1>0, <1>2, <1>3, <2>1, <2>2, RowsFollow
<1>14. PlacesOK'
  <2>1. s_used' \in Nat /\ r_used' \in Nat
    BY <1>2, <1>3, <1>5
  <2>2. r'.pc # "throws"
    BY <1>1, <1>5 DEF PlacesOK
  <2> QED BY <1>2, <1>3, <1>5, <1>7, <1>8, <1>9, <2>1, <2>2 DEF PlacesOK
<1>15. LagOK'
  <2>1. Steps(s)' + Len(to_s') = Steps(r)'
    BY <1>3, <1>8, <1>9, <1>10, <1>11
  <2>2. s_used' + RowsDone(r)' = r_used' + RowsDone(s)'
    <3>1. (s_used + l) + RowsDone(r) = r_used + (d + l)
      <4>1. d \in Nat /\ l \in Nat /\ r_used \in Nat /\ s_used \in Nat
        BY <1>2, <1>3
      <4>2. s_used + RowsDone(r) = r_used + d /\ RowsDone(r) \in Nat
        BY <1>11, <1>12
      <4> QED BY <4>1, <4>2
    <3> QED BY <1>5, <1>8, <1>9, <3>1
  <2>3. r'.ext = r.ext /\ s'.ext = s.ext
    BY <1>3, <1>5
  <2> QED BY <1>1, <1>2, <1>5, <1>10, <1>11, <2>1, <2>2, <2>3 DEF LagOK
<1>16. ReceiverOK'
  BY <1>1, <1>5, ReceiverKept
<1>17. DOMAIN q = 1 .. nOTs(n) /\ (Promised => \A i \in 1 .. d : Related(i))
  BY <1>1, <1>2, <1>3, <1>11 DEF SenderOK
<1>18. SliceOK(u, b)
  <2>1. 1 \in 1 .. Len(to_s) /\ b + 1 <= nsubloops /\ b + 1 - 1 = b
    BY <1>3, <1>10
  <2>2. SliceOK(to_s[1], b + 1 - 1)
    BY <1>1, <1>3, <1>11, <2>1 DEF MessagesOK
  <2> QED BY <1>10, <2>1, <2>2
<1>19. SenderOK'
  <2>1. ASSUME Promised, NEW i \in 1 .. d + l
        PROVE  Related(i)'
    <3>0. d \in Nat /\ l \in Nat /\ nOTs(n) \in Nat /\ d + l <= nOTs(n)
      BY <1>3
    <3>1. i \in 1 .. nOTs(n) /\ (i \in 1 .. d \/ i \in d + 1 .. d + l)
      BY <3>0
    <3>2. CASE i \in 1 .. d
      <4>1. i \notin d + 1 .. d + l
        BY <3>0, <3>2
      <4>2. q'[i] = q[i]
        BY <1>4, <1>6, <1>17, <3>1, <4>1
      <4>3. Related(i)
        BY <1>17, <2>1, <3>2
      <4> QED BY <1>5, <1>7, <4>2, <4>3 DEF Related
    <3>3. CASE i \in d + 1 .. d + l
      <4>1. i \in Rows(n, b) /\ i \in DOMAIN q
        BY <1>4, <1>17, <3>1, <3>3
      <4>2. s_used + (i - b * slice(n) * K) = Pos + i
        <5>1. r_used \in Nat /\ s_used \in Nat /\ RowsDone(r) \in Nat
          BY <1>2, <1>12
        <5>2. i \in Nat
          BY <3>0
        <5>3. s_used + RowsDone(r) = r_used + d
          BY <1>11
        <5>4. s_used + (i - d) = (r_used - RowsDone(r)) + i
          BY <3>0, <5>1, <5>2, <5>3
        <5> QED BY <1>4, <5>4 DEF Pos
      <4>3. q'[i] = conditional_add(Expand(G_receiver, Pos + i), u[i])
        BY <1>6, <4>1, <4>2
      <4>4. u[i] = xor_block(xor_block(Expand(Column(0), Pos + i), Expand(Column(1), Pos + i)),
                             If(x[i], Bits))
        BY <1>13, <1>18, <4>1 DEF SliceOK, IsSlice
      <4>5. q'[i] = xor_block(Expand(Column(0), Pos + i), If(x[i], delta))
        BY <1>2, <2>1, <4>3, <4>4, RowOfSender
      <4>6. t[i] = Expand(Column(0), Pos + i)
        <5>1. i \in 1 .. RowsDone(r)
          BY <1>12, <1>13, <3>0
        <5> QED BY <1>1, <1>3, <1>13, <5>1 DEF ReceiverOK
      <4> QED BY <1>5, <1>7, <4>5, <4>6 DEF Related
    <3> QED BY <3>1, <3>2, <3>3
  <2>2. DOMAIN q' = 1 .. nOTs(Size(s))'
    <3>1. nOTs(Size(s))' = nOTs(n)
      BY <1>7, <1>8
    <3> QED BY <1>6, <1>17, <3>1
  <2> QED BY <1>7, <1>8, <2>1, <2>2 DEF SenderOK
<1>20. MessagesOK'
  <2>1. ASSUME NEW k \in 1 .. Len(to_s'), Steps(s)' + k <= nsubloops
        PROVE  SliceOK(to_s[k], Steps(s) + k - 1)'
    <3>1. k \in 1 .. Len(to_s) - 1 /\ k + 1 \in 1 .. Len(to_s) /\ to_s'[k] = to_s[k + 1]
      BY <1>10
    <3>2. b + (k + 1) <= nsubloops
      BY <1>3, <1>8, <2>1
    <3>3. SliceOK(to_s[k + 1], b + (k + 1) - 1)
      BY <1>1, <1>3, <1>11, <3>1, <3>2 DEF MessagesOK
    <3>4. PICK v, a : v = to_s[k + 1] /\ a = b + (k + 1) - 1
      OBVIOUS
    <3>5. Steps(s)' + k - 1 = a
      BY <1>3, <1>8, <3>4
    <3>6. SliceOK(to_s[k], Steps(s) + k - 1)' <=> SliceOK(v, a)'
      BY <3>1, <3>4, <3>5 DEF SliceOK
    <3> QED BY <1>9, <3>3, <3>4, <3>6
  <2>2. s'.ext = r'.ext /\ r'.ext \in Nat
    BY <1>2, <1>3, <1>5, <1>11
  <2>3. ~ s'.ext > r'.ext
    BY <2>2
  <2> QED BY <1>7, <2>1, <2>2, <2>3 DEF MessagesOK
<1>21. WiresOK'
  BY <1>1, <1>5, <1>7 DEF WiresOK, LabelsOfInputs
<1> QED BY <1>14, <1>15, <1>16, <1>19, <1>20, <1>21 DEF ExtensionOK

(* The check is one message and no rows.                                   *)
LEMMA OneCheck ==
    ASSUME program \in Programs, passive \in BOOLEAN, NEW p, PlaceOK(p), p.pc = "check",
           NEW c \in {"keys", "throws"}, NEW w, w = At(c, p.ext, 0)
    PROVE  /\ PlaceOK(w) /\ Size(w) = Size(p) /\ Size(p) > 0 /\ w.ext = p.ext /\ w.pc = c
           /\ nsubloops \in Nat /\ Steps(p) = nsubloops /\ Steps(w) = nsubloops + 1
           /\ RowsDone(w) = RowsDone(p)
<1>1. p.ext \in DOMAIN program.n /\ Size(p) > 0 /\ ~ passive /\ p.ext \in Nat \ {0}
  BY DEF PlaceOK
<1>2. w = [pc |-> c, ext |-> p.ext, slice |-> 0]
  BY DEF At
<1>3. Size(w) = Size(p) /\ w.ext = p.ext /\ w.pc = c /\ w.slice = 0
  BY <1>2 DEF Size
<1>4. PlaceOK(w)
  BY <1>1, <1>2, <1>3 DEF PlaceOK
<1>5. Steps(p) = nsubloops /\ Steps(w) = nsubloops + 1
  BY <1>1, <1>3 DEF Steps, Finish
<1>6. RowsDone(p) = nOTs(Size(p)) /\ RowsDone(w) = nOTs(Size(p))
  BY <1>1, <1>3 DEF RowsDone
<1> QED BY <1>1, <1>3, <1>4, <1>5, <1>6, Numbers

LEMMA StepReceiverCheck == ExtensionOK /\ ReceiverCheck => ExtensionOK'
<1> SUFFICES ASSUME ExtensionOK, ReceiverCheck, NEW w, w = At("keys", r.ext, 0)
             PROVE  ExtensionOK'
  OBVIOUS
<1>1. /\ PlacesOK /\ LagOK /\ ReceiverOK /\ SenderOK /\ MessagesOK /\ WiresOK
  BY DEF ExtensionOK
<1>2. /\ program \in Programs /\ passive \in BOOLEAN /\ PlaceOK(r) /\ PlaceOK(s)
      /\ r.pc = "check" /\ r_used \in Nat /\ s_used \in Nat /\ r.ext \in Nat /\ s.ext \in Nat
  BY <1>1 DEF PlacesOK, ReceiverCheck, PlaceOK
<1>3. /\ PlaceOK(w) /\ Size(w) = Size(r) /\ Size(r) > 0 /\ w.ext = r.ext /\ w.pc = "keys"
      /\ nsubloops \in Nat /\ Steps(r) = nsubloops /\ Steps(w) = nsubloops + 1
      /\ RowsDone(w) = RowsDone(r)
  BY <1>2, OneCheck
<1>4. PICK m : to_s' = Append(to_s, m)
  BY DEF ReceiverCheck
<1>5. /\ UNCHANGED setup /\ s' = s /\ to_r' = to_r /\ wires' = wires
      /\ s_used' = s_used /\ r_used' = r_used /\ q' = q /\ inputs' = inputs /\ x' = x /\ t' = t
      /\ r' = w
  BY DEF ReceiverCheck, sender
<1>6. /\ program' = program /\ passive' = passive /\ delta' = delta /\ Promised' = Promised
      /\ nsubloops' = nsubloops /\ \A z : nOTs(z)' = nOTs(z) /\ Column(z)' = Column(z)
      /\ \A z, y : Rows(z, y)' = Rows(z, y)
  BY <1>5, Frame
<1>7. /\ Steps(r)' = nsubloops + 1 /\ RowsDone(r)' = RowsDone(r) /\ Size(r)' = Size(r)
      /\ PlaceOK(r)'
  BY <1>3, <1>5, ReceiverAt
<1>8. /\ Steps(s)' = Steps(s) /\ RowsDone(s)' = RowsDone(s) /\ Size(s)' = Size(s) /\ PlaceOK(s)'
  BY <1>2, <1>5, SenderKept
<1>9. /\ s.ext = r.ext /\ Steps(s) + Len(to_s) = nsubloops
      /\ s_used + RowsDone(r) = r_used + RowsDone(s)
  BY <1>1, <1>2, <1>3 DEF LagOK
<1>10. /\ IsSeq(to_s') /\ Len(to_s') = Len(to_s) + 1 /\ Len(to_s) \in Nat
       /\ \A k \in 1 .. Len(to_s) : to_s'[k] = to_s[k]
  BY <1>1, <1>4, SeqAppend, SeqLen DEF LagOK
<1>11. Steps(s) \in Nat
  BY <1>2, Progress
<1>12. Pos' = Pos
  BY <1>5, <1>7 DEF Pos
<1>13. PlacesOK'
  BY <1>1, <1>2, <1>3, <1>5, <1>6, <1>7, <1>8 DEF PlacesOK
<1>14. LagOK'
  <2>1. Steps(s)' + Len(to_s') = Steps(r)'
    BY <1>3, <1>7, <1>8, <1>9, <1>10, <1>11
  <2>2. s_used' + RowsDone(r)' = r_used' + RowsDone(s)'
    BY <1>5, <1>7, <1>8, <1>9
  <2>3. r'.ext = r.ext /\ s'.ext = s.ext
    BY <1>3, <1>5
  <2> QED BY <1>1, <1>2, <1>3, <1>5, <1>9, <1>10, <2>1, <2>2, <2>3 DEF LagOK
<1>15. ReceiverOK'
  <2>1. Padded(r.ext, Size(r), inputs)' = Padded(r.ext, Size(r), inputs)
    BY <1>3, <1>5, <1>6, <1>7 DEF Padded
  <2>2. nOTs(Size(r))' = nOTs(Size(r))
    BY <1>6, <1>7
  <2> QED BY <1>1, <1>2, <1>5, <1>6, <1>7, <1>12, <2>1, <2>2 DEF ReceiverOK
<1>16. SenderOK'
  <2>1. nOTs(Size(s))' = nOTs(Size(s))
    BY <1>6, <1>8
  <2>2. \A i : Related(i)' <=> Related(i)
    BY <1>5, <1>6 DEF Related
  <2> QED BY <1>1, <1>5, <1>6, <1>8, <1>9, <2>1, <2>2 DEF SenderOK
<1>17. MessagesOK'
  <2>1. ASSUME NEW k \in 1 .. Len(to_s'), Steps(s)' + k <= nsubloops
        PROVE  SliceOK(to_s[k], Steps(s) + k - 1)'
    <3>1. k \in 1 .. Len(to_s) /\ to_s'[k] = to_s[k] /\ Steps(s) + k <= nsubloops
      BY <1>8, <1>9, <1>10, <1>11, <2>1
    <3>2. PICK v, a : v = to_s[k] /\ a = Steps(s) + k - 1
      OBVIOUS
    <3>3. SliceOK(v, a)
      BY <1>1, <1>9, <3>1, <3>2 DEF MessagesOK
    <3>4. SliceOK(v, a)' <=> SliceOK(v, a)
      BY <1>5, <1>6, <1>7, <1>12 DEF SliceOK
    <3>5. SliceOK(to_s[k], Steps(s) + k - 1)' <=> SliceOK(v, a)'
      BY <1>8, <3>1, <3>2 DEF SliceOK
    <3> QED BY <3>3, <3>4, <3>5
  <2>2. s'.ext = r'.ext /\ r'.ext \in Nat
    BY <1>2, <1>3, <1>5, <1>9
  <2>3. ~ s'.ext > r'.ext
    BY <2>2
  <2> QED BY <1>6, <2>1, <2>2, <2>3 DEF MessagesOK
<1>18. WiresOK'
  BY <1>1, <1>3, <1>5, <1>6 DEF WiresOK, LabelsOfInputs
<1> QED BY <1>13, <1>14, <1>15, <1>16, <1>17, <1>18 DEF ExtensionOK

LEMMA StepSenderCheck == ExtensionOK /\ SenderCheck => ExtensionOK'
<1> SUFFICES ASSUME ExtensionOK, SenderCheck PROVE ExtensionOK'
  OBVIOUS
<1>1. /\ PlacesOK /\ LagOK /\ ReceiverOK /\ SenderOK /\ MessagesOK /\ WiresOK
  BY DEF ExtensionOK
<1>2. /\ program \in Programs /\ passive \in BOOLEAN /\ PlaceOK(r) /\ PlaceOK(s)
      /\ s.pc = "check" /\ r_used \in Nat /\ s_used \in Nat /\ r.ext \in Nat /\ s.ext \in Nat
      /\ to_s # <<>>
  BY <1>1 DEF PlacesOK, SenderCheck, PlaceOK
<1>3. PICK c \in {"keys", "throws"} : s' = At(c, s.ext, 0)
  BY DEF SenderCheck
<1>4. PICK w : w = At(c, s.ext, 0)
  OBVIOUS
<1>5. /\ PlaceOK(w) /\ Size(w) = Size(s) /\ Size(s) > 0 /\ w.ext = s.ext /\ w.pc = c
      /\ nsubloops \in Nat /\ Steps(s) = nsubloops /\ Steps(w) = nsubloops + 1
      /\ RowsDone(w) = RowsDone(s)
  BY <1>2, <1>3, <1>4, OneCheck
<1>6. /\ UNCHANGED setup /\ r' = r /\ to_r' = to_r /\ wires' = wires
      /\ s_used' = s_used /\ r_used' = r_used /\ q' = q /\ inputs' = inputs /\ x' = x /\ t' = t
      /\ s' = w /\ to_s' = Tail(to_s)
  BY <1>3, <1>4 DEF SenderCheck, receiver
<1>7. /\ program' = program /\ passive' = passive /\ delta' = delta /\ Promised' = Promised
      /\ nsubloops' = nsubloops /\ \A z : nOTs(z)' = nOTs(z)
  BY <1>6, Frame
<1>8. /\ Steps(s)' = nsubloops + 1 /\ RowsDone(s)' = RowsDone(s) /\ Size(s)' = Size(s)
      /\ PlaceOK(s)'
  BY <1>5, <1>6, SenderAt
<1>9. /\ Steps(r)' = Steps(r) /\ RowsDone(r)' = RowsDone(r) /\ Size(r)' = Size(r) /\ PlaceOK(r)'
  BY <1>2, <1>6, ReceiverKept
<1>10. /\ IsSeq(to_s') /\ Len(to_s') = Len(to_s) - 1 /\ Len(to_s) \in Nat /\ Len(to_s) > 0
  BY <1>1, <1>2, <1>6, SeqTail, SeqLen DEF LagOK
<1>11. /\ s.ext = r.ext /\ nsubloops + Len(to_s) = Steps(r)
       /\ s_used + RowsDone(r) = r_used + RowsDone(s)
  BY <1>1, <1>2, <1>5 DEF LagOK
<1>12. PlacesOK'
  BY <1>1, <1>2, <1>5, <1>6, <1>7, <1>8, <1>9 DEF PlacesOK
<1>13. LagOK'
  <2>1. Steps(s)' + Len(to_s') = Steps(r)'
    BY <1>5, <1>8, <1>9, <1>10, <1>11
  <2>2. s_used' + RowsDone(r)' = r_used' + RowsDone(s)'
    BY <1>6, <1>8, <1>9, <1>11
  <2>3. r'.ext = r.ext /\ s'.ext = s.ext
    BY <1>5, <1>6
  <2> QED BY <1>1, <1>2, <1>6, <1>10, <1>11, <2>1, <2>2, <2>3 DEF LagOK
<1>14. ReceiverOK'
  BY <1>1, <1>6, ReceiverKept
<1>15. SenderOK'
  <2>1. nOTs(Size(s))' = nOTs(Size(s))
    BY <1>7, <1>8
  <2>2. \A i : Related(i)' <=> Related(i)
    BY <1>6, <1>7 DEF Related
  <2>3. DOMAIN q = 1 .. nOTs(Size(s)) /\ (Promised => \A i \in 1 .. RowsDone(s) : Related(i))
    BY <1>1, <1>2, <1>5, <1>11 DEF SenderOK
  <2> QED BY <1>6, <1>7, <1>8, <2>1, <2>2, <2>3 DEF SenderOK
<1>16. MessagesOK'
  <2>1. ASSUME NEW k \in 1 .. Len(to_s') PROVE ~ Steps(s)' + k <= nsubloops
    BY <1>5, <1>8, <1>10
  <2>2. s'.ext = r'.ext /\ r'.ext \in Nat
    BY <1>2, <1>5, <1>6, <1>11
  <2>3. ~ s'.ext > r'.ext
    BY <2>2
  <2> QED BY <1>7, <2>1, <2>2, <2>3 DEF MessagesOK
<1>17. WiresOK'
  BY <1>1, <1>6, <1>7 DEF WiresOK, LabelsOfInputs
<1> QED BY <1>12, <1>13, <1>14, <1>15, <1>16, <1>17 DEF ExtensionOK

(* An extension is over for a party that begins the next.                  *)
LEMMA NextExtension ==
    ASSUME program \in Programs, NEW p, PlaceOK(p), NEW w, w = At("idle", p.ext + 1, 0)
    PROVE  /\ PlaceOK(w) /\ w.ext = p.ext + 1 /\ w.pc = "idle" /\ Steps(w) = 0 /\ RowsDone(w) = 0
<1>1. w = [pc |-> "idle", ext |-> p.ext + 1, slice |-> 0] /\ p.ext \in Nat
  BY DEF At, PlaceOK
<1>2. PlaceOK(w)
  BY <1>1 DEF PlaceOK
<1> QED BY <1>1, <1>2, Progress

(* When the sender is done with an extension, so is the receiver, but for  *)
(* the labels.                                                             *)
LEMMA BothDone ==
    ASSUME program \in Programs, passive \in BOOLEAN, PlaceOK(r), PlaceOK(s),
           r.pc # "throws", r.pc # "aborts",
           s.pc = "keys", s.ext = r.ext, NEW k \in Nat, Steps(s) + k = Steps(r),
           NEW n, n = program.n[s.ext]
    PROVE  /\ k = 0 /\ RowsDone(r) = RowsDone(s)
           /\ IF r.pc = "idle" THEN n = 0 ELSE r.pc = "keys"
           /\ n > 0 => r.pc = "keys" /\ RowsDone(s) = nOTs(n)
<1>1. s.ext \in DOMAIN program.n /\ n = Size(s) /\ n = Size(r)
  BY DEF PlaceOK, Size
<1>2. n \in Nat /\ nsubloops \in Nat \ {0} /\ Finish \in Nat
  BY <1>1, Numbers
<1>3. Steps(r) \in Nat /\ Steps(s) \in Nat /\ Steps(r) <= Finish
  BY Progress
<1>4. CASE n = 0
  <2>1. Steps(s) = 0 /\ RowsDone(s) = 0
    BY <1>1, <1>4, Progress
  <2>2. Steps(r) = 0 /\ RowsDone(r) = 0
    BY <1>1, <1>4, Progress
  <2>3. r.pc # "idle" => r.pc = "keys"
    BY <1>1, <1>4 DEF PlaceOK
  <2> QED BY <1>4, <2>1, <2>2, <2>3
<1>5. CASE n > 0
  <2>1. Steps(s) = Finish /\ RowsDone(s) = nOTs(n)
    BY <1>1, <1>5 DEF Steps, RowsDone
  <2>2. k = 0 /\ Steps(r) = Finish
    BY <1>2, <1>3, <2>1
  <2>3. r.pc = "keys"
    BY <1>2, <2>2 DEF Steps, Finish, PlaceOK
  <2>4. RowsDone(r) = nOTs(n)
    BY <1>1, <1>5, <2>3 DEF RowsDone
  <2> QED BY <1>5, <2>1, <2>2, <2>3, <2>4
<1> QED BY <1>2, <1>4, <1>5

LEMMA StepSendLabels == ExtensionOK /\ SendLabels => ExtensionOK'
<1> SUFFICES ASSUME ExtensionOK, SendLabels, NEW w, w = At("idle", s.ext + 1, 0),
                    NEW n, n = program.n[s.ext]
             PROVE  ExtensionOK'
  OBVIOUS
<1>1. /\ PlacesOK /\ LagOK /\ ReceiverOK /\ SenderOK /\ MessagesOK /\ WiresOK
  BY DEF ExtensionOK
<1>2. /\ program \in Programs /\ passive \in BOOLEAN /\ PlaceOK(r) /\ PlaceOK(s)
      /\ s.pc = "keys" /\ r_used \in Nat /\ s_used \in Nat /\ r.ext \in Nat /\ s.ext \in Nat
      /\ r.pc # "throws" /\ s.ext \in DOMAIN program.n
  BY <1>1 DEF PlacesOK, SendLabels, PlaceOK
<1>3. PlaceOK(w) /\ w.ext = s.ext + 1 /\ w.pc = "idle" /\ Steps(w) = 0 /\ RowsDone(w) = 0
  BY <1>2, NextExtension
<1>4. PICK m : /\ to_r' = Append(to_r, m)
               /\ \A i \in 1 .. n : m[i] = xor_block(key(s.ext, i), q[i])
  <2> DEFINE m1 == [i \in 1 .. n |-> xor_block(key(s.ext, i), q[i])]
  <2>1. to_r' = Append(to_r, m1)
    BY DEF SendLabels, Size
  <2>2. \A i \in 1 .. n : m1[i] = xor_block(key(s.ext, i), q[i])
    OBVIOUS
  <2> HIDE DEF m1
  <2> QED BY <2>1, <2>2
<1>5. /\ UNCHANGED setup /\ r' = r /\ to_s' = to_s /\ wires' = wires
      /\ s_used' = s_used /\ r_used' = r_used /\ q' = q /\ inputs' = inputs /\ x' = x /\ t' = t
      /\ s' = w
  BY DEF SendLabels, receiver
<1>6. /\ program' = program /\ passive' = passive /\ delta' = delta /\ Promised' = Promised
  BY <1>5, Frame
<1>7. Steps(s)' = 0 /\ RowsDone(s)' = 0 /\ PlaceOK(s)'
  BY <1>3, <1>5, SenderAt
<1>8. PlaceOK(r)'
  BY <1>2, <1>5, ReceiverKept
<1>9. /\ IsSeq(to_s) /\ IsSeq(to_r) /\ Len(to_s) \in Nat /\ Len(to_r) \in Nat
      /\ r.ext <= s.ext /\ Len(to_r) = s.ext - r.ext
      /\ s.ext = r.ext => /\ Steps(s) + Len(to_s) = Steps(r)
                          /\ s_used + RowsDone(r) = r_used + RowsDone(s)
                          /\ r.pc # "aborts"
  BY <1>1, SeqLen DEF LagOK
<1>10. /\ IsSeq(to_r') /\ Len(to_r') = Len(to_r) + 1
       /\ \A k \in 1 .. Len(to_r) : to_r'[k] = to_r[k]
       /\ to_r'[Len(to_r) + 1] = m
  BY <1>4, <1>9, SeqAppend
<1>11. ASSUME s.ext = r.ext
       PROVE  /\ Len(to_s) = 0 /\ RowsDone(r) = RowsDone(s)
              /\ IF r.pc = "idle" THEN n = 0 ELSE r.pc = "keys"
              /\ n > 0 => r.pc = "keys" /\ RowsDone(s) = nOTs(n)
  BY <1>2, <1>9, <1>11, BothDone
<1>12. ASSUME s.ext # r.ext
       PROVE  /\ s.ext > r.ext /\ to_s = <<>> /\ s_used = r_used /\ n = 0
              /\ IF r.pc = "idle" THEN program.n[r.ext] = 0 ELSE r.pc \in {"keys", "aborts"}
              /\ \A e \in r.ext + 1 .. s.ext - 1 : program.n[e] = 0
  <2>1. s.ext > r.ext
    BY <1>2, <1>9, <1>12
  <2>2. Steps(s) = 0
    BY <1>1, <2>1 DEF LagOK
  <2>3. n = 0
    BY <1>2, <2>2, Progress DEF Size
  <2> QED BY <1>1, <2>1, <2>3 DEF LagOK
<1>13. PlacesOK'
  <2>1. r'.pc # "throws" /\ r_used' \in Nat /\ s_used' \in Nat /\ delta' \in Key
    BY <1>1, <1>2, <1>5, <1>6 DEF PlacesOK
  <2> QED BY <1>2, <1>3, <1>5, <1>6, <1>7, <1>8, <2>1 DEF PlacesOK
<1>14. LagOK'
  <2>1. s'.ext = s.ext + 1 /\ r'.ext = r.ext /\ r'.pc = r.pc
    BY <1>3, <1>5
  <2>2. r'.ext <= s'.ext /\ s'.ext > r'.ext /\ s'.ext # r'.ext /\ Len(to_r') = s'.ext - r'.ext
    BY <1>2, <1>9, <1>10, <2>1
  <2>3. to_s = <<>>
    BY <1>9, <1>11, <1>12, SeqLen
  <2>4. s_used = r_used
    <3>1. CASE s.ext = r.ext
      <4>1. s_used + RowsDone(s) = r_used + RowsDone(s) /\ RowsDone(s) \in Nat
        BY <1>2, <1>9, <1>11, <3>1, Progress
      <4> QED BY <1>2, <4>1
    <3> QED BY <1>12, <3>1
  <2>5. IF r.pc = "idle" THEN program.n[r.ext] = 0 ELSE r.pc \in {"keys", "aborts"}
    BY <1>11, <1>12
  <2>6. \A e \in r.ext + 1 .. (s.ext + 1) - 1 : program.n[e] = 0
    <3> SUFFICES ASSUME NEW e \in r.ext + 1 .. (s.ext + 1) - 1 PROVE program.n[e] = 0
      OBVIOUS
    <3>1. e \in r.ext + 1 .. s.ext - 1 \/ (e = s.ext /\ s.ext # r.ext)
      BY <1>2
    <3>2. s.ext # r.ext
      BY <1>2
    <3> QED BY <1>12, <3>1, <3>2
  <2> QED BY <1>5, <1>6, <1>7, <1>9, <1>10, <2>1, <2>2, <2>3, <2>4, <2>5, <2>6 DEF LagOK
<1>15. ReceiverOK'
  BY <1>1, <1>5, ReceiverKept
<1>16. SenderOK'
  <2>1. s'.pc = "idle" /\ s'.ext # r'.ext
    BY <1>2, <1>3, <1>5, <1>9
  <2> QED BY <2>1 DEF SenderOK
<1>17. MessagesOK'
  <2>1. s'.ext # r'.ext /\ r'.ext = r.ext
    BY <1>2, <1>3, <1>5, <1>9
  <2>2. ASSUME Promised, NEW i \in 1 .. program.n[r.ext]
        PROVE  to_r'[1][i] = xor_block(key(r.ext, i), xor_block(t[i], If(x[i], delta)))
    <3>1. CASE s.ext = r.ext
      <4>1. Len(to_r) + 1 = 1
        BY <1>2, <1>9, <3>1
      <4>2. to_r'[1] = m
        BY <1>10, <4>1
      <4>3. n \in Nat /\ i \in 1 .. n
        BY <1>2, <2>2, <3>1, Numbers
      <4>4. n > 0
        BY <4>3
      <4>5. n <= nOTs(n) - 2 * K /\ nOTs(n) \in Nat /\ K \in Nat
        BY <1>2, <4>4, SlicesFit, Numbers
      <4>6. i \in 1 .. RowsDone(s)
        BY <1>11, <3>1, <4>3, <4>4, <4>5
      <4>7. Related(i)
        BY <1>1, <2>2, <3>1, <4>6 DEF SenderOK
      <4>8. m[i] = xor_block(key(s.ext, i), q[i])
        BY <1>4, <4>3
      <4> QED BY <3>1, <4>2, <4>7, <4>8 DEF Related
    <3>2. CASE s.ext # r.ext
      <4>1. s.ext > r.ext /\ 1 \in 1 .. Len(to_r)
        BY <1>2, <1>9, <3>2
      <4>2. to_r'[1] = to_r[1]
        BY <1>10, <4>1
      <4> QED BY <1>1, <2>2, <4>1, <4>2 DEF MessagesOK
    <3> QED BY <3>1, <3>2
  <2> QED BY <1>5, <1>6, <2>1, <2>2 DEF MessagesOK
<1>18. WiresOK'
  BY <1>1, <1>5, <1>6 DEF WiresOK, LabelsOfInputs
<1> QED BY <1>13, <1>14, <1>15, <1>16, <1>17, <1>18 DEF ExtensionOK

(* The receiver of the labels is behind the sender.                        *)
LEMMA LabelsToCome ==
    ASSUME ExtensionOK, to_r # <<>>
    PROVE  /\ IsSeq(to_r) /\ Head(to_r) = to_r[1] /\ Len(to_r) \in Nat /\ Len(to_r) > 0
           /\ Len(to_r) = s.ext - r.ext /\ s.ext > r.ext
<1>1. IsSeq(to_r) /\ Len(to_r) = s.ext - r.ext /\ r.ext \in Nat /\ s.ext \in Nat
  BY DEF ExtensionOK, LagOK, PlacesOK, PlaceOK
<1>2. Head(to_r) = to_r[1] /\ Len(to_r) \in Nat /\ Len(to_r) > 0
  BY <1>1, SeqTail, SeqLen
<1> QED BY <1>1, <1>2

(* What it gets if the base transfers keep their promise.                  *)
LEMMA LabelsUnhidden ==
    ASSUME ExtensionOK, r.pc = "keys", to_r # <<>>, Promised, NEW n, n = Size(r), NEW i \in 1 .. n
    PROVE  /\ inputs[i] \in BOOLEAN
           /\ unhidden(i) = label_for_bit(key(r.ext, i), delta, inputs[i])
<1>1. PlacesOK /\ PlaceOK(r) /\ program \in Programs /\ ReceiverOK /\ MessagesOK
  BY DEF ExtensionOK, PlacesOK
<1>2. r.ext \in DOMAIN program.n /\ n = program.n[r.ext] /\ n \in Nat /\ n > 0
  BY <1>1, Numbers DEF PlaceOK, Size
<1>3. inputs \in [1 .. n -> BOOLEAN] /\ x = Padded(r.ext, n, inputs)
  BY <1>1, <1>2 DEF ReceiverOK
<1>4. n <= nOTs(n) - 2 * K /\ nOTs(n) \in Nat /\ K \in Nat
  BY <1>1, <1>2, SlicesFit, Numbers
<1>5. inputs[i] \in BOOLEAN /\ x[i] = inputs[i]
  BY <1>2, <1>3, <1>4, PaddedInputs
<1>6. Head(to_r)[i] = xor_block(key(r.ext, i), xor_block(t[i], If(x[i], delta)))
  BY <1>1, <1>2, LabelsToCome DEF MessagesOK
<1>7. unhidden(i) = xor_block(key(r.ext, i), If(x[i], delta))
  BY <1>6, Unhide DEF unhidden
<1> QED BY <1>5, <1>7 DEF label_for_bit

LEMMA StepGetLabels == ExtensionOK /\ GetLabels => ExtensionOK'
<1> SUFFICES ASSUME ExtensionOK, GetLabels, NEW w, w = At("idle", r.ext + 1, 0),
                    NEW n, n = program.n[r.ext]
             PROVE  ExtensionOK'
  OBVIOUS
<1>1. /\ PlacesOK /\ LagOK /\ ReceiverOK /\ SenderOK /\ MessagesOK /\ WiresOK
  BY DEF ExtensionOK
<1>2. /\ program \in Programs /\ passive \in BOOLEAN /\ PlaceOK(r) /\ PlaceOK(s)
      /\ r.pc = "keys" /\ r_used \in Nat /\ s_used \in Nat /\ r.ext \in Nat \ {0} /\ s.ext \in Nat
      /\ r.ext \in DOMAIN program.n /\ to_r # <<>> /\ n \in Nat
  BY <1>1, Numbers DEF PlacesOK, GetLabels, PlaceOK
<1>3. PlaceOK(w) /\ w.ext = r.ext + 1 /\ w.pc = "idle" /\ Steps(w) = 0 /\ RowsDone(w) = 0
  BY <1>2, NextExtension
<1>4. PICK m : /\ wires' = Append(wires, m)
               /\ \A i \in 1 .. n : m[i] = [label |-> xor_block(Head(to_r)[i], t[i]),
                                            value |-> inputs[i]]
  <2> DEFINE m1 == [i \in 1 .. n |-> [label |-> xor_block(Head(to_r)[i], t[i]), value |-> inputs[i]]]
  <2>1. wires' = Append(wires, m1)
    BY DEF GetLabels, Size, unhidden
  <2>2. \A i \in 1 .. n : m1[i] = [label |-> xor_block(Head(to_r)[i], t[i]), value |-> inputs[i]]
    OBVIOUS
  <2> HIDE DEF m1
  <2> QED BY <2>1, <2>2
<1>5. /\ UNCHANGED setup /\ s' = s /\ to_s' = to_s /\ to_r' = Tail(to_r)
      /\ s_used' = s_used /\ r_used' = r_used /\ q' = q /\ inputs' = inputs /\ x' = x /\ t' = t
      /\ r' = w
  BY DEF GetLabels, sender
<1>6. /\ program' = program /\ passive' = passive /\ delta' = delta /\ Promised' = Promised
  BY <1>5, Frame
<1>7. Steps(r)' = 0 /\ RowsDone(r)' = 0 /\ PlaceOK(r)'
  BY <1>3, <1>5, ReceiverAt
<1>8. /\ Steps(s)' = Steps(s) /\ RowsDone(s)' = RowsDone(s) /\ Size(s)' = Size(s) /\ PlaceOK(s)'
  BY <1>2, <1>5, SenderKept
<1>9. IsSeq(to_r') /\ Len(to_r') = Len(to_r) - 1
  BY <1>1, <1>2, <1>5, SeqTail DEF LagOK
<1>10. Len(to_r) = s.ext - r.ext /\ s.ext > r.ext
  BY <1>2, LabelsToCome
<1>11. /\ to_s = <<>> /\ Steps(s) = 0 /\ s_used = r_used /\ Len(to_s) = 0 /\ IsSeq(to_s)
       /\ \A e \in r.ext + 1 .. s.ext - 1 : program.n[e] = 0
  BY <1>1, <1>10 DEF LagOK
<1>12. RowsDone(s) = 0
  BY <1>2, <1>11, Progress
<1>13. PlacesOK'
  <2>1. r'.pc # "throws" /\ r_used' \in Nat /\ s_used' \in Nat /\ delta' \in Key
    BY <1>1, <1>2, <1>3, <1>5, <1>6 DEF PlacesOK
  <2> QED BY <1>1, <1>2, <1>5, <1>6, <1>7, <1>8, <2>1 DEF PlacesOK
<1>14. r'.ext = r.ext + 1 /\ s'.ext = s.ext /\ r'.pc = "idle"
  BY <1>3, <1>5
<1>15. s.ext > r.ext + 1 => program.n[r.ext + 1] = 0
  <2> SUFFICES ASSUME s.ext > r.ext + 1 PROVE r.ext + 1 \in r.ext + 1 .. s.ext - 1
    BY <1>11
  <2> QED BY <1>2
<1>16. LagOK'
  <2>1. r'.ext <= s'.ext /\ Len(to_r') = s'.ext - r'.ext
    BY <1>2, <1>9, <1>10, <1>14
  <2>2. Steps(s)' + Len(to_s') = Steps(r)'
    BY <1>5, <1>7, <1>8, <1>11
  <2>3. s_used' + RowsDone(r)' = r_used' + RowsDone(s)'
    BY <1>5, <1>7, <1>8, <1>11, <1>12
  <2>4. \A e \in r'.ext + 1 .. s'.ext - 1 : program.n[e] = 0
    <3> SUFFICES ASSUME NEW e \in r'.ext + 1 .. s'.ext - 1 PROVE e \in r.ext + 1 .. s.ext - 1
      BY <1>11
    <3> QED BY <1>2, <1>14
  <2> QED BY <1>5, <1>6, <1>8, <1>9, <1>11, <1>14, <1>15, <2>1, <2>2, <2>3, <2>4 DEF LagOK
<1>17. ReceiverOK'
  BY <1>14 DEF ReceiverOK
<1>18. SenderOK'
  <2>1. nOTs(Size(s))' = nOTs(Size(s))
    BY <1>5, <1>8, Frame
  <2> QED BY <1>1, <1>5, <1>8, <1>12, <2>1 DEF SenderOK
<1>19. MessagesOK'
  <2>1. Len(to_s') = 0
    BY <1>5, <1>11
  <2>2. s'.ext > r'.ext => program'.n[r'.ext] = 0
    BY <1>6, <1>14, <1>15
  <2> QED BY <2>1, <2>2 DEF MessagesOK
<1>20. WiresOK'
  <2>1. IsSeq(wires) /\ Len(wires) = r.ext - 1 /\ LabelsOfInputs
    BY <1>1 DEF WiresOK
  <2>2. /\ IsSeq(wires') /\ Len(wires') = Len(wires) + 1
        /\ \A k \in 1 .. Len(wires) : wires'[k] = wires[k]
        /\ wires'[Len(wires) + 1] = m
    BY <1>4, <2>1, SeqAppend
  <2>3. Len(wires') = r'.ext - 1 /\ Len(wires) + 1 = r.ext
    BY <1>2, <1>14, <2>1, <2>2
  <2>4. ASSUME Promised, NEW i \in 1 .. n
        PROVE  m[i].label = label_for_bit(key(r.ext, i), delta, m[i].value)
    <3>1. unhidden(i) = label_for_bit(key(r.ext, i), delta, inputs[i])
      BY <1>2, <2>4, LabelsUnhidden DEF Size
    <3>2. m[i].label = unhidden(i) /\ m[i].value = inputs[i]
      <4>1. m[i] = [label |-> xor_block(Head(to_r)[i], t[i]), value |-> inputs[i]]
        BY <1>4
      <4> QED BY <4>1 DEF unhidden
    <3> QED BY <3>1, <3>2
  <2>5. ASSUME Promised, NEW e \in DOMAIN wires', NEW i \in 1 .. program.n[e]
        PROVE  wires'[e][i].label = label_for_bit(key(e, i), delta, wires'[e][i].value)
    <3>1. DOMAIN wires' = 1 .. Len(wires') /\ DOMAIN wires = 1 .. Len(wires) /\ Len(wires) \in Nat
      BY <2>1, <2>2, SeqLen
    <3>2. CASE e = r.ext
      BY <2>2, <2>3, <2>4, <2>5, <3>2
    <3>3. CASE e # r.ext
      <4>1. e \in 1 .. Len(wires)
        BY <1>2, <2>2, <2>3, <3>1, <3>3
      <4> QED BY <2>1, <2>2, <2>5, <3>1, <4>1 DEF LabelsOfInputs
    <3> QED BY <3>2, <3>3
  <2>6. LabelsOfInputs'
    BY <1>6, <1>14, <2>5 DEF LabelsOfInputs
  <2> QED BY <2>2, <2>3, <2>6 DEF WiresOK
<1> QED BY <1>13, <1>16, <1>17, <1>18, <1>19, <1>20 DEF ExtensionOK

(* With the signal bit set in delta, the evaluator refuses no label that   *)
(* it gets on the promise of the base transfers.                           *)
LEMMA StepRefuseLabels == ExtensionOK /\ 0 \in delta /\ RefuseLabels => ExtensionOK'
<1> SUFFICES ASSUME ExtensionOK, 0 \in delta, RefuseLabels, NEW w, w = At("aborts", r.ext, 0)
             PROVE  ExtensionOK'
  OBVIOUS
<1>1. /\ PlacesOK /\ LagOK /\ ReceiverOK /\ SenderOK /\ MessagesOK /\ WiresOK
  BY DEF ExtensionOK
<1>2. /\ program \in Programs /\ PlaceOK(r) /\ PlaceOK(s)
      /\ r.pc = "keys" /\ r.ext \in Nat \ {0} /\ r.ext \in DOMAIN program.n /\ to_r # <<>>
  BY <1>1 DEF PlacesOK, RefuseLabels, PlaceOK
<1>3. s.ext > r.ext /\ s.ext # r.ext
  BY <1>2, LabelsToCome DEF PlaceOK
<1>4. ~ Promised
  <2> SUFFICES ASSUME Promised, NEW i \in 1 .. Size(r) PROVE lsb(unhidden(i)) <=> inputs[i]
    BY DEF RefuseLabels, SignalsAgree
  <2>1. /\ inputs[i] \in BOOLEAN
        /\ unhidden(i) = label_for_bit(key(r.ext, i), delta, inputs[i])
    BY <1>2, LabelsUnhidden
  <2>2. 0 \notin key(r.ext, i)
    BY DEF key
  <2> QED BY <2>1, <2>2 DEF label_for_bit, xor_block, If, ZeroKey, lsb
<1>5. /\ UNCHANGED setup /\ s' = s /\ to_s' = to_s /\ to_r' = to_r /\ wires' = wires
      /\ s_used' = s_used /\ r_used' = r_used /\ q' = q /\ inputs' = inputs /\ x' = x /\ t' = t
      /\ r' = w /\ w = [pc |-> "aborts", ext |-> r.ext, slice |-> 0]
  BY DEF RefuseLabels, sender, At
<1>6. /\ program' = program /\ passive' = passive /\ delta' = delta /\ Promised' = Promised
      /\ nsubloops' = nsubloops /\ \A z : nOTs(z)' = nOTs(z) /\ Column(z)' = Column(z)
      /\ \A z, y : Rows(z, y)' = Rows(z, y)
  BY <1>5, Frame
<1>7. w.pc = "aborts" /\ w.ext = r.ext /\ Size(w) = Size(r)
  BY <1>5 DEF Size
<1>8. Steps(w) = Steps(r) /\ RowsDone(w) = RowsDone(r) /\ PlaceOK(w)
  BY <1>2, <1>5, <1>7 DEF Steps, RowsDone, PlaceOK
<1>9. Steps(r)' = Steps(r) /\ RowsDone(r)' = RowsDone(r) /\ Size(r)' = Size(r) /\ PlaceOK(r)'
  BY <1>5, <1>7, <1>8, ReceiverAt
<1>10. /\ Steps(s)' = Steps(s) /\ RowsDone(s)' = RowsDone(s) /\ Size(s)' = Size(s) /\ PlaceOK(s)'
  BY <1>2, <1>5, SenderKept
<1>11. Pos' = Pos
  BY <1>5, <1>9 DEF Pos
<1>12. PlacesOK'
  BY <1>1, <1>5, <1>6, <1>7, <1>9, <1>10 DEF PlacesOK
<1>13. LagOK'
  BY <1>1, <1>3, <1>5, <1>6, <1>7, <1>10 DEF LagOK
<1>14. ReceiverOK'
  <2>1. Padded(r.ext, Size(r), inputs)' = Padded(r.ext, Size(r), inputs)
    BY <1>5, <1>6, <1>7, <1>9 DEF Padded
  <2>2. nOTs(Size(r))' = nOTs(Size(r))
    BY <1>6, <1>9
  <2> QED BY <1>1, <1>2, <1>5, <1>6, <1>7, <1>9, <1>11, <2>1, <2>2 DEF ReceiverOK
<1>15. SenderOK'
  <2>1. nOTs(Size(s))' = nOTs(Size(s))
    BY <1>6, <1>10
  <2> QED BY <1>1, <1>3, <1>5, <1>7, <1>10, <2>1 DEF SenderOK
<1>16. MessagesOK'
  BY <1>3, <1>4, <1>5, <1>6, <1>7 DEF MessagesOK
<1>17. WiresOK'
  BY <1>1, <1>4, <1>5, <1>6, <1>7 DEF WiresOK, LabelsOfInputs
<1> QED BY <1>12, <1>13, <1>14, <1>15, <1>16, <1>17 DEF ExtensionOK
-----------------------------------------------------------------------------
(* Before its setup a party has not taken part in an extension, so that    *)
(* new seeds change nothing that matters.                                  *)
LEMMA StepSetupGarbler == ExtensionOK /\ SetupOK /\ Setup(Garbler) => ExtensionOK'
<1> SUFFICES ASSUME ExtensionOK, SetupOK, Setup(Garbler) PROVE ExtensionOK'
  OBVIOUS
<1>1. /\ PlacesOK /\ LagOK /\ ReceiverOK /\ SenderOK /\ MessagesOK /\ WiresOK
  BY DEF ExtensionOK
<1>2. /\ G_sender' = G_sender
      /\ delta' = choice(Garbler) /\ passive' = passive /\ program' = program
      /\ r' = r /\ r_used' = r_used /\ inputs' = inputs /\ x' = x /\ t' = t /\ wires' = wires
      /\ s' = s /\ s_used' = s_used /\ q' = q /\ to_s' = to_s /\ to_r' = to_r
  BY DEF Setup, SetSeeds, SetPromised, receiver, sender
<1>3. s = [pc |-> "idle", ext |-> 1, slice |-> 0]
  BY DEF Setup, SetupOK, At
<1>4. /\ program \in Programs /\ PlaceOK(r) /\ PlaceOK(s) /\ r.ext \in Nat \ {0}
      /\ r.ext <= s.ext
  BY <1>1 DEF PlacesOK, LagOK, PlaceOK
<1>5. r.ext = 1 /\ s.ext = 1
  BY <1>3, <1>4
<1>6. /\ nsubloops' = nsubloops /\ Finish' = Finish /\ \A n : slice(n)' = slice(n)
      /\ \A b : Column(b)' = Column(b)
  BY <1>2 DEF nsubloops, Finish, slice, Column
<1>7. /\ \A n : nOTs(n)' = nOTs(n) /\ Len1(n)' = Len1(n)
      /\ \A n, b : Rows(n, b)' = Rows(n, b)
  BY <1>6 DEF nOTs, Len1, Rows
<1>8. /\ Size(r)' = Size(r) /\ Size(s)' = Size(s)
      /\ Steps(r)' = Steps(r) /\ Steps(s)' = Steps(s)
      /\ RowsDone(r)' = RowsDone(r) /\ RowsDone(s)' = RowsDone(s)
  BY <1>2, <1>6, <1>7 DEF Size, Steps, RowsDone
<1>9. PlaceOK(r)' /\ PlaceOK(s)'
  BY <1>2, <1>4, <1>6, <1>8 DEF PlaceOK
<1>10. PlacesOK'
  <2>1. delta' \in Key
    BY <1>2 DEF choice, Key
  <2> QED BY <1>1, <1>2, <1>9, <2>1 DEF PlacesOK
<1>11. LagOK'
  BY <1>1, <1>2, <1>8 DEF LagOK
<1>12. Pos' = Pos
  BY <1>2, <1>8 DEF Pos
<1>13. ReceiverOK'
  <2>1. nOTs(Size(r))' = nOTs(Size(r))
    BY <1>7, <1>8
  <2>2. Padded(r.ext, Size(r), inputs)' = Padded(r.ext, Size(r), inputs)
    BY <1>2, <1>8, <2>1 DEF Padded
  <2> QED BY <1>1, <1>2, <1>6, <1>8, <1>12, <2>1, <2>2 DEF ReceiverOK
<1>14. SenderOK'
  <2>1. RowsDone(s) = 0 /\ s.pc = "idle"
    BY <1>3, <1>4, Progress
  <2> QED BY <1>2, <1>8, <2>1 DEF SenderOK
<1>15. MessagesOK'
  <2>1. ASSUME NEW k \in 1 .. Len(to_s), Steps(s) + k <= nsubloops
        PROVE  SliceOK(to_s[k], Steps(s) + k - 1)'
    <3>1. PICK v, a : v = to_s[k] /\ a = Steps(s) + k - 1
      OBVIOUS
    <3>2. SliceOK(v, a)
      BY <1>1, <1>5, <2>1, <3>1 DEF MessagesOK
    <3>3. SliceOK(to_s[k], Steps(s) + k - 1)' <=> SliceOK(v, a)'
      BY <1>2, <1>8, <3>1 DEF SliceOK
    <3>4. SliceOK(v, a)' <=> SliceOK(v, a)
      BY <1>2, <1>6, <1>7, <1>8, <1>12 DEF SliceOK
    <3> QED BY <3>2, <3>3, <3>4
  <2>2. ~ s'.ext > r'.ext
    BY <1>2, <1>5
  <2> QED BY <1>2, <1>6, <1>8, <2>1, <2>2 DEF MessagesOK
<1>16. WiresOK'
  <2>1. IsSeq(wires) /\ Len(wires) = 0
    BY <1>1, <1>5 DEF WiresOK
  <2>2. DOMAIN wires = {}
    BY <2>1, SeqLen
  <2>3. r.pc # "aborts"
    BY <1>1, <1>5 DEF LagOK
  <2> QED BY <1>2, <1>5, <2>1, <2>2, <2>3 DEF WiresOK, LabelsOfInputs
<1> QED BY <1>10, <1>11, <1>13, <1>14, <1>15, <1>16 DEF ExtensionOK

LEMMA StepSetupEvaluator == ExtensionOK /\ SetupOK /\ Setup(Evaluator) => ExtensionOK'
<1> SUFFICES ASSUME ExtensionOK, SetupOK, Setup(Evaluator) PROVE ExtensionOK'
  OBVIOUS
<1>1. /\ PlacesOK /\ LagOK /\ ReceiverOK /\ SenderOK /\ MessagesOK /\ WiresOK
  BY DEF ExtensionOK
<1>2. /\ delta' = delta /\ passive' = passive /\ program' = program
      /\ r' = r /\ r_used' = r_used /\ inputs' = inputs /\ x' = x /\ t' = t /\ wires' = wires
      /\ s' = s /\ s_used' = s_used /\ q' = q /\ to_s' = to_s /\ to_r' = to_r
  BY DEF Setup, SetSeeds, SetPromised, Garbler, Evaluator, receiver, sender
<1>3. r = [pc |-> "idle", ext |-> 1, slice |-> 0]
  BY DEF Setup, SetupOK, At, Garbler, Evaluator
<1>4. /\ program \in Programs /\ PlaceOK(r) /\ PlaceOK(s) /\ s.ext \in Nat
  BY <1>1 DEF PlacesOK, PlaceOK
<1>5. /\ nsubloops' = nsubloops /\ Finish' = Finish /\ \A n : slice(n)' = slice(n)
  BY <1>2 DEF nsubloops, Finish, slice
<1>6. \A n : nOTs(n)' = nOTs(n) /\ Len1(n)' = Len1(n)
  BY <1>5 DEF nOTs, Len1
<1>7. /\ Size(r)' = Size(r) /\ Size(s)' = Size(s)
      /\ Steps(r)' = Steps(r) /\ Steps(s)' = Steps(s)
      /\ RowsDone(r)' = RowsDone(r) /\ RowsDone(s)' = RowsDone(s)
  BY <1>2, <1>5, <1>6 DEF Size, Steps, RowsDone
<1>8. PlaceOK(r)' /\ PlaceOK(s)'
  BY <1>2, <1>4, <1>5, <1>7 DEF PlaceOK
<1>9. PlacesOK'
  BY <1>1, <1>2, <1>8 DEF PlacesOK
<1>10. LagOK'
  BY <1>1, <1>2, <1>7 DEF LagOK
<1>11. ReceiverOK'
  BY <1>2, <1>3 DEF ReceiverOK
<1>12. s.ext = r.ext => Steps(s) = 0 /\ RowsDone(s) = 0 /\ Len(to_s) = 0
  <2>1. Steps(r) = 0 /\ Steps(s) \in Nat /\ (Steps(s) = 0 => RowsDone(s) = 0)
    BY <1>3, <1>4, Progress
  <2>2. Len(to_s) \in Nat /\ (s.ext = r.ext => Steps(s) + Len(to_s) = Steps(r))
    BY <1>1, SeqLen DEF LagOK
  <2> QED BY <2>1, <2>2
<1>13. SenderOK'
  <2>1. nOTs(Size(s))' = nOTs(Size(s))
    BY <1>6, <1>7
  <2> QED BY <1>1, <1>2, <1>7, <1>12, <2>1 DEF SenderOK
<1>14. MessagesOK'
  <2>1. s.ext > r.ext => program.n[r.ext] = 0
    BY <1>1, <1>3 DEF LagOK
  <2> QED BY <1>2, <1>12, <2>1 DEF MessagesOK
<1>15. WiresOK'
  <2>1. IsSeq(wires) /\ Len(wires) = 0
    BY <1>1, <1>3 DEF WiresOK
  <2>2. DOMAIN wires = {}
    BY <2>1, SeqLen
  <2> QED BY <1>2, <1>3, <2>1, <2>2 DEF WiresOK, LabelsOfInputs
<1> QED BY <1>9, <1>10, <1>11, <1>13, <1>14, <1>15 DEF ExtensionOK

(* A step of the base transfers.                                           *)
LEMMA StepUnchanged == ExtensionOK /\ UNCHANGED vars => ExtensionOK'
<1> SUFFICES ASSUME ExtensionOK, UNCHANGED vars PROVE ExtensionOK'
  OBVIOUS
<1>1. /\ PlacesOK /\ LagOK /\ ReceiverOK /\ SenderOK /\ MessagesOK /\ WiresOK
  BY DEF ExtensionOK
<1>2. /\ UNCHANGED setup
      /\ r' = r /\ r_used' = r_used /\ inputs' = inputs /\ x' = x /\ t' = t /\ wires' = wires
      /\ s' = s /\ s_used' = s_used /\ q' = q /\ to_s' = to_s /\ to_r' = to_r
  BY DEF vars, receiver, sender
<1>3. /\ program' = program /\ passive' = passive /\ delta' = delta /\ Promised' = Promised
      /\ nsubloops' = nsubloops /\ \A z : nOTs(z)' = nOTs(z)
  BY <1>2, Frame
<1>4. /\ Steps(s)' = Steps(s) /\ RowsDone(s)' = RowsDone(s) /\ Size(s)' = Size(s)
      /\ PlaceOK(s)' = PlaceOK(s)
  BY <1>2, SenderKept
<1>5. /\ Steps(r)' = Steps(r) /\ RowsDone(r)' = RowsDone(r) /\ Size(r)' = Size(r)
      /\ PlaceOK(r)' = PlaceOK(r) /\ ReceiverOK' /\ \A u, b : SliceOK(u, b)' = SliceOK(u, b)
  BY <1>1, <1>2, ReceiverKept
<1>6. PlacesOK'
  BY <1>1, <1>2, <1>3, <1>4, <1>5 DEF PlacesOK
<1>7. LagOK'
  BY <1>1, <1>2, <1>3, <1>4, <1>5 DEF LagOK
<1>8. SenderOK'
  <2>1. nOTs(Size(s))' = nOTs(Size(s))
    BY <1>3, <1>4
  <2>2. \A i : Related(i)' <=> Related(i)
    BY <1>2, <1>3 DEF Related
  <2> QED BY <1>1, <1>2, <1>3, <1>4, <2>1, <2>2 DEF SenderOK
<1>9. MessagesOK'
  BY <1>1, <1>2, <1>3, <1>4, <1>5 DEF MessagesOK
<1>10. WiresOK'
  BY <1>1, <1>2, <1>3 DEF WiresOK, LabelsOfInputs
<1> QED BY <1>5, <1>6, <1>7, <1>8, <1>9, <1>10 DEF ExtensionOK

(* The base transfers of a party move its own place, and are over when its *)
(* setup is done.                                                          *)
LEMMA BaseMoves ==
    ASSUME NEW p \in Parties, base!Party(p), DOMAIN pc = Parties
    PROVE  /\ pc[p] # "extend"
           /\ \E v : v # "extend" /\ pc' = [pc EXCEPT ![p] = v]
<1>1. CASE base!MakeKeys(p)
  BY <1>1 DEF base!MakeKeys
<1>2. CASE base!SendKeys(p)
  BY <1>2 DEF base!SendKeys, base!SendOrNot
<1>3. CASE base!GetKeys(p)
  BY <1>3 DEF base!GetKeys
<1>4. CASE base!Encrypt(p)
  BY <1>4 DEF base!Encrypt, base!Exit
<1>5. CASE base!MakeStrings(p)
  BY <1>5 DEF base!MakeStrings
<1>6. CASE base!send_if_ot_sender(p)
  BY <1>6 DEF base!send_if_ot_sender, base!SendOrNot
<1>7. CASE base!Get(p)
  BY <1>7 DEF base!Get
<1>8. CASE base!Decrypt(p)
  BY <1>8 DEF base!Decrypt, base!Exit
<1>9. CASE base!Choose(p)
  BY <1>9 DEF base!Choose
<1>10. CASE base!Hash(p)
  BY <1>10 DEF base!Hash
<1>11. CASE base!Reveal(p)
  BY <1>11 DEF base!Reveal, base!CheckNext
<1>12. CASE base!Compare(p)
  BY <1>12 DEF base!Compare, base!CheckNext, base!Exit
<1> QED BY <1>1, <1>2, <1>3, <1>4, <1>5, <1>6, <1>7, <1>8, <1>9, <1>10, <1>11, <1>12
        DEF base!Party

(* They draw choice bits for this party only, or use those that are given. *)
LEMMA BaseInputs ==
    ASSUME NEW p \in Parties, base!Party(p), DOMAIN receiver_inputs = Parties
    PROVE  /\ conf' = conf /\ DOMAIN receiver_inputs' = Parties
           /\ \A o \in Parties : o # p \/ ~conf.fresh_inputs =>
                receiver_inputs'[o] = receiver_inputs[o]
<1>1. CASE base!MakeKeys(p)
  <2>1. PICK bits : /\ ~conf.fresh_inputs => bits = receiver_inputs[p]
                     /\ receiver_inputs' \in {receiver_inputs, [receiver_inputs EXCEPT ![p] = bits]}
    BY <1>1 DEF base!MakeKeys
  <2> QED BY <1>1, <2>1 DEF base!MakeKeys
<1>2. CASE base!MakeStrings(p)
  <2>1. PICK bits : /\ ~conf.fresh_inputs => bits = receiver_inputs[p]
                     /\ receiver_inputs' = [receiver_inputs EXCEPT ![p] = bits]
    BY <1>2 DEF base!MakeStrings
  <2> QED BY <1>2, <2>1 DEF base!MakeStrings
<1>3. CASE base!SendKeys(p) \/ base!GetKeys(p) \/ base!Encrypt(p) \/ base!send_if_ot_sender(p)
  BY <1>3 DEF base!SendKeys, base!GetKeys, base!Encrypt, base!send_if_ot_sender
<1>4. CASE base!Get(p) \/ base!Decrypt(p) \/ base!Choose(p) \/ base!Hash(p)
  BY <1>4 DEF base!Get, base!Decrypt, base!Choose, base!Hash
<1>5. CASE base!Reveal(p) \/ base!Compare(p)
  BY <1>5 DEF base!Reveal, base!Compare
<1> QED BY <1>1, <1>2, <1>3, <1>4, <1>5 DEF base!Party

LEMMA InitExtensionInv == TransfersInit => ExtensionInv
<1> SUFFICES ASSUME TransfersInit PROVE ExtensionInv
  OBVIOUS
<1>1. /\ passive \in BOOLEAN /\ program \in Programs /\ r_used = 0 /\ s_used = 0
      /\ r = [pc |-> "idle", ext |-> 1, slice |-> 0] /\ s = [pc |-> "idle", ext |-> 1, slice |-> 0]
      /\ to_s = <<>> /\ to_r = <<>> /\ wires = <<>>
  BY DEF TransfersInit, Start, At
<1>2. delta \in Key
  BY DEF TransfersInit, Key
<1>3. PlaceOK(r) /\ PlaceOK(s)
  BY <1>1 DEF PlaceOK
<1>4. Steps(r) = 0 /\ Steps(s) = 0 /\ RowsDone(r) = 0 /\ RowsDone(s) = 0
  BY <1>1, <1>3, Progress
<1>5. PlacesOK
  BY <1>1, <1>2, <1>3 DEF PlacesOK
<1>6. IsSeq(<<>>)
  <2>1. <<>> \in Seq({})
    OBVIOUS
  <2> QED BY <2>1 DEF IsSeq
<1>7. r.ext = 1 /\ s.ext = 1 /\ r.pc = "idle" /\ s.pc = "idle"
  BY <1>1
<1>8. LagOK
  BY <1>1, <1>4, <1>6, <1>7 DEF LagOK
<1>9. ReceiverOK /\ SenderOK /\ MessagesOK
  BY <1>1, <1>4, <1>7 DEF ReceiverOK, SenderOK, MessagesOK
<1>10. WiresOK
  BY <1>1, <1>6, <1>7 DEF WiresOK, LabelsOfInputs
<1>11. SetupOK
  <2>1. pc = [p \in 0 .. 1 |-> "start"]
    BY DEF TransfersInit, base!Init, base!Parties
  <2>2. Parties = 0 .. 1
    BY DEF Parties, Garbler, Evaluator
  <2>3. DOMAIN receiver_inputs = Parties
    BY <2>2 DEF TransfersInit, base!Init, base!Parties
  <2>4. IF IsYao THEN receiver_inputs[Garbler][0] = 1 ELSE program.n = <<>>
    BY DEF TransfersInit
  <2>5. pc[Garbler] = "start"
    BY <2>1, <2>2 DEF Garbler
  <2> QED BY <1>1, <2>1, <2>2, <2>3, <2>4, <2>5 DEF SetupOK, At
<1> QED BY <1>5, <1>8, <1>9, <1>10, <1>11 DEF ExtensionInv, ExtensionOK

LEMMA StepSetupOK == SetupOK /\ [TransfersNext]_allvars => SetupOK'
<1> SUFFICES ASSUME SetupOK, [TransfersNext]_allvars PROVE SetupOK'
  OBVIOUS
<1>1. DOMAIN pc = Parties /\ Garbler \in Parties /\ Evaluator \in Parties /\ Garbler # Evaluator
  BY DEF SetupOK, Parties, Garbler, Evaluator
<1>2. ASSUME NEW p \in Parties, Base(p) PROVE SetupOK'
  <2>1. pc[p] # "extend" /\ \E v : v # "extend" /\ pc' = [pc EXCEPT ![p] = v]
    BY <1>1, <1>2, BaseMoves DEF Base
  <2>2. r' = r /\ s' = s /\ delta' = delta /\ program' = program
    BY <1>2 DEF Base, vars, receiver, sender, setup
  <2>3. /\ conf' = conf /\ DOMAIN receiver_inputs' = Parties
        /\ \A o \in Parties : o # p \/ ~conf.fresh_inputs =>
             receiver_inputs'[o] = receiver_inputs[o]
    BY <1>2, BaseInputs DEF Base, SetupOK
  <2>4. IsYao' = IsYao /\ (IsYao => ~conf.fresh_inputs)
    BY <2>3 DEF IsYao, IsSetup
  <2>5. pc'[Garbler] = "extend" => choice(Garbler)' = choice(Garbler) /\ pc[Garbler] = "extend"
    BY <1>1, <2>1, <2>3 DEF choice
  <2> QED BY <1>1, <2>1, <2>2, <2>3, <2>4, <2>5 DEF SetupOK
<1>3. ASSUME NEW p \in Parties, Setup(p) PROVE SetupOK'
  <2>1. /\ pc' = [pc EXCEPT ![p] = "extend"] /\ r' = r /\ s' = s /\ program' = program
        /\ receiver_inputs' = receiver_inputs /\ conf' = conf
    BY <1>3 DEF Setup, receiver, sender
  <2>2. delta' = IF p = Garbler THEN choice(p) ELSE delta
    BY <1>3 DEF Setup, SetSeeds, SetPromised
  <2>3. choice(Garbler)' = choice(Garbler) /\ IsYao' = IsYao
    BY <2>1 DEF choice, IsYao, IsSetup
  <2> QED BY <1>1, <2>1, <2>2, <2>3 DEF SetupOK
<1>4. ASSUME NEW p \in Parties, Extend(p) PROVE SetupOK'
  <2>1. pc' = pc /\ conf' = conf /\ receiver_inputs' = receiver_inputs
    BY <1>4 DEF Extend, basevars
  <2>2. IsYao' = IsYao /\ choice(Garbler)' = choice(Garbler)
    BY <2>1 DEF IsYao, IsSetup, choice
  <2>3. CASE p = Garbler
    <3>1. pc[Garbler] = "extend" /\ r' = r /\ delta' = delta /\ program' = program
      BY <1>4, <2>3 DEF Extend, Sender, SenderBegins, SenderSlice, SenderCheck, SendLabels,
                        receiver, setup
    <3> QED BY <2>1, <2>2, <3>1 DEF SetupOK
  <2>4. CASE p # Garbler
    <3>1. pc[Evaluator] = "extend" /\ s' = s /\ delta' = delta /\ program' = program
      BY <1>4, <2>4 DEF Extend, Parties, Receiver, ReceiverBegins, ReceiverSlice, ReceiverCheck,
                        GetLabels, RefuseLabels, sender, setup
    <3> QED BY <2>1, <2>2, <3>1 DEF SetupOK
  <2> QED BY <2>3, <2>4
<1>5. CASE UNCHANGED allvars
  <2>1. IsYao' = IsYao /\ choice(Garbler)' = choice(Garbler)
    BY <1>5 DEF allvars, basevars, IsYao, IsSetup, choice
  <2> QED BY <1>5, <2>1 DEF SetupOK, allvars, basevars, vars, receiver, sender, setup
<1> QED BY <1>2, <1>3, <1>4, <1>5 DEF TransfersNext

(* Who has labels to come is in a session with extensions, and the garbler *)
(* has its delta.                                                          *)
LEMMA SignalSet ==
    ASSUME ExtensionInv, to_r # <<>>, r.pc = "keys"
    PROVE  0 \in delta
<1>1. s.ext > r.ext /\ r.ext \in Nat \ {0} /\ r.ext \in DOMAIN program.n
  BY LabelsToCome DEF ExtensionInv, ExtensionOK, PlacesOK, PlaceOK
<1>2. s.ext # 1
  BY <1>1
<1>3. delta = choice(Garbler)
  BY <1>2 DEF ExtensionInv, SetupOK, At
<1>4. program.n # <<>>
  BY <1>1
<1> QED BY <1>3, <1>4, SignalBit DEF ExtensionInv, SetupOK, choice

LEMMA StepExtensionInv == ExtensionInv /\ [TransfersNext]_allvars => ExtensionInv'
<1> SUFFICES ASSUME ExtensionOK, SetupOK, [TransfersNext]_allvars PROVE ExtensionOK'
  BY StepSetupOK DEF ExtensionInv
<1>1. ASSUME NEW p \in Parties, Base(p) PROVE ExtensionOK'
  BY <1>1, StepUnchanged DEF Base
<1>2. ASSUME NEW p \in Parties, Setup(p) PROVE ExtensionOK'
  BY <1>2, StepSetupGarbler, StepSetupEvaluator DEF Parties
<1>3. ASSUME NEW p \in Parties, Extend(p) PROVE ExtensionOK'
  <2>1. CASE Sender
    BY <2>1, StepSenderBegins, StepSenderSlice, StepSenderCheck, StepSendLabels DEF Sender
  <2>2. CASE Receiver
    <3>1. RefuseLabels => 0 \in delta
      BY SignalSet DEF RefuseLabels, ExtensionInv
    <3> QED BY <2>2, <3>1, StepReceiverBegins, StepReceiverSlice, StepReceiverCheck,
               StepGetLabels, StepRefuseLabels DEF Receiver
  <2> QED BY <1>3, <2>1, <2>2 DEF Extend
<1>4. CASE UNCHANGED allvars
  BY <1>4, StepUnchanged DEF allvars
<1> QED BY <1>1, <1>2, <1>3, <1>4 DEF TransfersNext
-----------------------------------------------------------------------------
(* The parties stay in step, whatever the base transfers gave them         *)
(* (OTExtensionWithMatrix.cpp:20-45, OTCorrelator.hpp:26-112).             *)
THEOREM ExtensionInvariant == TransfersSpec => []ExtensionInv
<1>1. TransfersInit => ExtensionInv
  BY InitExtensionInv
<1>2. ExtensionInv /\ [TransfersNext]_allvars => ExtensionInv'
  BY StepExtensionInv
<1> QED BY <1>1, <1>2, PTL DEF TransfersSpec

(* The rows of the two matrices differ by delta where the choice bit is    *)
(* set, for any block size, generators, slices and earlier extensions.     *)
THEOREM RowsCorrelated == TransfersSpec => []Correlated
<1>1. ExtensionInv => Correlated
  <2> SUFFICES ASSUME ExtensionInv, s.pc \in {"check", "keys"}, r.ext = s.ext, Size(s) > 0, Promised
               PROVE  \A i \in 1 .. nOTs(Size(s)) : Related(i)
    BY DEF Correlated, Related
  <2>1. RowsDone(s) = nOTs(Size(s))
    BY DEF RowsDone
  <2> QED BY <2>1 DEF ExtensionInv, ExtensionOK, SenderOK
<1> QED BY <1>1, ExtensionInvariant, PTL

(* The evaluator gets the label of each of its input bits (YaoEvalWire.cpp: *)
(* 157, YaoGarbler.cpp:166), whatever numbers of inputs came before.       *)
THEOREM LabelsArriveRight == TransfersSpec => []LabelsOfInputs
<1>1. ExtensionInv => LabelsOfInputs
  BY DEF ExtensionInv, ExtensionOK, WiresOK
<1> QED BY <1>1, ExtensionInvariant, PTL
-----------------------------------------------------------------------------
(***************************************************************************)
(* Base transfers in the clear.  A party's strings are what it drew until  *)
(* it hashes them, and what is first in the channel to a receiver that has *)
(* not received yet is the other party's strings: the strings revealed     *)
(* later for the check come behind them.                                   *)
(***************************************************************************)
Strings(p) == [i \in base!Transfers |-> [j \in base!Bit |-> base!Random(p, i, j)]]
Hashed(p) == [i \in base!Transfers |-> [j \in base!Bit |-> base!Extended(base!Random(p, i, j))]]
Pack(p) == base!Packed(p, Strings(p))

Before == {"start", "send_if_ot_sender", "get"}
Late == {"check", "compare", "done", "exit", "extend"}

BaseTypes ==
    /\ conf \in [protocol : Protocols, role : {"SENDER", "RECEIVER", "BOTH"}, fresh_inputs : BOOLEAN]
    /\ DOMAIN pc = Parties /\ DOMAIN sender_inputs = Parties /\ DOMAIN receiver_outputs = Parties
    /\ DOMAIN chan = Parties /\ DOMAIN os = Parties
    /\ \A p \in Parties : DOMAIN os[p] = 0 .. 1
    /\ receiver_inputs \in [Parties -> [base!Transfers -> base!Bit]]

SenderPart(p) ==
    /\ pc[p] \in Before \cup {"outputs", "hash"} \cup Late
    /\ base!IsSender(p) =>
         /\ pc[p] \notin {"start"} \cup Late => sender_inputs[p] = Strings(p)
         /\ pc[p] \in Late => sender_inputs[p] = Hashed(p)
         /\ pc[p] = "send_if_ot_sender" => os[p][0] = Pack(p)

ChannelPart(p) ==
    /\ IsSeq(chan[p])
    /\ pc[p] \in Before =>
         /\ chan[p] # <<>> => chan[p][1] = Pack(1 - p)
         /\ base!IsReceiver(p) /\ pc[1 - p] \notin {"start", "send_if_ot_sender"} => chan[p] # <<>>

ReceiverPart(p) ==
    /\ pc[p] \in {"get", "outputs"} => base!IsReceiver(p)
    /\ pc[p] = "outputs" => os[p][1] = Pack(1 - p)
    /\ base!IsReceiver(p) =>
         /\ pc[p] = "hash" =>
              \A i \in base!Transfers : receiver_outputs[p][i] = Strings(1 - p)[i][receiver_inputs[p][i]]
         /\ pc[p] \in Late =>
              \A i \in base!Transfers : receiver_outputs[p][i] = Hashed(1 - p)[i][receiver_inputs[p][i]]

SeedsOK ==
    /\ pc[Garbler] = "extend" => IsSetup /\ G_receiver = receiver_outputs[Garbler]
    /\ pc[Evaluator] = "extend" => IsSetup /\ G_sender = sender_inputs[Evaluator]

ClearOK == \A p \in Parties : SenderPart(p) /\ ChannelPart(p) /\ ReceiverPart(p)

SeedsInv == BaseTypes /\ (conf.protocol = "fake" => ClearOK /\ SeedsOK)

(* Each party is what the other one is not, or both are both.              *)
LEMMA Roles ==
    ASSUME BaseTypes, NEW p \in Parties
    PROVE  /\ 1 - p \in Parties /\ 1 - (1 - p) = p /\ 1 - p # p
           /\ base!IsSender(p) <=> base!IsReceiver(1 - p)
           /\ base!IsSender(p) \/ base!IsReceiver(p)
<1>1. p = 0 \/ p = 1
  BY DEF Parties, Garbler, Evaluator
<1>2. conf.role \in {"SENDER", "RECEIVER", "BOTH"}
  BY DEF BaseTypes
<1>3. 1 - p \in Parties /\ 1 - (1 - p) = p /\ 1 - p # p
  BY <1>1 DEF Parties, Garbler, Evaluator
<1>4. base!IsSender(p) <=> base!IsReceiver(1 - p)
  BY <1>1, <1>2 DEF base!IsSender, base!IsReceiver, base!ot_role, base!INV_ROLE
<1>5. base!IsSender(p) \/ base!IsReceiver(p)
  BY <1>1, <1>2 DEF base!IsSender, base!IsReceiver, base!ot_role, base!INV_ROLE
<1> QED BY <1>3, <1>4, <1>5

LEMMA InitSeedsInv == TransfersInit => SeedsInv
<1> SUFFICES ASSUME TransfersInit PROVE SeedsInv
  OBVIOUS
<1>1. base!Init
  BY DEF TransfersInit
<1>2. Parties = 0 .. 1 /\ base!Parties = 0 .. 1
  BY DEF Parties, Garbler, Evaluator, base!Parties
<1>3. BaseTypes
  BY <1>1, <1>2 DEF base!Init, BaseTypes, base!Bit
<1>4. \A p \in Parties : pc[p] = "start" /\ chan[p] = <<>>
  BY <1>1, <1>2 DEF base!Init
<1>5. IsSeq(<<>>)
  <2>1. <<>> \in Seq({})
    OBVIOUS
  <2> QED BY <2>1 DEF IsSeq
<1>6. ClearOK
  <2> SUFFICES ASSUME NEW p \in Parties PROVE SenderPart(p) /\ ChannelPart(p) /\ ReceiverPart(p)
    BY DEF ClearOK
  <2>1. pc[p] = "start" /\ chan[p] = <<>> /\ pc[1 - p] = "start"
    BY <1>3, <1>4, Roles
  <2> QED BY <1>5, <2>1 DEF SenderPart, ChannelPart, ReceiverPart, Before, Late
<1>7. SeedsOK
  <2>1. pc[Garbler] = "start" /\ pc[Evaluator] = "start"
    BY <1>4 DEF Parties
  <2> QED BY <2>1 DEF SeedsOK, TransfersInit
<1> QED BY <1>3, <1>6, <1>7 DEF SeedsInv

(* A step of party p leaves the other party o alone, but for its channel.  *)
OtherAlone(o) ==
    /\ conf' = conf /\ pc'[o] = pc[o] /\ os'[o] = os[o] /\ receiver_inputs'[o] = receiver_inputs[o]
    /\ sender_inputs'[o] = sender_inputs[o] /\ receiver_outputs'[o] = receiver_outputs[o]

LEMMA RolesKept ==
    ASSUME conf' = conf
    PROVE  \A p : base!IsSender(p)' = base!IsSender(p) /\ base!IsReceiver(p)' = base!IsReceiver(p)
BY DEF base!IsSender, base!IsReceiver, base!ot_role

LEMMA OtherKept ==
    ASSUME NEW o, OtherAlone(o), SenderPart(o), ReceiverPart(o)
    PROVE  SenderPart(o)' /\ ReceiverPart(o)'
<1>1. base!IsSender(o)' = base!IsSender(o) /\ base!IsReceiver(o)' = base!IsReceiver(o)
  BY RolesKept DEF OtherAlone
<1>2. SenderPart(o)'
  BY <1>1 DEF OtherAlone, SenderPart, Pack, Strings, Hashed
<1>3. ReceiverPart(o)'
  BY <1>1 DEF OtherAlone, ReceiverPart
<1> QED BY <1>2, <1>3

(* Sending keeps what is first in the channel.                             *)
LEMMA SentBehind ==
    ASSUME NEW c, NEW m, NEW d, IsSeq(c), d = Append(c, m)
    PROVE  IsSeq(d) /\ d # <<>> /\ d[1] = IF c = <<>> THEN m ELSE c[1]
<1>1. /\ IsSeq(d) /\ Len(d) = Len(c) + 1
      /\ \A k \in 1 .. Len(c) : d[k] = c[k]
      /\ d[Len(c) + 1] = m
  BY SeqAppend
<1>2. Len(c) \in Nat /\ (c = <<>> <=> Len(c) = 0) /\ (d = <<>> <=> Len(d) = 0)
  BY <1>1, SeqLen
<1>3. CASE c = <<>>
  BY <1>1, <1>2, <1>3
<1>4. CASE c # <<>>
  BY <1>1, <1>2, <1>4
<1> QED BY <1>3, <1>4

LEMMA ChannelKept ==
    ASSUME NEW o, conf' = conf, chan'[o] = chan[o], ChannelPart(o),
           pc'[o] = pc[o] \/ pc'[o] \notin Before \/ (pc[o] \in Before /\ pc'[o] \in Before),
           pc'[1 - o] \notin {"start", "send_if_ot_sender"} =>
             pc[1 - o] \notin {"start", "send_if_ot_sender"} \/ ~ base!IsReceiver(o)
    PROVE  ChannelPart(o)'
BY RolesKept DEF ChannelPart, Pack, Strings

LEMMA StepBaseTypes == BaseTypes /\ [TransfersNext]_allvars => BaseTypes'
<1> SUFFICES ASSUME BaseTypes, [TransfersNext]_allvars PROVE BaseTypes'
  OBVIOUS
<1>1. ASSUME NEW p \in Parties, Base(p) PROVE BaseTypes'
  <2>1. base!Party(p)
    BY <1>1 DEF Base
  <2>2. CASE base!MakeKeys(p)
    <3>1. /\ UNCHANGED <<conf, sender_inputs, receiver_outputs, chan>> /\ DOMAIN pc' = Parties
      BY <2>2 DEF base!MakeKeys, BaseTypes
    <3>2. CASE base!IsReceiver(p)
      <4>1. PICK bits \in IF conf.fresh_inputs THEN [base!Transfers -> base!Bit] ELSE {receiver_inputs[p]} :
              /\ receiver_inputs' = [receiver_inputs EXCEPT ![p] = bits]
              /\ \E m : os' = [os EXCEPT ![p][0] = m]
        BY <2>2, <3>2 DEF base!MakeKeys
      <4>2. receiver_inputs' \in [Parties -> [base!Transfers -> base!Bit]]
        <5>1. bits \in [base!Transfers -> base!Bit]
          BY <4>1 DEF BaseTypes
        <5> QED BY <4>1, <5>1 DEF BaseTypes
      <4>3. DOMAIN os' = Parties /\ \A o \in Parties : DOMAIN os'[o] = 0 .. 1
        BY <4>1 DEF BaseTypes
      <4> QED BY <3>1, <4>2, <4>3 DEF BaseTypes
    <3>3. CASE ~ base!IsReceiver(p)
      BY <2>2, <3>1, <3>3 DEF base!MakeKeys, BaseTypes
    <3> QED BY <3>2, <3>3
  <2>3. CASE base!SendKeys(p)
    BY <2>3 DEF base!SendKeys, base!SendOrNot, base!made, BaseTypes
  <2>4. CASE base!GetKeys(p)
    BY <2>4 DEF base!GetKeys, base!Receive, base!made, BaseTypes
  <2>5. CASE base!Encrypt(p)
    BY <2>5 DEF base!Encrypt, base!Exit, BaseTypes
  <2>6. CASE base!MakeStrings(p)
    BY <2>6 DEF base!MakeStrings, BaseTypes
  <2>7. CASE base!send_if_ot_sender(p)
    BY <2>7 DEF base!send_if_ot_sender, base!SendOrNot, base!made, BaseTypes
  <2>8. CASE base!Get(p)
    BY <2>8 DEF base!Get, base!Receive, base!made, BaseTypes
  <2>9. CASE base!Decrypt(p)
    BY <2>9 DEF base!Decrypt, base!Exit, BaseTypes
  <2>10. CASE base!Choose(p)
    BY <2>10 DEF base!Choose, BaseTypes
  <2>11. CASE base!Hash(p)
    BY <2>11 DEF base!Hash, BaseTypes
  <2>12. CASE base!Reveal(p)
    BY <2>12 DEF base!Reveal, base!CheckNext, base!made, BaseTypes
  <2>13. CASE base!Compare(p)
    BY <2>13 DEF base!Compare, base!CheckNext, base!Exit, base!made, BaseTypes
  <2> QED BY <2>1, <2>2, <2>3, <2>4, <2>5, <2>6, <2>7, <2>8, <2>9, <2>10, <2>11, <2>12, <2>13
          DEF base!Party
<1>2. ASSUME NEW p \in Parties, Setup(p) PROVE BaseTypes'
  BY <1>2 DEF Setup, made, BaseTypes
<1>3. ASSUME NEW p \in Parties, Extend(p) PROVE BaseTypes'
  BY <1>3 DEF Extend, basevars, made, BaseTypes
<1>4. CASE UNCHANGED allvars
  BY <1>4 DEF allvars, basevars, made, BaseTypes
<1> QED BY <1>1, <1>2, <1>3, <1>4 DEF TransfersNext

(* What a step of party p must leave behind.                               *)
Cleared(p, o) ==
    /\ SenderPart(p)' /\ ReceiverPart(p)' /\ ChannelPart(p)'
    /\ ChannelPart(o)' /\ OtherAlone(o)

LEMMA StepMakeStrings ==
    ASSUME BaseTypes, ClearOK, NEW p \in Parties, NEW o, o = 1 - p, base!MakeStrings(p)
    PROVE  Cleared(p, o)
<1>1. o \in Parties /\ 1 - o = p /\ o # p
  BY Roles
<1>2. /\ pc[p] = "start" /\ pc' = [pc EXCEPT ![p] = "send_if_ot_sender"] /\ conf' = conf
      /\ chan' = chan /\ receiver_outputs' = receiver_outputs
      /\ \E bits : receiver_inputs' = [receiver_inputs EXCEPT ![p] = bits]
  BY DEF base!MakeStrings
<1>3. IF base!IsSender(p)
        THEN /\ sender_inputs' = [sender_inputs EXCEPT ![p] = Strings(p)]
             /\ os' = [os EXCEPT ![p][0] = Pack(p)]
        ELSE UNCHANGED <<sender_inputs, os>>
  BY DEF base!MakeStrings, Strings, Pack
<1>4. pc'[p] = "send_if_ot_sender" /\ pc'[o] = pc[o]
  BY <1>1, <1>2 DEF BaseTypes
<1>5. OtherAlone(o)
  BY <1>1, <1>2, <1>3, <1>4 DEF OtherAlone, BaseTypes
<1>6. SenderPart(p)'
  <2>1. base!IsSender(p)' = base!IsSender(p)
    BY <1>2, RolesKept
  <2>2. base!IsSender(p) => sender_inputs'[p] = Strings(p) /\ os'[p][0] = Pack(p)
    BY <1>3 DEF BaseTypes
  <2> QED BY <1>4, <2>1, <2>2 DEF SenderPart, Before, Late, Strings, Pack
<1>7. ReceiverPart(p)'
  BY <1>4 DEF ReceiverPart, Late
<1>8. ChannelPart(p)'
  BY <1>1, <1>2, <1>4, ChannelKept DEF ClearOK, Before
<1>9. ChannelPart(o)'
  BY <1>1, <1>2, <1>4, ChannelKept DEF ClearOK
<1> QED BY <1>5, <1>6, <1>7, <1>8, <1>9 DEF Cleared

LEMMA StepSend ==
    ASSUME BaseTypes, ClearOK, NEW p \in Parties, NEW o, o = 1 - p, base!send_if_ot_sender(p)
    PROVE  Cleared(p, o)
<1>1. /\ o \in Parties /\ 1 - o = p /\ o # p
      /\ base!IsSender(p) <=> base!IsReceiver(o)
      /\ base!IsSender(p) \/ base!IsReceiver(p)
  BY Roles
<1>2. PICK next \in {"get", "hash"} :
        /\ pc[p] = "send_if_ot_sender" /\ pc' = [pc EXCEPT ![p] = next] /\ conf' = conf
        /\ next = "get" <=> base!IsReceiver(p)
        /\ chan' = IF base!IsSender(p) THEN [chan EXCEPT ![o] = Append(@, os[p][0])] ELSE chan
        /\ receiver_outputs' = receiver_outputs /\ receiver_inputs' = receiver_inputs
        /\ sender_inputs' = sender_inputs /\ os' = os
  BY <1>1 DEF base!send_if_ot_sender, base!SendOrNot, base!made
<1>3. pc'[p] = next /\ pc'[o] = pc[o] /\ chan'[p] = chan[p]
  BY <1>1, <1>2 DEF BaseTypes
<1>4. base!IsSender(p)' = base!IsSender(p) /\ base!IsReceiver(p)' = base!IsReceiver(p)
  BY <1>2, RolesKept
<1>5. OtherAlone(o)
  BY <1>2, <1>3 DEF OtherAlone
<1>6. SenderPart(p)'
  <2>1. base!IsSender(p) => sender_inputs[p] = Strings(p)
    BY <1>2 DEF ClearOK, SenderPart, Late
  <2> QED BY <1>2, <1>3, <1>4, <2>1 DEF SenderPart, Before, Late, Strings
<1>7. ReceiverPart(p)'
  BY <1>2, <1>3, <1>4 DEF ReceiverPart, Late
<1>8. ChannelPart(p)'
  BY <1>1, <1>2, <1>3, ChannelKept DEF ClearOK, Before
<1>9. ChannelPart(o)'
  <2>1. CASE base!IsSender(p)
    <3>1. os[p][0] = Pack(p)
      BY <1>2, <2>1 DEF ClearOK, SenderPart
    <3>2. chan'[o] = Append(chan[o], Pack(p)) /\ IsSeq(chan[o])
      BY <1>1, <1>2, <2>1, <3>1 DEF BaseTypes, ClearOK, ChannelPart
    <3>3. IsSeq(chan'[o]) /\ chan'[o] # <<>> /\ chan'[o][1] = IF chan[o] = <<>> THEN Pack(p) ELSE chan[o][1]
      BY <3>2, SentBehind
    <3>4. pc[o] \in Before /\ chan[o] # <<>> => chan[o][1] = Pack(p)
      BY <1>1 DEF ClearOK, ChannelPart
    <3> QED BY <1>1, <1>3, <3>3, <3>4 DEF ChannelPart, Pack, Strings
  <2>2. CASE ~ base!IsSender(p)
    BY <1>1, <1>2, <1>3, <2>2, ChannelKept DEF ClearOK
  <2> QED BY <2>1, <2>2
<1> QED BY <1>5, <1>6, <1>7, <1>8, <1>9 DEF Cleared

LEMMA StepGet ==
    ASSUME BaseTypes, ClearOK, NEW p \in Parties, NEW o, o = 1 - p, base!Get(p)
    PROVE  Cleared(p, o)
<1>1. o \in Parties /\ 1 - o = p /\ o # p
  BY Roles
<1>2. /\ pc[p] = "get" /\ pc' = [pc EXCEPT ![p] = "outputs"] /\ conf' = conf /\ chan[p] # <<>>
      /\ chan' = [chan EXCEPT ![p] = Tail(@)] /\ os' = [os EXCEPT ![p][1] = Head(chan[p])]
      /\ receiver_outputs' = receiver_outputs /\ receiver_inputs' = receiver_inputs
      /\ sender_inputs' = sender_inputs
  BY DEF base!Get, base!Receive, base!made
<1>3. pc'[p] = "outputs" /\ pc'[o] = pc[o] /\ chan'[o] = chan[o] /\ chan'[p] = Tail(chan[p])
  BY <1>1, <1>2 DEF BaseTypes
<1>4. base!IsSender(p)' = base!IsSender(p) /\ base!IsReceiver(p)' = base!IsReceiver(p)
  BY <1>2, RolesKept
<1>5. OtherAlone(o)
  BY <1>1, <1>2, <1>3 DEF OtherAlone, BaseTypes
<1>6. SenderPart(p)'
  BY <1>2, <1>3, <1>4 DEF ClearOK, SenderPart, Before, Late, Strings
<1>7. IsSeq(chan[p]) /\ chan[p][1] = Pack(o)
  BY <1>2 DEF ClearOK, ChannelPart, Before
<1>8. IsSeq(Tail(chan[p])) /\ Head(chan[p]) = Pack(o)
  BY <1>2, <1>7, SeqTail
<1>9. ReceiverPart(p)'
  <2>1. os'[p][1] = Pack(o)
    BY <1>2, <1>8 DEF BaseTypes
  <2>2. base!IsReceiver(p)
    BY <1>2 DEF ClearOK, ReceiverPart
  <2> QED BY <1>3, <1>4, <2>1, <2>2 DEF ReceiverPart, Late, Pack, Strings
<1>10. ChannelPart(p)'
  BY <1>3, <1>8 DEF ChannelPart, Before
<1>11. ChannelPart(o)'
  BY <1>1, <1>2, <1>3, ChannelKept DEF ClearOK
<1> QED BY <1>5, <1>6, <1>9, <1>10, <1>11 DEF Cleared

LEMMA StepChoose ==
    ASSUME BaseTypes, ClearOK, NEW p \in Parties, NEW o, o = 1 - p, base!Choose(p)
    PROVE  Cleared(p, o)
<1>1. o \in Parties /\ 1 - o = p /\ o # p
  BY Roles
<1>2. /\ pc[p] = "outputs" /\ pc' = [pc EXCEPT ![p] = "hash"] /\ conf' = conf /\ chan' = chan
      /\ os' = os /\ receiver_inputs' = receiver_inputs /\ sender_inputs' = sender_inputs
      /\ receiver_outputs' = [receiver_outputs EXCEPT ![p] =
           [i \in base!Transfers |-> os[p][1][i + 1][receiver_inputs[p][i]]]]
  BY DEF base!Choose
<1>3. pc'[p] = "hash" /\ pc'[o] = pc[o]
  BY <1>1, <1>2 DEF BaseTypes
<1>4. base!IsSender(p)' = base!IsSender(p) /\ base!IsReceiver(p)' = base!IsReceiver(p)
  BY <1>2, RolesKept
<1>5. OtherAlone(o)
  BY <1>1, <1>2, <1>3 DEF OtherAlone, BaseTypes
<1>6. SenderPart(p)'
  BY <1>2, <1>3, <1>4 DEF ClearOK, SenderPart, Before, Late, Strings
<1>7. ReceiverPart(p)'
  <2>1. os[p][1] = Pack(o)
    BY <1>2 DEF ClearOK, ReceiverPart
  <2>2. ASSUME NEW i \in base!Transfers
        PROVE  receiver_outputs'[p][i] = Strings(o)[i][receiver_inputs[p][i]]
    <3>1. i \in Int /\ i + 1 \in 1 .. K /\ (i + 1) - 1 = i
      BY <2>2, OTExtensionAssumption DEF base!Transfers
    <3>2. Pack(o)[i + 1] = Strings(o)[i]
      BY <3>1 DEF Pack, base!Packed
    <3>3. receiver_outputs'[p][i] = os[p][1][i + 1][receiver_inputs[p][i]]
      BY <1>2, <2>2 DEF BaseTypes
    <3> QED BY <2>1, <3>2, <3>3
  <2> QED BY <1>2, <1>3, <2>2 DEF ReceiverPart, Late, Strings
<1>8. ChannelPart(p)'
  BY <1>2, <1>3 DEF ClearOK, ChannelPart, Before
<1>9. ChannelPart(o)'
  BY <1>1, <1>2, <1>3, ChannelKept DEF ClearOK
<1> QED BY <1>5, <1>6, <1>7, <1>8, <1>9 DEF Cleared

LEMMA StepHash ==
    ASSUME BaseTypes, ClearOK, conf.protocol = "fake",
           NEW p \in Parties, NEW o, o = 1 - p, base!Hash(p)
    PROVE  Cleared(p, o)
<1>1. o \in Parties /\ 1 - o = p /\ o # p
  BY Roles
<1>2. /\ pc[p] = "hash" /\ pc' = [pc EXCEPT ![p] = "check"] /\ conf' = conf /\ chan' = chan
      /\ os' = os /\ receiver_inputs' = receiver_inputs
  BY DEF base!Hash
<1>3. sender_inputs' = IF base!IsSender(p)
         THEN [sender_inputs EXCEPT ![p] = [i \in base!Transfers |-> [j \in base!Bit |->
                 base!Extended(sender_inputs[p][i][j])]]]
         ELSE sender_inputs
  BY DEF base!Hash, base!hash_with_id
<1>4. receiver_outputs' = IF base!IsReceiver(p)
         THEN [receiver_outputs EXCEPT ![p] = [i \in base!Transfers |->
                 base!Extended(receiver_outputs[p][i])]]
         ELSE receiver_outputs
  BY DEF base!Hash, base!hash_with_id
<1>5. pc'[p] = "check" /\ pc'[o] = pc[o]
  BY <1>1, <1>2 DEF BaseTypes
<1>6. base!IsSender(p)' = base!IsSender(p) /\ base!IsReceiver(p)' = base!IsReceiver(p)
  BY <1>2, RolesKept
<1>7. OtherAlone(o)
  BY <1>1, <1>2, <1>3, <1>4, <1>5 DEF OtherAlone, BaseTypes
<1>8. SenderPart(p)'
  <2>1. ASSUME base!IsSender(p) PROVE sender_inputs'[p] = Hashed(p)
    <3>1. sender_inputs[p] = Strings(p)
      BY <1>2, <2>1 DEF ClearOK, SenderPart, Late
    <3>2. sender_inputs'[p] = [i \in base!Transfers |-> [j \in base!Bit |->
                                 base!Extended(Strings(p)[i][j])]]
      BY <1>3, <2>1, <3>1 DEF BaseTypes
    <3>3. ASSUME NEW i \in base!Transfers, NEW j \in base!Bit
          PROVE  Strings(p)[i][j] = base!Random(p, i, j)
      BY <3>3 DEF Strings
    <3> QED BY <3>2, <3>3 DEF Hashed
  <2> QED BY <1>5, <1>6, <2>1 DEF SenderPart, Before, Late, Hashed
<1>9. ReceiverPart(p)'
  <2>1. ASSUME base!IsReceiver(p), NEW i \in base!Transfers
        PROVE  receiver_outputs'[p][i] = Hashed(o)[i][receiver_inputs[p][i]]
    <3>1. receiver_outputs[p][i] = Strings(o)[i][receiver_inputs[p][i]]
      BY <1>2, <2>1 DEF ClearOK, ReceiverPart
    <3>2. receiver_inputs[p][i] \in base!Bit
      BY <2>1 DEF BaseTypes
    <3>3. receiver_outputs'[p][i] = base!Extended(receiver_outputs[p][i])
      BY <1>4, <2>1 DEF BaseTypes
    <3> QED BY <2>1, <3>1, <3>2, <3>3 DEF Strings, Hashed
  <2> QED BY <1>2, <1>5, <1>6, <2>1 DEF ReceiverPart, Late, Hashed
<1>10. ChannelPart(p)'
  BY <1>2, <1>5 DEF ClearOK, ChannelPart, Before
<1>11. ChannelPart(o)'
  BY <1>1, <1>2, <1>5, ChannelKept DEF ClearOK
<1> QED BY <1>7, <1>8, <1>9, <1>10, <1>11 DEF Cleared

(* In the check nothing but the places and the channels change.            *)
LEMMA StepCheck ==
    ASSUME BaseTypes, ClearOK, NEW p \in Parties, NEW o, o = 1 - p,
           base!Reveal(p) \/ base!Compare(p)
    PROVE  Cleared(p, o)
<1>1. o \in Parties /\ 1 - o = p /\ o # p /\ (base!IsSender(p) <=> base!IsReceiver(o))
  BY Roles
<1>2. PICK next \in Late : pc' = [pc EXCEPT ![p] = next]
  BY DEF base!Reveal, base!Compare, base!CheckNext, base!Exit, Late
<1>3. /\ pc[p] \in Late /\ pc[p] # "start" /\ pc[p] # "send_if_ot_sender" /\ conf' = conf
      /\ os' = os /\ receiver_inputs' = receiver_inputs
      /\ sender_inputs' = sender_inputs /\ receiver_outputs' = receiver_outputs
  BY DEF base!Reveal, base!Compare, base!made, Late
<1>4. pc'[p] \in Late /\ pc'[o] = pc[o]
  BY <1>1, <1>2 DEF BaseTypes
<1>5. base!IsSender(p)' = base!IsSender(p) /\ base!IsReceiver(p)' = base!IsReceiver(p)
  BY <1>3, RolesKept
<1>6. OtherAlone(o)
  BY <1>3, <1>4 DEF OtherAlone
<1>7. SenderPart(p)'
  BY <1>3, <1>4, <1>5 DEF ClearOK, SenderPart, Before, Late, Hashed
<1>8. ReceiverPart(p)'
  BY <1>3, <1>4, <1>5 DEF ClearOK, ReceiverPart, Late, Hashed
<1>9. IsSeq(chan[p]) /\ IsSeq(chan[o])
  BY <1>1 DEF ClearOK, ChannelPart
<1>10. CASE base!Reveal(p)
  <2>1. chan' = IF base!IsSender(p)
                  THEN [chan EXCEPT ![o] = Append(@, sender_inputs[p][at[p]])] ELSE chan
    BY <1>10 DEF base!Reveal
  <2>2. ChannelPart(p)'
    <3>1. chan'[p] = chan[p]
      BY <1>1, <2>1 DEF BaseTypes
    <3> QED BY <1>4, <1>9, <3>1 DEF ChannelPart, Before, Late
  <2>3. ChannelPart(o)'
    <3>1. CASE base!IsSender(p)
      <4>1. PICK m : chan'[o] = Append(chan[o], m)
        BY <1>1, <2>1, <3>1 DEF BaseTypes
      <4>2. IsSeq(chan'[o]) /\ chan'[o] # <<>> /\ chan'[o][1] = IF chan[o] = <<>> THEN m ELSE chan[o][1]
        BY <1>9, <4>1, SentBehind
      <4>3. pc[o] \in Before => chan[o] # <<>> /\ chan[o][1] = Pack(p)
        BY <1>1, <1>3, <3>1 DEF ClearOK, ChannelPart
      <4> QED BY <1>1, <1>4, <4>2, <4>3 DEF ChannelPart, Pack, Strings
    <3>2. CASE ~ base!IsSender(p)
      BY <1>1, <1>3, <1>4, <2>1, <3>2, ChannelKept DEF ClearOK
    <3> QED BY <3>1, <3>2
  <2> QED BY <1>6, <1>7, <1>8, <2>2, <2>3 DEF Cleared
<1>11. CASE base!Compare(p)
  <2>1. chan' = [chan EXCEPT ![p] = Tail(@)] /\ chan[p] # <<>>
    BY <1>11 DEF base!Compare
  <2>2. chan'[p] = Tail(chan[p]) /\ chan'[o] = chan[o]
    BY <1>1, <2>1 DEF BaseTypes
  <2>3. IsSeq(Tail(chan[p]))
    BY <1>9, <2>1, SeqTail
  <2>4. ChannelPart(p)'
    BY <1>4, <2>2, <2>3 DEF ChannelPart, Before, Late
  <2>5. ChannelPart(o)'
    BY <1>1, <1>3, <1>4, <2>2, ChannelKept DEF ClearOK
  <2> QED BY <1>6, <1>7, <1>8, <2>4, <2>5 DEF Cleared
<1> QED BY <1>10, <1>11

(* The steps of the other protocol are not taken.                          *)
LEMMA StepClear ==
    ASSUME BaseTypes, ClearOK, conf.protocol = "fake",
           NEW p \in Parties, NEW o, o = 1 - p, base!Party(p)
    PROVE  Cleared(p, o)
<1>1. pc[p] \in Before \cup {"outputs", "hash"} \cup Late
  BY DEF ClearOK, SenderPart
<1>2. ~ (base!MakeKeys(p) \/ base!Decrypt(p))
  BY DEF base!MakeKeys, base!Decrypt
<1>3. ~ (base!SendKeys(p) \/ base!GetKeys(p) \/ base!Encrypt(p))
  BY <1>1 DEF base!SendKeys, base!GetKeys, base!Encrypt, Before, Late
<1>4. \/ base!MakeStrings(p) \/ base!send_if_ot_sender(p) \/ base!Get(p)
      \/ base!Choose(p) \/ base!Hash(p) \/ base!Reveal(p) \/ base!Compare(p)
  BY <1>2, <1>3 DEF base!Party
<1> QED BY <1>4, StepMakeStrings, StepSend, StepGet, StepChoose, StepHash, StepCheck

LEMMA SeedsUnchanged ==
    ClearOK /\ SeedsOK /\ UNCHANGED basevars /\ UNCHANGED setup => ClearOK' /\ SeedsOK'
<1> SUFFICES ASSUME ClearOK, SeedsOK, UNCHANGED basevars, UNCHANGED setup
             PROVE  ClearOK' /\ SeedsOK'
  OBVIOUS
<1>1. /\ conf' = conf /\ pc' = pc /\ receiver_inputs' = receiver_inputs /\ os' = os /\ chan' = chan
      /\ sender_inputs' = sender_inputs /\ receiver_outputs' = receiver_outputs
  BY DEF basevars, made
<1>2. \A p \in Parties : base!IsSender(p)' = base!IsSender(p) /\ base!IsReceiver(p)' = base!IsReceiver(p)
  BY <1>1, RolesKept
<1>3. ASSUME NEW p \in Parties PROVE SenderPart(p)' /\ ChannelPart(p)' /\ ReceiverPart(p)'
  <2>1. OtherAlone(p)
    BY <1>1 DEF OtherAlone
  <2>2. SenderPart(p)' /\ ReceiverPart(p)'
    BY <1>3, <2>1, OtherKept DEF ClearOK
  <2>3. ChannelPart(p)'
    BY <1>1, <1>3, ChannelKept DEF ClearOK
  <2> QED BY <2>2, <2>3
<1>4. SeedsOK'
  BY <1>1 DEF SeedsOK, IsSetup, setup
<1> QED BY <1>3, <1>4 DEF ClearOK

LEMMA StepSeedsInv == SeedsInv /\ [TransfersNext]_allvars => SeedsInv'
<1> SUFFICES ASSUME SeedsInv, [TransfersNext]_allvars PROVE SeedsInv'
  OBVIOUS
<1>1. BaseTypes /\ BaseTypes'
  BY StepBaseTypes DEF SeedsInv
<1>2. conf' = conf
  <2>1. ASSUME NEW p \in Parties, Base(p) PROVE conf' = conf
    BY <2>1 DEF Base, base!Party, base!MakeKeys, base!SendKeys, base!GetKeys, base!Encrypt,
       base!MakeStrings, base!send_if_ot_sender, base!Get, base!Decrypt, base!Choose, base!Hash,
       base!Reveal, base!Compare
  <2> QED BY <2>1 DEF TransfersNext, Setup, Extend, basevars, allvars
<1>3. SUFFICES ASSUME conf.protocol = "fake" PROVE ClearOK' /\ SeedsOK'
  BY <1>1, <1>2 DEF SeedsInv
<1>4. ClearOK /\ SeedsOK
  BY <1>3 DEF SeedsInv
<1>5. ASSUME NEW p \in Parties, Base(p) PROVE ClearOK' /\ SeedsOK'
  <2>1. PICK o : o = 1 - p
    OBVIOUS
  <2>2. o \in Parties /\ o # p /\ \A z \in Parties : z = o \/ z = p
    BY <1>1, <1>5, <2>1, Roles DEF Parties, Garbler, Evaluator
  <2>3. Cleared(p, o)
    BY <1>1, <1>3, <1>4, <1>5, <2>1, StepClear DEF Base
  <2>4. SenderPart(o)' /\ ReceiverPart(o)'
    BY <1>4, <2>2, <2>3, OtherKept DEF Cleared, ClearOK
  <2>5. ClearOK'
    BY <2>2, <2>3, <2>4 DEF ClearOK, Cleared
  <2>6. pc[p] # "extend" /\ pc'[p] # "extend"
    BY <1>1, <1>5, BaseMoves DEF Base, BaseTypes
  <2>7. /\ pc'[o] = pc[o] /\ sender_inputs'[o] = sender_inputs[o]
        /\ receiver_outputs'[o] = receiver_outputs[o]
    BY <2>3 DEF Cleared, OtherAlone
  <2>8. G_sender' = G_sender /\ G_receiver' = G_receiver
    BY <1>5 DEF Base, vars, setup
  <2>9. Garbler \in Parties /\ Evaluator \in Parties
    BY DEF Parties
  <2>10. IsSetup' = IsSetup
    BY <1>2 DEF IsSetup
  <2>11. SeedsOK'
    <3>1. pc'[Garbler] = "extend" => IsSetup' /\ G_receiver' = receiver_outputs'[Garbler]
      BY <1>4, <2>2, <2>6, <2>7, <2>8, <2>9, <2>10 DEF SeedsOK
    <3>2. pc'[Evaluator] = "extend" => IsSetup' /\ G_sender' = sender_inputs'[Evaluator]
      BY <1>4, <2>2, <2>6, <2>7, <2>8, <2>9, <2>10 DEF SeedsOK
    <3> QED BY <3>1, <3>2 DEF SeedsOK
  <2> QED BY <2>5, <2>11
<1>6. ASSUME NEW p \in Parties, Setup(p) PROVE ClearOK' /\ SeedsOK'
  <2>1. /\ pc[p] = "check" /\ pc' = [pc EXCEPT ![p] = "extend"] /\ IsSetup
        /\ receiver_inputs' = receiver_inputs /\ os' = os /\ chan' = chan
        /\ sender_inputs' = sender_inputs /\ receiver_outputs' = receiver_outputs
        /\ SetSeeds(p)
    BY <1>3, <1>6 DEF Setup, made
  <2>2. pc'[p] = "extend" /\ \A z \in Parties : z # p => pc'[z] = pc[z]
    BY <1>1, <2>1 DEF BaseTypes
  <2>3. \A z \in Parties : base!IsSender(z)' = base!IsSender(z) /\ base!IsReceiver(z)' = base!IsReceiver(z)
    BY <1>2, RolesKept
  <2>4. ASSUME NEW z \in Parties PROVE SenderPart(z)' /\ ReceiverPart(z)'
    <3>1. CASE z = p
      <4>1. SenderPart(z) /\ ReceiverPart(z)
        BY <1>4, <2>4 DEF ClearOK
      <4>2. SenderPart(z)'
        BY <2>1, <2>2, <2>3, <3>1, <4>1 DEF SenderPart, Before, Late, Hashed
      <4>3. ReceiverPart(z)'
        BY <2>1, <2>2, <2>3, <3>1, <4>1 DEF ReceiverPart, Late, Hashed
      <4> QED BY <4>2, <4>3
    <3>2. CASE z # p
      BY <1>2, <1>4, <2>1, <2>2, <2>4, <3>2, OtherKept DEF ClearOK, OtherAlone
    <3> QED BY <3>1, <3>2
  <2>5. ASSUME NEW z \in Parties PROVE ChannelPart(z)'
    <3>1. 1 - z \in Parties /\ pc[p] \notin {"start", "send_if_ot_sender"}
      BY <1>1, <2>1, <2>5, Roles
    <3>2. pc'[z] = pc[z] \/ pc'[z] \notin Before
      BY <2>2, <2>5 DEF Before
    <3>3. pc'[1 - z] \notin {"start", "send_if_ot_sender"} =>
            pc[1 - z] \notin {"start", "send_if_ot_sender"}
      BY <2>2, <3>1
    <3> QED BY <1>2, <1>4, <2>1, <2>5, <3>2, <3>3, ChannelKept DEF ClearOK
  <2>6. IsSetup'
    BY <1>2, <2>1 DEF IsSetup
  <2>7. Garbler \in Parties /\ Evaluator \in Parties /\ Garbler # Evaluator
    BY DEF Parties, Garbler, Evaluator
  <2>8. SeedsOK'
    <3>1. pc'[Garbler] = "extend" => G_receiver' = receiver_outputs'[Garbler]
      <4>1. CASE p = Garbler
        BY <2>1, <4>1 DEF SetSeeds
      <4>2. CASE p # Garbler
        BY <1>4, <2>1, <2>2, <2>7, <4>2 DEF SetSeeds, SeedsOK
      <4> QED BY <4>1, <4>2
    <3>2. pc'[Evaluator] = "extend" => G_sender' = sender_inputs'[Evaluator]
      <4>1. CASE p = Garbler
        BY <1>4, <2>1, <2>2, <2>7, <4>1 DEF SetSeeds, SeedsOK
      <4>2. CASE p # Garbler
        <5>1. p = Evaluator
          BY <1>6, <4>2 DEF Parties
        <5> QED BY <2>1, <4>2, <5>1 DEF SetSeeds
      <4> QED BY <4>1, <4>2
    <3> QED BY <2>6, <3>1, <3>2 DEF SeedsOK
  <2> QED BY <2>4, <2>5, <2>8 DEF ClearOK
<1>7. ASSUME NEW p \in Parties, Extend(p) PROVE ClearOK' /\ SeedsOK'
  <2>1. UNCHANGED basevars
    BY <1>7 DEF Extend
  <2>2. UNCHANGED setup
    BY <1>7 DEF Extend, Sender, SenderBegins, SenderSlice, SenderCheck, SendLabels,
                Receiver, ReceiverBegins, ReceiverSlice, ReceiverCheck, GetLabels, RefuseLabels
  <2> QED BY <1>4, <2>1, <2>2, SeedsUnchanged
<1>8. CASE UNCHANGED allvars
  BY <1>4, <1>8, SeedsUnchanged DEF allvars, vars
<1> QED BY <1>5, <1>6, <1>7, <1>8 DEF TransfersNext

(* What a base transfer in the clear gives: used for every pair of parties *)
(* whose strings are final.                                                *)
LEMMA ClearGivesChoice ==
    ASSUME BaseTypes, ClearOK, NEW p \in Parties, base!IsReceiver(p),
           pc[p] \in Late, pc[1 - p] \in Late, NEW i \in base!Transfers
    PROVE  receiver_outputs[p][i] = sender_inputs[1 - p][i][receiver_inputs[p][i]]
<1>1. 1 - p \in Parties /\ base!IsSender(1 - p)
  BY Roles
<1>2. sender_inputs[1 - p] = Hashed(1 - p)
  BY <1>1 DEF ClearOK, SenderPart
<1>3. receiver_outputs[p][i] = Hashed(1 - p)[i][receiver_inputs[p][i]]
  BY DEF ClearOK, ReceiverPart
<1> QED BY <1>2, <1>3

LEMMA SeedsGiven == SeedsInv /\ SetupOK => SeedsChosen
<1> SUFFICES ASSUME SeedsInv, SetupOK PROVE SeedsChosen
  OBVIOUS
<1>1. BaseTypes
  BY DEF SeedsInv
<1>2. base!Parties = Parties
  BY DEF base!Parties, Parties, Garbler, Evaluator
<1>3. base!FakeOutputsChosen
  <2> SUFFICES ASSUME conf.protocol = "fake",
                      \A p \in Parties : pc[p] \in {"check", "compare", "done", "exit"},
                      NEW p \in Parties, NEW i \in base!Transfers, base!IsReceiver(p)
               PROVE  receiver_outputs[p][i] = sender_inputs[1 - p][i][receiver_inputs[p][i]]
    BY <1>2 DEF base!FakeOutputsChosen, base!OutputsChosen
  <2>1. pc[p] \in Late /\ pc[1 - p] \in Late
    BY <1>1, Roles DEF Late
  <2> QED BY <1>1, <2>1, ClearGivesChoice DEF SeedsInv
<1>4. ASSUME conf.protocol = "fake", \A p \in Parties : pc[p] = "extend"
      PROVE  Promised
  <2> SUFFICES ASSUME NEW j \in Bits
               PROVE  G_receiver[j] = G_sender[j][IF j \in delta THEN 1 ELSE 0]
    BY DEF Promised
  <2>1. ClearOK /\ SeedsOK
    BY <1>4 DEF SeedsInv
  <2>2. Garbler = 0 /\ Evaluator = 1 /\ 1 - Garbler = Evaluator /\ Garbler \in Parties /\ Evaluator \in Parties
    BY DEF Garbler, Evaluator, Parties
  <2>3. base!IsReceiver(Garbler)
    BY <1>4, <2>1, <2>2 DEF SeedsOK, IsSetup, base!IsReceiver, base!ot_role
  <2>4. j \in base!Transfers
    BY OTExtensionAssumption DEF base!Transfers
  <2>5. receiver_outputs[Garbler][j] = sender_inputs[Evaluator][j][receiver_inputs[Garbler][j]]
    BY <1>1, <1>4, <2>1, <2>2, <2>3, <2>4, ClearGivesChoice DEF Late
  <2>6. G_receiver = receiver_outputs[Garbler] /\ G_sender = sender_inputs[Evaluator]
        /\ delta = choice(Garbler)
    BY <1>4, <2>1, <2>2 DEF SeedsOK, SetupOK
  <2>7. receiver_inputs[Garbler][j] \in 0 .. 1
    BY <1>1, <2>2, <2>4 DEF BaseTypes, base!Bit
  <2>8. receiver_inputs[Garbler][j] = IF j \in delta THEN 1 ELSE 0
    BY <2>6, <2>7 DEF choice
  <2> QED BY <2>5, <2>6, <2>8
<1> QED BY <1>3, <1>4 DEF SeedsChosen

(* The base transfers in the clear give the receiver the strings it chose, *)
(* in every role, and the machine for oblivious transfers the seeds an     *)
(* extension rests on (BaseOT.cpp:736-762, OTMachine.cpp:236-246,          *)
(* OTExtension.h:40-71).                                                   *)
THEOREM SeedsAreChosen == TransfersSpec => []SeedsChosen
<1>1. TransfersInit => SeedsInv
  BY InitSeedsInv
<1>2. SeedsInv /\ [TransfersNext]_allvars => SeedsInv'
  BY StepSeedsInv
<1>3. SeedsInv /\ ExtensionInv => SeedsChosen
  BY SeedsGiven DEF ExtensionInv
<1> QED BY <1>1, <1>2, <1>3, ExtensionInvariant, PTL DEF TransfersSpec
-----------------------------------------------------------------------------
(* The types of the extensions.                                            *)
(* The matrices have as many rows as the blocks of the inputs and two      *)
(* blocks that are discarded.                                              *)
LEMMA RowsInAll ==
    ASSUME program \in Programs, NEW e \in DOMAIN program.n, program.n[e] > 0,
           NEW n, n = program.n[e]
    PROVE  nOTs(n) = rounded(n) + 2 * K
<1> DEFINE m == rounded(n) + 2 * K
<1>1. /\ nsubloops \in Nat \ {0} /\ K \in Nat \ {0} /\ n \in Nat
      /\ m % (nsubloops * K) = 0
  BY Numbers, OTExtensionAssumption DEF nsubloops
<1>2. m \in Nat
  BY <1>1, RoundedUp
<1>3. slice(n) = (m \div nsubloops) \div K
  BY DEF slice
<1> HIDE DEF m
<1> DEFINE c == nsubloops
<1>4. c \in Nat \ {0} /\ m \in Nat /\ K \in Nat \ {0} /\ m % (c * K) = 0
  BY <1>1, <1>2
<1>5. slice(n) = (m \div c) \div K
  BY <1>3
<1> HIDE DEF c
<1>6. ((m \div c) \div K) * c * K = m
  BY <1>4, DivideTwice
<1>7. slice(n) * c * K = m
  BY <1>5, <1>6
<1> QED BY <1>7 DEF nOTs, m, c

LEMMA PaddedType ==
    ASSUME program \in Programs, NEW e \in DOMAIN program.n, program.n[e] > 0,
           NEW n, n = program.n[e], NEW input \in [1 .. n -> BOOLEAN]
    PROVE  Padded(e, n, input) \in [1 .. nOTs(n) -> BOOLEAN]
<1>1. n \in Nat /\ nOTs(n) \in Nat /\ K \in Nat
  BY SlicesFit, Numbers
<1> SUFFICES ASSUME NEW i \in 1 .. nOTs(n)
             PROVE  (IF i > nOTs(n) - 2 * K THEN padding(e, i) ELSE i <= n /\ input[i]) \in BOOLEAN
  BY DEF Padded
<1>2. padding(e, i) \in BOOLEAN
  BY RowsInAll, PaddingAssumption
<1>3. (i <= n /\ input[i]) \in BOOLEAN
  OBVIOUS
<1> QED BY <1>2, <1>3

(* What the type invariant says beyond the places.                         *)
Bounded(p) == p.ext <= Len(program.n) + 1 /\ p.slice < nsubloops
ReceiverTypes ==
    r.pc # "idle" =>
      /\ inputs \in [1 .. Size(r) -> BOOLEAN]
      /\ Size(r) > 0 => x \in [1 .. nOTs(Size(r)) -> BOOLEAN] /\ t \in Block(nOTs(Size(r)))
SenderTypes == s.pc # "idle" /\ Size(s) > 0 => q \in Block(nOTs(Size(s)))
ExtensionTypes == Bounded(r) /\ Bounded(s) /\ ReceiverTypes /\ SenderTypes

LEMMA TypesOfExtension == PlacesOK /\ ExtensionTypes => TypeOK
<1> SUFFICES ASSUME PlacesOK, ExtensionTypes PROVE TypeOK
  OBVIOUS
<1>1. nsubloops \in Nat \ {0} /\ program.n \in Seq(Nat)
  BY Numbers DEF PlacesOK
<1>2. Len(program.n) \in Nat
  BY <1>1
<1>3. ASSUME NEW p \in {r, s}
      PROVE  /\ p.pc \in {"idle", "slices", "check", "keys", "throws", "aborts"}
             /\ p.ext \in 1 .. Len(program.n) + 1
             /\ p.slice \in 0 .. nsubloops - 1
             /\ p.pc # "idle" => p.ext \in DOMAIN program.n
  <2>1. PlaceOK(p) /\ Bounded(p)
    BY <1>3 DEF PlacesOK, ExtensionTypes
  <2>2. p.ext \in Nat \ {0} /\ p.slice \in Nat
    BY <2>1 DEF PlaceOK
  <2> QED BY <1>1, <1>2, <2>1, <2>2 DEF PlaceOK, Bounded
<1> QED BY <1>3 DEF TypeOK, PlacesOK, ExtensionTypes, ReceiverTypes, SenderTypes

LEMMA RowsAreBlocks ==
    ASSUME NEW a, NEW b, a \subseteq Bits, b \subseteq Bits
    PROVE  xor_block(a, b) \in Key
BY DEF xor_block, Key

(* A step that leaves the programs alone.                                  *)
LEMMA TypesFrame ==
    ASSUME program' = program
    PROVE  nsubloops' = nsubloops /\ \A n : nOTs(n)' = nOTs(n) /\ Block(n)' = Block(n)
<1>1. nsubloops' = nsubloops
  BY DEF nsubloops
<1>2. \A n : slice(n)' = slice(n)
  BY <1>1 DEF slice
<1> QED BY <1>1, <1>2 DEF nOTs, Block

LEMMA SenderTypesKept ==
    ASSUME program' = program, s' = s, q' = q, Bounded(s), SenderTypes
    PROVE  Bounded(s)' /\ SenderTypes'
<1>1. nsubloops' = nsubloops /\ \A n : nOTs(n)' = nOTs(n) /\ Block(n)' = Block(n)
  BY TypesFrame
<1>2. Size(s)' = Size(s)
  BY DEF Size
<1> QED BY <1>1, <1>2 DEF Bounded, SenderTypes

LEMMA ReceiverTypesKept ==
    ASSUME program' = program, r' = r, inputs' = inputs, x' = x, t' = t, Bounded(r), ReceiverTypes
    PROVE  Bounded(r)' /\ ReceiverTypes'
<1>1. nsubloops' = nsubloops /\ \A n : nOTs(n)' = nOTs(n) /\ Block(n)' = Block(n)
  BY TypesFrame
<1>2. Size(r)' = Size(r)
  BY DEF Size
<1> QED BY <1>1, <1>2 DEF Bounded, ReceiverTypes

(* Where the parties go within an extension.                               *)
LEMMA BoundedPlaces ==
    ASSUME program \in Programs, NEW e \in DOMAIN program.n, NEW c
    PROVE  /\ Bounded(At(c, e, 0)) /\ Bounded(At(c, e + 1, 0))
           /\ \A p : p.ext = e => Bounded(AfterSlice(p))
<1>1. nsubloops \in Nat \ {0} /\ program.n \in Seq(Nat)
  BY Numbers
<1>2. e \in 1 .. Len(program.n) /\ Len(program.n) \in Nat
  BY <1>1
<1> QED BY <1>1, <1>2 DEF Bounded, At, AfterSlice

LEMMA StepReceiverTypes ==
    ASSUME ExtensionOK, ExtensionTypes, Receiver
    PROVE  ExtensionTypes'
<1>1. PlacesOK /\ program \in Programs /\ PlaceOK(r) /\ nsubloops \in Nat \ {0} /\ K \in Nat \ {0}
  BY Numbers DEF ExtensionOK, PlacesOK
<1>2. UNCHANGED setup /\ s' = s /\ q' = q
  BY DEF Receiver, ReceiverBegins, ReceiverSlice, ReceiverCheck, GetLabels, RefuseLabels, sender
<1>3. program' = program
  BY <1>2 DEF setup
<1>4. Bounded(s)' /\ SenderTypes'
  BY <1>2, <1>3, SenderTypesKept DEF ExtensionTypes
<1>5. nsubloops' = nsubloops /\ \A n : nOTs(n)' = nOTs(n) /\ Block(n)' = Block(n)
  BY <1>3, TypesFrame
<1>6. r.ext \in DOMAIN program.n
  BY <1>1 DEF Receiver, ReceiverBegins, ReceiverSlice, ReceiverCheck, GetLabels, RefuseLabels, PlaceOK
<1>7. /\ \A c : Bounded(At(c, r.ext, 0)) /\ Bounded(At(c, r.ext + 1, 0))
      /\ Bounded(AfterSlice(r))
  BY <1>1, <1>6, BoundedPlaces
<1>8. Bounded(r)'
  <2>1. \/ \E c : r' = At(c, r.ext, 0) \/ r' = At(c, r.ext + 1, 0)
        \/ r' = AfterSlice(r)
    BY DEF Receiver, ReceiverBegins, ReceiverSlice, ReceiverCheck, GetLabels, RefuseLabels
  <2> QED BY <1>3, <1>5, <1>7, <2>1 DEF Bounded
<1>9. ReceiverTypes'
  <2> DEFINE n == Size(r)
  <2>1. n \in Nat /\ n = program.n[r.ext]
    BY <1>1, <1>6, Numbers DEF Size
  <2>2. CASE ReceiverBegins
    <3>1. Size(r)' = n
      BY <1>3, <2>2 DEF ReceiverBegins, At, Size
    <3>2. inputs' \in [1 .. n -> BOOLEAN]
      BY <2>2 DEF ReceiverBegins
    <3>3. ASSUME n > 0 PROVE x' \in [1 .. nOTs(n) -> BOOLEAN] /\ t' \in Block(nOTs(n))
      <4>1. x' = Padded(r.ext, n, inputs') /\ t' = [i \in 1 .. nOTs(n) |-> ZeroKey]
        BY <2>1, <2>2, <3>3 DEF ReceiverBegins
      <4>2. x' \in [1 .. nOTs(n) -> BOOLEAN]
        BY <1>1, <1>6, <2>1, <3>2, <3>3, <4>1, PaddedType
      <4>3. t' \in Block(nOTs(n))
        BY <4>1 DEF Block, ZeroKey, Key
      <4> QED BY <4>2, <4>3
    <3> QED BY <1>5, <3>1, <3>2, <3>3 DEF ReceiverTypes
  <2>3. CASE ReceiverSlice
    <3>1. r.pc = "slices" /\ r' = AfterSlice(r) /\ inputs' = inputs /\ x' = x
      BY <2>3 DEF ReceiverSlice
    <3>2. Size(r)' = n /\ n > 0
      BY <1>1, <1>3, <3>1 DEF AfterSlice, At, Size, PlaceOK
    <3>3. \A i \in DOMAIN t : t'[i] \in Key \/ t'[i] = t[i]
      BY <2>3 DEF ReceiverSlice, Expand, Key
    <3>4. t \in Block(nOTs(n)) /\ x \in [1 .. nOTs(n) -> BOOLEAN] /\ inputs \in [1 .. n -> BOOLEAN]
      BY <3>1, <3>2 DEF ExtensionTypes, ReceiverTypes
    <3>5. t' \in Block(nOTs(n))
      <4>1. t' = [i \in DOMAIN t |-> t'[i]]
        BY <2>3 DEF ReceiverSlice
      <4>2. DOMAIN t = 1 .. nOTs(n) /\ \A i \in DOMAIN t : t'[i] \in Key
        BY <3>3, <3>4 DEF Block
      <4> QED BY <4>1, <4>2 DEF Block
    <3> QED BY <1>5, <3>1, <3>2, <3>4, <3>5 DEF ReceiverTypes
  <2>4. CASE ReceiverCheck
    <3>1. r.pc = "check" /\ r' = At("keys", r.ext, 0) /\ inputs' = inputs /\ x' = x /\ t' = t
      BY <2>4 DEF ReceiverCheck
    <3>2. Size(r)' = n
      BY <1>3, <3>1 DEF At, Size
    <3> QED BY <1>5, <3>1, <3>2 DEF ExtensionTypes, ReceiverTypes
  <2>5. CASE GetLabels
    BY <2>5 DEF GetLabels, ReceiverTypes, At
  <2>6. CASE RefuseLabels
    <3>1. r.pc # "idle" /\ r' = At("aborts", r.ext, 0) /\ inputs' = inputs /\ x' = x /\ t' = t
      BY <2>6 DEF RefuseLabels
    <3>2. Size(r)' = n
      BY <1>3, <3>1 DEF At, Size
    <3> QED BY <1>5, <3>1, <3>2 DEF ExtensionTypes, ReceiverTypes
  <2> QED BY <2>2, <2>3, <2>4, <2>5, <2>6 DEF Receiver
<1> QED BY <1>4, <1>8, <1>9 DEF ExtensionTypes

LEMMA StepSenderTypes ==
    ASSUME ExtensionOK, ExtensionTypes, Sender
    PROVE  ExtensionTypes'
<1>1. PlacesOK /\ program \in Programs /\ PlaceOK(s) /\ nsubloops \in Nat \ {0} /\ K \in Nat \ {0}
      /\ delta \subseteq Bits
  BY Numbers DEF ExtensionOK, PlacesOK, Key
<1>2. UNCHANGED setup /\ r' = r /\ inputs' = inputs /\ x' = x /\ t' = t
  BY DEF Sender, SenderBegins, SenderSlice, SenderCheck, SendLabels, receiver
<1>3. program' = program
  BY <1>2 DEF setup
<1>4. Bounded(r)' /\ ReceiverTypes'
  BY <1>2, <1>3, ReceiverTypesKept DEF ExtensionTypes
<1>5. nsubloops' = nsubloops /\ \A n : nOTs(n)' = nOTs(n) /\ Block(n)' = Block(n)
  BY <1>3, TypesFrame
<1>6. s.ext \in DOMAIN program.n
  BY <1>1 DEF Sender, SenderBegins, SenderSlice, SenderCheck, SendLabels, PlaceOK
<1>7. /\ \A c : Bounded(At(c, s.ext, 0)) /\ Bounded(At(c, s.ext + 1, 0))
      /\ Bounded(AfterSlice(s))
  BY <1>1, <1>6, BoundedPlaces
<1>8. Bounded(s)'
  <2>1. \/ \E c : s' = At(c, s.ext, 0) \/ s' = At(c, s.ext + 1, 0)
        \/ s' = AfterSlice(s)
    BY DEF Sender, SenderBegins, SenderSlice, SenderCheck, SendLabels
  <2> QED BY <1>3, <1>5, <1>7, <2>1 DEF Bounded
<1>9. SenderTypes'
  <2> DEFINE n == Size(s)
  <2>1. n \in Nat /\ n = program.n[s.ext]
    BY <1>1, <1>6, Numbers DEF Size
  <2>2. CASE SenderBegins
    <3>1. Size(s)' = n
      BY <1>3, <2>2 DEF SenderBegins, At, Size
    <3>2. ASSUME n > 0 PROVE q' \in Block(nOTs(n))
      BY <2>1, <2>2, <3>2 DEF SenderBegins, Block, ZeroKey, Key
    <3> QED BY <1>5, <3>1, <3>2 DEF SenderTypes
  <2>3. CASE SenderSlice
    <3>1. s.pc = "slices" /\ s' = AfterSlice(s)
      BY <2>3 DEF SenderSlice
    <3>2. Size(s)' = n /\ n > 0
      BY <1>1, <1>3, <3>1 DEF AfterSlice, At, Size, PlaceOK
    <3>3. ASSUME NEW z, NEW u PROVE conditional_add(Expand(G_receiver, z), u) \in Key
      <4>1. Expand(G_receiver, z) \subseteq Bits /\ u \cap delta \subseteq Bits
        BY <1>1 DEF Expand
      <4> QED BY <4>1, RowsAreBlocks DEF conditional_add
    <3>4. \A i \in DOMAIN q : q'[i] \in Key \/ q'[i] = q[i]
      BY <2>3, <3>3 DEF SenderSlice
    <3>5. q \in Block(nOTs(n))
      BY <3>1, <3>2 DEF ExtensionTypes, SenderTypes
    <3>6. q' \in Block(nOTs(n))
      <4>1. q' = [i \in DOMAIN q |-> q'[i]]
        BY <2>3 DEF SenderSlice
      <4>2. DOMAIN q = 1 .. nOTs(n) /\ \A i \in DOMAIN q : q'[i] \in Key
        BY <3>4, <3>5 DEF Block
      <4> QED BY <4>1, <4>2 DEF Block
    <3> QED BY <1>5, <3>2, <3>6 DEF SenderTypes
  <2>4. CASE SenderCheck
    <3>1. s.pc = "check" /\ q' = q /\ \E c : s' = At(c, s.ext, 0)
      BY <2>4 DEF SenderCheck
    <3>2. Size(s)' = n
      BY <1>3, <3>1 DEF At, Size
    <3> QED BY <1>5, <3>1, <3>2 DEF ExtensionTypes, SenderTypes
  <2>5. CASE SendLabels
    BY <2>5 DEF SendLabels, SenderTypes, At
  <2> QED BY <2>2, <2>3, <2>4, <2>5 DEF Sender
<1> QED BY <1>4, <1>8, <1>9 DEF ExtensionTypes

LEMMA StepExtensionTypes ==
    ExtensionInv /\ ExtensionTypes /\ [TransfersNext]_allvars => ExtensionTypes'
<1> SUFFICES ASSUME ExtensionInv, ExtensionTypes, [TransfersNext]_allvars PROVE ExtensionTypes'
  OBVIOUS
<1>1. ExtensionOK
  BY DEF ExtensionInv
<1>2. ASSUME UNCHANGED <<program, receiver, sender>> PROVE ExtensionTypes'
  <2>1. program' = program /\ r' = r /\ s' = s /\ inputs' = inputs /\ x' = x /\ t' = t /\ q' = q
    BY <1>2 DEF receiver, sender
  <2> QED BY <2>1, SenderTypesKept, ReceiverTypesKept DEF ExtensionTypes
<1>3. ASSUME NEW p \in Parties, Base(p) PROVE ExtensionTypes'
  BY <1>2, <1>3 DEF Base, vars, setup
<1>4. ASSUME NEW p \in Parties, Setup(p) PROVE ExtensionTypes'
  BY <1>2, <1>4 DEF Setup
<1>5. ASSUME NEW p \in Parties, Extend(p) PROVE ExtensionTypes'
  BY <1>1, <1>5, StepSenderTypes, StepReceiverTypes DEF Extend
<1>6. CASE UNCHANGED allvars
  BY <1>2, <1>6 DEF allvars, vars, setup
<1> QED BY <1>3, <1>4, <1>5, <1>6 DEF TransfersNext

LEMMA InitExtensionTypes == TransfersInit => ExtensionTypes
<1> SUFFICES ASSUME TransfersInit PROVE ExtensionTypes
  OBVIOUS
<1>1. r = At("idle", 1, 0) /\ s = At("idle", 1, 0) /\ program \in Programs
  BY DEF TransfersInit, Start
<1>2. nsubloops \in Nat \ {0} /\ program.n \in Seq(Nat)
  BY <1>1, Numbers
<1>3. Len(program.n) \in Nat
  BY <1>2
<1> QED BY <1>1, <1>2, <1>3 DEF ExtensionTypes, Bounded, ReceiverTypes, SenderTypes, At
-----------------------------------------------------------------------------
(***************************************************************************)
(* The types of both parts, and what the ciphertexts of the Kyber          *)
(* transfers open to.  Nothing that is sent says whether it is keys,       *)
(* ciphertexts or strings revealed for the check: the invariant counts     *)
(* what is under way to a party from how far the two parties are.  The     *)
(* keys a party encrypts with are those of the other one's choice bits,    *)
(* which do not change any more once the keys are made.                    *)
(***************************************************************************)
BeforeKeys == {"start", "send_if_ot_receiver"}
BeforeSend == BeforeKeys \cup {"get_keys", "encrypt", "send_if_ot_sender"}
BeforeGet == BeforeSend \cup {"get"}

KeyPack(p) == [i \in 1 .. K |->
    base!KyberReceiverMessage(receiver_inputs[p][i - 1], base!Fresh(p, i - 1, 0), base!Fresh(p, i - 1, 1))]
CipherPack(p) == [i \in 1 .. K |-> base!KyberSenderMessage(Strings(p)[i - 1], KeyPack(1 - p)[i])]

(* The keys that party p has not taken from its channel yet.               *)
KeysToCome(p) == IF base!IsSender(p) /\ pc[p] \in BeforeKeys \cup {"get_keys"} THEN 1 ELSE 0

KyberParty(p) ==
    /\ pc[p] \in BeforeGet \cup {"outputs", "hash"} \cup Late
    /\ pc[p] = "send_if_ot_receiver" /\ base!IsReceiver(p) => os[p][0] = KeyPack(p)
    /\ pc[p] = "get_keys" => base!IsSender(p)
    /\ pc[p] = "encrypt" /\ base!IsSender(p) => os[p][1] = KeyPack(1 - p)
    /\ pc[p] = "send_if_ot_sender" /\ base!IsSender(p) => os[p][0] = CipherPack(p)
    /\ pc[p] = "get" => base!IsReceiver(p)
    /\ pc[p] = "outputs" => base!IsReceiver(p) /\ os[p][1] = CipherPack(1 - p)
    /\ base!IsSender(p) /\ pc[1 - p] \in BeforeKeys => pc[p] \in BeforeKeys \cup {"get_keys"}

KyberChannel(p) ==
    /\ IsSeq(chan[p])
    /\ pc[1 - p] \in BeforeKeys => Len(chan[p]) = 0
    /\ pc[1 - p] \in BeforeSend \ BeforeKeys => Len(chan[p]) = KeysToCome(p)
    /\ pc[1 - p] \notin BeforeKeys /\ KeysToCome(p) = 1 =>
         Len(chan[p]) >= 1 /\ chan[p][1] = KeyPack(1 - p)
    /\ pc[1 - p] \notin BeforeSend /\ base!IsReceiver(p) /\ pc[p] \in BeforeGet =>
         /\ Len(chan[p]) >= KeysToCome(p) + 1
         /\ chan[p][KeysToCome(p) + 1] = CipherPack(1 - p)

KyberOK == \A p \in Parties : KyberParty(p) /\ KyberChannel(p)

(* Where there are no messages of base transfers.                          *)
PromisedOK == \A p \in Parties : pc[p] \in {"start", "extend"}

TransfersInv ==
    /\ ExtensionInv /\ SeedsInv /\ ExtensionTypes
    /\ at \in [Parties -> base!Transfers]
    /\ conf.protocol = "kyber" => KyberOK
    /\ conf.protocol \notin {"fake", "kyber"} => PromisedOK

LEMMA PacksKept ==
    ASSUME NEW p
    PROVE  /\ receiver_inputs'[p] = receiver_inputs[p] => KeyPack(p)' = KeyPack(p)
           /\ receiver_inputs'[1 - p] = receiver_inputs[1 - p] => CipherPack(p)' = CipherPack(p)
<1>1. \A z : receiver_inputs'[z] = receiver_inputs[z] => KeyPack(z)' = KeyPack(z)
  BY DEF KeyPack
<1> QED BY <1>1 DEF CipherPack, Strings

(* What the step of one party must not disturb for the other one.          *)
LEMMA KyberPartyKept ==
    ASSUME NEW o, KyberParty(o), conf' = conf, receiver_inputs' = receiver_inputs,
           pc'[o] = pc[o], os'[o] = os[o], pc'[1 - o] \in BeforeKeys => pc[1 - o] \in BeforeKeys
    PROVE  KyberParty(o)'
<1>1. base!IsSender(o)' = base!IsSender(o) /\ base!IsReceiver(o)' = base!IsReceiver(o)
  BY RolesKept
<1>2. \A z : KeyPack(z)' = KeyPack(z) /\ CipherPack(z)' = CipherPack(z)
  BY PacksKept
<1> QED BY <1>1, <1>2 DEF KyberParty

LEMMA KyberChannelKept ==
    ASSUME NEW o, KyberChannel(o), conf' = conf, receiver_inputs' = receiver_inputs,
           chan'[o] = chan[o],
           pc'[o] \in BeforeKeys \cup {"get_keys"} <=> pc[o] \in BeforeKeys \cup {"get_keys"},
           pc'[o] \in BeforeGet => pc[o] \in BeforeGet,
           pc'[1 - o] \in BeforeKeys <=> pc[1 - o] \in BeforeKeys,
           pc'[1 - o] \in BeforeSend <=> pc[1 - o] \in BeforeSend
    PROVE  KyberChannel(o)'
<1>1. base!IsSender(o)' = base!IsSender(o) /\ base!IsReceiver(o)' = base!IsReceiver(o)
  BY RolesKept
<1>2. \A z : KeyPack(z)' = KeyPack(z) /\ CipherPack(z)' = CipherPack(z)
  BY PacksKept
<1>3. KeysToCome(o)' = KeysToCome(o)
  BY <1>1 DEF KeysToCome
<1> QED BY <1>1, <1>2, <1>3 DEF KyberChannel

(* A party that sends to o after its ciphertexts only adds behind what is  *)
(* there.                                                                  *)
LEMMA KyberChannelLonger ==
    ASSUME NEW o, KyberChannel(o), conf' = conf, receiver_inputs' = receiver_inputs,
           NEW m, chan'[o] = Append(chan[o], m), pc'[o] = pc[o],
           pc[1 - o] \notin BeforeSend, pc'[1 - o] \notin BeforeSend
    PROVE  KyberChannel(o)'
<1>1. base!IsSender(o)' = base!IsSender(o) /\ base!IsReceiver(o)' = base!IsReceiver(o)
  BY RolesKept
<1>2. \A z : KeyPack(z)' = KeyPack(z) /\ CipherPack(z)' = CipherPack(z)
  BY PacksKept
<1>3. KeysToCome(o)' = KeysToCome(o) /\ KeysToCome(o) \in 0 .. 1
  BY <1>1 DEF KeysToCome
<1>4. IsSeq(chan[o]) /\ Len(chan[o]) \in Nat
  BY SeqLen DEF KyberChannel
<1>5. /\ IsSeq(chan'[o]) /\ Len(chan'[o]) = Len(chan[o]) + 1
      /\ \A k \in 1 .. Len(chan[o]) : chan'[o][k] = chan[o][k]
  BY <1>4, SeqAppend
<1>6. pc'[1 - o] \notin BeforeKeys /\ pc[1 - o] \notin BeforeKeys
  BY DEF BeforeSend
<1>7. KeysToCome(o)' = 1 => Len(chan'[o]) >= 1 /\ chan'[o][1] = KeyPack(1 - o)
  BY <1>3, <1>4, <1>5, <1>6 DEF KyberChannel
<1>8. base!IsReceiver(o) /\ pc[o] \in BeforeGet =>
         /\ Len(chan'[o]) >= KeysToCome(o) + 1
         /\ chan'[o][KeysToCome(o) + 1] = CipherPack(1 - o)
  BY <1>3, <1>4, <1>5, <1>6 DEF KyberChannel
<1> QED BY <1>1, <1>2, <1>3, <1>5, <1>6, <1>7, <1>8 DEF KyberChannel

KyberKept(p, o) == KyberParty(p)' /\ KyberChannel(p)' /\ KyberParty(o)' /\ KyberChannel(o)'

LEMMA StepMakeKeys ==
    ASSUME BaseTypes, KyberOK, NEW p \in Parties, NEW o, o = 1 - p, base!MakeKeys(p)
    PROVE  KyberKept(p, o)
<1>1. /\ o \in Parties /\ 1 - o = p /\ o # p
      /\ base!IsSender(o) <=> base!IsReceiver(p)
  BY Roles
<1>2. /\ pc[p] = "start" /\ pc' = [pc EXCEPT ![p] = "send_if_ot_receiver"] /\ conf' = conf
      /\ chan' = chan
  BY DEF base!MakeKeys
<1>3. pc'[p] = "send_if_ot_receiver" /\ pc'[o] = pc[o]
  BY <1>1, <1>2 DEF BaseTypes
<1>4. KyberParty(p) /\ KyberParty(o) /\ KyberChannel(p) /\ KyberChannel(o)
  BY <1>1 DEF KyberOK
<1>5. CASE ~ base!IsReceiver(p)
  <2>1. receiver_inputs' = receiver_inputs /\ os' = os
    BY <1>5 DEF base!MakeKeys
  <2>2. base!IsReceiver(p)' = base!IsReceiver(p) /\ base!IsSender(p)' = base!IsSender(p)
    BY <1>2, RolesKept
  <2>3. KyberParty(p)'
    BY <1>2, <1>3, <1>5, <2>2 DEF KyberParty, BeforeKeys, BeforeSend, BeforeGet, Late
  <2>4. KyberParty(o)'
    BY <1>1, <1>2, <1>3, <1>4, <2>1, KyberPartyKept DEF BeforeKeys
  <2>5. KyberChannel(p)'
    BY <1>1, <1>2, <1>3, <1>4, <2>1, KyberChannelKept DEF BeforeKeys, BeforeSend, BeforeGet
  <2>6. KyberChannel(o)'
    BY <1>1, <1>2, <1>3, <1>4, <2>1, KyberChannelKept DEF BeforeKeys, BeforeSend, BeforeGet
  <2> QED BY <2>3, <2>4, <2>5, <2>6 DEF KyberKept
<1>6. CASE base!IsReceiver(p)
  <2>1. PICK bits :
          /\ receiver_inputs' = [receiver_inputs EXCEPT ![p] = bits]
          /\ os' = [os EXCEPT ![p][0] = [i \in 1 .. K |->
               base!KyberReceiverMessage(bits[i - 1], base!Fresh(p, i - 1, 0), base!Fresh(p, i - 1, 1))]]
    BY <1>6 DEF base!MakeKeys
  <2>2. receiver_inputs'[p] = bits /\ receiver_inputs'[o] = receiver_inputs[o] /\ os'[o] = os[o]
    BY <1>1, <2>1 DEF BaseTypes
  <2>3. os'[p][0] = KeyPack(p)'
    <3>1. os'[p][0] = [i \in 1 .. K |->
               base!KyberReceiverMessage(bits[i - 1], base!Fresh(p, i - 1, 0), base!Fresh(p, i - 1, 1))]
      BY <2>1 DEF BaseTypes
    <3> QED BY <2>2, <3>1 DEF KeyPack
  <2>4. /\ base!IsReceiver(p)' = base!IsReceiver(p) /\ base!IsSender(p)' = base!IsSender(p)
        /\ base!IsReceiver(o)' = base!IsReceiver(o) /\ base!IsSender(o)' = base!IsSender(o)
    BY <1>2, RolesKept
  <2>5. KeyPack(o)' = KeyPack(o) /\ CipherPack(p)' = CipherPack(p)
    BY <2>2, PacksKept
  <2>6. base!IsSender(o) /\ pc[o] \in BeforeKeys \cup {"get_keys"}
    BY <1>1, <1>2, <1>4, <1>6 DEF KyberParty, BeforeKeys
  <2>7. KyberParty(p)'
    BY <1>2, <1>3, <2>3, <2>4, <2>6 DEF KyberParty, BeforeKeys, BeforeSend, BeforeGet, Late
  <2>8. KyberParty(o)'
    BY <1>1, <1>3, <1>4, <2>2, <2>4, <2>5, <2>6 DEF KyberParty, BeforeKeys, BeforeSend, BeforeGet
  <2>9. KeysToCome(p)' = KeysToCome(p)
    BY <1>2, <1>3, <2>4 DEF KeysToCome, BeforeKeys
  <2>10. KyberChannel(p)'
    BY <1>1, <1>2, <1>3, <1>4, <2>4, <2>5, <2>6, <2>9 DEF KyberChannel, BeforeKeys, BeforeSend
  <2>11. KyberChannel(o)'
    BY <1>1, <1>2, <1>3, <1>4 DEF KyberChannel, BeforeKeys, BeforeSend
  <2> QED BY <2>7, <2>8, <2>10, <2>11 DEF KyberKept
<1> QED BY <1>5, <1>6

LEMMA StepSendKeys ==
    ASSUME BaseTypes, KyberOK, NEW p \in Parties, NEW o, o = 1 - p, base!SendKeys(p)
    PROVE  KyberKept(p, o)
<1>1. /\ o \in Parties /\ 1 - o = p /\ o # p
      /\ base!IsSender(o) <=> base!IsReceiver(p)
      /\ base!IsSender(p) \/ base!IsReceiver(p)
  BY Roles
<1>2. PICK next \in {"get_keys", "encrypt"} :
        /\ pc[p] = "send_if_ot_receiver" /\ pc' = [pc EXCEPT ![p] = next] /\ conf' = conf
        /\ next = "get_keys" <=> base!IsSender(p)
        /\ chan' = IF base!IsReceiver(p) THEN [chan EXCEPT ![o] = Append(@, os[p][0])] ELSE chan
        /\ receiver_inputs' = receiver_inputs /\ os' = os
  BY <1>1 DEF base!SendKeys, base!SendOrNot
<1>3. pc'[p] = next /\ pc'[o] = pc[o] /\ chan'[p] = chan[p]
  BY <1>1, <1>2 DEF BaseTypes
<1>4. KyberParty(p) /\ KyberParty(o) /\ KyberChannel(p) /\ KyberChannel(o)
  BY <1>1 DEF KyberOK
<1>5. /\ base!IsReceiver(p)' = base!IsReceiver(p) /\ base!IsSender(p)' = base!IsSender(p)
      /\ base!IsReceiver(o)' = base!IsReceiver(o) /\ base!IsSender(o)' = base!IsSender(o)
  BY <1>2, RolesKept
<1>6. KyberParty(p)'
  BY <1>1, <1>2, <1>3, <1>5 DEF KyberParty, BeforeKeys, BeforeSend, BeforeGet, Late
<1>7. KyberParty(o)'
  BY <1>1, <1>2, <1>3, <1>4, KyberPartyKept DEF BeforeKeys
<1>8. KyberChannel(p)'
  <2>1. pc'[o] \in BeforeKeys <=> pc[o] \in BeforeKeys
    BY <1>3
  <2>2. pc'[o] \in BeforeSend <=> pc[o] \in BeforeSend
    BY <1>3
  <2>3. KeysToCome(p)' = KeysToCome(p)
    BY <1>2, <1>3, <1>5 DEF KeysToCome, BeforeKeys
  <2>4. \A z : KeyPack(z)' = KeyPack(z) /\ CipherPack(z)' = CipherPack(z)
    BY <1>2, PacksKept
  <2> QED BY <1>1, <1>2, <1>3, <1>4, <1>5, <2>3, <2>4 DEF KyberChannel, BeforeKeys, BeforeSend, BeforeGet
<1>9. KyberChannel(o)'
  <2>1. pc'[p] \in BeforeSend \ BeforeKeys /\ Len(chan[o]) = 0 /\ IsSeq(chan[o])
    BY <1>1, <1>2, <1>3, <1>4 DEF KyberChannel, BeforeKeys, BeforeSend
  <2>2. CASE base!IsReceiver(p)
    <3>1. os[p][0] = KeyPack(p) /\ KeyPack(p)' = KeyPack(p)
      BY <1>2, <1>4, <2>2, PacksKept DEF KyberParty
    <3>2. chan'[o] = Append(chan[o], KeyPack(p))
      BY <1>1, <1>2, <2>2, <3>1 DEF BaseTypes
    <3>3. IsSeq(chan'[o]) /\ Len(chan'[o]) = 1 /\ chan'[o][1] = KeyPack(p)
      BY <2>1, <3>2, SeqAppend
    <3>4. pc[o] \in BeforeKeys \cup {"get_keys"}
      BY <1>1, <1>2, <1>4, <2>2 DEF KyberParty, BeforeKeys
    <3>5. KeysToCome(o)' = 1
      BY <1>1, <1>3, <1>5, <2>2, <3>4 DEF KeysToCome
    <3> QED BY <1>1, <2>1, <3>1, <3>3, <3>5 DEF KyberChannel
  <2>3. CASE ~ base!IsReceiver(p)
    <3>1. chan'[o] = chan[o] /\ KeysToCome(o)' = 0
      BY <1>1, <1>2, <1>5, <2>3 DEF KeysToCome
    <3> QED BY <1>1, <2>1, <3>1 DEF KyberChannel
  <2> QED BY <2>2, <2>3
<1> QED BY <1>6, <1>7, <1>8, <1>9 DEF KyberKept

LEMMA StepGetKeys ==
    ASSUME BaseTypes, KyberOK, NEW p \in Parties, NEW o, o = 1 - p, base!GetKeys(p)
    PROVE  KyberKept(p, o)
<1>1. o \in Parties /\ 1 - o = p /\ o # p
  BY Roles
<1>2. /\ pc[p] = "get_keys" /\ pc' = [pc EXCEPT ![p] = "encrypt"] /\ conf' = conf /\ chan[p] # <<>>
      /\ chan' = [chan EXCEPT ![p] = Tail(@)] /\ os' = [os EXCEPT ![p][1] = Head(chan[p])]
      /\ receiver_inputs' = receiver_inputs
  BY DEF base!GetKeys, base!Receive
<1>3. /\ pc'[p] = "encrypt" /\ pc'[o] = pc[o] /\ chan'[o] = chan[o] /\ chan'[p] = Tail(chan[p])
      /\ os'[o] = os[o] /\ os'[p][1] = Head(chan[p])
  BY <1>1, <1>2 DEF BaseTypes
<1>4. KyberParty(p) /\ KyberParty(o) /\ KyberChannel(p) /\ KyberChannel(o)
  BY <1>1 DEF KyberOK
<1>5. base!IsReceiver(p)' = base!IsReceiver(p) /\ base!IsSender(p)' = base!IsSender(p)
  BY <1>2, RolesKept
<1>6. \A z : KeyPack(z)' = KeyPack(z) /\ CipherPack(z)' = CipherPack(z)
  BY <1>2, PacksKept
<1>7. base!IsSender(p) /\ KeysToCome(p) = 1 /\ KeysToCome(p)' = 0
  BY <1>2, <1>3, <1>4, <1>5 DEF KyberParty, KeysToCome, BeforeKeys
<1>8. /\ IsSeq(chan[p]) /\ Len(chan[p]) > 0 /\ IsSeq(Tail(chan[p])) /\ Len(chan[p]) \in Nat
      /\ Len(Tail(chan[p])) = Len(chan[p]) - 1 /\ Head(chan[p]) = chan[p][1]
      /\ \A k \in 1 .. Len(chan[p]) - 1 : Tail(chan[p])[k] = chan[p][k + 1]
  BY <1>2, <1>4, SeqTail, SeqLen DEF KyberChannel
<1>9. pc[o] \notin BeforeKeys /\ chan[p][1] = KeyPack(o)
  BY <1>4, <1>7, <1>8 DEF KyberChannel
<1>10. KyberParty(p)'
  BY <1>3, <1>5, <1>6, <1>8, <1>9 DEF KyberParty, BeforeKeys, BeforeSend, BeforeGet, Late
<1>11. KyberParty(o)'
  BY <1>1, <1>2, <1>3, <1>4, KyberPartyKept DEF BeforeKeys
<1>12. KyberChannel(p)'
  <2>1. pc[o] \in BeforeSend \ BeforeKeys => Len(chan'[p]) = 0
    BY <1>3, <1>4, <1>7, <1>8 DEF KyberChannel
  <2>2. pc[o] \notin BeforeSend /\ base!IsReceiver(p) => Len(chan'[p]) >= 1 /\ chan'[p][1] = CipherPack(o)
    <3>1. SUFFICES ASSUME pc[o] \notin BeforeSend, base!IsReceiver(p)
                   PROVE  Len(chan'[p]) >= 1 /\ chan'[p][1] = CipherPack(o)
      OBVIOUS
    <3>2. pc[p] \in BeforeGet
      BY <1>2 DEF BeforeGet, BeforeSend
    <3>3. Len(chan[p]) >= 2 /\ chan[p][2] = CipherPack(o)
      BY <1>4, <1>7, <3>1, <3>2 DEF KyberChannel
    <3> QED BY <1>3, <1>8, <3>3
  <2> QED BY <1>1, <1>3, <1>5, <1>6, <1>7, <1>8, <1>9, <2>1, <2>2 DEF KyberChannel
<1>13. KyberChannel(o)'
  BY <1>1, <1>2, <1>3, <1>4, KyberChannelKept DEF BeforeKeys, BeforeSend
<1> QED BY <1>10, <1>11, <1>12, <1>13 DEF KyberKept

(* No message has the wrong length.                                        *)
LEMMA PackLength ==
    ASSUME NEW c, c = [i \in 1 .. K |-> c[i]]
    PROVE  Len(c) = K
<1>1. K \in Nat
  BY OTExtensionAssumption
<1> DEFINE S == {c[i] : i \in 1 .. K}
<1>2. c \in [1 .. K -> S]
  OBVIOUS
<1> HIDE DEF S
<1>3. c \in Seq(S) /\ DOMAIN c = 1 .. K
  BY <1>1, <1>2
<1>4. Len(c) \in Nat /\ DOMAIN c = 1 .. Len(c)
  BY <1>3, SeqLen DEF IsSeq
<1> QED BY <1>1, <1>3, <1>4

LEMMA KeysWellFormed ==
    ASSUME NEW p
    PROVE  ~ base!LengthsWrong(KeyPack(p), 1 .. 2)
<1>1. K \in Nat
  BY OTExtensionAssumption
<1>2. Len(KeyPack(p)) = K
  BY PackLength DEF KeyPack
<1>3. ASSUME NEW i \in 1 .. K PROVE DOMAIN KeyPack(p)[i] = 1 .. 2
  <2>1. PICK a, b : KeyPack(p)[i] = <<a, b>>
    BY <1>3 DEF KeyPack, base!KyberReceiverMessage
  <2> QED BY <2>1
<1> QED BY <1>1, <1>2, <1>3 DEF base!LengthsWrong

LEMMA CiphersWellFormed ==
    ASSUME NEW p
    PROVE  ~ base!LengthsWrong(CipherPack(p), base!Bit)
<1>1. K \in Nat
  BY OTExtensionAssumption
<1>2. Len(CipherPack(p)) = K
  BY PackLength DEF CipherPack
<1>3. ASSUME NEW i \in 1 .. K PROVE DOMAIN CipherPack(p)[i] = base!Bit
  BY <1>3 DEF CipherPack, base!KyberSenderMessage
<1> QED BY <1>1, <1>2, <1>3 DEF base!LengthsWrong

LEMMA StringsWellFormed ==
    ASSUME NEW p
    PROVE  ~ base!LengthsWrong(Pack(p), base!Bit)
<1>1. K \in Nat
  BY OTExtensionAssumption
<1>2. Len(Pack(p)) = K
  BY PackLength DEF Pack, base!Packed
<1>3. ASSUME NEW i \in 1 .. K PROVE DOMAIN Pack(p)[i] = base!Bit
  <2>1. i - 1 \in base!Transfers
    BY <1>1, <1>3 DEF base!Transfers
  <2> QED BY <1>3, <2>1 DEF Pack, base!Packed, Strings
<1> QED BY <1>1, <1>2, <1>3 DEF base!LengthsWrong

LEMMA StepEncrypt ==
    ASSUME BaseTypes, KyberOK, NEW p \in Parties, NEW o, o = 1 - p, base!Encrypt(p)
    PROVE  KyberKept(p, o)
<1>1. o \in Parties /\ 1 - o = p /\ o # p
  BY Roles
<1>2. KyberParty(p) /\ KyberParty(o) /\ KyberChannel(p) /\ KyberChannel(o)
  BY <1>1 DEF KyberOK
<1>3. pc[p] = "encrypt" /\ conf' = conf /\ chan' = chan /\ receiver_inputs' = receiver_inputs
  BY DEF base!Encrypt
<1>4. base!IsSender(p) => os[p][1] = KeyPack(o) /\ ~ base!LengthsWrong(os[p][1], 1 .. 2)
  BY <1>2, <1>3, KeysWellFormed DEF KyberParty
<1>5. /\ pc' = [pc EXCEPT ![p] = "send_if_ot_sender"]
      /\ \E m : os' = [os EXCEPT ![p][0] = m]
  BY <1>4 DEF base!Encrypt
<1>6. base!IsSender(p) => os'[p][0] = CipherPack(p)
  <2> SUFFICES ASSUME base!IsSender(p) PROVE os'[p][0] = CipherPack(p)
    OBVIOUS
  <2> DEFINE packs == [i \in base!Transfers |->
                         base!KyberSenderMessage([j \in base!Bit |-> base!Random(p, i, j)], os[p][1][i + 1])]
  <2>1. os' = [os EXCEPT ![p][0] = base!Packed(p, packs)]
    BY <1>4 DEF base!Encrypt
  <2>2. os'[p][0] = base!Packed(p, packs)
    BY <2>1 DEF BaseTypes
  <2>3. ASSUME NEW i \in 1 .. K
        PROVE  packs[i - 1] = base!KyberSenderMessage(Strings(p)[i - 1], KeyPack(o)[i])
    <3>1. i - 1 \in base!Transfers /\ (i - 1) + 1 = i
      BY <2>3, OTExtensionAssumption DEF base!Transfers
    <3>2. Strings(p)[i - 1] = [j \in base!Bit |-> base!Random(p, i - 1, j)]
      BY <3>1 DEF Strings
    <3> QED BY <1>4, <3>1, <3>2
  <2> HIDE DEF packs
  <2> QED BY <2>2, <2>3 DEF base!Packed, CipherPack
<1>7. pc'[p] = "send_if_ot_sender" /\ pc'[o] = pc[o] /\ os'[o] = os[o]
  BY <1>1, <1>5 DEF BaseTypes
<1>8. base!IsReceiver(p)' = base!IsReceiver(p) /\ base!IsSender(p)' = base!IsSender(p)
  BY <1>3, RolesKept
<1>9. \A z : KeyPack(z)' = KeyPack(z) /\ CipherPack(z)' = CipherPack(z)
  BY <1>3, PacksKept
<1>10. KyberParty(p)'
  BY <1>2, <1>3, <1>6, <1>7, <1>8, <1>9 DEF KyberParty, BeforeKeys, BeforeSend, BeforeGet, Late
<1>11. KyberParty(o)'
  BY <1>1, <1>2, <1>3, <1>7, KyberPartyKept DEF BeforeKeys
<1>12. KyberChannel(p)'
  BY <1>1, <1>2, <1>3, <1>7, KyberChannelKept DEF BeforeKeys, BeforeSend, BeforeGet
<1>13. KyberChannel(o)'
  BY <1>1, <1>2, <1>3, <1>7, KyberChannelKept DEF BeforeKeys, BeforeSend
<1> QED BY <1>10, <1>11, <1>12, <1>13 DEF KyberKept

LEMMA StepSendCiphers ==
    ASSUME BaseTypes, KyberOK, NEW p \in Parties, NEW o, o = 1 - p, base!send_if_ot_sender(p)
    PROVE  KyberKept(p, o)
<1>1. /\ o \in Parties /\ 1 - o = p /\ o # p
      /\ base!IsSender(p) <=> base!IsReceiver(o)
      /\ base!IsSender(p) \/ base!IsReceiver(p)
  BY Roles
<1>2. PICK next \in {"get", "hash"} :
        /\ pc[p] = "send_if_ot_sender" /\ pc' = [pc EXCEPT ![p] = next] /\ conf' = conf
        /\ next = "get" <=> base!IsReceiver(p)
        /\ chan' = IF base!IsSender(p) THEN [chan EXCEPT ![o] = Append(@, os[p][0])] ELSE chan
        /\ receiver_inputs' = receiver_inputs /\ os' = os
  BY <1>1 DEF base!send_if_ot_sender, base!SendOrNot
<1>3. pc'[p] = next /\ pc'[o] = pc[o] /\ chan'[p] = chan[p]
  BY <1>1, <1>2 DEF BaseTypes
<1>4. KyberParty(p) /\ KyberParty(o) /\ KyberChannel(p) /\ KyberChannel(o)
  BY <1>1 DEF KyberOK
<1>5. /\ base!IsReceiver(p)' = base!IsReceiver(p) /\ base!IsSender(p)' = base!IsSender(p)
      /\ base!IsReceiver(o)' = base!IsReceiver(o) /\ base!IsSender(o)' = base!IsSender(o)
  BY <1>2, RolesKept
<1>6. \A z : KeyPack(z)' = KeyPack(z) /\ CipherPack(z)' = CipherPack(z)
  BY <1>2, PacksKept
<1>7. KyberParty(p)'
  BY <1>1, <1>2, <1>3, <1>4, <1>5 DEF KyberParty, BeforeKeys, BeforeSend, BeforeGet, Late
<1>8. KyberParty(o)'
  BY <1>1, <1>2, <1>3, <1>4, KyberPartyKept DEF BeforeKeys
<1>9. KyberChannel(p)'
  BY <1>1, <1>2, <1>3, <1>4, KyberChannelKept DEF BeforeKeys, BeforeSend, BeforeGet
<1>10. KyberChannel(o)'
  <2>1. /\ pc[p] \in BeforeSend \ BeforeKeys /\ pc'[p] \notin BeforeSend /\ pc'[p] \notin BeforeKeys
        /\ IsSeq(chan[o]) /\ Len(chan[o]) = KeysToCome(o)
    BY <1>1, <1>2, <1>3, <1>4 DEF KyberChannel, BeforeKeys, BeforeSend
  <2>2. KeysToCome(o)' = KeysToCome(o) /\ KeysToCome(o) \in 0 .. 1
    BY <1>3, <1>5 DEF KeysToCome
  <2>3. KeysToCome(o) = 1 => chan[o][1] = KeyPack(p)
    BY <1>1, <1>4, <2>1 DEF KyberChannel
  <2>4. CASE base!IsSender(p)
    <3>1. chan'[o] = Append(chan[o], CipherPack(p))
      BY <1>1, <1>2, <1>4, <2>4 DEF BaseTypes, KyberParty
    <3>2. /\ IsSeq(chan'[o]) /\ Len(chan'[o]) = KeysToCome(o) + 1
          /\ \A k \in 1 .. Len(chan[o]) : chan'[o][k] = chan[o][k]
          /\ chan'[o][KeysToCome(o) + 1] = CipherPack(p)
      BY <2>1, <3>1, SeqAppend
    <3>3. KeysToCome(o) = 1 => chan'[o][1] = KeyPack(p)
      BY <2>1, <2>2, <2>3, <3>2
    <3> QED BY <1>1, <1>6, <2>1, <2>2, <3>2, <3>3 DEF KyberChannel
  <2>5. CASE ~ base!IsSender(p)
    <3>1. chan'[o] = chan[o] /\ ~ base!IsReceiver(o)
      BY <1>1, <1>2, <2>5
    <3> QED BY <1>1, <1>5, <1>6, <2>1, <2>2, <2>3, <3>1 DEF KyberChannel
  <2> QED BY <2>4, <2>5
<1> QED BY <1>7, <1>8, <1>9, <1>10 DEF KyberKept

LEMMA StepGetCiphers ==
    ASSUME BaseTypes, KyberOK, NEW p \in Parties, NEW o, o = 1 - p, base!Get(p)
    PROVE  KyberKept(p, o)
<1>1. o \in Parties /\ 1 - o = p /\ o # p
  BY Roles
<1>2. /\ pc[p] = "get" /\ pc' = [pc EXCEPT ![p] = "outputs"] /\ conf' = conf /\ chan[p] # <<>>
      /\ chan' = [chan EXCEPT ![p] = Tail(@)] /\ os' = [os EXCEPT ![p][1] = Head(chan[p])]
      /\ receiver_inputs' = receiver_inputs
  BY DEF base!Get, base!Receive
<1>3. /\ pc'[p] = "outputs" /\ pc'[o] = pc[o] /\ chan'[o] = chan[o] /\ chan'[p] = Tail(chan[p])
      /\ os'[o] = os[o] /\ os'[p][1] = Head(chan[p])
  BY <1>1, <1>2 DEF BaseTypes
<1>4. KyberParty(p) /\ KyberParty(o) /\ KyberChannel(p) /\ KyberChannel(o)
  BY <1>1 DEF KyberOK
<1>5. base!IsReceiver(p)' = base!IsReceiver(p) /\ base!IsSender(p)' = base!IsSender(p)
  BY <1>2, RolesKept
<1>6. \A z : KeyPack(z)' = KeyPack(z) /\ CipherPack(z)' = CipherPack(z)
  BY <1>2, PacksKept
<1>7. base!IsReceiver(p) /\ KeysToCome(p) = 0 /\ KeysToCome(p)' = 0 /\ pc[p] \in BeforeGet
  BY <1>2, <1>3, <1>4 DEF KyberParty, KeysToCome, BeforeKeys, BeforeGet
<1>8. /\ IsSeq(chan[p]) /\ Len(chan[p]) > 0 /\ IsSeq(Tail(chan[p])) /\ Len(chan[p]) \in Nat
      /\ Head(chan[p]) = chan[p][1]
  BY <1>2, <1>4, SeqTail, SeqLen DEF KyberChannel
<1>9. pc[o] \notin BeforeKeys /\ pc[o] \notin BeforeSend
  BY <1>4, <1>7, <1>8 DEF KyberChannel
<1>10. chan[p][1] = CipherPack(o)
  BY <1>4, <1>7, <1>8, <1>9 DEF KyberChannel
<1>11. KyberParty(p)'
  BY <1>3, <1>5, <1>6, <1>7, <1>8, <1>9, <1>10 DEF KyberParty, BeforeKeys, BeforeSend, BeforeGet, Late
<1>12. KyberParty(o)'
  BY <1>1, <1>2, <1>3, <1>4, KyberPartyKept DEF BeforeKeys
<1>13. KyberChannel(p)'
  BY <1>3, <1>7, <1>8, <1>9 DEF KyberChannel, BeforeKeys, BeforeSend, BeforeGet
<1>14. KyberChannel(o)'
  BY <1>1, <1>2, <1>3, <1>4, KyberChannelKept DEF BeforeKeys, BeforeSend
<1> QED BY <1>11, <1>12, <1>13, <1>14 DEF KyberKept

(* What a party does on its own once it has sent all but what it reveals.  *)
LEMMA StepAlone ==
    ASSUME BaseTypes, KyberOK, NEW p \in Parties, NEW o, o = 1 - p, NEW next \in {"hash"} \cup Late,
           pc[p] \in {"outputs", "hash"} \cup Late, pc' = [pc EXCEPT ![p] = next],
           conf' = conf, chan' = chan, receiver_inputs' = receiver_inputs, os' = os
    PROVE  KyberKept(p, o)
<1>1. o \in Parties /\ 1 - o = p /\ o # p
  BY Roles
<1>2. KyberParty(p) /\ KyberParty(o) /\ KyberChannel(p) /\ KyberChannel(o)
  BY <1>1 DEF KyberOK
<1>3. pc'[p] = next /\ pc'[o] = pc[o]
  BY <1>1 DEF BaseTypes
<1>4. base!IsReceiver(p)' = base!IsReceiver(p) /\ base!IsSender(p)' = base!IsSender(p)
  BY RolesKept
<1>5. KyberParty(p)'
  BY <1>2, <1>3, <1>4 DEF KyberParty, BeforeKeys, BeforeSend, BeforeGet, Late
<1>6. KyberParty(o)'
  BY <1>1, <1>2, <1>3, KyberPartyKept DEF BeforeKeys, Late
<1>7. KyberChannel(p)'
  BY <1>1, <1>2, <1>3, KyberChannelKept DEF BeforeKeys, BeforeSend, BeforeGet, Late
<1>8. KyberChannel(o)'
  BY <1>1, <1>2, <1>3, KyberChannelKept DEF BeforeKeys, BeforeSend, BeforeGet, Late
<1> QED BY <1>5, <1>6, <1>7, <1>8 DEF KyberKept

LEMMA StepReveal ==
    ASSUME BaseTypes, KyberOK, NEW p \in Parties, NEW o, o = 1 - p, base!Reveal(p)
    PROVE  KyberKept(p, o)
<1>1. o \in Parties /\ 1 - o = p /\ o # p
  BY Roles
<1>2. PICK next \in Late : pc' = [pc EXCEPT ![p] = next]
  BY DEF base!Reveal, base!CheckNext, Late
<1>3. /\ pc[p] = "check" /\ conf' = conf /\ os' = os /\ receiver_inputs' = receiver_inputs
      /\ chan' = IF base!IsSender(p)
                   THEN [chan EXCEPT ![o] = Append(@, sender_inputs[p][at[p]])] ELSE chan
  BY DEF base!Reveal
<1>4. CASE ~ base!IsSender(p)
  BY <1>2, <1>3, <1>4, StepAlone DEF Late
<1>5. CASE base!IsSender(p)
  <2>1. KyberParty(p) /\ KyberParty(o) /\ KyberChannel(p) /\ KyberChannel(o)
    BY <1>1 DEF KyberOK
  <2>2. pc'[p] = next /\ pc'[o] = pc[o] /\ chan'[p] = chan[p]
    BY <1>1, <1>2, <1>3 DEF BaseTypes
  <2>3. base!IsReceiver(p)' = base!IsReceiver(p) /\ base!IsSender(p)' = base!IsSender(p)
    BY <1>3, RolesKept
  <2>4. KyberParty(p)'
    BY <1>3, <2>1, <2>2, <2>3 DEF KyberParty, BeforeKeys, BeforeSend, BeforeGet, Late
  <2>5. KyberParty(o)'
    BY <1>1, <1>3, <2>1, <2>2, KyberPartyKept DEF BeforeKeys, Late
  <2>6. KyberChannel(p)'
    BY <1>1, <1>3, <2>1, <2>2, KyberChannelKept DEF BeforeKeys, BeforeSend, BeforeGet, Late
  <2>7. KyberChannel(o)'
    <3>1. PICK m : chan'[o] = Append(chan[o], m)
      BY <1>1, <1>3, <1>5 DEF BaseTypes
    <3>2. pc[p] \notin BeforeSend /\ pc'[p] \notin BeforeSend
      BY <1>2, <1>3, <2>2 DEF BeforeKeys, BeforeSend, Late
    <3> QED BY <1>1, <1>3, <2>1, <2>2, <3>1, <3>2, KyberChannelLonger
  <2> QED BY <2>4, <2>5, <2>6, <2>7 DEF KyberKept
<1> QED BY <1>4, <1>5

LEMMA StepCompare ==
    ASSUME BaseTypes, KyberOK, NEW p \in Parties, NEW o, o = 1 - p, base!Compare(p)
    PROVE  KyberKept(p, o)
<1>1. o \in Parties /\ 1 - o = p /\ o # p
  BY Roles
<1>2. PICK next \in Late : pc' = [pc EXCEPT ![p] = next]
  BY DEF base!Compare, base!CheckNext, base!Exit, Late
<1>3. /\ pc[p] = "compare" /\ conf' = conf /\ os' = os /\ receiver_inputs' = receiver_inputs
      /\ chan' = [chan EXCEPT ![p] = Tail(@)] /\ chan[p] # <<>>
  BY DEF base!Compare
<1>4. KyberParty(p) /\ KyberParty(o) /\ KyberChannel(p) /\ KyberChannel(o)
  BY <1>1 DEF KyberOK
<1>5. pc'[p] = next /\ pc'[o] = pc[o] /\ chan'[o] = chan[o] /\ chan'[p] = Tail(chan[p])
  BY <1>1, <1>2, <1>3 DEF BaseTypes
<1>6. base!IsReceiver(p)' = base!IsReceiver(p) /\ base!IsSender(p)' = base!IsSender(p)
  BY <1>3, RolesKept
<1>7. KyberParty(p)'
  BY <1>3, <1>4, <1>5, <1>6 DEF KyberParty, BeforeKeys, BeforeSend, BeforeGet, Late
<1>8. KyberParty(o)'
  BY <1>1, <1>3, <1>4, <1>5, KyberPartyKept DEF BeforeKeys, Late
<1>9. KyberChannel(p)'
  <2>1. IsSeq(Tail(chan[p])) /\ Len(chan[p]) > 0
    BY <1>3, <1>4, SeqTail DEF KyberChannel
  <2>2. KeysToCome(p) = 0 /\ KeysToCome(p)' = 0
    BY <1>3, <1>5 DEF KeysToCome, BeforeKeys, Late
  <2>3. pc[o] \notin BeforeKeys /\ pc[o] \notin BeforeSend
    BY <1>4, <2>1, <2>2 DEF KyberChannel
  <2> QED BY <1>5, <2>1, <2>2, <2>3 DEF KyberChannel, BeforeKeys, BeforeSend, BeforeGet, Late
<1>10. KyberChannel(o)'
  BY <1>1, <1>3, <1>4, <1>5, KyberChannelKept DEF BeforeKeys, BeforeSend, BeforeGet, Late
<1> QED BY <1>7, <1>8, <1>9, <1>10 DEF KyberKept

(* A party that is not in the setup checks one transfer after the other.   *)
LEMMA StepAt ==
    ASSUME at \in [Parties -> base!Transfers], BaseTypes, [TransfersNext]_allvars
    PROVE  at' \in [Parties -> base!Transfers]
<1>1. ASSUME NEW p \in Parties, Base(p) PROVE at' \in [Parties -> base!Transfers]
  <2>1. ASSUME base!CheckNext(p) PROVE at' \in [Parties -> base!Transfers]
    <3>1. at[p] \in Int /\ at[p] >= 0
      BY <1>1 DEF base!Transfers
    <3>2. CASE at[p] + 1 < K
      <4>1. at' = [at EXCEPT ![p] = at[p] + 1]
        BY <2>1, <3>2 DEF base!CheckNext
      <4>2. at[p] + 1 \in base!Transfers
        BY <3>1, <3>2, OTExtensionAssumption DEF base!Transfers
      <4> QED BY <4>1, <4>2
    <3>3. CASE ~ (at[p] + 1 < K)
      BY <2>1, <3>3 DEF base!CheckNext
    <3> QED BY <3>2, <3>3
  <2>2. at' = at \/ base!CheckNext(p)
    BY <1>1 DEF Base, base!Party, base!MakeKeys, base!SendKeys, base!GetKeys, base!Encrypt,
       base!MakeStrings, base!send_if_ot_sender, base!Get, base!Decrypt, base!Choose, base!Hash,
       base!Reveal, base!Compare
  <2> QED BY <2>1, <2>2
<1>2. ASSUME NEW p \in Parties, Setup(p) \/ Extend(p) PROVE at' = at
  BY <1>2 DEF Setup, Extend, basevars
<1>3. CASE UNCHANGED allvars
  BY <1>3 DEF allvars, basevars
<1> QED BY <1>1, <1>2, <1>3 DEF TransfersNext

LEMMA InitTransfersInv == TransfersInit => TransfersInv
<1> SUFFICES ASSUME TransfersInit PROVE TransfersInv
  OBVIOUS
<1>1. base!Init
  BY DEF TransfersInit
<1>2. Parties = 0 .. 1 /\ base!Parties = 0 .. 1
  BY DEF Parties, Garbler, Evaluator, base!Parties
<1>3. BaseTypes /\ ExtensionInv /\ SeedsInv /\ ExtensionTypes
  BY InitExtensionInv, InitSeedsInv, InitExtensionTypes DEF SeedsInv
<1>4. at \in [Parties -> base!Transfers]
  BY <1>1, <1>2, OTExtensionAssumption DEF base!Init, base!Transfers
<1>5. \A p \in Parties : pc[p] = "start" /\ chan[p] = <<>>
  BY <1>1, <1>2 DEF base!Init
<1>6. IsSeq(<<>>) /\ Len(<<>>) = 0
  <2>1. <<>> \in Seq({})
    OBVIOUS
  <2> QED BY <2>1 DEF IsSeq
<1>7. ASSUME NEW p \in Parties PROVE KyberParty(p) /\ KyberChannel(p)
  <2>1. pc[p] = "start" /\ pc[1 - p] = "start" /\ chan[p] = <<>>
    BY <1>3, <1>5, <1>7, Roles
  <2>2. KyberParty(p)
    BY <2>1 DEF KyberParty, BeforeKeys, BeforeSend, BeforeGet
  <2>3. KyberChannel(p)
    BY <1>6, <2>1 DEF KyberChannel, BeforeKeys, BeforeSend
  <2> QED BY <2>2, <2>3
<1>8. PromisedOK
  BY <1>5 DEF PromisedOK
<1> QED BY <1>3, <1>4, <1>7, <1>8 DEF TransfersInv, KyberOK

(* The steps of the other protocol are not taken.                          *)
LEMMA StepKyber ==
    ASSUME BaseTypes, KyberOK, conf.protocol = "kyber",
           NEW p \in Parties, NEW o, o = 1 - p, base!Party(p)
    PROVE  KyberKept(p, o)
<1>1. ~ (base!MakeStrings(p) \/ base!Choose(p))
  BY DEF base!MakeStrings, base!Choose
<1>2. CASE base!Decrypt(p)
  <2>1. PICK next \in {"hash"} \cup Late : pc' = [pc EXCEPT ![p] = next]
    BY <1>2 DEF base!Decrypt, base!Exit, Late
  <2>2. pc[p] = "outputs" /\ conf' = conf /\ chan' = chan /\ receiver_inputs' = receiver_inputs /\ os' = os
    BY <1>2 DEF base!Decrypt
  <2> QED BY <2>1, <2>2, StepAlone
<1>3. CASE base!Hash(p)
  <2>1. /\ pc[p] = "hash" /\ pc' = [pc EXCEPT ![p] = "check"] /\ conf' = conf /\ chan' = chan
        /\ receiver_inputs' = receiver_inputs /\ os' = os
    BY <1>3 DEF base!Hash
  <2> QED BY <2>1, StepAlone DEF Late
<1> QED BY <1>1, <1>2, <1>3, StepMakeKeys, StepSendKeys, StepGetKeys, StepEncrypt, StepSendCiphers,
           StepGetCiphers, StepReveal, StepCompare DEF base!Party

LEMMA StepTransfersInv == TransfersInv /\ [TransfersNext]_allvars => TransfersInv'
<1> SUFFICES ASSUME TransfersInv, [TransfersNext]_allvars PROVE TransfersInv'
  OBVIOUS
<1>1. ExtensionInv /\ SeedsInv /\ BaseTypes /\ ExtensionTypes /\ at \in [Parties -> base!Transfers]
  BY DEF TransfersInv, SeedsInv
<1>2. ExtensionInv' /\ SeedsInv' /\ ExtensionTypes' /\ at' \in [Parties -> base!Transfers]
  BY <1>1, StepExtensionInv, StepSeedsInv, StepExtensionTypes, StepAt
<1>3. conf' = conf
  <2>1. ASSUME NEW p \in Parties, Base(p) PROVE conf' = conf
    BY <2>1 DEF Base, base!Party, base!MakeKeys, base!SendKeys, base!GetKeys, base!Encrypt,
       base!MakeStrings, base!send_if_ot_sender, base!Get, base!Decrypt, base!Choose, base!Hash,
       base!Reveal, base!Compare
  <2> QED BY <2>1 DEF TransfersNext, Setup, Extend, basevars, allvars
<1>4. ASSUME conf.protocol = "kyber" PROVE KyberOK'
  <2>1. KyberOK
    BY <1>4 DEF TransfersInv
  <2>2. ASSUME NEW p \in Parties, \E o : o = 1 - p /\ KyberKept(p, o) PROVE KyberOK'
    <3>1. \A z \in Parties : z = p \/ z = 1 - p
      BY <2>2 DEF Parties, Garbler, Evaluator
    <3> QED BY <2>2, <3>1 DEF KyberKept, KyberOK
  <2>3. ASSUME NEW p \in Parties, Base(p) PROVE KyberOK'
    BY <1>1, <1>4, <2>1, <2>2, <2>3, StepKyber DEF Base
  <2>4. ASSUME NEW p \in Parties, Setup(p) PROVE KyberOK'
    <3>1. /\ pc[p] \in Late /\ "extend" \in Late /\ pc' = [pc EXCEPT ![p] = "extend"] /\ conf' = conf
          /\ chan' = chan /\ receiver_inputs' = receiver_inputs /\ os' = os
      BY <1>4, <2>4 DEF Setup, Late
    <3> QED BY <1>1, <2>1, <2>2, <2>4, <3>1, StepAlone
  <2>5. ASSUME UNCHANGED basevars PROVE KyberOK'
    <3>1. /\ conf' = conf /\ pc' = pc /\ receiver_inputs' = receiver_inputs /\ os' = os /\ chan' = chan
      BY <2>5 DEF basevars
    <3> QED BY <2>1, <3>1, KyberPartyKept, KyberChannelKept DEF KyberOK
  <2> QED BY <2>3, <2>4, <2>5 DEF TransfersNext, Extend, allvars
<1>5. ASSUME conf.protocol \notin {"fake", "kyber"} PROVE PromisedOK'
  <2>1. PromisedOK
    BY <1>5 DEF TransfersInv
  <2>2. ASSUME NEW p \in Parties PROVE ~ Base(p)
    <3>1. pc[p] \in {"start", "extend"}
      BY <2>1, <2>2 DEF PromisedOK
    <3>2. ~ (base!MakeKeys(p) \/ base!SendKeys(p) \/ base!GetKeys(p) \/ base!Encrypt(p))
      BY <1>5, <3>1 DEF base!MakeKeys, base!SendKeys, base!GetKeys, base!Encrypt
    <3>3. ~ (base!MakeStrings(p) \/ base!send_if_ot_sender(p) \/ base!Get(p) \/ base!Decrypt(p))
      BY <1>5, <3>1 DEF base!MakeStrings, base!send_if_ot_sender, base!Get, base!Decrypt
    <3>4. ~ (base!Choose(p) \/ base!Hash(p) \/ base!Reveal(p) \/ base!Compare(p))
      BY <3>1 DEF base!Choose, base!Hash, base!Reveal, base!Compare
    <3> QED BY <3>2, <3>3, <3>4 DEF Base, base!Party
  <2>3. ASSUME NEW p \in Parties, Setup(p) PROVE PromisedOK'
    <3>1. pc' = [pc EXCEPT ![p] = "extend"] /\ DOMAIN pc = Parties
      BY <1>1, <2>3 DEF Setup, BaseTypes
    <3> QED BY <2>1, <3>1 DEF PromisedOK
  <2>4. ASSUME pc' = pc PROVE PromisedOK'
    BY <2>1, <2>4 DEF PromisedOK
  <2> QED BY <2>2, <2>3, <2>4 DEF TransfersNext, Extend, basevars, allvars
<1> QED BY <1>2, <1>3, <1>4, <1>5 DEF TransfersInv

THEOREM TransfersInvariant == TransfersSpec => []TransfersInv
<1>1. TransfersInit => TransfersInv
  BY InitTransfersInv
<1>2. TransfersInv /\ [TransfersNext]_allvars => TransfersInv'
  BY StepTransfersInv
<1> QED BY <1>1, <1>2, PTL DEF TransfersSpec

(* The parts have their types, and nobody meets a message of the wrong     *)
(* length in the base transfers: keys, ciphertexts and strings come in the *)
(* order in which they are expected (BaseOT.cpp:498, 587).                 *)
THEOREM TransfersTypes == TransfersSpec => []TransfersTypeOK
<1>1. TransfersInv => TransfersTypeOK
  <2> SUFFICES ASSUME TransfersInv PROVE TransfersTypeOK
    OBVIOUS
  <2>1. TypeOK
    BY TypesOfExtension DEF TransfersInv, ExtensionInv, ExtensionOK
  <2>2. base!Parties = Parties /\ BaseTypes
    BY DEF base!Parties, Parties, Garbler, Evaluator, TransfersInv, SeedsInv
  <2>3. ASSUME NEW p \in Parties
        PROVE  /\ pc[p] = "encrypt" /\ base!IsSender(p) => ~ base!LengthsWrong(os[p][1], 1 .. 2)
               /\ pc[p] = "outputs" => ~ base!LengthsWrong(os[p][1], base!Bit)
    <3>1. CASE conf.protocol = "fake"
      <4>1. pc[p] # "encrypt" /\ (pc[p] = "outputs" => os[p][1] = Pack(1 - p))
        BY <2>3, <3>1 DEF TransfersInv, SeedsInv, ClearOK, SenderPart, ReceiverPart, Before, Late
      <4> QED BY <4>1, StringsWellFormed
    <3>2. CASE conf.protocol = "kyber"
      <4>1. /\ pc[p] = "encrypt" /\ base!IsSender(p) => os[p][1] = KeyPack(1 - p)
            /\ pc[p] = "outputs" => os[p][1] = CipherPack(1 - p)
        BY <2>3, <3>2 DEF TransfersInv, KyberOK, KyberParty
      <4> QED BY <4>1, KeysWellFormed, CiphersWellFormed
    <3>3. CASE conf.protocol \notin {"fake", "kyber"}
      BY <2>3, <3>3 DEF TransfersInv, PromisedOK
    <3> QED BY <3>1, <3>2, <3>3
  <2> QED BY <2>1, <2>2, <2>3 DEF TransfersTypeOK, base!TypeOK, TransfersInv, BaseTypes
<1> QED BY <1>1, TransfersInvariant, PTL
-----------------------------------------------------------------------------
(* The arithmetic of the keys.                                             *)
LEMMA Modulo ==
    ASSUME NEW a \in 0 .. Q - 1
    PROVE  a % Q = a /\ (a + Q) % Q = a
<1>1. Q \in Nat /\ Q > 0
  BY KeysAssumption
<1> QED BY <1>1, SMT

LEMMA KeysFit ==
    ASSUME NEW a \in 0 .. Q - 1, NEW h \in 0 .. Q - 1
    PROVE  base!pkPlus(base!pkMinus(a, h), h) = a
<1>1. Q \in Nat
  BY KeysAssumption
<1>2. CASE a >= h
  <2>1. a - h \in 0 .. Q - 1 /\ a - h + Q = (a - h) + Q /\ (a - h) + h = a
    BY <1>1, <1>2
  <2>2. base!pkMinus(a, h) = a - h
    BY <2>1, Modulo DEF base!pkMinus
  <2> QED BY <2>1, <2>2, Modulo DEF base!pkPlus
<1>3. CASE a < h
  <2>1. a - h + Q \in 0 .. Q - 1 /\ (a - h + Q) + h = a + Q
    BY <1>1, <1>3
  <2>2. base!pkMinus(a, h) = a - h + Q
    BY <2>1, Modulo DEF base!pkMinus
  <2> QED BY <2>1, <2>2, Modulo DEF base!pkPlus
<1> QED BY <1>1, <1>2, <1>3

LEMMA FreshIsKey ==
    ASSUME NEW p \in Parties, NEW i \in base!Transfers, NEW k \in 0 .. 1
    PROVE  base!Fresh(p, i, k) \in 0 .. Q - 1
<1>1. K \in Nat \ {0} /\ Q \in Nat /\ 4 * K < Q
  BY KeysAssumption, OTExtensionAssumption
<1>2. i \in 0 .. K - 1
  BY DEF base!Transfers
<1>3. CASE p = 0
  <2>1. base!Fresh(p, i, k) = 2 * i + k + 1
    BY <1>1, <1>2, <1>3 DEF base!Fresh
  <2> QED BY <1>1, <1>2, <2>1
<1>4. CASE p = 1
  <2>1. base!Fresh(p, i, k) = 2 * (K + i) + k + 1
    BY <1>1, <1>2, <1>4 DEF base!Fresh
  <2> QED BY <1>1, <1>2, <2>1
<1> QED BY <1>3, <1>4 DEF Parties, Garbler, Evaluator

(* The key that ciphertext j of a transfer with choice bit b is made with  *)
(* is the receiver's for j = b and is not for the other.                   *)
LEMMA KeyOfChoice ==
    ASSUME NEW b \in 0 .. 1, NEW j \in 0 .. 1, NEW sk \in 0 .. Q - 1, NEW random \in 0 .. Q - 1,
           NoCollision(sk, random), NEW keys, keys = base!KyberReceiverMessage(b, sk, random)
    PROVE  base!pkPlus(keys[j + 1], H(keys[2 - j])) = sk <=> j = b
<1>1. H(random) \in 0 .. Q - 1
  BY KeysAssumption
<1> DEFINE mine == base!pkMinus(sk, H(random))
<1>2. base!pkPlus(mine, H(random)) = sk
  BY <1>1, KeysFit
<1>3. base!pkPlus(random, H(mine)) # sk
  BY DEF NoCollision
<1>4. keys = IF b = 0 THEN <<mine, random>> ELSE <<random, mine>>
  BY DEF base!KyberReceiverMessage
<1> HIDE DEF mine
<1>5. CASE b = 0 /\ j = 0
  <2>1. keys[j + 1] = mine /\ keys[2 - j] = random
    BY <1>4, <1>5
  <2> QED BY <1>2, <1>5, <2>1
<1>6. CASE b = 0 /\ j = 1
  <2>1. keys[j + 1] = random /\ keys[2 - j] = mine
    BY <1>4, <1>6
  <2> QED BY <1>3, <1>6, <2>1
<1>7. CASE b = 1 /\ j = 0
  <2>1. keys[j + 1] = random /\ keys[2 - j] = mine
    BY <1>4, <1>7
  <2> QED BY <1>3, <1>7, <2>1
<1>8. CASE b = 1 /\ j = 1
  <2>1. keys[j + 1] = mine /\ keys[2 - j] = random
    BY <1>4, <1>8
  <2> QED BY <1>2, <1>8, <2>1
<1> QED BY <1>5, <1>6, <1>7, <1>8

(* The ciphertexts that reach a receiver of a Kyber transfer are those of  *)
(* this transfer, and its secret key opens the chosen one and no other, in *)
(* every role and interleaving (KyberOT.c:41-84, BaseOT.cpp:448-569).      *)
THEOREM ChoiceOpens == TransfersSpec => []OneOfTwo
<1>1. TransfersInv => OneOfTwo
  <2> SUFFICES ASSUME TransfersInv, NEW p \in Parties, pc[p] = "outputs", conf.protocol = "kyber",
                      NEW i \in base!Transfers, NEW j \in base!Bit, NEW opened,
                      opened = base!indcpa_dec(os[p][1][i + 1][j], base!Fresh(p, i, 0))
               PROVE  IF j = receiver_inputs[p][i] THEN opened = base!Random(1 - p, i, j)
                                                   ELSE opened = base!Noise
    BY DEF OneOfTwo, base!OneOfTwo, base!Parties, Parties, Garbler, Evaluator
  <2>1. BaseTypes /\ KyberParty(p) /\ 1 - (1 - p) = p
    BY Roles DEF TransfersInv, SeedsInv, KyberOK
  <2>2. os[p][1] = CipherPack(1 - p)
    BY <2>1 DEF KyberParty
  <2>3. i \in 0 .. K - 1 /\ K \in Nat /\ i + 1 \in 1 .. K /\ (i + 1) - 1 = i
    BY OTExtensionAssumption DEF base!Transfers
  <2> DEFINE b == receiver_inputs[p][i]
             sk == base!Fresh(p, i, 0)
             random == base!Fresh(p, i, 1)
             keys == base!KyberReceiverMessage(b, sk, random)
  <2>4. KeyPack(p)[i + 1] = keys
    BY <2>3 DEF KeyPack
  <2>5. Strings(1 - p)[i][j] = base!Random(1 - p, i, j)
    BY DEF Strings
  <2>6. os[p][1][i + 1][j] = [key |-> base!pkPlus(keys[j + 1], H(keys[2 - j])),
                              text |-> base!Random(1 - p, i, j)]
    <3>1. CipherPack(1 - p)[i + 1] = base!KyberSenderMessage(Strings(1 - p)[i], KeyPack(p)[i + 1])
      BY <2>1, <2>3 DEF CipherPack
    <3> QED BY <2>2, <2>4, <2>5, <3>1 DEF base!KyberSenderMessage, base!indcpa_enc
  <2>7. b \in 0 .. 1 /\ j \in 0 .. 1
    BY <2>1 DEF BaseTypes, base!Bit
  <2>8. sk \in 0 .. Q - 1 /\ random \in 0 .. Q - 1
    BY FreshIsKey
  <2>9. NoCollision(sk, random)
    BY <2>3, NoCollisionAssumption
  <2> HIDE DEF b, sk, random, keys
  <2>10. base!pkPlus(keys[j + 1], H(keys[2 - j])) = sk <=> j = b
    BY <2>7, <2>8, <2>9, KeyOfChoice DEF keys
  <2>11. opened = IF j = b THEN base!Random(1 - p, i, j) ELSE base!Noise
    BY <2>6, <2>10 DEF base!indcpa_dec, sk
  <2> QED BY <2>11 DEF b
<1> QED BY <1>1, TransfersInvariant, PTL
=============================================================================
