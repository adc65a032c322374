-------------------------- MODULE ExchangerProofs ---------------------------
(***************************************************************************)
(* An exchange delivers the message that was sent, whatever the number of  *)
(* players, the lengths and the sizes of the buffers, and receiving into   *)
(* the stream that is sent from overwrites nothing that is still to go.    *)
(*                                                                         *)
(* What travels says neither whose it is nor where it belongs: a receiver  *)
(* takes the next LENGTH_SIZE bytes for a length and as many bytes as that *)
(* says for a message.  So the invariant is about positions.  The bytes a  *)
(* player ever writes to a connection form one fixed sequence, length and  *)
(* message of each exchange in turn; a connection holds what is between    *)
(* the receiver's position in it and the sender's (Flow).                  *)
(***************************************************************************)
EXTENDS Exchanger, SequenceTheorems, TLAPS

-----------------------------------------------------------------------------
(* What variables hold, whether or not the players are in step.            *)
Things == [is : {"byte", "len", "junk"}, by : Nat, turn : Nat, n : Nat]
Counters ==
    [header : Nat, sent : Nat, received : Nat, new_len : Nat, length_received : BOOLEAN]
Active == {"ctor", "send", "recv"}

Shapes ==
    /\ conf \in Confs
    /\ chan \in [Players \X Players -> Seq(Things)]
    /\ pc \in [Players -> Active \cup {"done", "gone", "failed"}]
    /\ turn \in [Players -> 1 .. n_turns]
    /\ cur \in [Players -> Exchangers]
    /\ left \in [Players -> BOOLEAN]
    /\ ex \in [Players -> [Exchangers -> Counters]]
    /\ stream \in [Players -> [Exchangers -> Seq(Things)]]
    /\ moved \in [Players -> BOOLEAN]
    /\ got = [p \in Players |-> got[p]]

(* No exchanger sends more than there is, or has received more than there  *)
(* is in its stream.                                                       *)
Bounded(p, i) ==
    /\ ex[p][i].sent <= len(p)
    /\ ex[p][i].received <= Len(stream[p][i])

(* With one stream for both directions: received data stays behind sent    *)
(* data, and what is ahead is still the message.                           *)
InPlace(p) ==
    pc[p] \in Active =>
        /\ len(p) <= Len(stream[p][1])
        /\ ex[p][1].sent < len(p) => ex[p][1].received <= ex[p][1].sent
        /\ \A k \in ex[p][1].sent + 1 .. len(p) :
             stream[p][1][k] = Byte(p, turn[p], k)

StreamsInv ==
    /\ Shapes
    /\ \A p \in Players, i \in Exchangers : Bounded(p, i)
    /\ conf.same => \A p \in Players : InPlace(p)

-----------------------------------------------------------------------------
(* The sequence player q writes to a connection under configuration c: for *)
(* each exchange u the length, then the message.                           *)
Size(c, q, u) == LENGTH_SIZE + c.len[u][q]
Item(c, q, u, o) ==
    IF o < LENGTH_SIZE THEN [is |-> "len", by |-> q, turn |-> u, n |-> c.len[u][q]]
    ELSE [is |-> "byte", by |-> q, turn |-> u, n |-> o - LENGTH_SIZE + 1]

(* s[u] is the position of exchange u in the sequence of q, for the first  *)
(* t exchanges and the one that follows.                                   *)
IsStart(c, q, t, s) ==
    /\ s \in [1 .. t + 1 -> Nat]
    /\ \A u \in 1 .. t : s[u + 1] = s[u] + Size(c, q, u)
    /\ \A u, v \in 1 .. t + 1 : u < v => s[u + 1] <= s[v]

(* data is what follows the receiver, which has taken in bytes of exchange *)
(* r, up to the sender, which has written out bytes of exchange w.         *)
FlowAt(c, q, t, w, out, r, in, data, s) ==
    /\ r \in 1 .. t + 1
    /\ s[r] + in + Len(data) = s[w] + out
    /\ \A k \in 1 .. Len(data), u \in 1 .. t : \A o \in 0 .. Size(c, q, u) - 1 :
         s[u] + o + 1 = s[r] + in + k => data[k] = Item(c, q, u, o)

Flow(c, q, t, w, out, r, in, data) ==
    \E s : IsStart(c, q, t, s) /\ FlowAt(c, q, t, w, out, r, in, data, s)

-----------------------------------------------------------------------------
(* The exchange a player is at; after the last one, the one that would     *)
(* follow.                                                                 *)
At(p) == IF pc[p] = "done" THEN turn[p] + 1 ELSE turn[p]
Out(p, i) == ex[p][i].header + ex[p][i].sent
In(p, i) == IF ex[p][i].length_received THEN LENGTH_SIZE + ex[p][i].received ELSE 0

ConnOK(q, i) ==
    Flow(conf, q, turn[q], At(q), Out(q, i),
         At(send_to(q, i)), In(send_to(q, i), i), chan[<<q, send_to(q, i)>>])

(* An exchanger has the length of the message it is to receive, and as     *)
(* much of that message as it says.                                        *)
CountersOK(p, i) ==
    LET e == ex[p][i]
        q == receive_from(p, i) IN
    /\ e.header <= LENGTH_SIZE
    /\ e.sent > 0 => e.header = LENGTH_SIZE
    /\ e.new_len = IF e.length_received THEN conf.len[turn[p]][q] ELSE 0
    /\ e.received <= e.new_len
    /\ \A k \in 1 .. e.received : stream[p][i][k] = Byte(q, turn[p], k)

(* Where a player is tells how far its exchangers are.                     *)
PhaseOK(p) ==
    /\ pc[p] = "ctor" => \A i \in Exchangers :
         /\ ex[p][i].sent = 0 /\ ~ex[p][i].length_received
         /\ i < cur[p] => ex[p][i].header = LENGTH_SIZE
         /\ i = cur[p] => ex[p][i].header < LENGTH_SIZE
         /\ i > cur[p] => ex[p][i].header = 0
    /\ pc[p] \in {"send", "recv"} =>
         /\ \A i \in Exchangers : ex[p][i].header = LENGTH_SIZE
         /\ ~left[p] => \A i \in Exchangers : i < cur[p] => ~More(ex[p][i], len(p))
    /\ pc[p] = "done" => turn[p] = n_turns /\ \A i \in Exchangers : ex[p][i] = NewExchanger

GotOK(p) ==
    /\ got[p] \in Seq([Exchangers -> Seq(Things)])
    /\ Len(got[p]) = At(p) - 1
    /\ \A t \in 1 .. Len(got[p]), i \in Exchangers :
         got[p][t][i] = Message(receive_from(p, i), t)

(* The configurations in which a shared stream is safe: its capacity is    *)
(* larger than any message, so that it is not moved while it is sent from; *)
(* and players exchange in pairs, or once, or messages of equal lengths,   *)
(* so that nothing of a next exchange is taken for this one.               *)
SharingSafe(c) ==
    c.same =>
        /\ \A t \in 1 .. Len(c.len), p, q \in 0 .. c.n - 1 : c.len[t][q] < c.mxlen[p]
        /\ \/ c.offset + c.offset = c.n
           \/ Len(c.len) = 1
           \/ \A t \in 1 .. Len(c.len), p, q \in 0 .. c.n - 1 : c.len[t][p] = c.len[t][q]

PlayerOK(p) ==
    /\ \A i \in Exchangers : CountersOK(p, i)
    /\ PhaseOK(p)
    /\ GotOK(p)
    /\ ~moved[p]

ExchangeInv ==
    /\ StreamsInv
    /\ SharingSafe(conf) =>
         /\ \A p \in Players : PlayerOK(p)
         /\ \A q \in Players, i \in Exchangers : ConnOK(q, i)

-----------------------------------------------------------------------------
(* What the proofs use of a configuration.                                 *)
LEMMA ConfFacts ==
    ASSUME NEW c \in Confs
    PROVE  /\ c.n \in Nat /\ c.n > 1 /\ c.offset \in 1 .. c.n - 1
           /\ Len(c.len) \in Nat /\ Len(c.len) > 0
           /\ \A t \in 1 .. Len(c.len), p \in 0 .. c.n - 1 : c.len[t][p] \in Nat
           /\ \A p \in 0 .. c.n - 1 : c.mxlen[p] \in Nat
           /\ c.same => ~c.broadcast
           /\ c.same \in BOOLEAN /\ c.broadcast \in BOOLEAN /\ c.ssl \in BOOLEAN
<1>1. /\ c.len \in Seq([0 .. c.n - 1 -> Nat]) /\ c.len # <<>>
      /\ c.n \in Nat \ {0, 1} /\ c.offset \in 1 .. c.n - 1
      /\ c.mxlen \in [0 .. c.n - 1 -> Nat] /\ (c.same => ~c.broadcast)
      /\ {c.broadcast, c.ssl, c.same, c.leaves} \subseteq BOOLEAN
  BY ConfsOK
<1>2. Len(c.len) \in Nat /\ Len(c.len) > 0  BY <1>1, EmptySeq, LenProperties
<1>3. \A t \in 1 .. Len(c.len) : c.len[t] \in [0 .. c.n - 1 -> Nat]
  BY <1>1, ElementOfSeq
<1>4. \A t \in 1 .. Len(c.len), p \in 0 .. c.n - 1 : c.len[t][p] \in Nat  BY <1>3
<1>5. c.same \in BOOLEAN /\ c.broadcast \in BOOLEAN /\ c.ssl \in BOOLEAN  BY <1>1, Zenon
<1>6. c.n \in Nat /\ c.n > 1 /\ \A p \in 0 .. c.n - 1 : c.mxlen[p] \in Nat  BY <1>1
<1> QED BY <1>1, <1>2, <1>4, <1>5, <1>6, Zenon

(* The least of two or three numbers.                                      *)
LEMMA MinOfTwo ==
    ASSUME NEW a \in Int, NEW b \in Int
    PROVE  Min({a, b}) \in Int /\ Min({a, b}) <= a /\ Min({a, b}) <= b
<1>1. CASE a <= b
  <2>1. \E x \in {a, b} : \A y \in {a, b} : x <= y  BY <1>1
  <2> QED BY <2>1 DEF Min
<1>2. CASE b <= a
  <2>1. \E x \in {a, b} : \A y \in {a, b} : x <= y  BY <1>2
  <2> QED BY <2>1 DEF Min
<1> QED BY <1>1, <1>2

LEMMA MinOfThree ==
    ASSUME NEW a \in Int, NEW b \in Int, NEW c \in Int
    PROVE  Min({a, b, c}) \in Int /\ Min({a, b, c}) <= a /\ Min({a, b, c}) <= b
<1>1. \E x \in {a, b, c} : \A y \in {a, b, c} : x <= y
  <2>1. CASE a <= b /\ a <= c  BY <2>1
  <2>2. CASE b <= a /\ b <= c  BY <2>2
  <2>3. CASE c <= a /\ c <= b  BY <2>3
  <2> QED BY <2>1, <2>2, <2>3
<1> QED BY <1>1 DEF Min

LEMMA MaxOfTwo ==
    ASSUME NEW a \in Int, NEW b \in Int
    PROVE  Max({a, b}) = IF a <= b THEN b ELSE a
<1>1. CASE a <= b
  <2>1. \E x \in {a, b} : \A y \in {a, b} : x >= y  BY <1>1
  <2> QED BY <2>1, <1>1 DEF Max
<1>2. CASE ~(a <= b)
  <2>1. \E x \in {a, b} : \A y \in {a, b} : x >= y  BY <1>2
  <2> QED BY <2>1, <1>2 DEF Max
<1> QED BY <1>1, <1>2

(* Whom a player sends to receives from it, at the same exchanger, and no  *)
(* two exchangers share a connection.                                      *)
LEMMA Wrap ==
    ASSUME NEW n \in Nat \ {0}, NEW x \in 0 .. n + n - 1
    PROVE  x % n = IF x < n THEN x ELSE x - n
<1>1. CASE x < n  BY <1>1
<1>2. CASE ~(x < n)
  <2>1. x - n \in 0 .. n - 1  BY <1>2
  <2>2. x = n * 1 + (x - n)  OBVIOUS
  <2> QED BY <2>1, <2>2, <1>2
<1> QED BY <1>1, <1>2

LEMMA Peers ==
    ASSUME conf \in Confs, NEW p \in Players, NEW i \in Exchangers
    PROVE  /\ send_to(p, i) \in Players /\ receive_from(p, i) \in Players
           /\ send_to(receive_from(p, i), i) = p
           /\ receive_from(send_to(p, i), i) = p
           /\ send_to(p, i) # p
           /\ \A j \in Exchangers : send_to(p, j) = send_to(p, i) => j = i
           /\ \A j \in Exchangers : receive_from(p, j) = receive_from(p, i) => j = i
<1> DEFINE n == conf.n
<1>1. n \in Nat /\ n > 1 /\ conf.offset \in 1 .. n - 1  BY ConfFacts
<1>2. p \in 0 .. n - 1  BY DEF Players
<1>3. \A j \in Exchangers : offset(j) \in 1 .. n - 1
  BY <1>1 DEF Exchangers, offset
<1>4. \A j \in Exchangers : offset(j) = offset(i) => j = i
  BY <1>1 DEF Exchangers, offset
<1>5. \A r \in 0 .. n - 1, j \in Exchangers :
        /\ send_to(r, j) = IF r + offset(j) < n THEN r + offset(j) ELSE r + offset(j) - n
        /\ receive_from(r, j) = IF r < offset(j) THEN r + n - offset(j) ELSE r - offset(j)
  <2> TAKE r \in 0 .. n - 1, j \in Exchangers
  <2> DEFINE d == offset(j)
  <2>1. d \in 1 .. n - 1  BY <1>3
  <2>2. (r + d) % n = IF r + d < n THEN r + d ELSE r + d - n
    <3> HIDE DEF d, n
    <3>1. r + d \in 0 .. n + n - 1 /\ n \in Nat \ {0}  BY <1>1, <2>1
    <3> DEFINE x == r + d
    <3>2. x \in 0 .. n + n - 1  BY <3>1
    <3> HIDE DEF x
    <3>3. x % n = IF x < n THEN x ELSE x - n  BY <3>1, <3>2, Wrap
    <3>4. x = r + d  BY DEF x
    <3>5. (IF x < n THEN x ELSE x - n) = IF r + d < n THEN r + d ELSE r + d - n
      BY <1>1, <2>1, <3>4
    <3> QED BY <3>3, <3>4, <3>5
  <2>3. (r + n - d) % n = IF r < d THEN r + n - d ELSE r - d
    <3> HIDE DEF d, n
    <3>1. r + n - d \in 0 .. n + n - 1 /\ n \in Nat \ {0}  BY <1>1, <2>1
    <3> DEFINE x == r + n - d
    <3>2. x \in 0 .. n + n - 1  BY <3>1
    <3> HIDE DEF x
    <3>3. x % n = IF x < n THEN x ELSE x - n  BY <3>1, <3>2, Wrap
    <3>4. x = r + n - d  BY DEF x
    <3>5. (IF x < n THEN x ELSE x - n) = IF r < d THEN r + n - d ELSE r - d
      BY <1>1, <2>1, <3>4
    <3> QED BY <3>3, <3>4, <3>5
  <2> QED BY <2>2, <2>3 DEF send_to, receive_from
<1> DEFINE a == send_to(p, i)
           b == receive_from(p, i)
<1>6. a \in 0 .. n - 1 /\ b \in 0 .. n - 1 /\ a # p
  <2> DEFINE d == offset(i)
  <2>1. d \in 1 .. n - 1  BY <1>3
  <2>2. /\ a = IF p + d < n THEN p + d ELSE p + d - n
        /\ b = IF p < d THEN p + n - d ELSE p - d
    BY <1>2, <1>5
  <2> HIDE DEF a, b, d, n
  <2> QED BY <1>1, <1>2, <2>1, <2>2
<1>7. send_to(b, i) = p /\ receive_from(a, i) = p
  <2> HIDE DEF n
  <2> QED BY <1>1, <1>2, <1>3, <1>5, <1>6
<1>8. \A j \in Exchangers : send_to(p, j) = a => j = i
  <2> TAKE j \in Exchangers
  <2>1. send_to(p, j) = a => offset(j) = offset(i)
    <3> HIDE DEF n
    <3> QED BY <1>1, <1>2, <1>3, <1>5
  <2> QED BY <2>1, <1>4
<1>9. \A j \in Exchangers : receive_from(p, j) = b => j = i
  <2> TAKE j \in Exchangers
  <2>1. receive_from(p, j) = b => offset(j) = offset(i)
    <3> HIDE DEF n
    <3> QED BY <1>1, <1>2, <1>3, <1>5
  <2> QED BY <2>1, <1>4
<1> QED BY <1>6, <1>7, <1>8, <1>9 DEF Players

-----------------------------------------------------------------------------
(* Facts about the sequence and about what is under way.  The first is     *)
(* that positions of later exchanges are later.                            *)
LEMMA SizeType ==
    ASSUME NEW c \in Confs, NEW q \in 0 .. c.n - 1, NEW u \in 1 .. Len(c.len)
    PROVE  Size(c, q, u) \in Nat /\ Size(c, q, u) >= LENGTH_SIZE /\ LENGTH_SIZE \in Nat /\ LENGTH_SIZE > 0
BY ConfsOK, ConfFacts DEF Size

(* Before the first exchange nothing is under way.                         *)
LEMMA FlowInit ==
    ASSUME NEW c \in Confs, NEW q \in 0 .. c.n - 1
    PROVE  Flow(c, q, 1, 1, 0, 1, 0, <<>>)
<1> DEFINE z == Size(c, q, 1)
           s == [u \in 1 .. 1 + 1 |-> IF u = 1 THEN 0 ELSE z]
<1>1. z \in Nat  BY SizeType, ConfFacts
<1>2. IsStart(c, q, 1, s)
  <2>1. s \in [1 .. 1 + 1 -> Nat]  BY <1>1
  <2>2. s[1] = 0 /\ s[2] = z  OBVIOUS
  <2> HIDE DEF s, z
  <2>3. \A u \in 1 .. 1 : s[u + 1] = s[u] + Size(c, q, u)  BY <1>1, <2>2 DEF z
  <2>4. \A u, v \in 1 .. 1 + 1 : u < v => s[u + 1] <= s[v]  BY <2>2, <1>1
  <2> QED BY <2>1, <2>3, <2>4 DEF IsStart
<1>3. FlowAt(c, q, 1, 1, 0, 1, 0, <<>>, s)
  <2>1. s[1] = 0 /\ Len(<<>>) = 0  OBVIOUS
  <2> HIDE DEF s
  <2> QED BY <2>1 DEF FlowAt
<1> QED BY <1>2, <1>3 DEF Flow

(* Writing the next bytes of the sequence.                                 *)
LEMMA FlowAppend ==
    ASSUME NEW c \in Confs, NEW q \in 0 .. c.n - 1, NEW t \in 1 .. Len(c.len),
           NEW out \in Nat, NEW r, NEW in \in Nat,
           NEW data \in Seq(Things), NEW d \in Seq(Things),
           Flow(c, q, t, t, out, r, in, data),
           out + Len(d) <= Size(c, q, t),
           \A k \in 1 .. Len(d) : d[k] = Item(c, q, t, out + k - 1)
    PROVE  Flow(c, q, t, t, out + Len(d), r, in, data \o d)
<1>1. PICK s : IsStart(c, q, t, s) /\ FlowAt(c, q, t, t, out, r, in, data, s)  BY DEF Flow
<1> DEFINE m == Len(data)
           l == Len(d)
           a == s[r]
           b == s[t]
<1>2. m \in Nat /\ l \in Nat /\ Len(data \o d) = m + l  BY LenProperties, ConcatProperties
<1>3. r \in 1 .. t + 1 /\ t \in 1 .. t + 1 /\ t \in Nat  BY <1>1 DEF FlowAt
<1>4. a \in Nat /\ b \in Nat  BY <1>1, <1>3 DEF IsStart
<1>5. a + in + m = b + out  BY <1>1 DEF FlowAt
<1>6. ASSUME NEW k \in 1 .. m + l, NEW u \in 1 .. t, NEW o \in 0 .. Size(c, q, u) - 1,
             s[u] + o + 1 = a + in + k
      PROVE  (data \o d)[k] = Item(c, q, u, o)
  <2>1. CASE k <= m
    <3>1. k \in 1 .. m  BY <2>1, <1>2
    <3>2. (data \o d)[k] = data[k]  BY <3>1, ConcatProperties
    <3> QED BY <3>1, <3>2, <1>1, <1>6 DEF FlowAt
  <2>2. CASE k > m
    <3> DEFINE j == k - m
               x == s[u]
               z == Size(c, q, u)
    <3>1. j \in 1 .. l  BY <2>2, <1>2
    <3>2. (data \o d)[k] = d[j]  BY <3>1, <2>2, <1>2, ConcatProperties
    <3>3. d[j] = Item(c, q, t, out + j - 1)  BY <3>1
    <3>4. u \in 1 .. t + 1 /\ u \in Nat /\ u <= t  BY <1>3
    <3>5. x \in Nat /\ x + o + 1 = a + in + k  BY <3>4, <1>1, <1>6 DEF IsStart
    <3>6. z \in Nat /\ o \in 0 .. z - 1
      <4>1. u \in 1 .. Len(c.len)  BY <3>4, ConfFacts
      <4> QED BY <4>1, SizeType
    <3>7. u < t => x + z <= b
      BY <3>4, <1>1, <1>3 DEF IsStart
    <3>8. u = t => x = b  OBVIOUS
    <3>9. k = m + j /\ k \in Nat /\ j \in Nat /\ j > 0  BY <3>1, <1>2
    <3>10. u = t /\ o = out + j - 1
      <4> HIDE DEF m, l, j, x, z, a, b
      <4>1. x + o = b + (out + j - 1)  BY <3>5, <3>6, <3>9, <1>2, <1>4, <1>5
      <4>2. ~(u < t)  BY <4>1, <3>5, <3>6, <3>7, <3>9, <1>4
      <4>3. u = t  BY <4>2, <3>4, <1>3
      <4>4. x = b  BY <4>3, <3>8
      <4> QED BY <4>1, <4>3, <4>4, <3>6, <3>9, <1>4
    <3> QED BY <3>2, <3>3, <3>10
  <2> HIDE DEF m, l
  <2> QED BY <2>1, <2>2, <1>2
<1>7. FlowAt(c, q, t, t, out + l, r, in, data \o d, s)
  <2>1. a + in + (m + l) = b + (out + l)
    <3> HIDE DEF m, l, a, b
    <3> QED BY <1>2, <1>4, <1>5
  <2> QED BY <2>1, <1>2, <1>3, <1>6 DEF FlowAt
<1> QED BY <1>1, <1>7 DEF Flow


(* Taking bytes.                                                           *)
LEMMA FlowDrop ==
    ASSUME NEW c \in Confs, NEW q, NEW t \in 1 .. Len(c.len), NEW w \in 1 .. t + 1,
           NEW out \in Nat, NEW r, NEW in \in Nat, NEW data \in Seq(Things),
           Flow(c, q, t, w, out, r, in, data), NEW m \in 0 .. Len(data)
    PROVE  Flow(c, q, t, w, out, r, in + m, SubSeq(data, m + 1, Len(data)))
<1>1. PICK s : IsStart(c, q, t, s) /\ FlowAt(c, q, t, w, out, r, in, data, s)  BY DEF Flow
<1> DEFINE l == Len(data)
           a == s[r]
           b == s[w]
           rest == SubSeq(data, m + 1, l)
<1>2. l \in Nat /\ m \in Nat /\ m <= l  BY LenProperties
<1>3. r \in 1 .. t + 1  BY <1>1 DEF FlowAt
<1>4. a \in Nat /\ b \in Nat  BY <1>1, <1>3 DEF IsStart
<1>5. a + in + l = b + out  BY <1>1 DEF FlowAt
<1>6. Len(rest) = l - m /\ \A k \in 1 .. l - m : rest[k] = data[m + k]
  BY <1>2
<1>7. ASSUME NEW k \in 1 .. l - m, NEW u \in 1 .. t, NEW o \in 0 .. Size(c, q, u) - 1,
             s[u] + o + 1 = a + (in + m) + k
      PROVE  rest[k] = Item(c, q, u, o)
  <2>1. m + k \in 1 .. l  BY <1>2
  <2>2. a + (in + m) + k = a + in + (m + k)
    <3> HIDE DEF a
    <3> QED BY <1>2, <1>4
  <2>3. data[m + k] = Item(c, q, u, o)
    <3>1. s[u] + o + 1 = s[r] + in + (m + k)  BY <1>7, <2>2
    <3> QED BY <3>1, <2>1, <1>1 DEF FlowAt
  <2> QED BY <2>3, <1>6
<1>8. a + (in + m) + (l - m) = b + out
  <2> HIDE DEF a, b, l
  <2> QED BY <1>2, <1>4, <1>5
<1>9. FlowAt(c, q, t, w, out, r, in + m, rest, s)
  <2> HIDE DEF rest
  <2>1. s[r] + (in + m) + Len(rest) = s[w] + out  BY <1>8, <1>6
  <2>2. \A k \in 1 .. Len(rest), u \in 1 .. t : \A o \in 0 .. Size(c, q, u) - 1 :
          s[u] + o + 1 = s[r] + (in + m) + k => rest[k] = Item(c, q, u, o)
    BY <1>7, <1>6
  <2> QED BY <2>1, <2>2, <1>3 DEF FlowAt
<1> QED BY <1>1, <1>9 DEF Flow

(* How far a sender can be: within its exchange, or after its last one.    *)
Place(c, q, t, w, out) ==
    \/ w = t /\ out <= Size(c, q, t)
    \/ w = t + 1 /\ out = 0

(* The bytes a receiver finds at exchange r are those of exchange r, as    *)
(* far as they reach; and they are no others if the sender is not further. *)
Reads(c, q, r, in, data) ==
    r <= Len(c.len) => \A k \in 1 .. Len(data) :
        in + k <= Size(c, q, r) => data[k] = Item(c, q, r, in + k - 1)
NoneOfNext(c, q, w, out, r, in, data) ==
    (w <= r \/ (w = r + 1 /\ out = 0)) /\ r <= Len(c.len) =>
        in + Len(data) <= Size(c, q, r)

(* A receiver at exchange r is not ahead of the sender.                    *)
LEMMA FlowHere ==
    ASSUME NEW c \in Confs, NEW q \in 0 .. c.n - 1, NEW t \in 1 .. Len(c.len), NEW w,
           NEW out \in Nat, NEW r, NEW in \in Nat, NEW data \in Seq(Things),
           Flow(c, q, t, w, out, r, in, data), Place(c, q, t, w, out)
    PROVE  /\ r \in 1 .. t + 1
           /\ in + Len(data) > 0 => r \in 1 .. t
           /\ Reads(c, q, r, in, data)
           /\ NoneOfNext(c, q, w, out, r, in, data)
<1>1. PICK s : IsStart(c, q, t, s) /\ FlowAt(c, q, t, w, out, r, in, data, s)  BY DEF Flow
<1> DEFINE l == Len(data)
           a == s[r]
           b == s[w]
           e == s[t + 1]
           z == Size(c, q, t)
<1>2. l \in Nat /\ t \in Nat /\ t > 0  BY LenProperties, ConfFacts
<1>3. r \in 1 .. t + 1 /\ w \in 1 .. t + 1 /\ t + 1 \in 1 .. t + 1 /\ t \in 1 .. t + 1
  BY <1>1, <1>2 DEF FlowAt, Place
<1>4. a \in Nat /\ b \in Nat /\ e \in Nat /\ s[t] \in Nat  BY <1>1, <1>3 DEF IsStart
<1>5. a + in + l = b + out  BY <1>1 DEF FlowAt
<1>6. z \in Nat /\ z > 0  BY SizeType, ConfsOK
<1>7. s[t + 1] = s[t] + Size(c, q, t)
  <2>1. t \in 1 .. t  BY <1>2
  <2> QED BY <2>1, <1>1 DEF IsStart
<1>8. b + out <= e
  <2>1. CASE w = t /\ out <= Size(c, q, t)
    <3>1. e = b + z  BY <2>1, <1>7
    <3>2. out <= z  BY <2>1
    <3> HIDE DEF b, e, z
    <3> QED BY <3>1, <3>2, <1>4, <1>6
  <2>2. CASE w = t + 1 /\ out = 0
    <3>1. e = b  BY <2>2
    <3> HIDE DEF b, e
    <3> QED BY <3>1, <2>2, <1>4
  <2> QED BY <2>1, <2>2 DEF Place
<1>9. in + l > 0 => r \in 1 .. t
  <2>1. r = t + 1 => a = e  OBVIOUS
  <2>2. r = t + 1 => in + l = 0
    <3> HIDE DEF a, b, e, l
    <3> QED BY <2>1, <1>2, <1>4, <1>5, <1>8
  <2> QED BY <2>2, <1>2, <1>3
<1>10. ASSUME r <= Len(c.len), NEW k \in 1 .. l, in + k <= Size(c, q, r)
       PROVE  data[k] = Item(c, q, r, in + k - 1)
  <2>1. in + l > 0
    <3> HIDE DEF l
    <3> QED BY <1>2
  <2>2. r \in 1 .. t /\ r \in 1 .. Len(c.len)  BY <2>1, <1>9, <1>10
  <2>3. Size(c, q, r) \in Nat  BY <2>2, SizeType
  <2> DEFINE o == in + k - 1
  <2>4. o \in 0 .. Size(c, q, r) - 1 /\ k \in Nat
    <3> DEFINE y == Size(c, q, r)
    <3>1. y \in Nat /\ in + k <= y  BY <2>3, <1>10
    <3> HIDE DEF l, y
    <3>2. in + k - 1 \in 0 .. y - 1  BY <3>1, <1>2
    <3> QED BY <3>2, <1>2 DEF y
  <2>5. s[r] + o + 1 = s[r] + in + k
    <3>1. a + (in + k - 1) + 1 = a + in + k
      <4> HIDE DEF a
      <4> QED BY <1>4, <2>4
    <3> QED BY <3>1
  <2> HIDE DEF o
  <2>6. data[k] = Item(c, q, r, o)  BY <2>2, <2>4, <2>5, <1>1, <1>10 DEF FlowAt
  <2> QED BY <2>6 DEF o
<1>11. ASSUME w <= r \/ (w = r + 1 /\ out = 0), r <= Len(c.len)
       PROVE  in + l <= Size(c, q, r)
  <2>1. Size(c, q, r) \in Nat
    <3>1. r \in 1 .. Len(c.len)  BY <1>11, <1>3, <1>2
    <3> QED BY <3>1, SizeType
  <2>2. CASE r = w /\ w = t
    <3>1. a = b /\ out <= Size(c, q, r)
      BY <2>2, <1>2 DEF Place
    <3> HIDE DEF a, b, l
    <3>2. in + l = out  BY <3>1, <1>2, <1>4, <1>5
    <3> QED BY <3>1, <3>2
  <2>3. CASE w = r + 1 /\ out = 0
    <3> DEFINE y == Size(c, q, r)
    <3>1. r \in 1 .. t  BY <2>3, <1>2, <1>3
    <3>2. b = a + y  BY <2>3, <3>1, <1>1 DEF IsStart
    <3>3. y \in Nat  BY <2>1
    <3> HIDE DEF a, b, l, y
    <3>4. in + l = y  BY <2>3, <3>2, <3>3, <1>2, <1>4, <1>5
    <3>5. in + l <= y  BY <3>3, <3>4
    <3> QED BY <3>5 DEF y
  <2>4. CASE ~(r = w /\ w = t) /\ w <= r
    <3>1. r = t + 1
      <4>1. w = t \/ w = t + 1  BY DEF Place
      <4> QED BY <4>1, <2>4, <1>2, <1>3
    <3>2. in + l = 0
      <4>1. ~(in + l > 0)  BY <3>1, <1>9, <1>2
      <4> HIDE DEF l
      <4> QED BY <4>1, <1>2
    <3> QED BY <3>2, <2>1
  <2> QED BY <2>2, <2>3, <2>4, <1>11
<1>12. Reads(c, q, r, in, data)  BY <1>10 DEF Reads
<1>13. NoneOfNext(c, q, w, out, r, in, data)  BY <1>11 DEF NoneOfNext
<1> QED BY <1>3, <1>9, <1>12, <1>13

(* A receiver that has moved on to an exchange after the sender's has all  *)
(* that the sender had to write.                                           *)
LEMMA FlowAhead ==
    ASSUME NEW c \in Confs, NEW q \in 0 .. c.n - 1, NEW t \in 1 .. Len(c.len),
           NEW out \in Nat, NEW r, NEW in \in Nat, NEW data \in Seq(Things),
           Flow(c, q, t, t, out, r, in, data), r > t
    PROVE  out >= Size(c, q, t)
<1>1. PICK s : IsStart(c, q, t, s) /\ FlowAt(c, q, t, t, out, r, in, data, s)  BY DEF Flow
<1> DEFINE l == Len(data)
           a == s[r]
           b == s[t]
           z == Size(c, q, t)
<1>2. l \in Nat /\ t \in Nat /\ t > 0  BY LenProperties, ConfFacts
<1>3. r \in 1 .. t + 1 /\ r = t + 1 /\ t \in 1 .. t + 1 /\ t \in 1 .. t
  BY <1>1, <1>2 DEF FlowAt
<1>4. a \in Nat /\ b \in Nat  BY <1>1, <1>3 DEF IsStart
<1>5. a + in + l = b + out  BY <1>1 DEF FlowAt
<1>6. z \in Nat  BY SizeType
<1>7. a = b + z  BY <1>1, <1>3 DEF IsStart
<1> HIDE DEF l, a, b, z
<1>8. out >= z  BY <1>2, <1>4, <1>5, <1>6, <1>7
<1> QED BY <1>8 DEF z

(* The receiver has the whole message and goes on to the next exchange.    *)
LEMMA FlowReceiver ==
    ASSUME NEW c \in Confs, NEW q \in 0 .. c.n - 1, NEW t \in 1 .. Len(c.len), NEW w,
           NEW out \in Nat, NEW r \in 1 .. Len(c.len), NEW data \in Seq(Things),
           Flow(c, q, t, w, out, r, Size(c, q, r), data), Place(c, q, t, w, out)
    PROVE  Flow(c, q, t, w, out, r + 1, 0, data)
<1> DEFINE z == Size(c, q, r)
<1>1. z \in Nat /\ z > 0  BY SizeType, ConfsOK
<1>2. r \in 1 .. t
  <2>1. Len(data) \in Nat  BY LenProperties
  <2>2. z + Len(data) > 0
    <3> HIDE DEF z
    <3> QED BY <1>1, <2>1
  <2> QED BY <2>2, <1>1, FlowHere
<1>3. PICK s : IsStart(c, q, t, s) /\ FlowAt(c, q, t, w, out, r, z, data, s)  BY DEF Flow
<1>4. r + 1 \in 1 .. t + 1 /\ r \in 1 .. t + 1 /\ t \in Nat  BY <1>2, ConfFacts
<1> DEFINE a == s[r]
           b == s[r + 1]
<1>5. a \in Nat /\ b \in Nat /\ b = a + z  BY <1>2, <1>3, <1>4 DEF IsStart
<1>6. \A k \in Nat : b + 0 + k = a + z + k
  <2> HIDE DEF a, b, z
  <2> QED BY <1>1, <1>5
<1>7. s[r] + z + Len(data) = s[w] + out  BY <1>3 DEF FlowAt
<1>8. s[r + 1] + 0 + Len(data) = s[w] + out
  <2>1. Len(data) \in Nat  BY LenProperties
  <2>2. b + 0 + Len(data) = a + z + Len(data)
    <3> HIDE DEF a, b, z
    <3> QED BY <2>1, <1>6
  <2> QED BY <2>2, <1>7
<1>9. ASSUME NEW k \in 1 .. Len(data), NEW u \in 1 .. t, NEW o \in 0 .. Size(c, q, u) - 1,
             s[u] + o + 1 = s[r + 1] + 0 + k
      PROVE  data[k] = Item(c, q, u, o)
  <2>1. k \in Nat  BY LenProperties
  <2>2. b + 0 + k = a + z + k
    <3> HIDE DEF a, b, z
    <3> QED BY <2>1, <1>6
  <2>3. s[u] + o + 1 = s[r] + z + k  BY <2>2, <1>9
  <2> QED BY <2>3, <1>3 DEF FlowAt
<1>10. FlowAt(c, q, t, w, out, r + 1, 0, data, s)  BY <1>4, <1>8, <1>9 DEF FlowAt
<1> QED BY <1>3, <1>10 DEF Flow

(* The sender has written the whole message and ends its last exchange ... *)
LEMMA FlowSenderEnds ==
    ASSUME NEW c \in Confs, NEW q \in 0 .. c.n - 1, NEW t \in 1 .. Len(c.len),
           NEW r, NEW in \in Nat, NEW data \in Seq(Things),
           Flow(c, q, t, t, Size(c, q, t), r, in, data)
    PROVE  Flow(c, q, t, t + 1, 0, r, in, data)
<1> DEFINE z == Size(c, q, t)
<1>1. PICK s : IsStart(c, q, t, s) /\ FlowAt(c, q, t, t, z, r, in, data, s)  BY DEF Flow
<1>2. z \in Nat /\ t \in Nat /\ t > 0  BY SizeType, ConfFacts
<1>3. t + 1 \in 1 .. t + 1 /\ t \in 1 .. t /\ t \in 1 .. t + 1  BY <1>2
<1>4. s[t + 1] \in Nat /\ s[t + 1] = s[t] + z  BY <1>1, <1>3 DEF IsStart
<1>5. s[t + 1] + 0 = s[t] + z
  <2> DEFINE e == s[t + 1]
             x == s[t] + z
  <2>1. e \in Nat /\ e = x  BY <1>4
  <2>2. e + 0 = x
    <3> HIDE DEF e, x
    <3> QED BY <2>1
  <2> QED BY <2>2
<1>6. FlowAt(c, q, t, t + 1, 0, r, in, data, s)
  <2>1. s[r] + in + Len(data) = s[t + 1] + 0  BY <1>1, <1>5 DEF FlowAt
  <2> QED BY <2>1, <1>1 DEF FlowAt
<1> QED BY <1>1, <1>6 DEF Flow

(* ... or begins the next one.                                             *)
LEMMA FlowSender ==
    ASSUME NEW c \in Confs, NEW q \in 0 .. c.n - 1, NEW t \in 1 .. Len(c.len),
           t + 1 <= Len(c.len),
           NEW r, NEW in \in Nat, NEW data \in Seq(Things),
           Flow(c, q, t, t, Size(c, q, t), r, in, data)
    PROVE  Flow(c, q, t + 1, t + 1, 0, r, in, data)
<1>1. Flow(c, q, t, t + 1, 0, r, in, data)  BY FlowSenderEnds
<1>2. PICK s : IsStart(c, q, t, s) /\ FlowAt(c, q, t, t + 1, 0, r, in, data, s)  BY <1>1 DEF Flow
<1> DEFINE y == Size(c, q, t + 1)
           e == s[t + 1]
           f == [u \in 1 .. t + 1 + 1 |-> IF u = t + 1 + 1 THEN e + y ELSE s[u]]
<1>3. t \in Nat /\ t > 0 /\ t + 1 \in 1 .. Len(c.len)  BY ConfFacts
<1>4. y \in Nat  BY <1>3, SizeType
<1>5. \A u \in 1 .. t + 1 : u \in 1 .. t + 1 + 1 /\ u # t + 1 + 1 /\ u \in Nat /\ f[u] = s[u] /\ s[u] \in Nat
  <2> TAKE u \in 1 .. t + 1
  <2>1. u \in 1 .. t + 1 + 1 /\ u # t + 1 + 1 /\ u \in Nat  BY <1>3
  <2> QED BY <2>1, <1>2 DEF IsStart
<1>6. f[t + 1 + 1] = e + y /\ t + 1 + 1 \in 1 .. t + 1 + 1
  BY <1>3
<1>7. e \in Nat /\ f[t + 1] = e
  <2>1. t + 1 \in 1 .. t + 1  BY <1>3
  <2> QED BY <2>1, <1>5
<1>8. e + y \in Nat /\ e <= e + y
  <2> HIDE DEF e, y
  <2> QED BY <1>7, <1>4
<1>9. f \in [1 .. t + 1 + 1 -> Nat]
  <2>1. ASSUME NEW u \in 1 .. t + 1 + 1, u # t + 1 + 1
        PROVE  s[u] \in Nat
    <3>1. u \in 1 .. t + 1  BY <2>1, <1>3
    <3> QED BY <3>1, <1>5
  <2> HIDE DEF e, y
  <2> QED BY <2>1, <1>8
<1>10. \A u \in 1 .. t + 1 : f[u + 1] = f[u] + Size(c, q, u)
  <2> TAKE u \in 1 .. t + 1
  <2>1. CASE u = t + 1  BY <2>1, <1>6, <1>7
  <2>2. CASE u # t + 1
    <3>1. u \in 1 .. t /\ u + 1 \in 1 .. t + 1  BY <2>2, <1>3
    <3>2. s[u + 1] = s[u] + Size(c, q, u)  BY <3>1, <1>2 DEF IsStart
    <3> HIDE DEF f
    <3> QED BY <3>1, <3>2, <1>5
  <2> QED BY <2>1, <2>2
<1>11. \A u, v \in 1 .. t + 1 + 1 : u < v => f[u + 1] <= f[v]
  <2> SUFFICES ASSUME NEW u \in 1 .. t + 1 + 1, NEW v \in 1 .. t + 1 + 1, u < v
               PROVE  f[u + 1] <= f[v]
    OBVIOUS
  <2>1. CASE v # t + 1 + 1
    <3>1. u \in 1 .. t + 1 /\ u + 1 \in 1 .. t + 1 /\ v \in 1 .. t + 1  BY <2>1, <1>3
    <3>2. s[u + 1] <= s[v]  BY <3>1, <1>2 DEF IsStart
    <3> HIDE DEF f
    <3> QED BY <3>1, <3>2, <1>5
  <2>2. CASE v = t + 1 + 1 /\ u = t + 1
    <3>1. f[u + 1] = e + y /\ f[v] = e + y  BY <2>2, <1>6
    <3> HIDE DEF f, e, y
    <3> QED BY <3>1, <1>8
  <2>3. CASE v = t + 1 + 1 /\ u # t + 1
    <3>1. u \in 1 .. t + 1 /\ u + 1 \in 1 .. t + 1 /\ t + 1 \in 1 .. t + 1 /\ u < t + 1  BY <2>3, <1>3
    <3>2. s[u + 1] <= s[t + 1]  BY <3>1, <1>2 DEF IsStart
    <3> DEFINE x == s[u + 1]
    <3>3. x \in Nat /\ x <= e /\ f[u + 1] = x /\ f[v] = e + y  BY <3>1, <3>2, <2>3, <1>5, <1>6
    <3> HIDE DEF f, e, y, x
    <3>4. x <= e + y  BY <3>3, <1>7, <1>4
    <3> QED BY <3>3, <3>4
  <2> QED BY <2>1, <2>2, <2>3
<1>12. IsStart(c, q, t + 1, f)
  <2> HIDE DEF f
  <2> QED BY <1>9, <1>10, <1>11 DEF IsStart
<1>13. r \in 1 .. t + 1 /\ f[r] = s[r] /\ s[r] \in Nat /\ r \in 1 .. t + 1 + 1
  <2>1. r \in 1 .. t + 1  BY <1>2 DEF FlowAt
  <2> QED BY <2>1, <1>5
<1>14. f[r] + in + Len(data) = f[t + 1] + 0
  <2>1. s[r] + in + Len(data) = s[t + 1] + 0  BY <1>2 DEF FlowAt
  <2> HIDE DEF f
  <2> QED BY <2>1, <1>7, <1>13
<1>15. ASSUME NEW k \in 1 .. Len(data), NEW u \in 1 .. t + 1, NEW o \in 0 .. Size(c, q, u) - 1,
              f[u] + o + 1 = f[r] + in + k
       PROVE  data[k] = Item(c, q, u, o)
  <2>1. s[u] + o + 1 = s[r] + in + k
    <3> HIDE DEF f
    <3> QED BY <1>5, <1>13, <1>15
  <2>2. CASE u # t + 1
    <3>1. u \in 1 .. t  BY <2>2, <1>3
    <3> QED BY <3>1, <2>1, <1>2 DEF FlowAt
  <2>3. CASE u = t + 1
    <3> DEFINE a == s[r]
               l == Len(data)
    <3>1. e + o + 1 = a + in + k  BY <2>1, <2>3
    <3>2. a + in + l = e + 0  BY <1>2 DEF FlowAt
    <3>3. a \in Nat /\ l \in Nat /\ o \in Nat /\ k \in Nat /\ k <= l
      <4>1. l \in Nat  BY LenProperties
      <4>2. k \in Nat /\ k <= l  BY <4>1
      <4>3. o \in Nat
        <5>1. Size(c, q, u) \in Nat  BY <2>3, <1>4
        <5> QED BY <5>1
      <4> QED BY <4>1, <4>2, <4>3, <1>13
    <3> HIDE DEF e, a, l
    <3> QED BY <3>1, <3>2, <3>3, <1>7
  <2> QED BY <2>2, <2>3
<1>16. FlowAt(c, q, t + 1, t + 1, 0, r, in, data, f)
  <2> HIDE DEF f
  <2> QED BY <1>13, <1>14, <1>15 DEF FlowAt
<1> QED BY <1>12, <1>16 DEF Flow

-----------------------------------------------------------------------------
(* Typing of the small operators.                                          *)
LEMMA Basics ==
    ASSUME Shapes
    PROVE  /\ 1 \in Exchangers
           /\ conf.same => Exchangers = {1}
           /\ Exchangers \subseteq Nat \ {0} /\ Players \subseteq Nat
           /\ n_turns \in Nat /\ LENGTH_SIZE \in Nat /\ LENGTH_SIZE > 0
           /\ \A p \in Players : /\ turn[p] \in 1 .. n_turns /\ len(p) \in Nat
                                 /\ turn[p] \in Nat
                                 /\ cur[p] \in Exchangers /\ cur[p] \in Nat
           /\ \A p \in Players, t \in 1 .. n_turns : conf.len[t][p] \in Nat
<1>1. conf \in Confs  BY DEF Shapes
<1>2. /\ conf.n \in Nat /\ conf.n > 1 /\ Len(conf.len) \in Nat
      /\ \A t \in 1 .. Len(conf.len), p \in 0 .. conf.n - 1 : conf.len[t][p] \in Nat
  BY <1>1, ConfFacts
<1>3. conf.same => ~conf.broadcast  BY <1>1, ConfFacts
<1>4. 1 \in Exchangers /\ Exchangers \subseteq Nat \ {0} /\ Players \subseteq Nat
  BY <1>2 DEF Exchangers, Players
<1>5. conf.same => Exchangers = {1}  BY <1>3 DEF Exchangers
<1>6. n_turns \in Nat /\ \A p \in Players, t \in 1 .. n_turns : conf.len[t][p] \in Nat
  BY <1>2 DEF n_turns, Players
<1>7. \A p \in Players : turn[p] \in 1 .. n_turns /\ cur[p] \in Exchangers  BY DEF Shapes
<1>8. \A p \in Players : len(p) \in Nat /\ turn[p] \in Nat /\ cur[p] \in Nat
  BY <1>4, <1>6, <1>7 DEF len
<1> QED BY <1>4, <1>5, <1>6, <1>7, <1>8, ConfsOK

LEMMA MessageType ==
    ASSUME Shapes, NEW p \in Players, NEW t \in 1 .. n_turns
    PROVE  /\ Message(p, t) \in Seq(Things)
           /\ Len(Message(p, t)) = conf.len[t][p]
           /\ \A k \in 1 .. conf.len[t][p] : Message(p, t)[k] = Byte(p, t, k)
           /\ Header(p, t) \in Things
           /\ NewStream(p, t) \in Seq(Things)
           /\ conf.same => NewStream(p, t) = Message(p, t)
<1> DEFINE l == conf.len[t][p]
<1>1. l \in Nat /\ p \in Nat /\ t \in Nat  BY Basics
<1>2. \A k \in 1 .. l : Byte(p, t, k) \in Things
  <2> HIDE DEF l
  <2> QED BY <1>1 DEF Byte, Things
<1>3. Message(p, t) = [k \in 1 .. l |-> Byte(p, t, k)]  BY DEF Message
<1>4. Header(p, t) \in Things  BY <1>1 DEF Header, Things
<1>5. Message(p, t) \in Seq(Things) /\ Len(Message(p, t)) = l
  <2> HIDE DEF l
  <2> QED BY <1>1, <1>2, <1>3
<1>6. \A k \in 1 .. l : Message(p, t)[k] = Byte(p, t, k)
  BY <1>3
<1>7. <<>> \in Seq(Things)  OBVIOUS
<1> QED BY <1>4, <1>5, <1>6, <1>7 DEF NewStream

(* A step is one player's: it changes nothing that belongs to another.     *)
OnlyAt(p) ==
    /\ conf' = conf
    /\ pc' = [pc EXCEPT ![p] = pc'[p]]
    /\ turn' = [turn EXCEPT ![p] = turn'[p]]
    /\ cur' = [cur EXCEPT ![p] = cur'[p]]
    /\ left' = [left EXCEPT ![p] = left'[p]]
    /\ ex' = [ex EXCEPT ![p] = ex'[p]]
    /\ stream' = [stream EXCEPT ![p] = stream'[p]]
    /\ moved' = [moved EXCEPT ![p] = moved'[p]]
    /\ got' = [got EXCEPT ![p] = got'[p]]

(* A round ends and another one follows, at the next exchanger ...         *)
GoesOn(p, e, s, m) ==
    /\ pc'[p] = "send" /\ turn'[p] = turn[p] /\ got'[p] = got[p]
    /\ moved'[p] = m
    /\ ex'[p] = [ex[p] EXCEPT ![cur[p]] = e]
    /\ stream'[p] = [stream[p] EXCEPT ![cur[p]] = s]
    /\ cur'[p] = IF cur[p] + 1 \in Exchangers THEN cur[p] + 1 ELSE 1
    /\ left'[p] = (cur[p] + 1 \in Exchangers /\ (left[p] \/ More(e, len(p))))

(* ... or the exchange ends with it, and the next one begins or none does. *)
Ends(p, e, s) ==
    /\ cur[p] + 1 \notin Exchangers /\ ~left[p] /\ ~More(e, len(p))
    /\ cur'[p] = 1 /\ left'[p] = FALSE /\ moved'[p] = FALSE
    /\ ex'[p] = [j \in Exchangers |-> NewExchanger]
    /\ got'[p] = Append(got[p], [j \in Exchangers |->
         SubSeq([stream[p] EXCEPT ![cur[p]] = s][j], 1,
                IF j = cur[p] THEN e.new_len ELSE ex[p][j].new_len)])
EndsForNext(p) ==
    /\ turn[p] < n_turns /\ pc'[p] = "ctor" /\ turn'[p] = turn[p] + 1
    /\ stream'[p] = [j \in Exchangers |-> NewStream(p, turn[p] + 1)]
EndsAll(p, s) ==
    /\ ~(turn[p] < n_turns) /\ pc'[p] = "done" /\ turn'[p] = turn[p]
    /\ stream'[p] = [stream[p] EXCEPT ![cur[p]] = s]

LEMMA RoundEffect ==
    ASSUME Shapes, NEW p \in Players, NEW e \in Counters, NEW s \in Seq(Things),
           NEW m \in BOOLEAN, EndRound(p, e, s, m), conf' = conf
    PROVE  /\ OnlyAt(p)
           /\ \/ GoesOn(p, e, s, m)
              \/ Ends(p, e, s) /\ EndsForNext(p)
              \/ Ends(p, e, s) /\ EndsAll(p, s)
<1> DEFINE i == cur[p]
           any == left[p] \/ More(e, len(p))
<1>1. /\ pc = [r \in Players |-> pc[r]] /\ turn = [r \in Players |-> turn[r]]
      /\ cur = [r \in Players |-> cur[r]] /\ left = [r \in Players |-> left[r]]
      /\ ex = [r \in Players |-> ex[r]] /\ stream = [r \in Players |-> stream[r]]
      /\ moved = [r \in Players |-> moved[r]] /\ got = [r \in Players |-> got[r]]
  BY DEF Shapes
<1>2. CASE i + 1 \in Exchangers \/ any
  <2>1. /\ pc' = [pc EXCEPT ![p] = "send"]
        /\ cur' = [cur EXCEPT ![p] = IF i + 1 \in Exchangers THEN i + 1 ELSE 1]
        /\ left' = [left EXCEPT ![p] = i + 1 \in Exchangers /\ any]
        /\ ex' = [ex EXCEPT ![p] = [ex[p] EXCEPT ![i] = e]]
        /\ stream' = [stream EXCEPT ![p] = [stream[p] EXCEPT ![i] = s]]
        /\ moved' = [moved EXCEPT ![p] = m]
        /\ turn' = turn /\ got' = got
    BY <1>2, Zenon DEF EndRound
  <2> QED BY <1>1, <2>1, Zenon DEF OnlyAt, GoesOn
<1>3. CASE ~(i + 1 \in Exchangers \/ any)
  <2> DEFINE d == [j \in Exchangers |-> SubSeq([stream[p] EXCEPT ![i] = s][j], 1,
                             IF j = i THEN e.new_len ELSE ex[p][j].new_len)]
  <2>1. /\ got' = [got EXCEPT ![p] = Append(got[p], d)]
        /\ cur' = [cur EXCEPT ![p] = 1]
        /\ left' = [left EXCEPT ![p] = FALSE]
        /\ moved' = [moved EXCEPT ![p] = FALSE]
        /\ ex' = [ex EXCEPT ![p] = [j \in Exchangers |-> NewExchanger]]
    BY <1>3, Zenon DEF EndRound
  <2>2. CASE turn[p] < n_turns
    <3>1. /\ turn' = [turn EXCEPT ![p] = turn[p] + 1]
          /\ pc' = [pc EXCEPT ![p] = "ctor"]
          /\ stream' = [stream EXCEPT ![p] = [j \in Exchangers |-> NewStream(p, turn[p] + 1)]]
      BY <1>3, <2>2, Zenon DEF EndRound
    <3> QED BY <1>1, <1>3, <2>1, <2>2, <3>1, Zenon DEF OnlyAt, Ends, EndsForNext
  <2>3. CASE ~(turn[p] < n_turns)
    <3>1. /\ turn' = turn
          /\ pc' = [pc EXCEPT ![p] = "done"]
          /\ stream' = [stream EXCEPT ![p] = [stream[p] EXCEPT ![i] = s]]
      BY <1>3, <2>3, Zenon DEF EndRound
    <3> QED BY <1>1, <1>3, <2>1, <2>3, <3>1, Zenon DEF OnlyAt, Ends, EndsAll
  <2> QED BY <2>2, <2>3
<1> QED BY <1>2, <1>3

-----------------------------------------------------------------------------
(* The player's own state afterwards is well formed.                       *)
OwnShapes(p) ==
    /\ pc[p] \in Active \cup {"done", "gone", "failed"}
    /\ turn[p] \in 1 .. n_turns
    /\ cur[p] \in Exchangers
    /\ left[p] \in BOOLEAN
    /\ ex[p] \in [Exchangers -> Counters]
    /\ stream[p] \in [Exchangers -> Seq(Things)]
    /\ moved[p] \in BOOLEAN

LEMMA SameConf ==
    ASSUME conf' = conf
    PROVE  /\ Players' = Players /\ Exchangers' = Exchangers /\ n_turns' = n_turns
           /\ \A p, i : send_to(p, i)' = send_to(p, i)
           /\ \A p, i : receive_from(p, i)' = receive_from(p, i)
           /\ \A p, t : Message(p, t)' = Message(p, t)
BY DEF Players, Exchangers, n_turns, send_to, receive_from, offset, Message, Byte

LEMMA OthersSame ==
    ASSUME Shapes, NEW p \in Players, OnlyAt(p), NEW r \in Players, r # p
    PROVE  /\ pc'[r] = pc[r] /\ turn'[r] = turn[r] /\ cur'[r] = cur[r] /\ left'[r] = left[r]
           /\ ex'[r] = ex[r] /\ stream'[r] = stream[r] /\ moved'[r] = moved[r] /\ got'[r] = got[r]
BY DEF Shapes, OnlyAt

LEMMA ShapesStep ==
    ASSUME Shapes, NEW p \in Players, OnlyAt(p), OwnShapes(p)',
           chan' \in [Players \X Players -> Seq(Things)]
    PROVE  Shapes'
<1>1. conf' = conf  BY DEF OnlyAt
<1>2. Players' = Players /\ Exchangers' = Exchangers /\ n_turns' = n_turns  BY <1>1, SameConf
<1>3. conf' \in Confs  BY <1>1 DEF Shapes
<1>4. pc' \in [Players -> Active \cup {"done", "gone", "failed"}]
  BY DEF Shapes, OnlyAt, OwnShapes
<1>5. turn' \in [Players -> 1 .. n_turns] /\ cur' \in [Players -> Exchangers]
  BY <1>2 DEF Shapes, OnlyAt, OwnShapes
<1>6. left' \in [Players -> BOOLEAN] /\ moved' \in [Players -> BOOLEAN]
  BY Zenon DEF Shapes, OnlyAt, OwnShapes
<1>7. ex' \in [Players -> [Exchangers -> Counters]]
  BY <1>2 DEF Shapes, OnlyAt, OwnShapes
<1>8. stream' \in [Players -> [Exchangers -> Seq(Things)]]
  BY <1>2 DEF Shapes, OnlyAt, OwnShapes
<1>9. got' = [r \in Players |-> got'[r]]  BY DEF Shapes, OnlyAt
<1> QED BY <1>2, <1>3, <1>4, <1>5, <1>6, <1>7, <1>8, <1>9 DEF Shapes

LEMMA StreamsStep ==
    ASSUME StreamsInv, NEW p \in Players, OnlyAt(p), OwnShapes(p)',
           chan' \in [Players \X Players -> Seq(Things)],
           \A i \in Exchangers : Bounded(p, i)',
           conf.same => InPlace(p)'
    PROVE  StreamsInv'
<1>1. Shapes /\ Shapes'  BY ShapesStep DEF StreamsInv
<1>2. conf' = conf  BY DEF OnlyAt
<1>3. Players' = Players /\ Exchangers' = Exchangers  BY <1>2, SameConf
<1>4. ASSUME NEW r \in Players, NEW i \in Exchangers
      PROVE  Bounded(r, i)'
  <2>1. CASE r = p  BY <2>1
  <2>2. CASE r # p
    <3>1. Bounded(r, i)  BY DEF StreamsInv
    <3>2. ex'[r] = ex[r] /\ stream'[r] = stream[r] /\ turn'[r] = turn[r]
      BY <1>1, <2>2, OthersSame
    <3> QED BY <3>1, <3>2, <1>2 DEF Bounded, len
  <2> QED BY <2>1, <2>2
<1>5. ASSUME conf.same, NEW r \in Players
      PROVE  InPlace(r)'
  <2>1. CASE r = p  BY <2>1, <1>5
  <2>2. CASE r # p
    <3>1. InPlace(r)  BY <1>5 DEF StreamsInv
    <3>2. ex'[r] = ex[r] /\ stream'[r] = stream[r] /\ turn'[r] = turn[r] /\ pc'[r] = pc[r]
      BY <1>1, <2>2, OthersSame
    <3> QED BY <3>1, <3>2, <1>2 DEF InPlace, len, Byte
  <2> QED BY <2>1, <2>2
<1> QED BY <1>1, <1>2, <1>3, <1>4, <1>5 DEF StreamsInv

(* Initially, and when a player stops.                                     *)
LEMMA StreamsInit == Init => StreamsInv
<1> SUFFICES ASSUME Init PROVE StreamsInv  OBVIOUS
<1> USE DEF Init
<1>1. conf \in Confs  OBVIOUS
<1>2. 1 \in Exchangers /\ (conf.same => Exchangers = {1})
  <2>1. conf.n \in Nat /\ conf.n > 1 /\ (conf.same => ~conf.broadcast)  BY <1>1, ConfFacts
  <2> QED BY <2>1 DEF Exchangers
<1>3. n_turns \in Nat /\ 1 \in 1 .. n_turns  BY <1>1, ConfFacts DEF n_turns
<1>4. NewExchanger \in Counters  BY DEF NewExchanger, Counters
<1> DEFINE l(p) == conf.len[1][p]
<1>5. ASSUME NEW p \in Players
      PROVE  /\ l(p) \in Nat /\ p \in Nat
             /\ NewStream(p, 1) \in Seq(Things)
             /\ conf.same => NewStream(p, 1) = Message(p, 1)
             /\ Len(Message(p, 1)) = l(p)
             /\ \A k \in 1 .. l(p) : Message(p, 1)[k] = Byte(p, 1, k)
  <2>1. l(p) \in Nat /\ p \in Nat  BY <1>1, <1>3, ConfFacts DEF n_turns, Players
  <2>2. \A k \in 1 .. l(p) : Byte(p, 1, k) \in Things
    <3> HIDE DEF l
    <3> QED BY <2>1 DEF Byte, Things
  <2>3. Message(p, 1) = [k \in 1 .. l(p) |-> Byte(p, 1, k)]  BY DEF Message
  <2>4. Message(p, 1) \in Seq(Things) /\ Len(Message(p, 1)) = l(p)
    <3> HIDE DEF l
    <3> QED BY <2>1, <2>2, <2>3
  <2>5. \A k \in 1 .. l(p) : Message(p, 1)[k] = Byte(p, 1, k)  BY <2>3
  <2>6. <<>> \in Seq(Things)  OBVIOUS
  <2> QED BY <2>1, <2>4, <2>5, <2>6 DEF NewStream
<1>6. Shapes
  <2>1. chan \in [Players \X Players -> Seq(Things)]  OBVIOUS
  <2>2. stream \in [Players -> [Exchangers -> Seq(Things)]]  BY <1>5
  <2>3. ex \in [Players -> [Exchangers -> Counters]]  BY <1>4
  <2>4. left \in [Players -> BOOLEAN] /\ moved \in [Players -> BOOLEAN]  OBVIOUS
  <2>5. turn \in [Players -> 1 .. n_turns] /\ cur \in [Players -> Exchangers]  BY <1>2, <1>3
  <2>6. pc \in [Players -> Active \cup {"done", "gone", "failed"}]  BY DEF Active
  <2>7. got = [p \in Players |-> got[p]]  OBVIOUS
  <2> HIDE DEF Init
  <2> QED BY <1>1, <2>1, <2>2, <2>3, <2>4, <2>5, <2>6, <2>7 DEF Shapes
<1>7. ASSUME NEW p \in Players, NEW i \in Exchangers
      PROVE  Bounded(p, i)
  <2>1. ex[p][i].sent = 0 /\ ex[p][i].received = 0 /\ stream[p][i] = NewStream(p, 1) /\ turn[p] = 1
    BY <1>7 DEF NewExchanger
  <2>2. Len(NewStream(p, 1)) \in Nat  BY <1>5, <1>7, LenProperties
  <2>3. l(p) \in Nat  BY <1>5, <1>7
  <2> HIDE DEF Init
  <2> QED BY <2>1, <2>2, <2>3 DEF Bounded, len
<1>8. ASSUME conf.same, NEW p \in Players
      PROVE  InPlace(p)
  <2>1. ex[p][1].sent = 0 /\ ex[p][1].received = 0 /\ stream[p][1] = NewStream(p, 1) /\ turn[p] = 1
    BY <1>2, <1>8 DEF NewExchanger
  <2>2. /\ l(p) \in Nat /\ Len(stream[p][1]) = l(p)
        /\ \A k \in 1 .. l(p) : stream[p][1][k] = Byte(p, 1, k)
    <3>1. stream[p][1] = Message(p, 1)  BY <2>1, <1>5, <1>8
    <3>2. /\ l(p) \in Nat /\ Len(Message(p, 1)) = l(p)
          /\ \A k \in 1 .. l(p) : Message(p, 1)[k] = Byte(p, 1, k)
      <4> HIDE DEF l, Init
      <4> QED BY <1>5, <1>8
    <3> HIDE DEF l, Init
    <3> QED BY <3>1, <3>2
  <2>3. len(p) = l(p)  BY <2>1 DEF len
  <2> HIDE DEF l, Init
  <2> QED BY <2>1, <2>2, <2>3 DEF InPlace
<1> HIDE DEF Init
<1> QED BY <1>6, <1>7, <1>8 DEF StreamsInv

LEMMA StopStep ==
    ASSUME StreamsInv, NEW p \in Players,
           Fail(p) \/ Leave(p)
    PROVE  OnlyAt(p) /\ OwnShapes(p)' /\ pc'[p] \in {"gone", "failed"} /\ chan' = chan /\ StreamsInv'
<1>1. Shapes  BY DEF StreamsInv
<1>2. PICK x \in {"gone", "failed"} : pc' = [pc EXCEPT ![p] = x]
  BY DEF Fail, Leave
<1>3. /\ conf' = conf /\ chan' = chan /\ turn' = turn /\ cur' = cur /\ left' = left /\ ex' = ex
      /\ stream' = stream /\ moved' = moved /\ got' = got
  BY DEF Fail, Leave
<1>4. pc'[p] = x  BY <1>1, <1>2 DEF Shapes
<1>5. OnlyAt(p)
  <2>1. pc' = [pc EXCEPT ![p] = pc'[p]]  BY <1>2, <1>4
  <2> QED BY <1>1, <1>3, <2>1 DEF OnlyAt, Shapes
<1>6. Exchangers' = Exchangers /\ n_turns' = n_turns  BY <1>3, SameConf
<1>7. OwnShapes(p)'
  <2>1. pc'[p] \in Active \cup {"done", "gone", "failed"}  BY <1>2, <1>4
  <2>2. left[p] \in BOOLEAN /\ moved[p] \in BOOLEAN  BY <1>1, Zenon DEF Shapes
  <2>3. /\ turn[p] \in 1 .. n_turns /\ cur[p] \in Exchangers /\ ex[p] \in [Exchangers -> Counters]
        /\ stream[p] \in [Exchangers -> Seq(Things)]
    BY <1>1 DEF Shapes
  <2> QED BY <1>3, <1>6, <2>1, <2>2, <2>3 DEF OwnShapes
<1>8. \A i \in Exchangers : Bounded(p, i)'
  BY <1>3 DEF StreamsInv, Bounded, len
<1>9. InPlace(p)'
  <2>1. pc'[p] \notin Active  BY <1>2, <1>4 DEF Active
  <2> QED BY <2>1 DEF InPlace
<1>10. chan' \in [Players \X Players -> Seq(Things)]  BY <1>1, <1>3 DEF Shapes
<1> QED BY <1>2, <1>3, <1>4, <1>5, <1>7, <1>8, <1>9, <1>10, StreamsStep

(* The constructor: a byte of the length.                                  *)
LEMMA ConstructStep ==
    ASSUME StreamsInv, NEW p \in Players, Construct(p)
    PROVE  LET i == cur[p]
               q == send_to(p, i)
               e == ex[p][i] IN
           /\ OnlyAt(p) /\ StreamsInv'
           /\ pc[p] = "ctor"
           /\ chan' = [chan EXCEPT ![<<p, q>>] = Append(chan[<<p, q>>], Header(p, turn[p]))]
           /\ ex'[p] = [ex[p] EXCEPT ![i] = [e EXCEPT !.header = e.header + 1]]
           /\ \/ e.header + 1 < LENGTH_SIZE /\ pc'[p] = "ctor" /\ cur'[p] = i
              \/ /\ ~(e.header + 1 < LENGTH_SIZE) /\ i + 1 \in Exchangers
                 /\ pc'[p] = "ctor" /\ cur'[p] = i + 1
              \/ /\ ~(e.header + 1 < LENGTH_SIZE) /\ i + 1 \notin Exchangers
                 /\ pc'[p] = "send" /\ cur'[p] = 1
           /\ turn' = turn /\ left' = left /\ stream' = stream /\ moved' = moved /\ got' = got
<1> DEFINE i == cur[p]
           q == send_to(p, i)
           e == ex[p][i]
           x == [e EXCEPT !.header = e.header + 1]
<1>1. Shapes  BY DEF StreamsInv
<1>2. i \in Exchangers /\ 1 \in Exchangers /\ (conf.same => Exchangers = {1})  BY <1>1, Basics
<1>3. /\ conf' = conf /\ turn' = turn /\ left' = left /\ stream' = stream /\ moved' = moved
      /\ got' = got /\ pc[p] = "ctor"
  BY DEF Construct
<1>4. chan' = [chan EXCEPT ![<<p, q>>] = Append(chan[<<p, q>>], Header(p, turn[p]))]
  BY DEF Construct
<1>5. ex[p] \in [Exchangers -> Counters] /\ e \in Counters  BY <1>1, <1>2 DEF Shapes
<1>6. x \in Counters /\ x.sent = e.sent /\ x.received = e.received  BY <1>5 DEF Counters
<1>7. ex' = [ex EXCEPT ![p] = [ex[p] EXCEPT ![i] = x]]
  BY Zenon DEF Construct
<1>8. ex'[p] = [ex[p] EXCEPT ![i] = x]  BY <1>1, <1>7 DEF Shapes
<1>9. /\ pc' = [pc EXCEPT ![p] = pc'[p]] /\ cur' = [cur EXCEPT ![p] = cur'[p]]
      /\ \/ e.header + 1 < LENGTH_SIZE /\ pc'[p] = "ctor" /\ cur'[p] = i
         \/ /\ ~(e.header + 1 < LENGTH_SIZE) /\ i + 1 \in Exchangers
            /\ pc'[p] = "ctor" /\ cur'[p] = i + 1
         \/ /\ ~(e.header + 1 < LENGTH_SIZE) /\ i + 1 \notin Exchangers
            /\ pc'[p] = "send" /\ cur'[p] = 1
  <2>1. pc = [r \in Players |-> pc[r]] /\ cur = [r \in Players |-> cur[r]]  BY <1>1 DEF Shapes
  <2>2. CASE e.header + 1 < LENGTH_SIZE
    <3>1. pc' = pc /\ cur' = cur  BY <2>2 DEF Construct
    <3> QED BY <1>3, <2>1, <2>2, <3>1, Zenon
  <2>3. CASE ~(e.header + 1 < LENGTH_SIZE) /\ i + 1 \in Exchangers
    <3>1. pc' = pc /\ cur' = [cur EXCEPT ![p] = i + 1]  BY <2>3 DEF Construct
    <3> QED BY <1>3, <2>1, <2>3, <3>1, Zenon
  <2>4. CASE ~(e.header + 1 < LENGTH_SIZE) /\ i + 1 \notin Exchangers
    <3>1. pc' = [pc EXCEPT ![p] = "send"] /\ cur' = [cur EXCEPT ![p] = 1]  BY <2>4 DEF Construct
    <3> QED BY <1>3, <2>1, <2>4, <3>1, Zenon
  <2> QED BY <2>2, <2>3, <2>4
<1>10. OnlyAt(p)
  <2>1. ex' = [ex EXCEPT ![p] = ex'[p]]  BY <1>7, <1>8
  <2>2. /\ turn' = [turn EXCEPT ![p] = turn'[p]] /\ left' = [left EXCEPT ![p] = left'[p]]
        /\ stream' = [stream EXCEPT ![p] = stream'[p]] /\ moved' = [moved EXCEPT ![p] = moved'[p]]
        /\ got' = [got EXCEPT ![p] = got'[p]]
    BY <1>1, <1>3 DEF Shapes
  <2> QED BY <1>3, <1>9, <2>1, <2>2 DEF OnlyAt
<1>11. Exchangers' = Exchangers /\ n_turns' = n_turns  BY <1>3, SameConf
<1>12. OwnShapes(p)'
  <2>1. pc'[p] \in Active \cup {"done", "gone", "failed"} /\ cur'[p] \in Exchangers
    BY <1>2, <1>9 DEF Active
  <2>2. left[p] \in BOOLEAN /\ moved[p] \in BOOLEAN  BY <1>1, Zenon DEF Shapes
  <2>3. turn[p] \in 1 .. n_turns /\ stream[p] \in [Exchangers -> Seq(Things)]  BY <1>1 DEF Shapes
  <2>4. ex'[p] \in [Exchangers -> Counters]
    <3> HIDE DEF x
    <3> QED BY <1>5, <1>6, <1>8
  <2> QED BY <1>3, <1>11, <2>1, <2>2, <2>3, <2>4 DEF OwnShapes
<1>13. \A j \in Exchangers : ex'[p][j].sent = ex[p][j].sent /\ ex'[p][j].received = ex[p][j].received
  <2> TAKE j \in Exchangers
  <2>1. ex'[p][j] = IF j = i THEN x ELSE ex[p][j]
    <3> HIDE DEF x
    <3> QED BY <1>5, <1>8
  <2>2. CASE j = i  BY <2>1, <2>2, <1>6
  <2>3. CASE j # i  BY <2>1, <2>3
  <2> QED BY <2>2, <2>3
<1>14. ASSUME NEW j \in Exchangers PROVE Bounded(p, j)'
  <2>1. Bounded(p, j)  BY DEF StreamsInv
  <2> QED BY <2>1, <1>3, <1>13 DEF Bounded, len
<1>15. ASSUME conf.same PROVE InPlace(p)'
  <2>1. InPlace(p)  BY <1>15 DEF StreamsInv
  <2>2. pc[p] \in Active  BY <1>3 DEF Active
  <2>3. ex'[p][1].sent = ex[p][1].sent /\ ex'[p][1].received = ex[p][1].received
    BY <1>2, <1>13
  <2> QED BY <2>1, <2>2, <2>3, <1>3 DEF InPlace, len, Byte
<1>16. chan' \in [Players \X Players -> Seq(Things)]
  <2>1. Header(p, turn[p]) \in Things  BY <1>1, Basics, MessageType
  <2>2. q \in Players  BY <1>1, <1>2, Peers DEF Shapes
  <2>3. chan[<<p, q>>] \in Seq(Things)  BY <1>1, <2>2 DEF Shapes
  <2>4. Append(chan[<<p, q>>], Header(p, turn[p])) \in Seq(Things)  BY <2>1, <2>3, AppendProperties
  <2> HIDE DEF q
  <2> QED BY <1>1, <1>4, <2>4 DEF Shapes
<1>17. StreamsInv'  BY <1>10, <1>12, <1>14, <1>15, <1>16, StreamsStep
<1> QED BY <1>3, <1>4, <1>8, <1>9, <1>10, <1>17

(* Sending: a part of what is still to be sent.                            *)
LEMMA SendStep ==
    ASSUME StreamsInv, NEW p \in Players, Send(p)
    PROVE  LET i == cur[p]
               q == send_to(p, i)
               e == ex[p][i] IN
           /\ OnlyAt(p) /\ StreamsInv'
           /\ pc[p] = "send" /\ pc'[p] = "recv"
           /\ \/ chan' = chan /\ ex' = ex
              \/ \E l \in 0 .. len(p) - e.sent, d \in Data(p) :
                   /\ e.sent < len(p)
                   /\ d \in Seq(Things) /\ len(p) <= Len(d)
                   /\ chan' = [chan EXCEPT ![<<p, q>>] =
                                 chan[<<p, q>>] \o SubSeq(d, e.sent + 1, e.sent + l)]
                   /\ ex'[p] = [ex[p] EXCEPT ![i] = [e EXCEPT !.sent = e.sent + l]]
           /\ turn' = turn /\ cur' = cur /\ left' = left /\ stream' = stream
           /\ moved' = moved /\ got' = got
<1> DEFINE i == cur[p]
           q == send_to(p, i)
           e == ex[p][i]
<1>1. Shapes  BY DEF StreamsInv
<1>2. i \in Exchangers /\ 1 \in Exchangers /\ (conf.same => Exchangers = {1}) /\ len(p) \in Nat
  BY <1>1, Basics
<1>3. /\ conf' = conf /\ turn' = turn /\ cur' = cur /\ left' = left /\ stream' = stream
      /\ moved' = moved /\ got' = got /\ pc[p] = "send" /\ pc' = [pc EXCEPT ![p] = "recv"]
  BY DEF Send
<1>4. pc'[p] = "recv" /\ pc' = [pc EXCEPT ![p] = pc'[p]]  BY <1>1, <1>3 DEF Shapes
<1>5. ex[p] \in [Exchangers -> Counters] /\ e \in Counters  BY <1>1, <1>2 DEF Shapes
<1>6. e.sent \in Nat /\ e.sent <= len(p)  BY <1>2, <1>5 DEF Counters, StreamsInv, Bounded
<1>7. q \in Players  BY <1>1, <1>2, Peers DEF Shapes
<1>8. ASSUME NEW d \in Data(p), e.sent < len(p)
      PROVE  d \in Seq(Things) /\ len(p) <= Len(d)
  <2> DEFINE s == IF conf.same THEN stream[p][1] ELSE Message(p, turn[p])
  <2>1. s \in Seq(Things) /\ len(p) <= Len(s)
    <3>1. CASE conf.same
      <4>1. InPlace(p) /\ pc[p] \in Active  BY <3>1, <1>3 DEF StreamsInv, Active
      <4>2. stream[p][1] \in Seq(Things)  BY <1>1, <1>2 DEF Shapes
      <4> QED BY <4>1, <4>2, <3>1 DEF InPlace
    <3>2. CASE ~conf.same
      <4>1. turn[p] \in 1 .. n_turns  BY <1>1, Basics
      <4>2. Message(p, turn[p]) \in Seq(Things) /\ Len(Message(p, turn[p])) = len(p)
        BY <1>1, <4>1, MessageType DEF len
      <4> QED BY <4>2, <3>2, <1>2
    <3> QED BY <3>1, <3>2
  <2>2. d = s \/ d = [k \in DOMAIN s |-> Junk(p, turn[p])]
    BY <1>8 DEF Data
  <2>3. CASE d = s  BY <2>1, <2>3
  <2>4. CASE d = [k \in DOMAIN s |-> Junk(p, turn[p])]
    <3>1. Junk(p, turn[p]) \in Things
      <4>1. p \in Nat /\ turn[p] \in Nat  BY <1>1, Basics
      <4> QED BY <4>1 DEF Junk, Things
    <3> HIDE DEF s
    <3>2. DOMAIN s = 1 .. Len(s) /\ Len(s) \in Nat  BY <2>1, LenProperties
    <3> QED BY <2>1, <2>4, <3>1, <3>2
  <2> QED BY <2>2, <2>3, <2>4
<1>9. CASE ~(e.sent < len(p))
  <2>1. chan' = chan /\ ex' = ex  BY <1>9 DEF Send
  <2>2. OnlyAt(p)  BY <1>1, <1>3, <1>4, <2>1 DEF OnlyAt, Shapes
  <2>3. Exchangers' = Exchangers /\ n_turns' = n_turns  BY <1>3, SameConf
  <2>4. OwnShapes(p)'
    <3>1. left[p] \in BOOLEAN /\ moved[p] \in BOOLEAN  BY <1>1, Zenon DEF Shapes
    <3>2. turn[p] \in 1 .. n_turns /\ stream[p] \in [Exchangers -> Seq(Things)]  BY <1>1 DEF Shapes
    <3> QED BY <1>2, <1>3, <1>4, <1>5, <2>1, <2>3, <3>1, <3>2 DEF OwnShapes, Active
  <2>5. ASSUME NEW j \in Exchangers PROVE Bounded(p, j)'
    BY <1>3, <2>1 DEF StreamsInv, Bounded, len
  <2>6. ASSUME conf.same PROVE InPlace(p)'
    BY <1>3, <1>4, <2>1, <2>6 DEF StreamsInv, InPlace, len, Byte, Active
  <2>7. chan' \in [Players \X Players -> Seq(Things)]  BY <1>1, <2>1 DEF Shapes
  <2>8. StreamsInv'  BY <2>2, <2>4, <2>5, <2>6, <2>7, StreamsStep
  <2> QED BY <1>3, <1>4, <2>1, <2>2, <2>8
<1>10. CASE e.sent < len(p)
  <2>1. PICK l \in written(p, q, len(p) - e.sent), d \in Data(p) :
          /\ chan' = [chan EXCEPT ![<<p, q>>] =
                        chan[<<p, q>>] \o SubSeq(d, e.sent + 1, e.sent + l)]
          /\ ex' = [ex EXCEPT ![p] = [ex[p] EXCEPT ![i] = [e EXCEPT !.sent = e.sent + l]]]
    BY <1>10, Zenon DEF Send
  <2>2. l \in 0 .. len(p) - e.sent
    <3> DEFINE a == len(p) - e.sent
               b == room(p, q)
    <3>1. a \in Nat /\ a \in Int  BY <1>2, <1>6
    <3>2. b \in Int
      <4>1. chan[<<p, q>>] \in Seq(Things)  BY <1>1, <1>7 DEF Shapes
      <4>2. Len(chan[<<p, q>>]) \in Nat  BY <4>1, LenProperties
      <4> QED BY <4>2, ConfsOK DEF room
    <3>3. \/ l \in 1 .. Min({a, b, Record})
          \/ l = 0
          \/ l \in 1 .. Min({a, b})
      BY <2>1 DEF written
    <3>4. Record \in Int  BY ConfsOK
    <3> HIDE DEF a, b
    <3>5. l \in 0 .. a
      <4>1. CASE l \in 1 .. Min({a, b, Record})
        <5>1. Min({a, b, Record}) \in Int /\ Min({a, b, Record}) <= a  BY <3>1, <3>2, <3>4, MinOfThree, Zenon
        <5> QED BY <4>1, <5>1, <3>1
      <4>2. CASE l \in 1 .. Min({a, b})
        <5>1. Min({a, b}) \in Int /\ Min({a, b}) <= a  BY <3>1, <3>2, MinOfTwo, Zenon
        <5> QED BY <4>2, <5>1, <3>1
      <4>3. CASE l = 0  BY <4>3, <3>1
      <4> QED BY <3>3, <4>1, <4>2, <4>3
    <3> QED BY <3>5 DEF a
  <2> DEFINE x == [e EXCEPT !.sent = e.sent + l]
  <2>3. l \in Nat /\ e.sent + l \in Nat /\ e.sent + l <= len(p)  BY <2>2, <1>2, <1>6
  <2>4. x \in Counters /\ x.sent = e.sent + l /\ x.received = e.received  BY <1>5, <2>3 DEF Counters
  <2>5. d \in Seq(Things) /\ len(p) <= Len(d)  BY <1>8, <1>10
  <2>6. ex'[p] = [ex[p] EXCEPT ![i] = x] /\ ex' = [ex EXCEPT ![p] = ex'[p]]
    <3> HIDE DEF x
    <3>1. ex' = [ex EXCEPT ![p] = [ex[p] EXCEPT ![i] = x]]  BY <2>1 DEF x
    <3>2. ex'[p] = [ex[p] EXCEPT ![i] = x]  BY <1>1, <3>1 DEF Shapes
    <3> QED BY <3>1, <3>2
  <2>7. OnlyAt(p)
    <3>1. /\ turn' = [turn EXCEPT ![p] = turn'[p]] /\ left' = [left EXCEPT ![p] = left'[p]]
          /\ stream' = [stream EXCEPT ![p] = stream'[p]] /\ moved' = [moved EXCEPT ![p] = moved'[p]]
          /\ got' = [got EXCEPT ![p] = got'[p]] /\ cur' = [cur EXCEPT ![p] = cur'[p]]
      BY <1>1, <1>3 DEF Shapes
    <3> QED BY <1>3, <1>4, <2>6, <3>1 DEF OnlyAt
  <2>8. Exchangers' = Exchangers /\ n_turns' = n_turns  BY <1>3, SameConf
  <2>9. OwnShapes(p)'
    <3>1. left[p] \in BOOLEAN /\ moved[p] \in BOOLEAN  BY <1>1, Zenon DEF Shapes
    <3>2. turn[p] \in 1 .. n_turns /\ stream[p] \in [Exchangers -> Seq(Things)]  BY <1>1 DEF Shapes
    <3>3. ex'[p] \in [Exchangers -> Counters]
      <4> HIDE DEF x
      <4> QED BY <1>5, <2>4, <2>6
    <3> QED BY <1>2, <1>3, <1>4, <2>8, <3>1, <3>2, <3>3 DEF OwnShapes, Active
  <2>10. \A j \in Exchangers : ex'[p][j] = IF j = i THEN x ELSE ex[p][j]
    <3> HIDE DEF x
    <3> QED BY <1>5, <2>6
  <2>11. ASSUME NEW j \in Exchangers PROVE Bounded(p, j)'
    <3>1. Bounded(p, j)  BY DEF StreamsInv
    <3>2. len(p)' = len(p)  BY <1>3 DEF len
    <3>3. CASE j = i
      <4>1. ex'[p][j].sent = e.sent + l /\ ex'[p][j].received = ex[p][j].received
        BY <3>3, <2>4, <2>10
      <4> QED BY <4>1, <3>1, <3>2, <2>3, <1>3 DEF Bounded
    <3>4. CASE j # i
      <4>1. ex'[p][j] = ex[p][j]  BY <3>4, <2>10
      <4> QED BY <4>1, <3>1, <3>2, <1>3 DEF Bounded
    <3> QED BY <3>3, <3>4
  <2>12. ASSUME conf.same PROVE InPlace(p)'
    <3>1. InPlace(p) /\ pc[p] \in Active  BY <2>12, <1>3 DEF StreamsInv, Active
    <3>2. i = 1  BY <2>12, <1>2
    <3>3. ex'[p][1].sent = e.sent + l /\ ex'[p][1].received = e.received
      <4>1. ex'[p][1] = x  BY <3>2, <2>10, <1>2
      <4> QED BY <4>1, <2>4
    <3>4. e.received <= e.sent /\ e.received \in Nat
      BY <3>1, <3>2, <1>5, <1>10 DEF InPlace, Counters
    <3>5. \A k \in e.sent + 1 .. len(p) : stream[p][1][k] = Byte(p, turn[p], k)
      BY <3>1, <3>2 DEF InPlace
    <3>6. len(p) <= Len(stream[p][1])  BY <3>1 DEF InPlace
    <3>7. len(p)' = len(p)  BY <1>3 DEF len
    <3>8. \A k \in e.sent + l + 1 .. len(p) : stream[p][1][k] = Byte(p, turn[p], k)
      <4> TAKE k \in e.sent + l + 1 .. len(p)
      <4>1. k \in e.sent + 1 .. len(p)  BY <2>3, <1>2, <1>6
      <4> QED BY <4>1, <3>5
    <3>9. e.received <= e.sent + l  BY <3>4, <2>3, <1>6
    <3> QED BY <3>3, <3>6, <3>7, <3>8, <3>9, <1>3 DEF InPlace, Byte
  <2>13. chan' \in [Players \X Players -> Seq(Things)]
    <3>1. SubSeq(d, e.sent + 1, e.sent + l) \in Seq(Things)
      <4>1. Len(d) \in Nat  BY <2>5, LenProperties
      <4> DEFINE y == e.sent
                 z == len(p)
      <4>2. y \in Nat /\ y + l \in Nat /\ y + l <= z /\ z <= Len(d) /\ z \in Nat
        BY <2>3, <2>5, <1>2, <1>6
      <4> HIDE DEF y, z
      <4>3. SubSeq(d, y + 1, y + l) \in Seq(Things)
        <5>1. \A k \in y + 1 .. y + l : k \in 1 .. Len(d)  BY <4>1, <4>2
        <5> QED BY <2>5, <4>1, <4>2, <5>1, SubSeqProperties
      <4> QED BY <4>3 DEF y
    <3>2. chan[<<p, q>>] \in Seq(Things)  BY <1>1, <1>7 DEF Shapes
    <3>3. chan[<<p, q>>] \o SubSeq(d, e.sent + 1, e.sent + l) \in Seq(Things)
      BY <3>1, <3>2, ConcatProperties
    <3> HIDE DEF q, e
    <3> QED BY <1>1, <2>1, <3>3 DEF Shapes
  <2>14. StreamsInv'  BY <2>7, <2>9, <2>11, <2>12, <2>13, StreamsStep
  <2>15. chan' = [chan EXCEPT ![<<p, q>>] =
                    chan[<<p, q>>] \o SubSeq(d, e.sent + 1, e.sent + l)]
    BY <2>1
  <2> QED BY <1>3, <1>4, <1>10, <2>2, <2>5, <2>6, <2>7, <2>14, <2>15
<1> QED BY <1>9, <1>10

-----------------------------------------------------------------------------
(* What has been written to a stream, and what was there before.           *)
LEMMA WrittenFacts ==
    ASSUME NEW s \in Seq(Things), NEW a \in Nat, NEW b \in Seq(Things), a <= Len(s)
    PROVE  /\ Written(s, a, b) \in Seq(Things)
           /\ Len(s) <= Len(Written(s, a, b)) /\ a + Len(b) <= Len(Written(s, a, b))
           /\ \A k \in 1 .. Len(b) : Written(s, a, b)[a + k] = b[k]
           /\ \A k \in 1 .. Len(s) : k <= a \/ k > a + Len(b) => Written(s, a, b)[k] = s[k]
<1> DEFINE m == Len(s)
           l == Len(b)
           z == Max({m, a + l})
           f == [k \in 1 .. z |-> IF k \in a + 1 .. a + l THEN b[k - a] ELSE s[k]]
<1>1. m \in Nat /\ l \in Nat /\ a <= m  BY LenProperties
<1>2. z = IF m <= a + l THEN a + l ELSE m
  <2> HIDE DEF m, l
  <2>1. m \in Int /\ a + l \in Int  BY <1>1
  <2> QED BY <2>1, MaxOfTwo
<1>3. z \in Nat /\ m <= z /\ a + l <= z
  <2> HIDE DEF m, l, z
  <2> QED BY <1>1, <1>2
<1>4. Written(s, a, b) = f  BY DEF Written
<1>5. \A k \in 1 .. l : b[k] \in Things  BY ElementOfSeq
<1>6. \A k \in 1 .. m : s[k] \in Things  BY ElementOfSeq
<1>7. \A k \in 1 .. z : (IF k \in a + 1 .. a + l THEN b[k - a] ELSE s[k]) \in Things
  <2> TAKE k \in 1 .. z
  <2>1. CASE k \in a + 1 .. a + l
    <3>1. k - a \in 1 .. l
      <4> HIDE DEF m, l, z
      <4> QED BY <2>1, <1>1
    <3> QED BY <2>1, <3>1, <1>5
  <2>2. CASE k \notin a + 1 .. a + l
    <3>1. k \in 1 .. m
      <4> HIDE DEF m, l
      <4> QED BY <2>2, <1>1, <1>2
    <3> QED BY <2>2, <3>1, <1>6
  <2> QED BY <2>1, <2>2
<1>8. f \in Seq(Things) /\ Len(f) = z
  <2> HIDE DEF z, l
  <2> QED BY <1>3, <1>7
<1>9. \A k \in 1 .. l : f[a + k] = b[k]
  <2> TAKE k \in 1 .. l
  <2>1. a + k \in a + 1 .. a + l /\ a + k \in 1 .. z /\ (a + k) - a = k
    <3> HIDE DEF m, l, z
    <3> QED BY <1>1, <1>3
  <2> HIDE DEF z, l
  <2> QED BY <2>1
<1>10. \A k \in 1 .. m : k <= a \/ k > a + l => f[k] = s[k]
  <2> SUFFICES ASSUME NEW k \in 1 .. m, k <= a \/ k > a + l
               PROVE  f[k] = s[k]
    OBVIOUS
  <2>1. k \in 1 .. z /\ k \notin a + 1 .. a + l
    <3> HIDE DEF m, l, z
    <3> QED BY <1>1, <1>3
  <2> HIDE DEF z, l
  <2> QED BY <2>1
<1> HIDE DEF f
<1> QED BY <1>3, <1>4, <1>8, <1>9, <1>10

(* The end of a round keeps the streams in order if the round did.         *)
LEMMA RoundStep ==
    ASSUME StreamsInv, NEW p \in Players, conf' = conf,
           NEW e \in Counters, NEW s \in Seq(Things), NEW m \in BOOLEAN, EndRound(p, e, s, m),
           chan' \in [Players \X Players -> Seq(Things)],
           e.sent <= len(p), e.received <= Len(s),
           conf.same => /\ len(p) <= Len(s)
                        /\ e.sent < len(p) => e.received <= e.sent
                        /\ \A k \in e.sent + 1 .. len(p) : s[k] = Byte(p, turn[p], k)
    PROVE  OnlyAt(p) /\ StreamsInv'
<1> DEFINE i == cur[p]
<1>1. Shapes  BY DEF StreamsInv
<1>2. /\ i \in Exchangers /\ 1 \in Exchangers /\ (conf.same => Exchangers = {1})
      /\ turn[p] \in 1 .. n_turns /\ n_turns \in Nat
  BY <1>1, Basics
<1>3. OnlyAt(p)  BY <1>1, RoundEffect, Zenon
<1>4. Exchangers' = Exchangers /\ n_turns' = n_turns /\ Players' = Players  BY SameConf
<1>5. ex[p] \in [Exchangers -> Counters] /\ stream[p] \in [Exchangers -> Seq(Things)]
  BY <1>1 DEF Shapes
<1>6. left[p] \in BOOLEAN /\ More(e, len(p)) \in BOOLEAN  BY <1>1, Zenon DEF Shapes, More
<1>7. NewExchanger \in Counters  BY DEF NewExchanger, Counters
<1>8. ASSUME ex'[p] = [ex[p] EXCEPT ![i] = e], stream'[p] = [stream[p] EXCEPT ![i] = s],
             turn'[p] = turn[p], NEW j \in Exchangers
      PROVE  /\ Bounded(p, j)'
             /\ ex'[p] \in [Exchangers -> Counters] /\ stream'[p] \in [Exchangers -> Seq(Things)]
  <2>1. len(p)' = len(p)  BY <1>8 DEF len
  <2>2. CASE j = i
    <3>1. ex'[p][j] = e /\ stream'[p][j] = s  BY <2>2, <1>2, <1>5, <1>8
    <3> QED BY <2>1, <3>1, <1>5, <1>8 DEF Bounded
  <2>3. CASE j # i
    <3>1. ex'[p][j] = ex[p][j] /\ stream'[p][j] = stream[p][j]  BY <2>3, <1>5, <1>8
    <3>2. Bounded(p, j)  BY <1>8 DEF StreamsInv
    <3> QED BY <2>1, <3>1, <3>2, <1>5, <1>8 DEF Bounded
  <2> QED BY <2>2, <2>3
<1>9. CASE GoesOn(p, e, s, m)
  <2> USE DEF GoesOn
  <2>1. OwnShapes(p)'
    <3>1. left'[p] \in BOOLEAN /\ moved'[p] \in BOOLEAN  BY <1>6, <1>9, Zenon
    <3>2. cur'[p] \in Exchangers  BY <1>2, <1>9
    <3>3. ex'[p] \in [Exchangers -> Counters] /\ stream'[p] \in [Exchangers -> Seq(Things)]
      BY <1>2, <1>8, <1>9
    <3> QED BY <1>2, <1>4, <1>9, <3>1, <3>2, <3>3 DEF OwnShapes, Active
  <2>2. ASSUME NEW j \in Exchangers PROVE Bounded(p, j)'  BY <1>8, <1>9
  <2>3. ASSUME conf.same PROVE InPlace(p)'
    <3>1. ex'[p][1] = e /\ stream'[p][1] = s  BY <2>3, <1>2, <1>5, <1>9
    <3>2. len(p)' = len(p)  BY <1>9 DEF len
    <3> QED BY <2>3, <3>1, <3>2, <1>9 DEF InPlace, Byte
  <2> QED BY <1>3, <2>1, <2>2, <2>3, StreamsStep
<1>10. CASE Ends(p, e, s) /\ EndsForNext(p)
  <2> USE DEF Ends, EndsForNext
  <2> DEFINE t == turn[p] + 1
             l == conf.len[t][p]
  <2>1. t \in 1 .. n_turns  BY <1>2, <1>10
  <2>2. /\ NewStream(p, t) \in Seq(Things) /\ (conf.same => NewStream(p, t) = Message(p, t))
        /\ Len(Message(p, t)) = l /\ \A k \in 1 .. l : Message(p, t)[k] = Byte(p, t, k)
    <3> HIDE DEF t
    <3> QED BY <1>1, <2>1, MessageType
  <2>3. l \in Nat  BY <1>1, <2>1, Basics
  <2>4. len(p)' = l  BY <1>10 DEF len
  <2>5. OwnShapes(p)'
    <3>1. ex'[p] \in [Exchangers -> Counters]  BY <1>7, <1>10
    <3>2. stream'[p] \in [Exchangers -> Seq(Things)]  BY <2>2, <1>10
    <3> QED BY <1>2, <1>4, <1>10, <2>1, <3>1, <3>2 DEF OwnShapes, Active
  <2>6. ASSUME NEW j \in Exchangers PROVE Bounded(p, j)'
    <3>1. ex'[p][j].sent = 0 /\ ex'[p][j].received = 0 /\ stream'[p][j] = NewStream(p, t)
      BY <1>10 DEF NewExchanger
    <3>2. Len(NewStream(p, t)) \in Nat  BY <2>2, LenProperties
    <3> HIDE DEF l, t
    <3> QED BY <2>3, <2>4, <3>1, <3>2 DEF Bounded
  <2>7. ASSUME conf.same PROVE InPlace(p)'
    <3>1. ex'[p][1].sent = 0 /\ ex'[p][1].received = 0 /\ stream'[p][1] = NewStream(p, t)
      BY <1>2, <1>10 DEF NewExchanger
    <3>2. stream'[p][1] = Message(p, t)  BY <2>2, <2>7, <3>1
    <3>3. turn'[p] = t  BY <1>10
    <3> HIDE DEF l, t
    <3>4. Len(stream'[p][1]) = l /\ \A k \in 1 .. l : stream'[p][1][k] = Byte(p, t, k)
      BY <2>2, <3>2
    <3> QED BY <2>3, <2>4, <3>1, <3>3, <3>4 DEF InPlace, Byte
  <2> QED BY <1>3, <2>5, <2>6, <2>7, StreamsStep
<1>11. CASE Ends(p, e, s) /\ EndsAll(p, s)
  <2> USE DEF Ends, EndsAll
  <2>1. stream'[p] \in [Exchangers -> Seq(Things)]  BY <1>2, <1>5, <1>11
  <2>2. OwnShapes(p)'
    <3>1. ex'[p] \in [Exchangers -> Counters]  BY <1>7, <1>11
    <3> QED BY <1>2, <1>4, <1>11, <2>1, <3>1 DEF OwnShapes
  <2>3. ASSUME NEW j \in Exchangers PROVE Bounded(p, j)'
    <3>1. ex'[p][j].sent = 0 /\ ex'[p][j].received = 0  BY <1>11 DEF NewExchanger
    <3>2. Len(stream'[p][j]) \in Nat  BY <2>1, LenProperties
    <3>3. len(p)' \in Nat
      <4>1. len(p)' = len(p)  BY <1>11 DEF len
      <4> QED BY <4>1, <1>1, Basics
    <3> QED BY <3>1, <3>2, <3>3 DEF Bounded
  <2>4. InPlace(p)'  BY <1>11 DEF InPlace, Active
  <2> QED BY <1>3, <2>2, <2>3, <2>4, StreamsStep
<1> QED BY <1>1, <1>9, <1>10, <1>11, RoundEffect, Zenon

(* Bytes of the message: they are written behind those received before.    *)
Takes(p, i, q, e, c, l, s) ==
    /\ l <= Len(c) /\ l <= to_receive(p, i)
    /\ [e EXCEPT !.received = e.received + l] \in Counters
    /\ chan' = [chan EXCEPT ![<<q, p>>] = SubSeq(c, l + 1, Len(c))]
    /\ EndRound(p, [e EXCEPT !.received = e.received + l], s, moved[p])
    /\ e.received + l <= Len(s)
    /\ \A k \in 1 .. l : s[e.received + k] = c[k]
    /\ \A k \in 1 .. e.received : s[k] = stream[p][i][k]

LEMMA ReceiveDataStep ==
    ASSUME StreamsInv, NEW p \in Players, ReceiveData(p)
    PROVE  LET i == cur[p]
               q == receive_from(p, i)
               e == ex[p][i]
               c == chan[<<q, p>>] IN
           /\ OnlyAt(p) /\ StreamsInv'
           /\ pc[p] = "recv" /\ e.received < e.new_len
           /\ \E l \in Nat : \E s \in Seq(Things) : Takes(p, i, q, e, c, l, s)
<1> DEFINE i == cur[p]
           q == receive_from(p, i)
           e == ex[p][i]
           c == chan[<<q, p>>]
           st == stream[p][i]
<1>1. Shapes  BY DEF StreamsInv
<1>2. i \in Exchangers /\ 1 \in Exchangers /\ (conf.same => Exchangers = {1}) /\ len(p) \in Nat
  BY <1>1, Basics
<1>3. conf' = conf /\ pc[p] = "recv" /\ e.received < e.new_len  BY DEF ReceiveData
<1>4. q \in Players /\ c \in Seq(Things) /\ st \in Seq(Things) /\ e \in Counters
  <2>1. q \in Players  BY <1>1, <1>2, Peers DEF Shapes
  <2> QED BY <2>1, <1>1, <1>2 DEF Shapes
<1>5. PICK l \in 0 .. Min({to_receive(p, i), Len(c)}) :
        /\ chan' = [chan EXCEPT ![<<q, p>>] = SubSeq(c, l + 1, Len(c))]
        /\ EndRound(p, [e EXCEPT !.received = e.received + l],
                    Written(st, e.received, SubSeq(c, 1, l)), moved[p])
  BY Zenon DEF ReceiveData
<1> DEFINE a == to_receive(p, i)
           r == e.received
           x == [e EXCEPT !.received = r + l]
           b == SubSeq(c, 1, l)
           s == Written(st, r, b)
<1>6. r \in Nat /\ e.sent \in Nat /\ e.new_len \in Nat /\ Len(c) \in Nat /\ r <= Len(st) /\ e.sent <= len(p)
  <2>1. r <= Len(st) /\ e.sent <= len(p)  BY <1>2 DEF StreamsInv, Bounded
  <2> QED BY <2>1, <1>4, LenProperties DEF Counters
<1>7. a \in Int /\ (conf.same /\ e.sent < len(p) => a <= 0 \/ a = e.sent - r)
  BY <1>2, <1>6 DEF to_receive
<1>8. l \in Nat /\ l <= a /\ l <= Len(c)
  <2> HIDE DEF a, c
  <2>1. Min({a, Len(c)}) \in Int /\ Min({a, Len(c)}) <= a /\ Min({a, Len(c)}) <= Len(c)
    <3>1. Len(c) \in Int  BY <1>6
    <3> QED BY <3>1, <1>7, MinOfTwo, Zenon
  <2>2. l \in 0 .. Min({a, Len(c)})  BY <1>5 DEF a, c
  <2> QED BY <2>1, <2>2, <1>6, <1>7
<1>9. x \in Counters /\ x.sent = e.sent /\ x.received = r + l
  <2>1. r + l \in Nat  BY <1>6, <1>8
  <2> HIDE DEF r
  <2> QED BY <2>1, <1>4 DEF Counters
<1>10. b \in Seq(Things) /\ Len(b) = l /\ \A k \in 1 .. l : b[k] = c[k]
  <2> HIDE DEF c, a
  <2>1. \A k \in 1 .. l : k \in 1 .. Len(c)  BY <1>6, <1>8
  <2> QED BY <1>4, <1>6, <1>8, <2>1, SubSeqProperties
<1>11. /\ s \in Seq(Things) /\ Len(st) <= Len(s) /\ r + l <= Len(s)
       /\ \A k \in 1 .. l : s[r + k] = b[k]
       /\ \A k \in 1 .. Len(st) : k <= r \/ k > r + l => s[k] = st[k]
  <2> HIDE DEF r, b, st
  <2> QED BY <1>4, <1>6, <1>10, WrittenFacts
<1>12. chan' \in [Players \X Players -> Seq(Things)]
  <2>1. SubSeq(c, l + 1, Len(c)) \in Seq(Things)
    <3> HIDE DEF c, a
    <3>1. \A k \in l + 1 .. Len(c) : k \in 1 .. Len(c)  BY <1>6, <1>8
    <3> QED BY <1>4, <1>6, <1>8, <3>1, SubSeqProperties
  <2>2. chan' = [chan EXCEPT ![<<q, p>>] = SubSeq(c, l + 1, Len(c))]  BY <1>5
  <2> HIDE DEF c, q
  <2> QED BY <1>1, <2>1, <2>2 DEF Shapes
<1>13. moved[p] \in BOOLEAN  BY <1>1, Zenon DEF Shapes
<1>14. ASSUME conf.same
       PROVE  /\ len(p) <= Len(s)
              /\ x.sent < len(p) => x.received <= x.sent
              /\ \A k \in x.sent + 1 .. len(p) : s[k] = Byte(p, turn[p], k)
  <2>1. InPlace(p) /\ pc[p] \in Active /\ i = 1  BY <1>2, <1>3, <1>14 DEF StreamsInv, Active
  <2>2. /\ len(p) <= Len(st)
        /\ e.sent < len(p) => r <= e.sent
        /\ \A k \in e.sent + 1 .. len(p) : st[k] = Byte(p, turn[p], k)
    BY <2>1 DEF InPlace
  <2> DEFINE y == e.sent
             z == len(p)
  <2>3. y \in Nat /\ z \in Nat /\ y <= z /\ (y < z => r <= y) /\ (y < z => a <= 0 \/ a = y - r)
    BY <1>2, <1>6, <1>7, <1>14, <2>2
  <2>4. Len(st) \in Nat /\ Len(s) \in Nat /\ z <= Len(st)
    <3> HIDE DEF s, st
    <3> QED BY <1>4, <1>11, <2>2, LenProperties
  <2> HIDE DEF y, z, a, r
  <2>5. y < z => r + l <= y  BY <2>3, <1>6, <1>7, <1>8
  <2>6. z <= Len(s)
    <3> HIDE DEF s, st
    <3> QED BY <2>3, <2>4, <1>11
  <2>7. ASSUME NEW k \in y + 1 .. z PROVE s[k] = Byte(p, turn[p], k)
    <3>1. k \in 1 .. Len(st) /\ k > r + l
      <4> HIDE DEF st
      <4> QED BY <2>3, <2>4, <2>5, <1>6, <1>8
    <3>2. st[k] = Byte(p, turn[p], k)  BY <2>2 DEF y, z
    <3> QED BY <1>11, <3>1, <3>2
  <2>8. x.sent = y /\ x.received = r + l  BY <1>9 DEF y
  <2> HIDE DEF x, s
  <2>9. /\ z <= Len(s)
        /\ x.sent < z => x.received <= x.sent
        /\ \A k \in x.sent + 1 .. z : s[k] = Byte(p, turn[p], k)
    BY <2>5, <2>6, <2>7, <2>8
  <2> QED BY <2>9 DEF z
<1>15. OnlyAt(p) /\ StreamsInv'
  <2>1. EndRound(p, x, s, moved[p])  BY <1>5
  <2>2. x.sent <= len(p) /\ x.received <= Len(s)  BY <1>6, <1>9, <1>11
  <2> HIDE DEF x, s
  <2> QED BY <1>3, <1>9, <1>11, <1>12, <1>13, <1>14, <2>1, <2>2, RoundStep
<1>16. \A k \in 1 .. l : s[r + k] = c[k]  BY <1>10, <1>11
<1>17. \A k \in 1 .. r : s[k] = st[k]
  <2> TAKE k \in 1 .. r
  <2>1. k \in 1 .. Len(st) /\ k <= r
    <3> HIDE DEF r, st
    <3>1. Len(st) \in Nat  BY <1>4, LenProperties
    <3> QED BY <1>6, <3>1
  <2> QED BY <2>1, <1>11
<1>18. /\ chan' = [chan EXCEPT ![<<q, p>>] = SubSeq(c, l + 1, Len(c))]
       /\ EndRound(p, x, s, moved[p])
  BY <1>5
<1>19. Takes(p, i, q, e, c, l, s)
  <2> HIDE DEF s, c, st, a, q
  <2> QED BY <1>8, <1>9, <1>11, <1>16, <1>17, <1>18 DEF Takes, r, x, a, st
<1>20. \E y \in Nat : \E z \in Seq(Things) : Takes(p, i, q, e, c, y, z)
  BY <1>8, <1>11, <1>19, Zenon
<1> QED BY <1>3, <1>15, <1>20

(* The length, as a whole or not yet.                                      *)
LEMMA ReceiveLengthStep ==
    ASSUME StreamsInv, NEW p \in Players, ReceiveLength(p)
    PROVE  LET i == cur[p]
               q == receive_from(p, i)
               e == ex[p][i]
               c == chan[<<q, p>>]
               x == [e EXCEPT !.new_len = Head(c).n, !.length_received = TRUE] IN
           /\ OnlyAt(p) /\ StreamsInv'
           /\ pc[p] = "recv" /\ e.received >= e.new_len /\ ~e.length_received
           /\ \/ chan' = chan /\ EndRound(p, e, stream[p][i], moved[p])
              \/ /\ LENGTH_SIZE <= Len(c)
                 /\ x \in Counters
                 /\ chan' = [chan EXCEPT ![<<q, p>>] = SubSeq(c, LENGTH_SIZE + 1, Len(c))]
                 /\ moves(p, Head(c).n) \in BOOLEAN
                 /\ EndRound(p, x, stream[p][i], moves(p, Head(c).n))
<1> DEFINE i == cur[p]
           q == receive_from(p, i)
           e == ex[p][i]
           c == chan[<<q, p>>]
           st == stream[p][i]
           x == [e EXCEPT !.new_len = Head(c).n, !.length_received = TRUE]
<1>1. Shapes  BY DEF StreamsInv
<1>2. i \in Exchangers /\ 1 \in Exchangers /\ (conf.same => Exchangers = {1}) /\ len(p) \in Nat
  BY <1>1, Basics
<1>3. conf' = conf /\ pc[p] = "recv" /\ e.received >= e.new_len /\ ~e.length_received
  BY DEF ReceiveLength
<1>4. q \in Players /\ c \in Seq(Things) /\ st \in Seq(Things) /\ e \in Counters
  <2>1. q \in Players  BY <1>1, <1>2, Peers DEF Shapes
  <2> QED BY <2>1, <1>1, <1>2 DEF Shapes
<1>5. e.received <= Len(st) /\ e.sent <= len(p)  BY <1>2 DEF StreamsInv, Bounded
<1>6. conf.same => /\ len(p) <= Len(st)
                   /\ e.sent < len(p) => e.received <= e.sent
                   /\ \A k \in e.sent + 1 .. len(p) : st[k] = Byte(p, turn[p], k)
  <2> SUFFICES ASSUME conf.same
               PROVE  /\ len(p) <= Len(st)
                      /\ e.sent < len(p) => e.received <= e.sent
                      /\ \A k \in e.sent + 1 .. len(p) : st[k] = Byte(p, turn[p], k)
    OBVIOUS
  <2>1. InPlace(p) /\ pc[p] \in Active /\ i = 1  BY <1>2, <1>3 DEF StreamsInv, Active
  <2> QED BY <2>1 DEF InPlace
<1>7. moved[p] \in BOOLEAN  BY <1>1, Zenon DEF Shapes
<1>8. CASE chan' = chan /\ EndRound(p, e, st, moved[p])
  <2>1. chan' \in [Players \X Players -> Seq(Things)]  BY <1>1, <1>8 DEF Shapes
  <2>2. EndRound(p, e, st, moved[p])  BY <1>8
  <2>3. OnlyAt(p) /\ StreamsInv'
    <3> HIDE DEF e, st
    <3> QED BY <1>3, <1>4, <1>5, <1>6, <1>7, <2>1, <2>2, RoundStep
  <2> QED BY <1>3, <1>8, <2>3
<1>9. CASE /\ Len(c) >= LENGTH_SIZE
           /\ chan' = [chan EXCEPT ![<<q, p>>] = SubSeq(c, LENGTH_SIZE + 1, Len(c))]
           /\ EndRound(p, x, st, moves(p, Head(c).n))
  <2>1. Len(c) \in Nat /\ LENGTH_SIZE \in Nat /\ LENGTH_SIZE > 0 /\ LENGTH_SIZE <= Len(c)
    <3>1. Len(c) \in Nat  BY <1>4, LenProperties
    <3> HIDE DEF c
    <3> QED BY <1>9, <3>1, ConfsOK
  <2>2. Head(c).n \in Nat
    <3>1. Head(c) \in Things
      <4> HIDE DEF c
      <4>1. c # <<>>  BY <2>1
      <4> QED BY <1>4, <4>1, HeadTailProperties
    <3> HIDE DEF c
    <3> QED BY <3>1 DEF Things
  <2>3. x \in Counters /\ x.sent = e.sent /\ x.received = e.received
    <3> HIDE DEF c
    <3> QED BY <2>2, <1>4 DEF Counters
  <2>4. moves(p, Head(c).n) \in BOOLEAN
    <3> DEFINE l == Max({Head(c).n, len(p)})
    <3>1. moves(p, Head(c).n) = (conf.same /\ (l > 0 /\ l >= conf.mxlen[p]))  BY DEF moves
    <3>2. conf.same \in BOOLEAN  BY <1>1, ConfFacts DEF Shapes
    <3> HIDE DEF l
    <3> QED BY <3>1, <3>2, Zenon
  <2>5. chan' \in [Players \X Players -> Seq(Things)]
    <3>1. SubSeq(c, LENGTH_SIZE + 1, Len(c)) \in Seq(Things)
      <4> HIDE DEF c
      <4>1. \A k \in LENGTH_SIZE + 1 .. Len(c) : k \in 1 .. Len(c)  BY <2>1
      <4> QED BY <1>4, <2>1, <4>1, SubSeqProperties
    <3>2. chan' = [chan EXCEPT ![<<q, p>>] = SubSeq(c, LENGTH_SIZE + 1, Len(c))]  BY <1>9
    <3> HIDE DEF c, q
    <3> QED BY <1>1, <3>1, <3>2 DEF Shapes
  <2>6. OnlyAt(p) /\ StreamsInv'
    <3> DEFINE m == moves(p, Head(c).n)
    <3>1. EndRound(p, x, st, m)  BY <1>9
    <3>2. m \in BOOLEAN  BY <2>4
    <3>3. x.sent <= len(p) /\ x.received <= Len(st)  BY <2>3, <1>5
    <3>4. conf.same => /\ len(p) <= Len(st)
                       /\ x.sent < len(p) => x.received <= x.sent
                       /\ \A k \in x.sent + 1 .. len(p) : st[k] = Byte(p, turn[p], k)
      <4> HIDE DEF x, st, e
      <4> QED BY <1>6, <2>3
    <3> HIDE DEF x, st, m
    <3> QED BY <1>3, <1>4, <2>3, <2>5, <3>1, <3>2, <3>3, <3>4, RoundStep
  <2>7. chan' = [chan EXCEPT ![<<q, p>>] = SubSeq(c, LENGTH_SIZE + 1, Len(c))]  BY <1>9
  <2>8. EndRound(p, x, st, moves(p, Head(c).n))  BY <1>9
  <2> HIDE DEF x, c, st, q, i
  <2>9. /\ OnlyAt(p) /\ StreamsInv'
        /\ pc[p] = "recv" /\ e.received >= e.new_len /\ ~e.length_received
        /\ \/ chan' = chan /\ EndRound(p, e, st, moved[p])
           \/ /\ LENGTH_SIZE <= Len(c)
              /\ x \in Counters
              /\ chan' = [chan EXCEPT ![<<q, p>>] = SubSeq(c, LENGTH_SIZE + 1, Len(c))]
              /\ moves(p, Head(c).n) \in BOOLEAN
              /\ EndRound(p, x, st, moves(p, Head(c).n))
    BY <1>3, <2>1, <2>3, <2>4, <2>6, <2>7, <2>8, Zenon
  <2> QED BY <2>9 DEF x, c, st, q, i
<1> QED BY <1>8, <1>9, Zenon DEF ReceiveLength

(* Nothing is to be received.                                              *)
LEMMA ReceiveNothingStep ==
    ASSUME StreamsInv, NEW p \in Players, ReceiveNothing(p)
    PROVE  LET e == ex[p][cur[p]] IN
           /\ OnlyAt(p) /\ StreamsInv'
           /\ pc[p] = "recv" /\ e.received >= e.new_len /\ e.length_received
           /\ chan' = chan /\ EndRound(p, e, stream[p][cur[p]], moved[p])
<1> DEFINE i == cur[p]
           e == ex[p][i]
           st == stream[p][i]
<1>1. Shapes  BY DEF StreamsInv
<1>2. i \in Exchangers /\ 1 \in Exchangers /\ (conf.same => Exchangers = {1}) /\ len(p) \in Nat
  BY <1>1, Basics
<1>3. /\ conf' = conf /\ pc[p] = "recv" /\ e.received >= e.new_len /\ e.length_received
      /\ chan' = chan /\ EndRound(p, e, st, moved[p])
  BY DEF ReceiveNothing
<1>4. st \in Seq(Things) /\ e \in Counters  BY <1>1, <1>2 DEF Shapes
<1>5. e.received <= Len(st) /\ e.sent <= len(p)  BY <1>2 DEF StreamsInv, Bounded
<1>6. conf.same => /\ len(p) <= Len(st)
                   /\ e.sent < len(p) => e.received <= e.sent
                   /\ \A k \in e.sent + 1 .. len(p) : st[k] = Byte(p, turn[p], k)
  <2> SUFFICES ASSUME conf.same
               PROVE  /\ len(p) <= Len(st)
                      /\ e.sent < len(p) => e.received <= e.sent
                      /\ \A k \in e.sent + 1 .. len(p) : st[k] = Byte(p, turn[p], k)
    OBVIOUS
  <2>1. InPlace(p) /\ pc[p] \in Active /\ i = 1  BY <1>2, <1>3 DEF StreamsInv, Active
  <2> QED BY <2>1 DEF InPlace
<1>7. moved[p] \in BOOLEAN  BY <1>1, Zenon DEF Shapes
<1>8. chan' \in [Players \X Players -> Seq(Things)]  BY <1>1, <1>3 DEF Shapes
<1>9. OnlyAt(p) /\ StreamsInv'
  <2> HIDE DEF e, st
  <2> QED BY <1>3, <1>4, <1>5, <1>6, <1>7, <1>8, RoundStep
<1> QED BY <1>3, <1>9

-----------------------------------------------------------------------------
(* Receiving into the stream that is sent from overwrites nothing that is  *)
(* still to be sent.                                                       *)
LEMMA StreamsNext == StreamsInv /\ [Next]_vars => StreamsInv'
<1> SUFFICES ASSUME StreamsInv, [Next]_vars PROVE StreamsInv'  OBVIOUS
<1>1. CASE Next
  <2>1. PICK p \in Players : Exchange(p) \/ Leave(p)  BY <1>1 DEF Next
  <2>2. CASE Construct(p)  BY <2>2, ConstructStep, Zenon
  <2>3. CASE Send(p)  BY <2>3, SendStep, Zenon
  <2>4. CASE SendFails(p) \/ ReceiveFails(p) \/ Leave(p)
    <3>1. Fail(p) \/ Leave(p)  BY <2>4 DEF SendFails, ReceiveFails
    <3> QED BY <3>1, StopStep, Zenon
  <2>5. CASE ReceiveData(p)  BY <2>5, ReceiveDataStep, Zenon
  <2>6. CASE ReceiveLength(p)  BY <2>6, ReceiveLengthStep, Zenon
  <2>7. CASE ReceiveNothing(p)  BY <2>7, ReceiveNothingStep, Zenon
  <2> QED BY <2>1, <2>2, <2>3, <2>4, <2>5, <2>6, <2>7 DEF Exchange
<1>2. CASE UNCHANGED vars
  <2> USE <1>2 DEF vars
  <2>1. Shapes'
    BY DEF StreamsInv, Shapes, Players, Exchangers, n_turns
  <2>2. Players' = Players /\ Exchangers' = Exchangers  BY DEF Players, Exchangers
  <2>3. \A p \in Players, i \in Exchangers : Bounded(p, i)'
    BY DEF StreamsInv, Bounded, len
  <2>4. conf'.same => \A p \in Players : InPlace(p)'
    BY DEF StreamsInv, InPlace, len, Byte
  <2> QED BY <2>1, <2>2, <2>3, <2>4 DEF StreamsInv
<1> QED BY <1>1, <1>2

(* The invariant of the streams.                                           *)
THEOREM StreamsInvariant == Spec => []StreamsInv
<1>1. Init => StreamsInv  BY StreamsInit
<1>2. StreamsInv /\ [Next]_vars => StreamsInv'  BY StreamsNext
<1> QED BY <1>1, <1>2, PTL DEF Spec

(* However the bytes are cut up and whatever arrives: with one stream for  *)
(* both directions, what is not sent yet is still the message              *)
(* (Exchanger.h:84-91).                                                    *)
THEOREM UnsentKept == Spec => []UnsentIntact
<1>1. StreamsInv => UnsentIntact  BY DEF StreamsInv, InPlace, UnsentIntact, Active
<1> QED BY <1>1, StreamsInvariant, PTL

-----------------------------------------------------------------------------
(* Players in step.  First, the type of what the flow is about.            *)
SafePlayer(p) ==
    /\ StreamsInv /\ SharingSafe(conf)
    /\ p \in Players /\ PlayerOK(p)

LEMMA LastExchanger ==
    ASSUME Shapes, NEW i \in Exchangers, i + 1 \notin Exchangers
    PROVE  \A j \in Exchangers : j <= i
<1>1. conf.n \in Nat /\ conf.n > 1  BY ConfFacts DEF Shapes
<1> QED BY <1>1 DEF Exchangers

LEMMA PlaceOf ==
    ASSUME NEW q, SafePlayer(q), NEW i \in Exchangers
    PROVE  /\ conf \in Confs /\ q \in 0 .. conf.n - 1 /\ turn[q] \in 1 .. Len(conf.len)
           /\ Out(q, i) \in Nat /\ In(q, i) \in Nat
           /\ Place(conf, q, turn[q], At(q), Out(q, i))
           /\ At(q) \in Nat /\ turn[q] \in Nat
<1> DEFINE e == ex[q][i]
<1>1. Shapes /\ q \in Players  BY DEF SafePlayer, StreamsInv
<1>2. /\ turn[q] \in 1 .. n_turns /\ len(q) \in Nat /\ turn[q] \in Nat
      /\ LENGTH_SIZE \in Nat
  BY <1>1, Basics
<1>3. e \in Counters  BY <1>1 DEF Shapes
<1>4. /\ e.header \in Nat /\ e.sent \in Nat /\ e.received \in Nat
      /\ e.header <= LENGTH_SIZE /\ e.sent <= len(q)
  BY <1>1, <1>3 DEF Counters, SafePlayer, PlayerOK, CountersOK, StreamsInv, Bounded
<1>5. Out(q, i) = e.header + e.sent  BY DEF Out
<1>6. Out(q, i) \in Nat /\ Out(q, i) <= LENGTH_SIZE + len(q)
  <2> DEFINE x == e.header
             y == e.sent
             o == Out(q, i)
             l == len(q)
  <2>1. x \in Nat /\ y \in Nat /\ x <= LENGTH_SIZE /\ y <= l /\ o = x + y /\ l \in Nat  BY <1>2, <1>4, <1>5
  <2> HIDE DEF x, y, o, l
  <2>2. o \in Nat /\ o <= LENGTH_SIZE + l  BY <2>1, <1>2
  <2> QED BY <2>2 DEF o, l
<1>7. In(q, i) \in Nat  BY <1>2, <1>4 DEF In
<1>8. Place(conf, q, turn[q], At(q), Out(q, i))
  <2>1. CASE pc[q] = "done"
    <3>1. ex[q][i] = NewExchanger  BY <2>1 DEF SafePlayer, PlayerOK, PhaseOK
    <3>2. Out(q, i) = 0  BY <3>1 DEF Out, NewExchanger
    <3> QED BY <2>1, <3>2 DEF Place, At
  <2>2. CASE pc[q] # "done"
    <3>1. Size(conf, q, turn[q]) = LENGTH_SIZE + len(q)  BY DEF Size, len
    <3> QED BY <2>2, <3>1, <1>6 DEF Place, At
  <2> QED BY <2>1, <2>2
<1>9. At(q) \in Nat  BY <1>2 DEF At
<1> QED BY <1>1, <1>2, <1>6, <1>7, <1>8, <1>9 DEF Shapes, Players, n_turns

(* A step of p does not concern the other players ...                      *)
LEMMA OtherPlayers ==
    ASSUME Shapes, NEW p \in Players, OnlyAt(p), NEW r \in Players, r # p, PlayerOK(r)
    PROVE  PlayerOK(r)'
<1>1. conf' = conf  BY DEF OnlyAt
<1>2. /\ pc'[r] = pc[r] /\ turn'[r] = turn[r] /\ cur'[r] = cur[r] /\ left'[r] = left[r]
      /\ ex'[r] = ex[r] /\ stream'[r] = stream[r] /\ moved'[r] = moved[r] /\ got'[r] = got[r]
  BY OthersSame
<1>3. /\ Exchangers' = Exchangers /\ n_turns' = n_turns
      /\ \A i : receive_from(r, i)' = receive_from(r, i)
  BY <1>1, SameConf
<1>4. len(r)' = len(r)  BY <1>1, <1>2 DEF len
<1>5. ASSUME NEW i \in Exchangers PROVE CountersOK(r, i)'
  <2>1. CountersOK(r, i)  BY DEF PlayerOK
  <2> QED BY <2>1, <1>1, <1>2, <1>3 DEF CountersOK, Byte
<1>6. PhaseOK(r)'
  <2>1. PhaseOK(r)  BY DEF PlayerOK
  <2> QED BY <2>1, <1>2, <1>3, <1>4 DEF PhaseOK, More, NewExchanger
<1>7. GotOK(r)'
  <2>1. GotOK(r)  BY DEF PlayerOK
  <2>2. At(r)' = At(r)  BY <1>2 DEF At
  <2>3. \A i, t : Message(receive_from(r, i), t)' = Message(receive_from(r, i), t)
    BY <1>1 DEF Message, Byte, receive_from, offset
  <2> QED BY <2>1, <2>2, <2>3, <1>2, <1>3 DEF GotOK
<1>8. ~moved'[r]  BY <1>2 DEF PlayerOK
<1> QED BY <1>3, <1>5, <1>6, <1>7, <1>8 DEF PlayerOK

(* ... nor a connection whose ends and contents stay as they are.          *)
LEMMA ConnFrame ==
    ASSUME conf' = conf, NEW q, NEW i, NEW t, t = send_to(q, i), ConnOK(q, i),
           turn'[q] = turn[q], At(q)' = At(q), Out(q, i)' = Out(q, i),
           At(t)' = At(t), In(t, i)' = In(t, i), chan'[<<q, t>>] = chan[<<q, t>>]
    PROVE  ConnOK(q, i)'
<1>1. send_to(q, i)' = t  BY DEF send_to, offset
<1>2. Flow(conf, q, turn[q], At(q), Out(q, i), At(t), In(t, i), chan[<<q, t>>])
  BY DEF ConnOK
<1>3. Flow(conf', q, turn'[q], At(q)', Out(q, i)', At(t)', In(t, i)', chan'[<<q, t>>])
  BY <1>2
<1>4. ConnOK(q, i)' = Flow(conf', q, turn'[q], At(q)', Out(q, i)',
                           At(send_to(q, i))', In(send_to(q, i), i)', chan'[<<q, send_to(q, i)'>>])
  BY DEF ConnOK
<1> QED BY <1>1, <1>3, <1>4

LEMMA ConnPrime ==
    ASSUME conf' = conf, NEW q, NEW i, NEW t, t = send_to(q, i),
           Flow(conf, q, turn'[q], At(q)', Out(q, i)', At(t)', In(t, i)', chan'[<<q, t>>])
    PROVE  ConnOK(q, i)'
<1>1. send_to(q, i)' = t  BY DEF send_to, offset
<1>2. ConnOK(q, i)' = Flow(conf', q, turn'[q], At(q)', Out(q, i)',
                           At(send_to(q, i))', In(send_to(q, i), i)', chan'[<<q, send_to(q, i)'>>])
  BY DEF ConnOK
<1> QED BY <1>1, <1>2

(* All players are in step.                                                *)
Joint ==
    /\ StreamsInv /\ SharingSafe(conf)
    /\ \A p \in Players : PlayerOK(p)
    /\ \A q \in Players, i \in Exchangers : ConnOK(q, i)

(* A player stops.                                                         *)
LEMMA StopSafe ==
    ASSUME Joint, NEW p \in Players, Fail(p) \/ Leave(p), pc[p] \in Active
    PROVE  /\ PlayerOK(p)'
           /\ \A q \in Players, i \in Exchangers : ConnOK(q, i)'
<1>1. OnlyAt(p) /\ pc'[p] \in {"gone", "failed"} /\ chan' = chan
  BY StopStep, Zenon DEF Joint
<1>2. /\ conf' = conf /\ turn' = turn /\ cur' = cur /\ left' = left /\ ex' = ex
      /\ stream' = stream /\ moved' = moved /\ got' = got
  BY DEF Fail, Leave
<1>3. Shapes /\ PlayerOK(p)  BY DEF Joint, StreamsInv
<1>4. \A r \in Players : At(r)' = At(r)
  <2> TAKE r \in Players
  <2>1. CASE r = p  BY <2>1, <1>1, <1>2 DEF At, Active
  <2>2. CASE r # p
    <3>1. pc'[r] = pc[r]  BY <2>2, <1>1, <1>3, OthersSame
    <3> QED BY <3>1, <1>2 DEF At
  <2> QED BY <2>1, <2>2
<1>5. PlayerOK(p)'
  <2>1. /\ Exchangers' = Exchangers /\ n_turns' = n_turns
        /\ \A i : receive_from(p, i)' = receive_from(p, i)
    BY <1>2, SameConf
  <2>2. ASSUME NEW i \in Exchangers PROVE CountersOK(p, i)'
    <3>1. CountersOK(p, i)  BY <1>3 DEF PlayerOK
    <3> QED BY <3>1, <2>1, <1>2 DEF CountersOK, Byte
  <2>3. PhaseOK(p)'  BY <1>1 DEF PhaseOK
  <2>4. GotOK(p)'
    <3>1. GotOK(p)  BY <1>3 DEF PlayerOK
    <3>2. \A i, t : Message(receive_from(p, i), t)' = Message(receive_from(p, i), t)
      BY <1>2 DEF Message, Byte, receive_from, offset
    <3> QED BY <3>1, <3>2, <2>1, <1>2, <1>4 DEF GotOK
  <2>5. ~moved'[p]  BY <1>2, <1>3 DEF PlayerOK
  <2> QED BY <2>1, <2>2, <2>3, <2>4, <2>5 DEF PlayerOK
<1>6. ASSUME NEW q \in Players, NEW i \in Exchangers PROVE ConnOK(q, i)'
  <2>1. PICK t \in Players : t = send_to(q, i)  BY <1>3, Peers DEF Shapes
  <2>2. At(q)' = At(q) /\ At(t)' = At(t)  BY <1>4, <2>1
  <2>3. Out(q, i)' = Out(q, i) /\ In(t, i)' = In(t, i)  BY <1>2 DEF Out, In
  <2>4. ConnOK(q, i)  BY DEF Joint
  <2> QED BY <1>1, <1>2, <2>1, <2>2, <2>3, <2>4, ConnFrame
<1> QED BY <1>5, <1>6

(* A byte of the length is written.                                        *)
LEMMA ConstructSafe ==
    ASSUME Joint, NEW p \in Players, Construct(p)
    PROVE  /\ PlayerOK(p)'
           /\ \A q \in Players, i \in Exchangers : ConnOK(q, i)'
<1>a. Shapes  BY DEF Joint, StreamsInv
<1>b. PICK i \in Exchangers : i = cur[p]  BY <1>a, Basics
<1>c. PICK q \in Players : q = send_to(p, i)  BY <1>a, Peers DEF Shapes
<1> DEFINE e == ex[p][i]
           x == [e EXCEPT !.header = e.header + 1]
           h == Header(p, turn[p])
<1>1. /\ OnlyAt(p) /\ pc[p] = "ctor"
      /\ chan' = [chan EXCEPT ![<<p, q>>] = Append(chan[<<p, q>>], h)]
      /\ ex'[p] = [ex[p] EXCEPT ![i] = x]
      /\ \/ e.header + 1 < LENGTH_SIZE /\ pc'[p] = "ctor" /\ cur'[p] = i
         \/ /\ ~(e.header + 1 < LENGTH_SIZE) /\ i + 1 \in Exchangers
            /\ pc'[p] = "ctor" /\ cur'[p] = i + 1
         \/ /\ ~(e.header + 1 < LENGTH_SIZE) /\ i + 1 \notin Exchangers
            /\ pc'[p] = "send" /\ cur'[p] = 1
      /\ turn' = turn /\ left' = left /\ stream' = stream /\ moved' = moved /\ got' = got
  BY <1>b, <1>c, ConstructStep, Zenon DEF Joint
<1>2. conf' = conf  BY <1>1 DEF OnlyAt
<1>3. Shapes /\ PlayerOK(p) /\ StreamsInv  BY DEF Joint, StreamsInv
<1>4. /\ i \in Exchangers /\ Exchangers \subseteq Nat \ {0} /\ LENGTH_SIZE \in Nat
      /\ turn[p] \in 1 .. n_turns
  BY <1>3, Basics
<1>5. ex[p] \in [Exchangers -> Counters] /\ e \in Counters  BY <1>3, <1>4 DEF Shapes
<1>6. e.header \in Nat /\ e.header < LENGTH_SIZE /\ e.sent = 0 /\ ~e.length_received
  BY <1>b, <1>1, <1>3, <1>4, <1>5 DEF PlayerOK, PhaseOK, Counters
<1>7. /\ x.header = e.header + 1 /\ x.sent = e.sent /\ x.received = e.received
      /\ x.new_len = e.new_len /\ x.length_received = e.length_received
  BY <1>5 DEF Counters
<1>8. \A j \in Exchangers : ex'[p][j] = IF j = i THEN x ELSE ex[p][j]
  <2> HIDE DEF x
  <2> QED BY <1>1, <1>5
<1>9. /\ Exchangers' = Exchangers /\ n_turns' = n_turns
      /\ \A j : receive_from(p, j)' = receive_from(p, j)
  BY <1>2, SameConf
<1>10. \A r \in Players : At(r)' = At(r)
  <2> TAKE r \in Players
  <2>1. CASE r = p  BY <2>1, <1>1 DEF At
  <2>2. CASE r # p
    <3>1. pc'[r] = pc[r]  BY <2>2, <1>1, <1>3, OthersSame
    <3> QED BY <3>1, <1>1 DEF At
  <2> QED BY <2>1, <2>2
<1>11. PlayerOK(p)'
  <2>1. ASSUME NEW j \in Exchangers PROVE CountersOK(p, j)'
    <3>1. CountersOK(p, j)  BY <1>3 DEF PlayerOK
    <3>2. CASE j = i
      <4>1. ex'[p][j] = x  BY <3>2, <1>8
      <4>2. e.header + 1 <= LENGTH_SIZE  BY <1>4, <1>6
      <4> HIDE DEF x
      <4> QED BY <3>1, <3>2, <4>1, <4>2, <1>1, <1>2, <1>6, <1>7, <1>9 DEF CountersOK, Byte
    <3>3. CASE j # i
      <4>1. ex'[p][j] = ex[p][j]  BY <3>3, <1>8
      <4> QED BY <3>1, <4>1, <1>1, <1>2, <1>9 DEF CountersOK, Byte
    <3> QED BY <3>2, <3>3
  <2>2. PhaseOK(p)'
    <3> DEFINE hd(j) == ex[p][j].header
               hp(j) == ex'[p][j].header
    <3>1. \A j \in Exchangers : /\ j < i => hd(j) = LENGTH_SIZE
                                /\ j > i => hd(j) = 0
                                /\ ex[p][j].sent = 0 /\ ~ex[p][j].length_received
      BY <1>b, <1>1, <1>3 DEF PlayerOK, PhaseOK
    <3>2. \A j \in Exchangers : /\ ex'[p][j].sent = 0 /\ ~ex'[p][j].length_received
                                /\ hp(j) = IF j = i THEN e.header + 1 ELSE hd(j)
      <4> TAKE j \in Exchangers
      <4>1. CASE j = i
        <5>1. ex'[p][j] = x  BY <4>1, <1>8
        <5> HIDE DEF x
        <5> QED BY <4>1, <5>1, <1>6, <1>7
      <4>2. CASE j # i
        <5>1. ex'[p][j] = ex[p][j]  BY <4>2, <1>8
        <5> QED BY <4>2, <5>1, <3>1
      <4> QED BY <4>1, <4>2
    <3> DEFINE y == e.header
    <3>3. y \in Nat /\ y < LENGTH_SIZE  BY <1>6
    <3>4. i \in Nat /\ i \in Exchangers /\ \A j \in Exchangers : j \in Nat /\ j > 0  BY <1>4
    <3>5. CASE y + 1 < LENGTH_SIZE /\ pc'[p] = "ctor" /\ cur'[p] = i
      <4>1. \A j \in Exchangers : /\ j < i => hp(j) = LENGTH_SIZE
                                  /\ j = i => hp(j) < LENGTH_SIZE
                                  /\ j > i => hp(j) = 0
        <5> HIDE DEF hd, hp, y
        <5>1. \A j \in Exchangers : hp(j) = IF j = i THEN y + 1 ELSE hd(j)  BY <3>2 DEF y
        <5> QED BY <3>1, <3>3, <3>4, <3>5, <5>1
      <4> QED BY <3>2, <3>5, <4>1, <1>9 DEF PhaseOK
    <3>6. CASE ~(y + 1 < LENGTH_SIZE) /\ i + 1 \in Exchangers /\ pc'[p] = "ctor" /\ cur'[p] = i + 1
      <4>1. \A j \in Exchangers : /\ j < i + 1 => hp(j) = LENGTH_SIZE
                                  /\ j = i + 1 => hp(j) < LENGTH_SIZE
                                  /\ j > i + 1 => hp(j) = 0
        <5> HIDE DEF hd, hp, y
        <5>1. \A j \in Exchangers : hp(j) = IF j = i THEN y + 1 ELSE hd(j)  BY <3>2 DEF y
        <5>2. y + 1 = LENGTH_SIZE  BY <3>3, <3>6, <1>4
        <5>3. \A j \in Exchangers : /\ j < i + 1 => j < i \/ j = i
                                    /\ j = i + 1 => j > i /\ j # i
                                    /\ j > i + 1 => j > i /\ j # i
          BY <3>4
        <5> QED BY <3>1, <3>3, <5>1, <5>2, <5>3
      <4> QED BY <3>2, <3>6, <4>1, <1>9 DEF PhaseOK
    <3>7. CASE ~(y + 1 < LENGTH_SIZE) /\ i + 1 \notin Exchangers /\ pc'[p] = "send" /\ cur'[p] = 1
      <4>1. \A j \in Exchangers : j <= i  BY <3>7, <1>3, <1>4, LastExchanger
      <4>2. \A j \in Exchangers : hp(j) = LENGTH_SIZE
        <5> HIDE DEF hd, hp, y
        <5>1. \A j \in Exchangers : hp(j) = IF j = i THEN y + 1 ELSE hd(j)  BY <3>2 DEF y
        <5>2. y + 1 = LENGTH_SIZE  BY <3>3, <3>7, <1>4
        <5>3. \A j \in Exchangers : j = i \/ j < i  BY <3>4, <4>1
        <5> QED BY <3>1, <5>1, <5>2, <5>3
      <4>3. \A j \in Exchangers : ~(j < 1)  BY <3>4
      <4> QED BY <3>7, <4>2, <4>3, <1>9 DEF PhaseOK
    <3> QED BY <1>1, <3>5, <3>6, <3>7
  <2>3. GotOK(p)'
    <3>1. GotOK(p)  BY <1>3 DEF PlayerOK
    <3>2. \A j, t : Message(receive_from(p, j), t)' = Message(receive_from(p, j), t)
      BY <1>2 DEF Message, Byte, receive_from, offset
    <3> QED BY <3>1, <3>2, <1>1, <1>9, <1>10 DEF GotOK
  <2>4. ~moved'[p]  BY <1>1, <1>3 DEF PlayerOK
  <2> QED BY <2>1, <2>2, <2>3, <2>4, <1>9 DEF PlayerOK
<1>12. q \in Players /\ q # p  BY <1>3, <1>c, Peers DEF Shapes
<1>13. chan[<<p, q>>] \in Seq(Things) /\ h \in Things  BY <1>3, <1>4, <1>12, MessageType DEF Shapes
<1>14. ASSUME NEW r \in Players, NEW j \in Exchangers, ~(r = p /\ j = i)
       PROVE  ConnOK(r, j)'
  <2>1. PICK t \in Players : t = send_to(r, j)  BY <1>3, Peers DEF Shapes
  <2>2. <<r, t>> # <<p, q>>
    <3>1. CASE r # p  BY <3>1
    <3>2. CASE r = p
      <4>1. j # i  BY <3>2, <1>14
      <4>2. t # q  BY <3>2, <4>1, <2>1, <1>3, <1>c, Peers DEF Shapes
      <4> QED BY <4>2
    <3> QED BY <3>1, <3>2
  <2>3. chan'[<<r, t>>] = chan[<<r, t>>]
    BY <2>1, <2>2, <1>1, <1>3 DEF Shapes
  <2>4. Out(r, j)' = Out(r, j)
    <3>1. ex'[r][j] = ex[r][j]
      <4>1. CASE r # p
        <5>1. ex'[r] = ex[r]  BY <4>1, <1>1, <1>3, OthersSame
        <5> QED BY <5>1
      <4>2. CASE r = p
        <5>1. j # i  BY <4>2, <1>14
        <5> QED BY <4>2, <5>1, <1>8
      <4> QED BY <4>1, <4>2
    <3> QED BY <3>1 DEF Out
  <2>5. In(t, j)' = In(t, j)
    <3>1. CASE t # p
      <4>1. ex'[t] = ex[t]  BY <3>1, <1>1, <1>3, OthersSame
      <4> QED BY <4>1 DEF In
    <3>2. CASE t = p
      <4>1. ex'[p][j].received = ex[p][j].received /\ ex'[p][j].length_received = ex[p][j].length_received
        <5>1. CASE j = i
          <6>1. ex'[p][j] = x  BY <5>1, <1>8
          <6> HIDE DEF x
          <6> QED BY <5>1, <6>1, <1>7
        <5>2. CASE j # i
          <6>1. ex'[p][j] = ex[p][j]  BY <5>2, <1>8
          <6> QED BY <6>1
        <5> QED BY <5>1, <5>2
      <4> QED BY <3>2, <4>1 DEF In
    <3> QED BY <3>1, <3>2
  <2>6. At(r)' = At(r) /\ At(t)' = At(t) /\ turn'[r] = turn[r]  BY <1>1, <1>10, <2>1
  <2>7. ConnOK(r, j)  BY DEF Joint
  <2> QED BY <1>2, <2>1, <2>3, <2>4, <2>5, <2>6, <2>7, ConnFrame
<1>15. ConnOK(p, i)'
  <2> DEFINE c == chan[<<p, q>>]
             u == turn[p]
             out == Out(p, i)
             in == In(q, i)
             d == <<h>>
  <2>1. Flow(conf, p, u, At(p), out, At(q), in, c)  BY <1>c DEF Joint, ConnOK
  <2>2. At(p) = u  BY <1>1 DEF At
  <2>3. /\ conf \in Confs /\ p \in 0 .. conf.n - 1 /\ u \in 1 .. Len(conf.len)
        /\ out \in Nat
    BY <1>4, PlaceOf DEF Joint, SafePlayer
  <2>4. in \in Nat  BY <1>4, <1>12, PlaceOf DEF Joint, SafePlayer
  <2>5. out = e.header /\ Out(p, i)' = out + 1
    <3>1. ex'[p][i] = x  BY <1>4, <1>8
    <3> DEFINE y == e.header
    <3>2. out = y + e.sent /\ Out(p, i)' = x.header + x.sent  BY <3>1 DEF Out
    <3>3. y \in Nat /\ e.sent = 0 /\ x.header = y + 1 /\ x.sent = 0  BY <1>6, <1>7
    <3> HIDE DEF x, out, y
    <3>4. out = y /\ Out(p, i)' = y + 1  BY <3>2, <3>3
    <3> QED BY <3>4 DEF y
  <2>6. d \in Seq(Things) /\ Len(d) = 1 /\ d[1] = h /\ Append(c, h) = c \o d
    <3> HIDE DEF h, c
    <3>1. d \in Seq(Things) /\ Len(d) = 1 /\ d[1] = h  BY <1>13
    <3> QED BY <3>1, <1>13, AppendIsConcat DEF c
  <2>7. out < LENGTH_SIZE  BY <2>5, <1>6
  <2>8. Size(conf, p, u) \in Nat /\ Size(conf, p, u) >= LENGTH_SIZE  BY <2>3, SizeType
  <2>9. out + Len(d) <= Size(conf, p, u)
    <3> DEFINE z == Size(conf, p, u)
    <3>1. z \in Nat /\ z >= LENGTH_SIZE  BY <2>8
    <3> HIDE DEF z, out, d
    <3>2. out + Len(d) <= z  BY <3>1, <2>3, <2>6, <2>7, <1>4
    <3> QED BY <3>2 DEF z
  <2>10. \A k \in 1 .. Len(d) : d[k] = Item(conf, p, u, out + k - 1)
    <3>1. Item(conf, p, u, out) = h
      <4> HIDE DEF out
      <4> QED BY <2>7 DEF Item, Header
    <3> HIDE DEF d, h, out
    <3> TAKE k \in 1 .. Len(d)
    <3>2. k = 1  BY <2>6
    <3>3. out + k - 1 = out  BY <3>2, <2>3
    <3> QED BY <3>1, <3>2, <3>3, <2>6
  <2>11. Flow(conf, p, u, u, out + Len(d), At(q), in, c \o d)
    <3>1. Flow(conf, p, u, u, out, At(q), in, c)  BY <2>1, <2>2
    <3>2. c \in Seq(Things)  BY <1>13
    <3> HIDE DEF u, out, in, c, d
    <3> QED BY <2>3, <2>4, <2>6, <2>9, <2>10, <3>1, <3>2, FlowAppend
  <2>12. chan'[<<p, q>>] = c \o d
    <3>1. chan'[<<p, q>>] = Append(c, h)
      <4> HIDE DEF h
      <4> QED BY <1>1, <1>3, <1>12 DEF Shapes
    <3> QED BY <3>1, <2>6
  <2>13. At(p)' = u /\ At(q)' = At(q) /\ turn'[p] = u  BY <2>2, <1>1, <1>10, <1>12
  <2>14. In(q, i)' = in
    <3>1. ex'[q] = ex[q]  BY <1>1, <1>3, <1>12, OthersSame
    <3> QED BY <3>1 DEF In
  <2>15. Out(p, i)' = out + Len(d)  BY <2>5, <2>6
  <2>16. Flow(conf, p, turn'[p], At(p)', Out(p, i)', At(q)', In(q, i)', chan'[<<p, q>>])
    <3> HIDE DEF u, out, in, c, d
    <3> QED BY <2>11, <2>12, <2>13, <2>14, <2>15
  <2> QED BY <1>2, <1>c, <2>16, ConnPrime
<1> QED BY <1>11, <1>14, <1>15

(* A part of the message is written.                                       *)
LEMMA SendSafe ==
    ASSUME Joint, NEW p \in Players, Send(p)
    PROVE  /\ PlayerOK(p)'
           /\ \A q \in Players, i \in Exchangers : ConnOK(q, i)'
<1>a. Shapes  BY DEF Joint, StreamsInv
<1>b. PICK i \in Exchangers : i = cur[p]  BY <1>a, Basics
<1>c. PICK q \in Players : q = send_to(p, i)  BY <1>a, Peers DEF Shapes
<1> DEFINE e == ex[p][i]
<1>1. /\ OnlyAt(p) /\ pc[p] = "send" /\ pc'[p] = "recv"
      /\ turn' = turn /\ cur' = cur /\ left' = left /\ stream' = stream /\ moved' = moved /\ got' = got
  BY SendStep, Zenon DEF Joint
<1>2. \/ chan' = chan /\ ex' = ex
      \/ \E l \in 0 .. len(p) - e.sent, d \in Data(p) :
           /\ e.sent < len(p)
           /\ d \in Seq(Things) /\ len(p) <= Len(d)
           /\ chan' = [chan EXCEPT ![<<p, q>>] =
                         chan[<<p, q>>] \o SubSeq(d, e.sent + 1, e.sent + l)]
           /\ ex'[p] = [ex[p] EXCEPT ![i] = [e EXCEPT !.sent = e.sent + l]]
  BY <1>b, <1>c, SendStep, Zenon DEF Joint
<1>3. conf' = conf  BY <1>1 DEF OnlyAt
<1>4. PlayerOK(p) /\ StreamsInv  BY DEF Joint
<1>5. /\ Exchangers \subseteq Nat \ {0} /\ LENGTH_SIZE \in Nat /\ LENGTH_SIZE > 0
      /\ turn[p] \in 1 .. n_turns /\ len(p) \in Nat
  BY <1>a, Basics
<1>6. ex[p] \in [Exchangers -> Counters] /\ e \in Counters  BY <1>a DEF Shapes
<1>7. e.sent \in Nat /\ e.header = LENGTH_SIZE
  BY <1>1, <1>4, <1>6 DEF PlayerOK, PhaseOK, Counters
<1>8. /\ Exchangers' = Exchangers /\ n_turns' = n_turns
      /\ \A j : receive_from(p, j)' = receive_from(p, j)
  BY <1>3, SameConf
<1>9. \A r \in Players : At(r)' = At(r)
  <2> TAKE r \in Players
  <2>1. CASE r = p  BY <2>1, <1>1 DEF At
  <2>2. CASE r # p
    <3>1. pc'[r] = pc[r]  BY <2>2, <1>a, <1>1, OthersSame
    <3> QED BY <3>1, <1>1 DEF At
  <2> QED BY <2>1, <2>2
<1>10. GotOK(p)'
  <2>1. GotOK(p)  BY <1>4 DEF PlayerOK
  <2>2. \A j, t : Message(receive_from(p, j), t)' = Message(receive_from(p, j), t)
    BY <1>3 DEF Message, Byte, receive_from, offset
  <2> QED BY <2>1, <2>2, <1>1, <1>8, <1>9 DEF GotOK
<1>11. ~moved'[p]  BY <1>1, <1>4 DEF PlayerOK
<1>12. q # p  BY <1>a, <1>c, Peers DEF Shapes
<1>13. CASE chan' = chan /\ ex' = ex
  <2>1. ASSUME NEW j \in Exchangers PROVE CountersOK(p, j)'
    <3>1. CountersOK(p, j)  BY <1>4 DEF PlayerOK
    <3> QED BY <3>1, <1>1, <1>3, <1>8, <1>13 DEF CountersOK, Byte
  <2>2. PhaseOK(p)'
    <3>1. len(p)' = len(p)  BY <1>1, <1>3 DEF len
    <3> QED BY <3>1, <1>1, <1>4, <1>8, <1>13 DEF PlayerOK, PhaseOK, More
  <2>3. PlayerOK(p)'  BY <2>1, <2>2, <1>8, <1>10, <1>11 DEF PlayerOK
  <2>4. ASSUME NEW r \in Players, NEW j \in Exchangers PROVE ConnOK(r, j)'
    <3>1. PICK t \in Players : t = send_to(r, j)  BY <1>a, Peers DEF Shapes
    <3>2. At(r)' = At(r) /\ At(t)' = At(t) /\ turn'[r] = turn[r]  BY <1>1, <1>9
    <3>3. Out(r, j)' = Out(r, j) /\ In(t, j)' = In(t, j)  BY <1>13 DEF Out, In
    <3>4. ConnOK(r, j)  BY DEF Joint
    <3> QED BY <1>3, <1>13, <3>1, <3>2, <3>3, <3>4, ConnFrame
  <2> QED BY <2>3, <2>4
<1>14. ASSUME NEW l \in 0 .. len(p) - e.sent, NEW d \in Data(p),
              e.sent < len(p), d \in Seq(Things), len(p) <= Len(d),
              chan' = [chan EXCEPT ![<<p, q>>] =
                         chan[<<p, q>>] \o SubSeq(d, e.sent + 1, e.sent + l)],
              ex'[p] = [ex[p] EXCEPT ![i] = [e EXCEPT !.sent = e.sent + l]]
       PROVE  /\ PlayerOK(p)'
              /\ \A r \in Players, j \in Exchangers : ConnOK(r, j)'
  <2> DEFINE x == [e EXCEPT !.sent = e.sent + l]
  <2>1. l \in Nat /\ e.sent + l \in Nat /\ e.sent + l <= len(p)  BY <1>5, <1>7
  <2>2. /\ x.header = e.header /\ x.sent = e.sent + l /\ x.received = e.received
        /\ x.new_len = e.new_len /\ x.length_received = e.length_received
    BY <1>6 DEF Counters
  <2>3. \A j \in Exchangers : ex'[p][j] = IF j = i THEN x ELSE ex[p][j]
    <3>1. ex'[p] = [ex[p] EXCEPT ![i] = x]  BY <1>14
    <3> HIDE DEF x
    <3> QED BY <3>1, <1>6
  <2>4. ASSUME NEW j \in Exchangers PROVE CountersOK(p, j)'
    <3>1. CountersOK(p, j)  BY <1>4 DEF PlayerOK
    <3>2. CASE j = i
      <4>1. ex'[p][j] = x  BY <3>2, <2>3
      <4> HIDE DEF x
      <4> QED BY <3>1, <3>2, <4>1, <2>2, <1>1, <1>3, <1>5, <1>7, <1>8 DEF CountersOK, Byte
    <3>3. CASE j # i
      <4>1. ex'[p][j] = ex[p][j]  BY <3>3, <2>3
      <4> QED BY <3>1, <4>1, <1>1, <1>3, <1>8 DEF CountersOK, Byte
    <3> QED BY <3>2, <3>3
  <2>5. PhaseOK(p)'
    <3>1. len(p)' = len(p)  BY <1>1, <1>3 DEF len
    <3>2. \A j \in Exchangers : ex'[p][j].header = LENGTH_SIZE
      <4> TAKE j \in Exchangers
      <4>1. CASE j = i
        <5>1. ex'[p][j] = x  BY <4>1, <2>3
        <5> HIDE DEF x
        <5> QED BY <5>1, <2>2, <1>7
      <4>2. CASE j # i
        <5>1. ex'[p][j] = ex[p][j]  BY <4>2, <2>3
        <5> QED BY <5>1, <1>1, <1>4 DEF PlayerOK, PhaseOK
      <4> QED BY <4>1, <4>2
    <3>3. ASSUME ~left[p], NEW j \in Exchangers, j < i PROVE ~More(ex'[p][j], len(p))
      <4>1. ~More(ex[p][j], len(p))  BY <3>3, <1>b, <1>1, <1>4 DEF PlayerOK, PhaseOK
      <4>2. j # i  BY <3>3, <1>5
      <4>3. ex'[p][j] = ex[p][j]  BY <4>2, <2>3
      <4> QED BY <4>1, <4>3
    <3>4. ASSUME ~left'[p], NEW j \in Exchangers, j < cur'[p] PROVE ~More(ex[p][j], len(p))'
      <4>1. ~More(ex'[p][j], len(p))  BY <3>3, <3>4, <1>1, <1>b
      <4> QED BY <4>1, <3>1 DEF More
    <3> QED BY <3>2, <3>4, <1>1, <1>8 DEF PhaseOK
  <2>6. PlayerOK(p)'  BY <2>4, <2>5, <1>8, <1>10, <1>11 DEF PlayerOK
  <2>7. ASSUME NEW r \in Players, NEW j \in Exchangers, ~(r = p /\ j = i)
        PROVE  ConnOK(r, j)'
    <3>1. PICK t \in Players : t = send_to(r, j)  BY <1>a, Peers DEF Shapes
    <3>2. <<r, t>> # <<p, q>>
      <4>1. CASE r # p  BY <4>1
      <4>2. CASE r = p
        <5>1. j # i  BY <4>2, <2>7
        <5>2. t # q  BY <4>2, <5>1, <3>1, <1>a, <1>c, Peers DEF Shapes
        <5> QED BY <5>2
      <4> QED BY <4>1, <4>2
    <3>3. chan'[<<r, t>>] = chan[<<r, t>>]  BY <3>1, <3>2, <1>a, <1>14 DEF Shapes
    <3>4. Out(r, j)' = Out(r, j)
      <4>1. ex'[r][j] = ex[r][j]
        <5>1. CASE r # p
          <6>1. ex'[r] = ex[r]  BY <5>1, <1>a, <1>1, OthersSame
          <6> QED BY <6>1
        <5>2. CASE r = p
          <6>1. j # i  BY <5>2, <2>7
          <6> QED BY <5>2, <6>1, <2>3
        <5> QED BY <5>1, <5>2
      <4> QED BY <4>1 DEF Out
    <3>5. In(t, j)' = In(t, j)
      <4>1. CASE t # p
        <5>1. ex'[t] = ex[t]  BY <4>1, <1>a, <1>1, OthersSame
        <5> QED BY <5>1 DEF In
      <4>2. CASE t = p
        <5>1. ex'[p][j].received = ex[p][j].received /\ ex'[p][j].length_received = ex[p][j].length_received
          <6>1. CASE j = i
            <7>1. ex'[p][j] = x  BY <6>1, <2>3
            <7> HIDE DEF x
            <7> QED BY <6>1, <7>1, <2>2
          <6>2. CASE j # i
            <7>1. ex'[p][j] = ex[p][j]  BY <6>2, <2>3
            <7> QED BY <7>1
          <6> QED BY <6>1, <6>2
        <5> QED BY <4>2, <5>1 DEF In
      <4> QED BY <4>1, <4>2
    <3>6. At(r)' = At(r) /\ At(t)' = At(t) /\ turn'[r] = turn[r]  BY <1>1, <1>9, <3>1
    <3>7. ConnOK(r, j)  BY DEF Joint
    <3> QED BY <1>3, <3>1, <3>3, <3>4, <3>5, <3>6, <3>7, ConnFrame
  <2>8. ConnOK(p, i)'
    <3> DEFINE c == chan[<<p, q>>]
               u == turn[p]
               out == Out(p, i)
               in == In(q, i)
               y == e.sent
               b == SubSeq(d, y + 1, y + l)
    <3>1. Flow(conf, p, u, At(p), out, At(q), in, c)  BY <1>c DEF Joint, ConnOK
    <3>2. At(p) = u  BY <1>1 DEF At
    <3>3. /\ conf \in Confs /\ p \in 0 .. conf.n - 1 /\ u \in 1 .. Len(conf.len)
          /\ out \in Nat
      BY PlaceOf DEF Joint, SafePlayer
    <3>4. in \in Nat  BY PlaceOf DEF Joint, SafePlayer
    <3>5. out = LENGTH_SIZE + y /\ Out(p, i)' = out + l
      <4>1. ex'[p][i] = x  BY <2>3
      <4>2. out = e.header + y /\ Out(p, i)' = x.header + x.sent  BY <4>1 DEF Out
      <4>3. y \in Nat /\ e.header = LENGTH_SIZE /\ x.header = LENGTH_SIZE /\ x.sent = y + l
        BY <1>7, <2>2
      <4> HIDE DEF x, out, y
      <4> QED BY <4>2, <4>3, <2>1, <1>5
    <3>6. y \in Nat /\ y + l <= len(p) /\ len(p) <= Len(d) /\ Len(d) \in Nat
      BY <1>7, <1>14, <2>1, LenProperties
    <3>7. b \in Seq(Things) /\ Len(b) = l /\ \A k \in 1 .. l : b[k] = d[y + k]
      <4> HIDE DEF y
      <4>1. \A k \in y + 1 .. y + l : k \in 1 .. Len(d)  BY <3>6, <2>1, <1>5
      <4>2. (y + l) - (y + 1) + 1 = l /\ \A k \in 1 .. l : (y + 1) + k - 1 = y + k  BY <3>6, <2>1
      <4>3. y + 1 \in Int /\ y + l \in Int /\ d \in Seq(Things)  BY <3>6, <2>1, <1>14
      <4> QED BY <4>1, <4>2, <4>3, <3>6, <2>1, <1>5
    <3>8. \A k \in y + 1 .. len(p) : d[k] = Byte(p, u, k)
      <4>1. d = IF conf.same THEN stream[p][1] ELSE Message(p, turn[p])
        BY <1>4, <1>14 DEF PlayerOK, Data
      <4>2. CASE conf.same
        <5>1. InPlace(p) /\ pc[p] \in Active /\ i = 1
          BY <4>2, <1>a, <1>1, <1>4, Basics DEF StreamsInv, Active
        <5> QED BY <4>1, <4>2, <5>1 DEF InPlace
      <4>3. CASE ~conf.same
        <5>1. \A k \in 1 .. conf.len[u][p] : Message(p, u)[k] = Byte(p, u, k)
          <6> HIDE DEF u
          <6>1. u \in 1 .. n_turns  BY <1>5 DEF u
          <6> QED BY <1>a, <6>1, MessageType
        <5>2. \A k \in y + 1 .. len(p) : k \in 1 .. conf.len[u][p]
          <6>1. len(p) = conf.len[u][p]  BY DEF len
          <6> HIDE DEF y, u
          <6> QED BY <6>1, <3>6, <1>5
        <5> QED BY <4>1, <4>3, <5>1, <5>2
      <4> QED BY <4>2, <4>3
    <3>9. out + Len(b) <= Size(conf, p, u)
      <4>1. Size(conf, p, u) = LENGTH_SIZE + len(p)  BY DEF Size, len
      <4> HIDE DEF b, out, y, u
      <4> QED BY <4>1, <3>5, <3>6, <3>7, <2>1, <1>5
    <3>10. \A k \in 1 .. Len(b) : b[k] = Item(conf, p, u, out + k - 1)
      <4> HIDE DEF b, out, y, u
      <4> TAKE k \in 1 .. Len(b)
      <4>1. k \in 1 .. l /\ k \in Nat /\ y + k \in y + 1 .. len(p)  BY <3>6, <3>7, <2>1, <1>5
      <4>2. b[k] = Byte(p, u, y + k)  BY <4>1, <3>7, <3>8
      <4>3. ~(out + k - 1 < LENGTH_SIZE) /\ (out + k - 1) - LENGTH_SIZE + 1 = y + k
        BY <4>1, <3>5, <3>6, <1>5
      <4> QED BY <4>2, <4>3 DEF Item, Byte
    <3>11. Flow(conf, p, u, u, out + Len(b), At(q), in, c \o b)
      <4>1. Flow(conf, p, u, u, out, At(q), in, c)  BY <3>1, <3>2
      <4>2. c \in Seq(Things)  BY <1>a DEF Shapes
      <4>3. b \in Seq(Things)  BY <3>7
      <4> HIDE DEF u, out, in, c, b
      <4> QED BY <3>3, <3>4, <3>9, <3>10, <4>1, <4>2, <4>3, FlowAppend
    <3>12. chan'[<<p, q>>] = c \o b
      <4>1. chan' = [chan EXCEPT ![<<p, q>>] = c \o b]  BY <1>14
      <4> HIDE DEF c, b
      <4> QED BY <4>1, <1>a DEF Shapes
    <3>13. At(p)' = u /\ At(q)' = At(q) /\ turn'[p] = u  BY <3>2, <1>1, <1>9
    <3>14. In(q, i)' = in
      <4>1. ex'[q] = ex[q]  BY <1>a, <1>1, <1>12, OthersSame
      <4> QED BY <4>1 DEF In
    <3>15. Out(p, i)' = out + Len(b)  BY <3>5, <3>7
    <3>16. Flow(conf, p, turn'[p], At(p)', Out(p, i)', At(q)', In(q, i)', chan'[<<p, q>>])
      <4> HIDE DEF u, out, in, c, b
      <4> QED BY <3>11, <3>12, <3>13, <3>14, <3>15
    <3> QED BY <1>3, <1>c, <3>16, ConnPrime
  <2> QED BY <2>6, <2>7, <2>8
<1> QED BY <1>2, <1>13, <1>14

-----------------------------------------------------------------------------
(* The end of a round, after which the exchanger's state is e and its      *)
(* stream s.                                                               *)
RoundOK(p, i, e, s) ==
    /\ i \in Exchangers /\ i = cur[p] /\ pc[p] = "recv"
    /\ e \in Counters /\ s \in Seq(Things)
    /\ e.header = LENGTH_SIZE /\ e.sent = ex[p][i].sent
    /\ e.new_len = IF e.length_received THEN conf.len[turn[p]][receive_from(p, i)] ELSE 0
    /\ e.received <= e.new_len /\ e.received <= Len(s)
    /\ \A k \in 1 .. e.received : s[k] = Byte(receive_from(p, i), turn[p], k)

(* An exchange ends only when all its exchangers have the messages.        *)
LEMMA EndsComplete ==
    ASSUME Joint, NEW p \in Players, NEW i, NEW e, NEW s, RoundOK(p, i, e, s), Ends(p, e, s),
           NEW j \in Exchangers, NEW f, f = IF j = i THEN e ELSE ex[p][j],
           NEW g, g = IF j = i THEN s ELSE stream[p][j]
    PROVE  /\ f \in Counters /\ g \in Seq(Things)
           /\ f.header = LENGTH_SIZE /\ f.sent = len(p)
           /\ f.length_received /\ f.new_len = conf.len[turn[p]][receive_from(p, j)]
           /\ f.received = f.new_len /\ f.new_len <= Len(g)
           /\ \A k \in 1 .. f.new_len : g[k] = Byte(receive_from(p, j), turn[p], k)
<1>1. Shapes /\ PlayerOK(p) /\ StreamsInv  BY DEF Joint, StreamsInv
<1>2. /\ i \in Exchangers /\ i = cur[p] /\ pc[p] = "recv" /\ e \in Counters /\ s \in Seq(Things)
  BY DEF RoundOK
<1>3. len(p) \in Nat /\ Exchangers \subseteq Nat \ {0}  BY <1>1, Basics
<1>4. CASE j = i
  <2>1. f = e /\ g = s  BY <1>4
  <2>2. ~More(e, len(p))  BY DEF Ends
  <2>3. e.sent <= len(p)  BY <1>1, <1>2 DEF RoundOK, StreamsInv, Bounded
  <2>4. /\ e.header = LENGTH_SIZE /\ e.received <= e.new_len /\ e.received <= Len(s)
        /\ e.new_len = IF e.length_received THEN conf.len[turn[p]][receive_from(p, i)] ELSE 0
        /\ \A k \in 1 .. e.received : s[k] = Byte(receive_from(p, i), turn[p], k)
    BY DEF RoundOK
  <2>5. e.sent \in Nat /\ e.received \in Nat /\ e.new_len \in Nat  BY <1>2 DEF Counters
  <2>6. e.length_received /\ e.sent = len(p) /\ e.received = e.new_len
    BY <2>2, <2>3, <2>4, <2>5, <1>3 DEF More
  <2> QED BY <1>2, <1>4, <2>1, <2>4, <2>6
<1>5. CASE j # i
  <2>1. f = ex[p][j] /\ g = stream[p][j]  BY <1>5
  <2>2. f \in Counters /\ g \in Seq(Things)  BY <2>1, <1>1 DEF Shapes
  <2>3. j < i
    <3>1. i + 1 \notin Exchangers  BY <1>2 DEF Ends
    <3>2. j <= i  BY <1>1, <1>2, <3>1, LastExchanger
    <3> QED BY <1>2, <1>3, <1>5, <3>2
  <2>4. ~left[p]  BY DEF Ends
  <2>5. ~More(f, len(p)) /\ f.header = LENGTH_SIZE
    BY <1>1, <1>2, <2>1, <2>3, <2>4 DEF PlayerOK, PhaseOK
  <2>6. f.sent <= len(p) /\ f.received <= Len(g)  BY <1>1, <2>1 DEF StreamsInv, Bounded
  <2>7. /\ f.received <= f.new_len
        /\ f.new_len = IF f.length_received THEN conf.len[turn[p]][receive_from(p, j)] ELSE 0
        /\ \A k \in 1 .. f.received : g[k] = Byte(receive_from(p, j), turn[p], k)
    BY <1>1, <2>1 DEF PlayerOK, CountersOK
  <2>8. f.sent \in Nat /\ f.received \in Nat /\ f.new_len \in Nat  BY <2>2 DEF Counters
  <2>9. f.length_received /\ f.sent = len(p) /\ f.received = f.new_len
    BY <2>5, <2>6, <2>7, <2>8, <1>3 DEF More
  <2> QED BY <2>2, <2>5, <2>6, <2>7, <2>9
<1> QED BY <1>4, <1>5

(* What the exchange hands to its caller.                                  *)
LEMMA HandsOver ==
    ASSUME Joint, NEW p \in Players, NEW i, NEW e, NEW s, RoundOK(p, i, e, s), Ends(p, e, s)
    PROVE  got'[p] = Append(got[p], [j \in Exchangers |-> Message(receive_from(p, j), turn[p])])
<1>1. Shapes /\ StreamsInv  BY DEF Joint, StreamsInv
<1>2. i = cur[p] /\ i \in Exchangers  BY DEF RoundOK
<1>3. got'[p] = Append(got[p], [j \in Exchangers |->
           SubSeq([stream[p] EXCEPT ![cur[p]] = s][j], 1,
                  IF j = cur[p] THEN e.new_len ELSE ex[p][j].new_len)])
  BY Zenon DEF Ends
<1>4. ASSUME NEW j \in Exchangers
      PROVE  SubSeq([stream[p] EXCEPT ![cur[p]] = s][j], 1,
                    IF j = cur[p] THEN e.new_len ELSE ex[p][j].new_len)
             = Message(receive_from(p, j), turn[p])
  <2> DEFINE f == IF j = i THEN e ELSE ex[p][j]
             g == IF j = i THEN s ELSE stream[p][j]
             q == receive_from(p, j)
             M == Message(q, turn[p])
             m == f.new_len
  <2>1. [stream[p] EXCEPT ![cur[p]] = s][j] = g
    <3>1. stream[p] \in [Exchangers -> Seq(Things)]  BY <1>1 DEF Shapes
    <3> QED BY <3>1, <1>2
  <2>2. (IF j = cur[p] THEN e.new_len ELSE ex[p][j].new_len) = m  BY <1>2
  <2>3. /\ f \in Counters /\ g \in Seq(Things)
        /\ m = conf.len[turn[p]][q] /\ m <= Len(g)
        /\ \A k \in 1 .. m : g[k] = Byte(q, turn[p], k)
    <3>1. PICK ff : ff = f  OBVIOUS
    <3>2. PICK gg : gg = g  OBVIOUS
    <3>3. /\ ff \in Counters /\ gg \in Seq(Things)
          /\ ff.new_len = conf.len[turn[p]][q] /\ ff.new_len <= Len(gg)
          /\ \A k \in 1 .. ff.new_len : gg[k] = Byte(q, turn[p], k)
      BY <3>1, <3>2, EndsComplete
    <3> HIDE DEF f, g
    <3> QED BY <3>1, <3>2, <3>3
  <2>4. M = [k \in 1 .. m |-> Byte(q, turn[p], k)]  BY <2>3 DEF Message
  <2>5. m \in Nat  BY <2>3 DEF Counters
  <2> HIDE DEF f, g, m, M, q
  <2>6. Len(g) \in Nat  BY <2>3, LenProperties
  <2>7. SubSeq(g, 1, m) = M
    <3>1. SubSeq(g, 1, m) = [k \in 1 .. m |-> g[k]]  BY <2>3, <2>5, <2>6
    <3>2. [k \in 1 .. m |-> g[k]] = [k \in 1 .. m |-> Byte(q, turn[p], k)]  BY <2>3
    <3> QED BY <3>1, <3>2, <2>4
  <2>8. SubSeq([stream[p] EXCEPT ![cur[p]] = s][j], 1,
               IF j = cur[p] THEN e.new_len ELSE ex[p][j].new_len) = M
    BY <2>1, <2>2, <2>7
  <2> QED BY <2>8 DEF M, q
<1> QED BY <1>3, <1>4

LEMMA RoundPlayer ==
    ASSUME Joint, NEW p \in Players, conf' = conf,
           NEW i, NEW e, NEW s, RoundOK(p, i, e, s), EndRound(p, e, s, FALSE)
    PROVE  PlayerOK(p)'
<1>1. Shapes /\ PlayerOK(p) /\ StreamsInv  BY DEF Joint, StreamsInv
<1>2. /\ i \in Exchangers /\ i = cur[p] /\ pc[p] = "recv" /\ e \in Counters /\ s \in Seq(Things)
  BY DEF RoundOK
<1>3. /\ OnlyAt(p)
      /\ \/ GoesOn(p, e, s, FALSE)
         \/ Ends(p, e, s) /\ EndsForNext(p)
         \/ Ends(p, e, s) /\ EndsAll(p, s)
  <2>1. FALSE \in BOOLEAN  OBVIOUS
  <2> QED BY <1>1, <1>2, <2>1, RoundEffect, Zenon
<1>4. /\ Exchangers' = Exchangers /\ n_turns' = n_turns
      /\ \A j : receive_from(p, j)' = receive_from(p, j)
  BY SameConf
<1>5. /\ Exchangers \subseteq Nat \ {0} /\ LENGTH_SIZE \in Nat /\ LENGTH_SIZE > 0
      /\ turn[p] \in 1 .. n_turns /\ turn[p] \in Nat /\ n_turns \in Nat
  BY <1>1, Basics
<1>6. ex[p] \in [Exchangers -> Counters] /\ stream[p] \in [Exchangers -> Seq(Things)]
  BY <1>1 DEF Shapes
<1>7. \A j, t : Message(receive_from(p, j), t)' = Message(receive_from(p, j), t)
  BY DEF Message, Byte, receive_from, offset
<1>8. GotOK(p)  BY <1>1 DEF PlayerOK
<1>9. CASE GoesOn(p, e, s, FALSE)
  <2>1. \A j \in Exchangers : /\ ex'[p][j] = IF j = i THEN e ELSE ex[p][j]
                              /\ stream'[p][j] = IF j = i THEN s ELSE stream[p][j]
    BY <1>2, <1>6, <1>9 DEF GoesOn
  <2>2. turn'[p] = turn[p] /\ got'[p] = got[p] /\ pc'[p] = "send" /\ moved'[p] = FALSE
    BY <1>9 DEF GoesOn
  <2>3. ASSUME NEW j \in Exchangers PROVE CountersOK(p, j)'
    <3>1. CASE j = i
      <4>1. ex'[p][j] = e /\ stream'[p][j] = s  BY <3>1, <2>1
      <4> QED BY <3>1, <4>1, <2>2, <1>4, <1>5 DEF CountersOK, RoundOK, Byte
    <3>2. CASE j # i
      <4>1. ex'[p][j] = ex[p][j] /\ stream'[p][j] = stream[p][j]  BY <3>2, <2>1
      <4>2. CountersOK(p, j)  BY <1>1 DEF PlayerOK
      <4> QED BY <4>1, <4>2, <2>2, <1>4 DEF CountersOK, Byte
    <3> QED BY <3>1, <3>2
  <2>4. PhaseOK(p)'
    <3>1. len(p)' = len(p)  BY <2>2 DEF len
    <3>2. \A j \in Exchangers : ex'[p][j].header = LENGTH_SIZE
      <4> TAKE j \in Exchangers
      <4>1. CASE j = i  BY <4>1, <2>1 DEF RoundOK
      <4>2. CASE j # i
        <5>1. ex'[p][j] = ex[p][j]  BY <4>2, <2>1
        <5> QED BY <5>1, <1>1, <1>2 DEF PlayerOK, PhaseOK
      <4> QED BY <4>1, <4>2
    <3>3. ASSUME ~left'[p], NEW j \in Exchangers, j < cur'[p] PROVE ~More(ex[p][j], len(p))'
      <4>1. cur'[p] = i + 1 /\ i + 1 \in Exchangers
        <5>1. cur'[p] = IF i + 1 \in Exchangers THEN i + 1 ELSE 1  BY <1>2, <1>9 DEF GoesOn
        <5>2. cur'[p] # 1  BY <3>3, <1>5
        <5> QED BY <5>1, <5>2
      <4>2. ~left[p] /\ ~More(e, len(p))
        <5>1. left'[p] = (i + 1 \in Exchangers /\ (left[p] \/ More(e, len(p))))
          BY <1>2, <1>9, Zenon DEF GoesOn
        <5> QED BY <3>3, <4>1, <5>1
      <4>3. ~More(ex'[p][j], len(p))
        <5>1. CASE j = i
          <6>1. ex'[p][j] = e  BY <5>1, <2>1
          <6> QED BY <6>1, <4>2
        <5>2. CASE j # i
          <6>1. ex'[p][j] = ex[p][j]  BY <5>2, <2>1
          <6>2. j < i  BY <5>2, <3>3, <4>1, <1>2, <1>5
          <6> QED BY <6>1, <6>2, <4>2, <1>1, <1>2 DEF PlayerOK, PhaseOK
        <5> QED BY <5>1, <5>2
      <4> QED BY <4>3, <3>1 DEF More
    <3> QED BY <3>2, <3>3, <2>2, <1>4 DEF PhaseOK
  <2>5. GotOK(p)'
    <3>1. At(p)' = At(p)  BY <2>2, <1>2 DEF At
    <3> QED BY <3>1, <2>2, <1>4, <1>7, <1>8 DEF GotOK
  <2> QED BY <2>2, <2>3, <2>4, <2>5, <1>4 DEF PlayerOK
<1>10. ASSUME Ends(p, e, s), At(p)' = turn[p] + 1
       PROVE  /\ \A j \in Exchangers : CountersOK(p, j)' /\ ex'[p][j] = NewExchanger
              /\ GotOK(p)' /\ ~moved'[p]
  <2>1. \A j \in Exchangers : ex'[p][j] = NewExchanger  BY <1>10 DEF Ends
  <2>2. \A j \in Exchangers : CountersOK(p, j)'
    <3> TAKE j \in Exchangers
    <3>1. /\ ex'[p][j].header = 0 /\ ex'[p][j].sent = 0 /\ ex'[p][j].received = 0
          /\ ex'[p][j].new_len = 0 /\ ~ex'[p][j].length_received
      BY <2>1 DEF NewExchanger
    <3> QED BY <3>1, <1>5 DEF CountersOK
  <2>3. GotOK(p)'
    <3> DEFINE t == turn[p]
               D == [j \in Exchangers |-> Message(receive_from(p, j), t)]
               T == [Exchangers -> Seq(Things)]
    <3>1. got'[p] = Append(got[p], D)  BY <1>10, HandsOver
    <3>2. At(p) = t  BY <1>2 DEF At
    <3>3. got[p] \in Seq(T) /\ Len(got[p]) = t - 1  BY <3>2, <1>8 DEF GotOK
    <3>4. D \in T
      <4>1. ASSUME NEW j \in Exchangers PROVE Message(receive_from(p, j), t) \in Seq(Things)
        <5>1. receive_from(p, j) \in Players  BY <1>1, Peers DEF Shapes
        <5> QED BY <5>1, <1>1, <1>5, MessageType
      <4> QED BY <4>1
    <3>5. \A u \in 1 .. t - 1, j \in Exchangers : got[p][u][j] = Message(receive_from(p, j), u)
      BY <3>3, <1>8 DEF GotOK
    <3>6. \A j \in Exchangers : D[j] = Message(receive_from(p, j), t)  OBVIOUS
    <3>7. t \in Nat /\ t > 0  BY <1>5
    <3> HIDE DEF t, D, T
    <3>8. /\ got'[p] \in Seq(T) /\ Len(got'[p]) = t /\ got'[p][t] = D
          /\ \A u \in 1 .. t - 1 : got'[p][u] = got[p][u]
      BY <3>1, <3>3, <3>4, <3>7, AppendProperties
    <3>9. \A u \in 1 .. t, j \in Exchangers : got'[p][u][j] = Message(receive_from(p, j), u)
      <4> TAKE u \in 1 .. t, j \in Exchangers
      <4>1. CASE u = t  BY <4>1, <3>6, <3>8
      <4>2. CASE u # t
        <5>1. u \in 1 .. t - 1  BY <4>2, <3>7
        <5> QED BY <5>1, <3>5, <3>8
      <4> QED BY <4>1, <4>2
    <3>10. At(p)' - 1 = t
      <4>1. At(p)' = t + 1  BY <1>10 DEF t
      <4> QED BY <4>1, <3>7
    <3> QED BY <3>8, <3>9, <3>10, <1>4, <1>7 DEF GotOK, T
  <2>4. ~moved'[p]  BY <1>10 DEF Ends
  <2> QED BY <2>1, <2>2, <2>3, <2>4
<1>11. CASE Ends(p, e, s) /\ EndsForNext(p)
  <2>1. pc'[p] = "ctor" /\ turn'[p] = turn[p] + 1 /\ cur'[p] = 1  BY <1>11 DEF EndsForNext, Ends
  <2>2. At(p)' = turn[p] + 1  BY <2>1 DEF At
  <2>3. \A j \in Exchangers : /\ ex'[p][j].sent = 0 /\ ~ex'[p][j].length_received
                              /\ ex'[p][j].header = 0
    BY <2>2, <1>10, <1>11 DEF NewExchanger
  <2>4. \A j \in Exchangers : ~(j < 1)  BY <1>5
  <2>5. PhaseOK(p)'  BY <2>1, <2>3, <2>4, <1>4, <1>5 DEF PhaseOK
  <2> QED BY <2>2, <2>5, <1>4, <1>10, <1>11 DEF PlayerOK
<1>12. CASE Ends(p, e, s) /\ EndsAll(p, s)
  <2>1. pc'[p] = "done" /\ turn'[p] = turn[p] /\ ~(turn[p] < n_turns)  BY <1>12 DEF EndsAll
  <2>2. At(p)' = turn[p] + 1  BY <2>1 DEF At
  <2>3. turn[p] = n_turns  BY <2>1, <1>5
  <2>4. \A j \in Exchangers : ex'[p][j] = NewExchanger  BY <2>2, <1>10, <1>12
  <2>5. PhaseOK(p)'  BY <2>1, <2>3, <2>4, <1>4 DEF PhaseOK, NewExchanger
  <2> QED BY <2>2, <2>5, <1>4, <1>10, <1>12 DEF PlayerOK
<1> QED BY <1>3, <1>9, <1>11, <1>12

(* What p has taken of a connection after the round, and before it knows   *)
(* whether the exchange ends; what the connection then holds.              *)
InAfter(p, i, e, t, j) ==
    IF t = p /\ j = i THEN IF e.length_received THEN LENGTH_SIZE + e.received ELSE 0
    ELSE In(t, j)

RoundFlow(p, i, e, q, d) ==
    /\ q = receive_from(p, i) /\ d \in Seq(Things)
    /\ chan' = [chan EXCEPT ![<<q, p>>] = d]
    /\ Flow(conf, q, turn[q], At(q), Out(q, i), turn[p],
            IF e.length_received THEN LENGTH_SIZE + e.received ELSE 0, d)

LEMMA RoundTakes ==
    ASSUME Joint, NEW p \in Players, NEW i, NEW e, NEW s, RoundOK(p, i, e, s),
           NEW q, NEW d, RoundFlow(p, i, e, q, d),
           NEW r \in Players, NEW j \in Exchangers, NEW t, t = send_to(r, j)
    PROVE  /\ t \in Players /\ t # r
           /\ chan'[<<r, t>>] \in Seq(Things)
           /\ InAfter(p, i, e, t, j) \in Nat
           /\ Flow(conf, r, turn[r], At(r), Out(r, j), At(t), InAfter(p, i, e, t, j), chan'[<<r, t>>])
<1>1. Shapes /\ conf \in Confs  BY DEF Joint, StreamsInv, Shapes
<1>2. i \in Exchangers /\ pc[p] = "recv" /\ e \in Counters  BY DEF RoundOK
<1>3. t \in Players /\ t # r /\ receive_from(t, j) = r  BY <1>1, Peers
<1>4. q \in Players /\ send_to(q, i) = p  BY <1>1, <1>2, Peers DEF RoundFlow
<1>5. chan' = [chan EXCEPT ![<<q, p>>] = d] /\ d \in Seq(Things)  BY DEF RoundFlow
<1>6. chan \in [Players \X Players -> Seq(Things)]  BY <1>1 DEF Shapes
<1>7. e.received \in Nat /\ LENGTH_SIZE \in Nat  BY <1>1, <1>2, Basics DEF Counters
<1>8. CASE t = p /\ j = i
  <2>1. r = q  BY <1>3, <1>8 DEF RoundFlow
  <2>2. chan'[<<r, t>>] = d  BY <2>1, <1>8, <1>4, <1>5, <1>6
  <2>3. At(p) = turn[p]  BY <1>2 DEF At
  <2>4. InAfter(p, i, e, t, j) = IF e.length_received THEN LENGTH_SIZE + e.received ELSE 0
    BY <1>8 DEF InAfter
  <2>5. Flow(conf, q, turn[q], At(q), Out(q, i), turn[p], InAfter(p, i, e, t, j), d)
    BY <2>4 DEF RoundFlow
  <2>6. Flow(conf, r, turn[r], At(r), Out(r, j), At(t), InAfter(p, i, e, t, j), chan'[<<r, t>>])
    BY <2>1, <2>2, <2>3, <2>5, <1>8
  <2>7. InAfter(p, i, e, t, j) \in Nat  BY <2>4, <1>7
  <2> QED BY <1>3, <1>5, <2>2, <2>6, <2>7
<1>9. CASE ~(t = p /\ j = i)
  <2>1. ~(r = q /\ t = p)
    <3>1. CASE t = p /\ r = q
      <4>1. send_to(q, j) = send_to(q, i)  BY <3>1, <1>4
      <4>2. j = i  BY <4>1, <1>1, <1>2, <1>4, Peers
      <4> QED BY <3>1, <4>2, <1>9
    <3> QED BY <3>1
  <2>2. <<r, t>> # <<q, p>>  BY <2>1
  <2>3. chan'[<<r, t>>] = chan[<<r, t>>]  BY <2>2, <1>3, <1>5, <1>6
  <2>4. InAfter(p, i, e, t, j) = In(t, j)  BY <1>9, Zenon DEF InAfter
  <2>5. ConnOK(r, j) /\ SafePlayer(t)  BY <1>3 DEF Joint, SafePlayer
  <2>6. In(t, j) \in Nat  BY <2>5, PlaceOf
  <2>7. chan[<<r, t>>] \in Seq(Things)  BY <1>3, <1>6
  <2>8. Flow(conf, r, turn[r], At(r), Out(r, j), At(t), In(t, j), chan[<<r, t>>])
    BY <2>5 DEF ConnOK
  <2> QED BY <1>3, <2>3, <2>4, <2>6, <2>7, <2>8
<1> QED BY <1>8, <1>9

(* The connections after the round.                                        *)
LEMMA RoundConns ==
    ASSUME Joint, NEW p \in Players, conf' = conf,
           NEW i, NEW e, NEW s, RoundOK(p, i, e, s), EndRound(p, e, s, FALSE),
           NEW q, NEW d, RoundFlow(p, i, e, q, d),
           NEW r \in Players, NEW j \in Exchangers
    PROVE  ConnOK(r, j)'
<1>1. Shapes /\ PlayerOK(p) /\ StreamsInv /\ conf \in Confs  BY DEF Joint, StreamsInv, Shapes
<1>2. /\ i \in Exchangers /\ i = cur[p] /\ pc[p] = "recv" /\ e \in Counters /\ s \in Seq(Things)
  BY DEF RoundOK
<1>3. /\ OnlyAt(p)
      /\ \/ GoesOn(p, e, s, FALSE)
         \/ Ends(p, e, s) /\ EndsForNext(p)
         \/ Ends(p, e, s) /\ EndsAll(p, s)
  <2>1. FALSE \in BOOLEAN  OBVIOUS
  <2> QED BY <1>1, <1>2, <2>1, RoundEffect, Zenon
<1>4. PICK t : t = send_to(r, j)  OBVIOUS
<1>5. PICK in : in = InAfter(p, i, e, t, j)  OBVIOUS
<1>6. PICK data : data = chan'[<<r, t>>]  OBVIOUS
<1>7. /\ t \in Players /\ t # r /\ data \in Seq(Things) /\ in \in Nat
      /\ Flow(conf, r, turn[r], At(r), Out(r, j), At(t), in, data)
  BY <1>4, <1>5, <1>6, RoundTakes
<1>8. \A x \in Players : x # p => /\ turn'[x] = turn[x] /\ At(x)' = At(x)
                                  /\ Out(x, j)' = Out(x, j) /\ In(x, j)' = In(x, j)
  <2> TAKE x \in Players
  <2> HAVE x # p
  <2>1. pc'[x] = pc[x] /\ turn'[x] = turn[x] /\ ex'[x] = ex[x]  BY <1>1, <1>3, OthersSame
  <2> QED BY <2>1 DEF At, Out, In
<1>9. turn[p] \in Nat /\ turn[p] \in 1 .. Len(conf.len) /\ n_turns \in Nat /\ LENGTH_SIZE \in Nat
  BY <1>1, Basics DEF n_turns
<1>10. At(p) = turn[p]  BY <1>2 DEF At
<1>11. CASE GoesOn(p, e, s, FALSE)
  <2>1. turn'[p] = turn[p] /\ pc'[p] = "send"  BY <1>11 DEF GoesOn
  <2>2. At(p)' = At(p)  BY <1>10, <2>1 DEF At
  <2>3. ex[p] \in [Exchangers -> Counters]  BY <1>1 DEF Shapes
  <2>4. ex'[p][j] = IF j = i THEN e ELSE ex[p][j]  BY <1>2, <1>11, <2>3 DEF GoesOn
  <2>5. Out(p, j)' = Out(p, j)
    <3>1. ex'[p][j].header = ex[p][j].header /\ ex'[p][j].sent = ex[p][j].sent
      <4>1. CASE j = i
        <5>1. ex[p][i].header = LENGTH_SIZE  BY <1>1, <1>2 DEF PlayerOK, PhaseOK
        <5> QED BY <4>1, <5>1, <2>4 DEF RoundOK
      <4>2. CASE j # i  BY <4>2, <2>4
      <4> QED BY <4>1, <4>2
    <3> QED BY <3>1 DEF Out
  <2>6. In(t, j)' = in
    <3>1. CASE t = p
      <4>1. CASE j = i
        <5>1. ex'[p][j] = e  BY <4>1, <2>4
        <5>2. In(p, j)' = IF e.length_received THEN LENGTH_SIZE + e.received ELSE 0
          BY <5>1 DEF In
        <5> QED BY <3>1, <4>1, <5>2, <1>5 DEF InAfter
      <4>2. CASE j # i
        <5>1. ex'[p][j] = ex[p][j]  BY <4>2, <2>4
        <5>2. In(p, j)' = In(p, j)  BY <5>1 DEF In
        <5> QED BY <3>1, <4>2, <5>2, <1>5 DEF InAfter
      <4> QED BY <4>1, <4>2
    <3>2. CASE t # p  BY <3>2, <1>5, <1>7, <1>8 DEF InAfter
    <3> QED BY <3>1, <3>2
  <2>7. /\ turn'[r] = turn[r] /\ At(r)' = At(r) /\ Out(r, j)' = Out(r, j) /\ At(t)' = At(t)
    <3>1. CASE r = p  BY <3>1, <1>7, <1>8, <2>1, <2>2, <2>5
    <3>2. CASE r # p
      <4>1. At(t)' = At(t)
        <5>1. CASE t = p  BY <5>1, <2>2
        <5>2. CASE t # p  BY <5>2, <1>7, <1>8
        <5> QED BY <5>1, <5>2
      <4> QED BY <3>2, <4>1, <1>8
    <3> QED BY <3>1, <3>2
  <2>8. Flow(conf, r, turn'[r], At(r)', Out(r, j)', At(t)', In(t, j)', chan'[<<r, t>>])
    BY <1>6, <1>7, <2>6, <2>7
  <2> QED BY <1>4, <2>8, ConnPrime
<1>12. ASSUME Ends(p, e, s), At(p)' = turn[p] + 1,
              \/ turn[p] < n_turns /\ turn'[p] = turn[p] + 1
              \/ turn'[p] = turn[p]
       PROVE  ConnOK(r, j)'
  <2>1. ex'[p][j] = NewExchanger  BY <1>12 DEF Ends
  <2>2. Out(p, j)' = 0 /\ In(p, j)' = 0  BY <2>1 DEF Out, In, NewExchanger
  <2>3. PICK f : f = IF j = i THEN e ELSE ex[p][j]  OBVIOUS
  <2>4. PICK g : g = IF j = i THEN s ELSE stream[p][j]  OBVIOUS
  <2>5. /\ f.header = LENGTH_SIZE /\ f.sent = len(p)
        /\ f.length_received /\ f.received = conf.len[turn[p]][receive_from(p, j)]
    <3>1. /\ f.header = LENGTH_SIZE /\ f.sent = len(p)
          /\ f.length_received /\ f.new_len = conf.len[turn[p]][receive_from(p, j)]
          /\ f.received = f.new_len
      BY <1>12, <2>3, <2>4, EndsComplete
    <3> QED BY <3>1
  <2>6. CASE r = p
    <3>1. t # p /\ in = In(t, j)  BY <2>6, <1>5, <1>7 DEF InAfter
    <3>2. Out(p, j) = Size(conf, p, turn[p])
      <4>1. ex[p][j].header = LENGTH_SIZE  BY <1>1, <1>2 DEF PlayerOK, PhaseOK
      <4>2. ex[p][j].sent = len(p)
        <5>1. CASE j = i  BY <5>1, <2>3, <2>5 DEF RoundOK
        <5>2. CASE j # i  BY <5>2, <2>3, <2>5
        <5> QED BY <5>1, <5>2
      <4> QED BY <4>1, <4>2 DEF Out, Size, len
    <3>3. PICK v \in 1 .. Len(conf.len) : v = turn[p]  BY <1>9
    <3>4. PICK w : w = At(t)  OBVIOUS
    <3>5. Flow(conf, p, v, v, Size(conf, p, v), w, in, data)
      BY <1>7, <1>10, <2>6, <3>2, <3>3, <3>4
    <3>6. p \in 0 .. conf.n - 1  BY DEF Players
    <3>7. Flow(conf, p, v, v + 1, 0, w, in, data)  BY <3>5, <3>6, <1>1, <1>7, FlowSenderEnds
    <3>8. turn[p] < n_turns => Flow(conf, p, v + 1, v + 1, 0, w, in, data)
      <4>1. ASSUME turn[p] < n_turns PROVE Flow(conf, p, v + 1, v + 1, 0, w, in, data)
        <5>1. v + 1 <= Len(conf.len)  BY <3>3, <4>1, <1>9 DEF n_turns
        <5> QED BY <3>5, <3>6, <5>1, <1>1, <1>7, FlowSender
      <4> QED BY <4>1
    <3>9. At(t)' = w /\ In(t, j)' = in  BY <3>1, <3>4, <1>7, <1>8
    <3>10. Flow(conf, p, turn'[p], v + 1, 0, w, in, data)  BY <3>3, <3>7, <3>8, <1>12
    <3>11. Flow(conf, r, turn'[r], At(r)', Out(r, j)', At(t)', In(t, j)', chan'[<<r, t>>])
      BY <3>3, <3>9, <3>10, <2>2, <2>6, <1>6, <1>12
    <3> QED BY <1>4, <3>11, ConnPrime
  <2>7. CASE t = p
    <3>1. r # p /\ r = receive_from(p, j)  BY <2>7, <1>1, <1>4, <1>7, Peers
    <3>2. in = Size(conf, r, turn[p])
      <4>1. in = LENGTH_SIZE + f.received
        <5>1. CASE j = i  BY <5>1, <2>3, <2>5, <2>7, <1>5 DEF InAfter
        <5>2. CASE j # i  BY <5>2, <2>3, <2>5, <2>7, <1>5 DEF InAfter, In
        <5> QED BY <5>1, <5>2
      <4> QED BY <4>1, <3>1, <2>5 DEF Size
    <3>3. SafePlayer(r)  BY DEF Joint, SafePlayer
    <3>4. PICK v : v = turn[r]  OBVIOUS
    <3>5. PICK w : w = At(r)  OBVIOUS
    <3>6. PICK out : out = Out(r, j)  OBVIOUS
    <3>7. PICK u : u = turn[p]  OBVIOUS
    <3>8. /\ r \in 0 .. conf.n - 1 /\ v \in 1 .. Len(conf.len) /\ out \in Nat
          /\ Place(conf, r, v, w, out)
      BY <3>3, <3>4, <3>5, <3>6, PlaceOf
    <3>9. u \in 1 .. Len(conf.len)  BY <3>7, <1>9
    <3>10. Flow(conf, r, v, w, out, u, Size(conf, r, u), data)
      BY <1>7, <1>10, <2>7, <3>2, <3>4, <3>5, <3>6, <3>7
    <3>11. Flow(conf, r, v, w, out, u + 1, 0, data)
      BY <1>1, <1>7, <3>8, <3>9, <3>10, FlowReceiver
    <3>12. turn'[r] = v /\ At(r)' = w /\ Out(r, j)' = out  BY <3>1, <3>4, <3>5, <3>6, <1>8
    <3>13. At(t)' = u + 1 /\ In(t, j)' = 0  BY <2>2, <2>7, <3>7, <1>12
    <3>14. Flow(conf, r, turn'[r], At(r)', Out(r, j)', At(t)', In(t, j)', chan'[<<r, t>>])
      BY <3>11, <3>12, <3>13, <1>6
    <3> QED BY <1>4, <3>14, ConnPrime
  <2>8. CASE r # p /\ t # p
    <3>1. in = In(t, j)  BY <2>8, <1>5 DEF InAfter
    <3>2. Flow(conf, r, turn'[r], At(r)', Out(r, j)', At(t)', In(t, j)', chan'[<<r, t>>])
      BY <3>1, <2>8, <1>6, <1>7, <1>8
    <3> QED BY <1>4, <3>2, ConnPrime
  <2> QED BY <2>6, <2>7, <2>8
<1>13. CASE Ends(p, e, s) /\ EndsForNext(p)
  <2>1. pc'[p] = "ctor" /\ turn'[p] = turn[p] + 1 /\ turn[p] < n_turns  BY <1>13 DEF EndsForNext
  <2>2. At(p)' = turn[p] + 1  BY <2>1 DEF At
  <2> QED BY <2>1, <2>2, <1>12, <1>13
<1>14. CASE Ends(p, e, s) /\ EndsAll(p, s)
  <2>1. pc'[p] = "done" /\ turn'[p] = turn[p]  BY <1>14 DEF EndsAll
  <2>2. At(p)' = turn[p] + 1  BY <2>1 DEF At
  <2> QED BY <2>1, <2>2, <1>12, <1>14
<1> QED BY <1>3, <1>11, <1>13, <1>14

(* Before a player receives, its exchanger is as a round leaves it.        *)
LEMMA RoundBegins ==
    ASSUME Joint, NEW p \in Players, pc[p] = "recv",
           NEW i, i = cur[p], NEW q, q = receive_from(p, i), NEW e, e = ex[p][i]
    PROVE  /\ RoundOK(p, i, e, stream[p][i])
           /\ conf \in Confs /\ i \in Exchangers /\ q \in Players /\ e \in Counters
           /\ chan[<<q, p>>] \in Seq(Things) /\ chan \in [Players \X Players -> Seq(Things)]
           /\ Flow(conf, q, turn[q], At(q), Out(q, i), turn[p],
                   IF e.length_received THEN LENGTH_SIZE + e.received ELSE 0, chan[<<q, p>>])
           /\ moved[p] = FALSE /\ SafePlayer(q)
           /\ turn[p] \in 1 .. Len(conf.len)
<1>1. Shapes /\ conf \in Confs /\ PlayerOK(p) /\ StreamsInv  BY DEF Joint, StreamsInv, Shapes
<1>2. i \in Exchangers /\ turn[p] \in 1 .. Len(conf.len)  BY <1>1, Basics DEF n_turns
<1>3. q \in Players /\ send_to(q, i) = p  BY <1>1, <1>2, Peers
<1>4. /\ e \in Counters /\ stream[p][i] \in Seq(Things)
      /\ chan \in [Players \X Players -> Seq(Things)] /\ chan[<<q, p>>] \in Seq(Things)
  BY <1>1, <1>2, <1>3 DEF Shapes
<1>5. moved[p] = FALSE
  <2>1. ~moved[p] /\ moved[p] \in BOOLEAN  BY <1>1, Zenon DEF PlayerOK, Shapes
  <2> QED BY <2>1, Zenon
<1>6. RoundOK(p, i, e, stream[p][i])
  <2>1. e.header = LENGTH_SIZE  BY <1>1, <1>2 DEF PlayerOK, PhaseOK
  <2>2. CountersOK(p, i) /\ Bounded(p, i)  BY <1>1, <1>2 DEF PlayerOK, StreamsInv
  <2> QED BY <2>1, <2>2, <1>2, <1>4 DEF RoundOK, CountersOK, Bounded
<1>7. At(p) = turn[p]  BY DEF At
<1>8. In(p, i) = IF e.length_received THEN LENGTH_SIZE + e.received ELSE 0  BY DEF In
<1>9. ConnOK(q, i) /\ SafePlayer(q)  BY <1>2, <1>3 DEF Joint, SafePlayer
<1>10. Flow(conf, q, turn[q], At(q), Out(q, i), At(p), In(p, i), chan[<<q, p>>])
  BY <1>3, <1>9 DEF ConnOK
<1> QED BY <1>1, <1>2, <1>3, <1>4, <1>5, <1>6, <1>7, <1>8, <1>9, <1>10

(* A round in which nothing arrives.                                       *)
LEMMA NothingArrives ==
    ASSUME Joint, NEW p \in Players, pc[p] = "recv", conf' = conf, chan' = chan,
           EndRound(p, ex[p][cur[p]], stream[p][cur[p]], moved[p])
    PROVE  /\ PlayerOK(p)'
           /\ \A r \in Players, j \in Exchangers : ConnOK(r, j)'
<1>1. PICK i : i = cur[p]  OBVIOUS
<1>2. PICK q : q = receive_from(p, i)  OBVIOUS
<1>3. PICK e : e = ex[p][i]  OBVIOUS
<1>4. PICK s : s = stream[p][i]  OBVIOUS
<1>5. PICK d : d = chan[<<q, p>>]  OBVIOUS
<1>6. /\ RoundOK(p, i, e, s) /\ q \in Players
      /\ d \in Seq(Things) /\ chan \in [Players \X Players -> Seq(Things)]
      /\ Flow(conf, q, turn[q], At(q), Out(q, i), turn[p],
              IF e.length_received THEN LENGTH_SIZE + e.received ELSE 0, d)
      /\ moved[p] = FALSE
  BY <1>1, <1>2, <1>3, <1>4, <1>5, RoundBegins, Zenon
<1>7. EndRound(p, e, s, FALSE)  BY <1>1, <1>3, <1>4, <1>6
<1>8. chan' = [chan EXCEPT ![<<q, p>>] = d]  BY <1>5, <1>6
<1>9. RoundFlow(p, i, e, q, d)  BY <1>2, <1>6, <1>8 DEF RoundFlow
<1>10. PlayerOK(p)'  BY <1>6, <1>7, RoundPlayer
<1>11. \A r \in Players, j \in Exchangers : ConnOK(r, j)'  BY <1>6, <1>7, <1>9, RoundConns
<1> QED BY <1>10, <1>11

LEMMA ReceiveNothingSafe ==
    ASSUME Joint, NEW p \in Players, ReceiveNothing(p)
    PROVE  /\ PlayerOK(p)'
           /\ \A r \in Players, j \in Exchangers : ConnOK(r, j)'
<1>1. /\ OnlyAt(p) /\ pc[p] = "recv" /\ chan' = chan
      /\ EndRound(p, ex[p][cur[p]], stream[p][cur[p]], moved[p])
  BY ReceiveNothingStep, Zenon DEF Joint
<1>2. conf' = conf  BY <1>1 DEF OnlyAt
<1> QED BY <1>1, <1>2, NothingArrives

(* The length is that of the message to come.                              *)
LEMMA ReceiveLengthSafe ==
    ASSUME Joint, NEW p \in Players, ReceiveLength(p)
    PROVE  /\ PlayerOK(p)'
           /\ \A r \in Players, j \in Exchangers : ConnOK(r, j)'
<1>1. PICK i : i = cur[p]  OBVIOUS
<1>2. PICK q : q = receive_from(p, i)  OBVIOUS
<1>3. PICK e : e = ex[p][i]  OBVIOUS
<1>4. PICK s : s = stream[p][i]  OBVIOUS
<1>5. PICK c : c = chan[<<q, p>>]  OBVIOUS
<1>6. PICK x : x = [e EXCEPT !.new_len = Head(c).n, !.length_received = TRUE]  OBVIOUS
<1>7. /\ OnlyAt(p) /\ pc[p] = "recv" /\ e.received >= e.new_len /\ ~e.length_received
      /\ \/ chan' = chan /\ EndRound(p, e, s, moved[p])
         \/ /\ LENGTH_SIZE <= Len(c)
            /\ x \in Counters
            /\ chan' = [chan EXCEPT ![<<q, p>>] = SubSeq(c, LENGTH_SIZE + 1, Len(c))]
            /\ EndRound(p, x, s, moves(p, Head(c).n))
  BY <1>1, <1>2, <1>3, <1>4, <1>5, <1>6, ReceiveLengthStep, Zenon DEF Joint
<1>8. conf' = conf  BY <1>7 DEF OnlyAt
<1>9. /\ RoundOK(p, i, e, s) /\ conf \in Confs /\ i \in Exchangers /\ q \in Players /\ e \in Counters
      /\ c \in Seq(Things) /\ chan \in [Players \X Players -> Seq(Things)]
      /\ Flow(conf, q, turn[q], At(q), Out(q, i), turn[p],
              IF e.length_received THEN LENGTH_SIZE + e.received ELSE 0, c)
      /\ moved[p] = FALSE /\ SafePlayer(q)
      /\ turn[p] \in 1 .. Len(conf.len)
  BY <1>1, <1>2, <1>3, <1>4, <1>5, <1>7, RoundBegins, Zenon
<1>10. CASE chan' = chan /\ EndRound(p, e, s, moved[p])
  <2>1. EndRound(p, ex[p][cur[p]], stream[p][cur[p]], moved[p])  BY <1>10, <1>1, <1>3, <1>4
  <2> QED BY <2>1, <1>7, <1>8, <1>10, NothingArrives
<1>11. ASSUME LENGTH_SIZE <= Len(c), x \in Counters,
              chan' = [chan EXCEPT ![<<q, p>>] = SubSeq(c, LENGTH_SIZE + 1, Len(c))],
              EndRound(p, x, s, moves(p, Head(c).n))
       PROVE  /\ PlayerOK(p)'
              /\ \A r \in Players, j \in Exchangers : ConnOK(r, j)'
  <2>1. PICK v : v = turn[q]  OBVIOUS
  <2>2. PICK w : w = At(q)  OBVIOUS
  <2>3. PICK out : out = Out(q, i)  OBVIOUS
  <2>4. PICK u : u = turn[p]  OBVIOUS
  <2>5. Flow(conf, q, v, w, out, u, 0, c)  BY <1>7, <1>9, <2>1, <2>2, <2>3, <2>4
  <2>6. /\ q \in 0 .. conf.n - 1 /\ v \in 1 .. Len(conf.len) /\ v \in Nat /\ out \in Nat
        /\ Place(conf, q, v, w, out)
    BY <1>9, <2>1, <2>2, <2>3, PlaceOf
  <2>7. u \in 1 .. Len(conf.len)  BY <1>9, <2>4
  <2>8. Size(conf, q, u) \in Nat /\ Size(conf, q, u) >= LENGTH_SIZE /\ LENGTH_SIZE \in Nat /\ LENGTH_SIZE > 0
    BY <1>9, <2>6, <2>7, SizeType
  <2>9. Len(c) \in Nat /\ Len(c) > 0  BY <1>9, <1>11, <2>8, LenProperties
  <2>10. c[1] = Item(conf, q, u, 0)
    <3>1. u <= Len(conf.len)  BY <2>7, <1>9, ConfFacts
    <3>2. PICK in \in Nat : in = 0  OBVIOUS
    <3>3. Flow(conf, q, v, w, out, u, in, c)  BY <3>2, <2>5
    <3>4. Reads(conf, q, u, in, c)  BY <1>9, <2>6, <3>2, <3>3, FlowHere, Zenon
    <3>5. 1 \in 1 .. Len(c) /\ in + 1 <= Size(conf, q, u) /\ in + 1 - 1 = 0  BY <2>8, <2>9, <3>2
    <3> QED BY <3>1, <3>4, <3>5 DEF Reads
  <2>11. Head(c).n = conf.len[u][q]
    <3>1. Head(c) = c[1]  BY <1>9, <2>9
    <3> QED BY <3>1, <2>8, <2>10 DEF Item
  <2>12. /\ x.header = e.header /\ x.sent = e.sent /\ x.received = e.received
         /\ x.new_len = conf.len[u][q] /\ x.length_received = TRUE
    BY <1>6, <1>9, <2>11 DEF Counters
  <2>13. e.received = 0
    <3>1. e.new_len = 0 /\ e.received <= e.new_len  BY <1>7, <1>9 DEF RoundOK
    <3>2. e.received \in Nat  BY <1>9 DEF Counters
    <3> QED BY <3>1, <3>2
  <2>14. RoundOK(p, i, x, s)
    <3>1. conf.len[u][q] \in Nat  BY <1>9, <2>6, <2>7, ConfFacts
    <3>2. 0 <= conf.len[u][q]  BY <3>1
    <3> QED BY <1>2, <1>9, <1>11, <2>4, <2>12, <2>13, <3>2 DEF RoundOK
  <2>15. moves(p, Head(c).n) = FALSE
    <3>1. CASE ~conf.same  BY <3>1 DEF moves
    <3>2. CASE conf.same
      <4>1. PICK a : a = conf.len[u][q]  OBVIOUS
      <4>2. PICK b : b = len(p)  OBVIOUS
      <4>3. PICK m : m = conf.mxlen[p]  OBVIOUS
      <4>4. p \in 0 .. conf.n - 1  BY DEF Players
      <4>5. a < m /\ b < m
        BY <3>2, <4>1, <4>2, <4>3, <4>4, <2>4, <2>6, <2>7 DEF Joint, SharingSafe, len
      <4>6. a \in Nat /\ b \in Nat /\ m \in Nat
        BY <4>1, <4>2, <4>3, <4>4, <1>9, <2>4, <2>6, <2>7, ConfFacts DEF len
      <4>7. Max({a, b}) = IF a <= b THEN b ELSE a
        <5>1. a \in Int /\ b \in Int  BY <4>6
        <5> QED BY <5>1, MaxOfTwo, Zenon
      <4>8. ~(Max({a, b}) >= m)  BY <4>5, <4>6, <4>7
      <4>9. moves(p, Head(c).n) = (conf.same /\ Max({a, b}) > 0 /\ Max({a, b}) >= m)
        BY <4>1, <4>2, <4>3, <2>11 DEF moves
      <4> QED BY <4>8, <4>9
    <3> QED BY <3>1, <3>2
  <2>16. PICK d : d = SubSeq(c, LENGTH_SIZE + 1, Len(c))  OBVIOUS
  <2>17. Flow(conf, q, v, w, out, u, 0 + LENGTH_SIZE, d) /\ d \in Seq(Things)
    <3>1. LENGTH_SIZE \in 0 .. Len(c)  BY <1>11, <2>8, <2>9
    <3>2. w \in 1 .. v + 1  BY <2>6 DEF Place
    <3>3. d \in Seq(Things)
      <4>1. \A k \in LENGTH_SIZE + 1 .. Len(c) : k \in 1 .. Len(c)  BY <2>8, <2>9
      <4> QED BY <4>1, <1>9, <2>8, <2>9, <2>16, SubSeqProperties
    <3>4. 0 \in Nat  OBVIOUS
    <3> QED BY <3>1, <3>2, <3>3, <3>4, <1>9, <2>5, <2>6, <2>16, FlowDrop
  <2>18. RoundFlow(p, i, x, q, d)
    <3>1. LENGTH_SIZE + x.received = 0 + LENGTH_SIZE  BY <2>8, <2>12, <2>13
    <3>2. (IF x.length_received THEN LENGTH_SIZE + x.received ELSE 0) = 0 + LENGTH_SIZE
      BY <3>1, <2>12
    <3>3. chan' = [chan EXCEPT ![<<q, p>>] = d]  BY <1>11, <2>16
    <3> QED BY <3>2, <3>3, <1>2, <2>1, <2>2, <2>3, <2>4, <2>17 DEF RoundFlow
  <2>19. EndRound(p, x, s, FALSE)  BY <1>11, <2>15
  <2>20. PlayerOK(p)'  BY <1>8, <2>14, <2>19, RoundPlayer
  <2>21. \A r \in Players, j \in Exchangers : ConnOK(r, j)'
    BY <1>8, <2>14, <2>18, <2>19, RoundConns
  <2> QED BY <2>20, <2>21
<1> QED BY <1>7, <1>10, <1>11

(* No more is received than belongs to the exchange.  With a shared stream *)
(* the number of bytes sent bounds the receiving, not the length received. *)
LEMMA NotTooMuch ==
    ASSUME Joint, NEW p \in Players, pc[p] = "recv",
           NEW i, i = cur[p], NEW q, q = receive_from(p, i), NEW e, e = ex[p][i],
           NEW c, c = chan[<<q, p>>],
           e.received < e.new_len,
           NEW l \in Nat, l <= Len(c), l <= to_receive(p, i)
    PROVE  e.received + l <= e.new_len
<1>1. /\ RoundOK(p, i, e, stream[p][i]) /\ conf \in Confs /\ i \in Exchangers /\ q \in Players /\ e \in Counters
      /\ c \in Seq(Things)
      /\ Flow(conf, q, turn[q], At(q), Out(q, i), turn[p],
              IF e.length_received THEN LENGTH_SIZE + e.received ELSE 0, c)
      /\ SafePlayer(q) /\ turn[p] \in 1 .. Len(conf.len)
  BY RoundBegins, Zenon
<1>2. /\ e.received \in Nat /\ e.new_len \in Nat /\ e.sent \in Nat  BY <1>1 DEF Counters
<1>3. /\ e.length_received /\ e.new_len = conf.len[turn[p]][q]  BY <1>1, <1>2 DEF RoundOK
<1>4. Shapes /\ Bounded(p, i) /\ PlayerOK(p)  BY <1>1 DEF Joint, StreamsInv
<1>5. len(p) \in Nat /\ LENGTH_SIZE \in Nat /\ e.sent <= len(p)  BY <1>4, Basics DEF Bounded
<1>6. PICK v : v = turn[q]  OBVIOUS
<1>7. PICK w : w = At(q)  OBVIOUS
<1>8. PICK out : out = Out(q, i)  OBVIOUS
<1>9. PICK u : u = turn[p]  OBVIOUS
<1>10. PICK in : in = LENGTH_SIZE + e.received  OBVIOUS
<1>11. Flow(conf, q, v, w, out, u, in, c)  BY <1>1, <1>3, <1>6, <1>7, <1>8, <1>9, <1>10
<1>12. /\ q \in 0 .. conf.n - 1 /\ v \in 1 .. Len(conf.len) /\ v \in Nat /\ out \in Nat
       /\ Place(conf, q, v, w, out) /\ w \in Nat
  BY <1>1, <1>6, <1>7, <1>8, PlaceOf
<1>13. u \in 1 .. Len(conf.len) /\ u \in Nat /\ Len(conf.len) \in Nat /\ in \in Nat /\ u <= Len(conf.len)
  <2>1. Len(conf.len) \in Nat  BY <1>1, ConfFacts
  <2>2. in \in Nat  BY <1>2, <1>5, <1>10
  <2> QED BY <2>1, <2>2, <1>1, <1>9
<1>14. Len(c) \in Nat  BY <1>1, LenProperties
<1>15. ASSUME w <= u \/ (w = u + 1 /\ out = 0) PROVE e.received + l <= e.new_len
  <2>1. NoneOfNext(conf, q, w, out, u, in, c)  BY <1>1, <1>11, <1>12, <1>13, FlowHere, Zenon
  <2>2. Size(conf, q, u) = LENGTH_SIZE + e.new_len  BY <1>3, <1>9 DEF Size
  <2> DEFINE a == e.received
             b == e.new_len
             m == Len(c)
  <2>3. (LENGTH_SIZE + a) + m <= LENGTH_SIZE + b /\ a \in Nat /\ b \in Nat /\ m \in Nat /\ l <= m
    BY <2>1, <2>2, <1>2, <1>10, <1>13, <1>14, <1>15 DEF NoneOfNext
  <2> HIDE DEF a, b, m
  <2>4. a + l <= b  BY <2>3, <1>5
  <2> QED BY <2>4 DEF a, b
<1>16. CASE e.sent = len(p) \/ ~conf.same
  <2>1. l <= e.new_len - e.received  BY <1>16 DEF to_receive
  <2> QED BY <2>1, <1>2
<1>17. CASE ~(e.sent = len(p) \/ ~conf.same)
  <2>1. e.sent < len(p)  BY <1>2, <1>5, <1>17
  <2>2. e.received + l <= e.sent \/ l = 0
    <3>1. to_receive(p, i) = IF e.sent > e.received THEN e.sent - e.received ELSE 0
      BY <1>17 DEF to_receive
    <3> QED BY <3>1, <1>2
  <2>3. \/ conf.offset + conf.offset = conf.n
        \/ Len(conf.len) = 1
        \/ \A t \in 1 .. Len(conf.len), a, b \in 0 .. conf.n - 1 : conf.len[t][a] = conf.len[t][b]
    BY <1>17 DEF Joint, SharingSafe
  <2>4. p \in 0 .. conf.n - 1  BY DEF Players
  <2>5. CASE \A t \in 1 .. Len(conf.len), a, b \in 0 .. conf.n - 1 : conf.len[t][a] = conf.len[t][b]
    <3>1. len(p) = e.new_len  BY <2>4, <2>5, <1>3, <1>9, <1>12, <1>13 DEF len
    <3> QED BY <3>1, <2>1, <2>2, <1>2
  <2>6. CASE Len(conf.len) = 1
    <3>1. u = 1 /\ v = 1  BY <2>6, <1>12, <1>13
    <3>2. w <= u \/ (w = u + 1 /\ out = 0)  BY <3>1, <1>12 DEF Place
    <3> QED BY <3>2, <1>15
  <2>7. CASE conf.offset + conf.offset = conf.n
    <3>1. send_to(p, i) = q
      <4>1. offset(i) = conf.offset
        <5>1. ~conf.broadcast  BY <1>1, <1>17, ConfFacts
        <5> QED BY <5>1 DEF offset
      <4>2. conf.n - conf.offset = conf.offset /\ p + conf.n - conf.offset = p + conf.offset
        <5>1. conf.n \in Nat /\ conf.offset \in 1 .. conf.n - 1  BY <1>1, ConfFacts
        <5> QED BY <5>1, <2>4, <2>7
      <4> QED BY <4>1, <4>2 DEF send_to, receive_from
    <3>2. PICK o : o = Out(p, i)  OBVIOUS
    <3>3. PICK d : d = chan[<<p, q>>]  OBVIOUS
    <3>4. PICK n : n = In(q, i)  OBVIOUS
    <3>5. At(p) = u  BY <1>9 DEF At
    <3>6. Flow(conf, p, u, u, o, w, n, d)
      <4>1. ConnOK(p, i)  BY <1>1 DEF Joint
      <4> QED BY <4>1, <3>1, <3>2, <3>3, <3>4, <3>5, <1>7, <1>9 DEF ConnOK
    <3>7. d \in Seq(Things)  BY <3>3, <1>1, <1>4 DEF Shapes
    <3>8. o \in Nat  BY <3>2, <1>1, PlaceOf DEF Joint, SafePlayer
    <3>9. n \in Nat  BY <3>4, <1>1, PlaceOf
    <3>10. ~(o >= Size(conf, p, u))
      <4>1. e.header = LENGTH_SIZE  BY <1>1 DEF RoundOK
      <4>2. o = LENGTH_SIZE + e.sent  BY <3>2, <4>1 DEF Out
      <4>3. Size(conf, p, u) = LENGTH_SIZE + len(p)  BY <1>9 DEF Size, len
      <4> DEFINE a == e.sent
                 b == len(p)
                 z == Size(conf, p, u)
      <4>4. a \in Nat /\ b \in Nat /\ a < b /\ o = LENGTH_SIZE + a /\ z = LENGTH_SIZE + b
        BY <4>2, <4>3, <2>1, <1>2, <1>5
      <4> HIDE DEF a, b, z
      <4>5. ~(o >= z)  BY <4>4, <1>5
      <4> QED BY <4>5 DEF z
    <3>11. ~(w > u)  BY <1>1, <1>13, <2>4, <3>6, <3>7, <3>8, <3>9, <3>10, FlowAhead
    <3>12. w <= u  BY <3>11, <1>12, <1>13
    <3> QED BY <3>12, <1>15
  <2> QED BY <2>3, <2>5, <2>6, <2>7
<1> QED BY <1>16, <1>17

(* What arrives is the next part of the message.                           *)
LEMMA ReceiveDataSafe ==
    ASSUME Joint, NEW p \in Players, ReceiveData(p)
    PROVE  /\ PlayerOK(p)'
           /\ \A r \in Players, j \in Exchangers : ConnOK(r, j)'
<1>1. PICK i : i = cur[p]  OBVIOUS
<1>2. PICK q : q = receive_from(p, i)  OBVIOUS
<1>3. PICK e : e = ex[p][i]  OBVIOUS
<1>4. PICK c : c = chan[<<q, p>>]  OBVIOUS
<1> DEFINE f == ex[p][cur[p]]
           from == receive_from(p, cur[p])
           data == chan[<<from, p>>]
<1>a. /\ OnlyAt(p) /\ pc[p] = "recv" /\ f.received < f.new_len
      /\ \E l \in Nat : \E s \in Seq(Things) : Takes(p, cur[p], from, f, data, l, s)
  BY ReceiveDataStep, Zenon DEF Joint
<1>b. f = e /\ from = q /\ data = c  BY <1>1, <1>2, <1>3, <1>4
<1>5. OnlyAt(p) /\ pc[p] = "recv" /\ e.received < e.new_len
  <2> HIDE DEF f, data, from
  <2> QED BY <1>a, <1>b
<1>c. PICK l \in Nat, s \in Seq(Things) : Takes(p, i, q, e, c, l, s)
  <2> HIDE DEF f, data, from
  <2> QED BY <1>1, <1>a, <1>b
<1>6. /\ l <= Len(c) /\ l <= to_receive(p, i)
      /\ [e EXCEPT !.received = e.received + l] \in Counters
      /\ chan' = [chan EXCEPT ![<<q, p>>] = SubSeq(c, l + 1, Len(c))]
      /\ EndRound(p, [e EXCEPT !.received = e.received + l], s, moved[p])
      /\ e.received + l <= Len(s)
      /\ \A k \in 1 .. l : s[e.received + k] = c[k]
      /\ \A k \in 1 .. e.received : s[k] = stream[p][i][k]
  BY <1>c DEF Takes
<1>7. PICK x : x = [e EXCEPT !.received = e.received + l]  OBVIOUS
<1>8. conf' = conf  BY <1>5 DEF OnlyAt
<1>9. /\ RoundOK(p, i, e, stream[p][i]) /\ conf \in Confs /\ i \in Exchangers /\ q \in Players /\ e \in Counters
      /\ c \in Seq(Things) /\ chan \in [Players \X Players -> Seq(Things)]
      /\ Flow(conf, q, turn[q], At(q), Out(q, i), turn[p],
              IF e.length_received THEN LENGTH_SIZE + e.received ELSE 0, c)
      /\ moved[p] = FALSE /\ SafePlayer(q)
      /\ turn[p] \in 1 .. Len(conf.len)
  BY <1>1, <1>2, <1>3, <1>4, <1>5, RoundBegins, Zenon
<1>10. e.received \in Nat /\ e.new_len \in Nat  BY <1>9 DEF Counters
<1>11. e.length_received /\ e.new_len = conf.len[turn[p]][q]  BY <1>2, <1>5, <1>9, <1>10 DEF RoundOK
<1>12. e.received + l <= e.new_len  BY <1>1, <1>2, <1>3, <1>4, <1>5, <1>6, NotTooMuch
<1>13. PICK v : v = turn[q]  OBVIOUS
<1>14. PICK w : w = At(q)  OBVIOUS
<1>15. PICK out : out = Out(q, i)  OBVIOUS
<1>16. PICK u : u = turn[p]  OBVIOUS
<1>17. PICK in : in = LENGTH_SIZE + e.received  OBVIOUS
<1>18. Flow(conf, q, v, w, out, u, in, c)  BY <1>9, <1>11, <1>13, <1>14, <1>15, <1>16, <1>17
<1>19. /\ q \in 0 .. conf.n - 1 /\ v \in 1 .. Len(conf.len) /\ v \in Nat /\ out \in Nat
       /\ Place(conf, q, v, w, out)
  BY <1>9, <1>13, <1>14, <1>15, PlaceOf
<1>20. /\ u \in 1 .. Len(conf.len) /\ u <= Len(conf.len) /\ in \in Nat /\ LENGTH_SIZE \in Nat
       /\ Len(c) \in Nat /\ l \in 0 .. Len(c)
  <2>1. Len(conf.len) \in Nat  BY <1>9, ConfFacts
  <2>2. LENGTH_SIZE \in Nat  BY ConfsOK
  <2>3. in \in Nat  BY <2>2, <1>10, <1>17
  <2>4. Len(c) \in Nat  BY <1>9, LenProperties
  <2> QED BY <2>1, <2>2, <2>3, <2>4, <1>6, <1>9, <1>16
<1>21. \A k \in 1 .. l : c[k] = Byte(q, u, e.received + k)
  <2>1. \A k \in 1 .. Len(c) : in + k <= Size(conf, q, u) => c[k] = Item(conf, q, u, in + k - 1)
    <3>1. Reads(conf, q, u, in, c)  BY <1>9, <1>18, <1>19, <1>20, FlowHere, Zenon
    <3> QED BY <3>1, <1>20 DEF Reads
  <2> TAKE k \in 1 .. l
  <2>2. k \in 1 .. Len(c) /\ k \in Nat  BY <1>20
  <2>3. Size(conf, q, u) = LENGTH_SIZE + e.new_len  BY <1>11, <1>16 DEF Size
  <2>4. PICK a \in Nat : a = e.received  BY <1>10
  <2>5. PICK b \in Nat : b = e.new_len  BY <1>10
  <2>6. /\ in + k <= LENGTH_SIZE + b /\ ~(in + k - 1 < LENGTH_SIZE)
        /\ in + k - 1 - LENGTH_SIZE + 1 = a + k
    <3>1. a + l <= b /\ in = LENGTH_SIZE + a /\ k <= l  BY <1>6, <1>12, <1>17, <2>4, <2>5
    <3> QED BY <3>1, <1>20, <2>2
  <2>7. c[k] = Item(conf, q, u, in + k - 1)  BY <2>1, <2>2, <2>3, <2>5, <2>6
  <2>8. Item(conf, q, u, in + k - 1) = Byte(q, u, a + k)  BY <2>2, <2>6, <1>20 DEF Item, Byte
  <2> QED BY <2>4, <2>7, <2>8
<1>22. /\ x \in Counters /\ x.header = e.header /\ x.sent = e.sent /\ x.received = e.received + l
       /\ x.new_len = e.new_len /\ x.length_received = e.length_received
  BY <1>6, <1>7, <1>9 DEF Counters
<1>23. RoundOK(p, i, x, s)
  <2>1. PICK a \in Nat : a = e.received  BY <1>10
  <2>2. ASSUME NEW k \in 1 .. a + l PROVE s[k] = Byte(q, u, k)
    <3>1. CASE k <= a
      <4>1. k \in 1 .. a  BY <3>1
      <4>2. stream[p][i][k] = Byte(q, u, k)  BY <4>1, <2>1, <1>2, <1>9, <1>16 DEF RoundOK
      <4> QED BY <4>1, <4>2, <2>1, <1>6
    <3>2. CASE k > a
      <4>1. PICK m \in 1 .. l : k = a + m
        <5>1. k - a \in 1 .. l /\ k = a + (k - a)  BY <3>2
        <5> QED BY <5>1
      <4>2. s[a + m] = c[m] /\ c[m] = Byte(q, u, a + m)  BY <4>1, <2>1, <1>6, <1>21
      <4> QED BY <4>1, <4>2
    <3> QED BY <3>1, <3>2, <2>1
  <2>3. \A k \in 1 .. x.received : s[k] = Byte(q, u, k)  BY <2>1, <2>2, <1>22
  <2> QED BY <2>3, <1>2, <1>6, <1>9, <1>12, <1>16, <1>22 DEF RoundOK
<1>24. PICK d : d = SubSeq(c, l + 1, Len(c))  OBVIOUS
<1>25. Flow(conf, q, v, w, out, u, in + l, d) /\ d \in Seq(Things)
  <2>1. w \in 1 .. v + 1  BY <1>19 DEF Place
  <2>2. d \in Seq(Things)
    <3>1. \A k \in l + 1 .. Len(c) : k \in 1 .. Len(c)  BY <1>20
    <3> QED BY <3>1, <1>9, <1>20, <1>24, SubSeqProperties
  <2> QED BY <2>1, <2>2, <1>9, <1>18, <1>19, <1>20, <1>24, FlowDrop
<1>26. RoundFlow(p, i, x, q, d)
  <2>1. LENGTH_SIZE + x.received = in + l
    <3>1. PICK a \in Nat : a = e.received  BY <1>10
    <3>2. x.received = a + l /\ in = LENGTH_SIZE + a  BY <3>1, <1>17, <1>22
    <3> QED BY <3>2, <1>20
  <2>2. (IF x.length_received THEN LENGTH_SIZE + x.received ELSE 0) = in + l  BY <2>1, <1>11, <1>22
  <2>3. chan' = [chan EXCEPT ![<<q, p>>] = d]  BY <1>6, <1>24
  <2> QED BY <2>2, <2>3, <1>2, <1>13, <1>14, <1>15, <1>16, <1>25 DEF RoundFlow
<1>27. EndRound(p, x, s, FALSE)  BY <1>6, <1>7, <1>9
<1>28. PlayerOK(p)'  BY <1>8, <1>23, <1>27, RoundPlayer
<1>29. \A r \in Players, j \in Exchangers : ConnOK(r, j)'
  BY <1>8, <1>23, <1>26, <1>27, RoundConns
<1> QED BY <1>28, <1>29

-----------------------------------------------------------------------------
(* Initially nobody has sent anything.                                     *)
LEMMA ExchangeInit == Init => ExchangeInv
<1> SUFFICES ASSUME Init, SharingSafe(conf)
             PROVE  /\ \A p \in Players : PlayerOK(p)
                    /\ \A q \in Players, i \in Exchangers : ConnOK(q, i)
  BY StreamsInit DEF ExchangeInv
<1>1. StreamsInv /\ Shapes /\ conf \in Confs  BY StreamsInit DEF StreamsInv, Shapes
<1>2. /\ Exchangers \subseteq Nat \ {0} /\ LENGTH_SIZE \in Nat /\ LENGTH_SIZE > 0
  BY <1>1, Basics
<1>3. \A p \in Players : /\ pc[p] = "ctor" /\ turn[p] = 1 /\ cur[p] = 1 /\ got[p] = <<>>
                         /\ moved[p] = FALSE /\ At(p) = 1
                         /\ \A i \in Exchangers : ex[p][i] = NewExchanger
  BY DEF Init, At
<1>4. \A p \in Players, i \in Exchangers :
        /\ ex[p][i].header = 0 /\ ex[p][i].sent = 0 /\ ex[p][i].received = 0
        /\ ex[p][i].new_len = 0 /\ ~ex[p][i].length_received
  BY <1>3 DEF NewExchanger
<1>5. ASSUME NEW p \in Players PROVE PlayerOK(p)
  <2>1. ASSUME NEW i \in Exchangers PROVE CountersOK(p, i)  BY <1>2, <1>4 DEF CountersOK
  <2>2. PhaseOK(p)
    <3>1. \A i \in Exchangers : ~(i < 1)  BY <1>2
    <3> QED BY <1>2, <1>3, <1>4, <3>1 DEF PhaseOK
  <2>3. GotOK(p)
    <3>1. got[p] = <<>> /\ At(p) = 1  BY <1>3
    <3> DEFINE T == [Exchangers -> Seq(Things)]
    <3>2. got[p] \in Seq(T) /\ Len(got[p]) = 0
      <4> HIDE DEF T
      <4> QED BY <3>1, EmptySeq
    <3> QED BY <3>1, <3>2 DEF GotOK
  <2> QED BY <2>1, <2>2, <2>3, <1>3 DEF PlayerOK
<1>6. ASSUME NEW q \in Players, NEW i \in Exchangers PROVE ConnOK(q, i)
  <2>1. PICK t \in Players : t = send_to(q, i)  BY <1>1, Peers
  <2>2. Out(q, i) = 0 /\ In(t, i) = 0  BY <1>4 DEF Out, In
  <2>3. turn[q] = 1 /\ At(q) = 1 /\ At(t) = 1  BY <1>3
  <2>4. chan[<<q, t>>] = <<>>  BY DEF Init
  <2>5. Flow(conf, q, 1, 1, 0, 1, 0, <<>>)  BY <1>1, FlowInit DEF Players
  <2>6. Flow(conf, q, turn[q], At(q), Out(q, i), At(t), In(t, i), chan[<<q, t>>])
    BY <2>2, <2>3, <2>4, <2>5
  <2> QED BY <2>1, <2>6 DEF ConnOK
<1> QED BY <1>5, <1>6

(* One player's step keeps all players in step.                            *)
LEMMA PlayerSafe ==
    ASSUME Joint, NEW p \in Players, Exchange(p) \/ Leave(p)
    PROVE  /\ PlayerOK(p)'
           /\ \A q \in Players, i \in Exchangers : ConnOK(q, i)'
           /\ OnlyAt(p)
<1>1. StreamsInv  BY DEF Joint
<1>2. CASE Construct(p)
  <2>1. OnlyAt(p)  BY <1>1, <1>2, ConstructStep, Zenon
  <2> QED BY <2>1, <1>2, ConstructSafe, Zenon
<1>3. CASE Send(p)
  <2>1. OnlyAt(p)  BY <1>1, <1>3, SendStep, Zenon
  <2> QED BY <2>1, <1>3, SendSafe, Zenon
<1>4. CASE ReceiveData(p)
  <2>1. OnlyAt(p)  BY <1>1, <1>4, ReceiveDataStep, Zenon
  <2> QED BY <2>1, <1>4, ReceiveDataSafe, Zenon
<1>5. CASE ReceiveLength(p)
  <2>1. OnlyAt(p)  BY <1>1, <1>5, ReceiveLengthStep, Zenon
  <2> QED BY <2>1, <1>5, ReceiveLengthSafe, Zenon
<1>6. CASE ReceiveNothing(p)
  <2>1. OnlyAt(p)  BY <1>1, <1>6, ReceiveNothingStep, Zenon
  <2> QED BY <2>1, <1>6, ReceiveNothingSafe, Zenon
<1>7. CASE SendFails(p) \/ ReceiveFails(p) \/ Leave(p)
  <2>1. Fail(p) \/ Leave(p)  BY <1>7 DEF SendFails, ReceiveFails
  <2>2. pc[p] \in Active  BY <1>7 DEF SendFails, ReceiveFails, Leave, Active
  <2>3. OnlyAt(p)  BY <1>1, <2>1, StopStep, Zenon
  <2> QED BY <2>1, <2>2, <2>3, StopSafe, Zenon
<1> QED BY <1>2, <1>3, <1>4, <1>5, <1>6, <1>7 DEF Exchange

LEMMA ExchangeNext == ExchangeInv /\ [Next]_vars => ExchangeInv'
<1> SUFFICES ASSUME ExchangeInv, [Next]_vars PROVE ExchangeInv'  OBVIOUS
<1>1. StreamsInv /\ StreamsInv'  BY StreamsNext DEF ExchangeInv
<1>2. ASSUME SharingSafe(conf)'
      PROVE  /\ \A p \in Players' : PlayerOK(p)'
             /\ \A q \in Players', i \in Exchangers' : ConnOK(q, i)'
  <2>1. CASE UNCHANGED vars
    <3>1. /\ conf' = conf /\ chan' = chan /\ pc' = pc /\ turn' = turn /\ cur' = cur /\ left' = left
          /\ ex' = ex /\ stream' = stream /\ moved' = moved /\ got' = got
      BY <2>1 DEF vars
    <3>2. Joint
      <4>1. SharingSafe(conf)  BY <3>1, <1>2 DEF SharingSafe
      <4> QED BY <4>1, <1>1 DEF ExchangeInv, Joint
    <3>3. Players' = Players /\ Exchangers' = Exchangers  BY <3>1, SameConf
    <3>4. ASSUME NEW p \in Players PROVE PlayerOK(p)'
      <4>1. PlayerOK(p)  BY <3>2 DEF Joint
      <4> QED BY <3>1, <4>1 DEF PlayerOK, CountersOK, PhaseOK, GotOK, Exchangers, receive_from, offset,
                 Byte, More, len, NewExchanger, n_turns, At, Message
    <3>5. ASSUME NEW q \in Players, NEW i \in Exchangers PROVE ConnOK(q, i)'
      <4>1. ConnOK(q, i)  BY <3>2 DEF Joint
      <4>2. PICK t : t = send_to(q, i)  OBVIOUS
      <4>3. At(q)' = At(q) /\ At(t)' = At(t) /\ Out(q, i)' = Out(q, i) /\ In(t, i)' = In(t, i)
        BY <3>1 DEF At, Out, In
      <4> QED BY <3>1, <4>1, <4>2, <4>3, ConnFrame
    <3> QED BY <3>3, <3>4, <3>5
  <2>2. CASE Next
    <3>1. PICK p \in Players : Exchange(p) \/ Leave(p)  BY <2>2 DEF Next
    <3>2. conf' = conf
      BY <3>1 DEF Exchange, Construct, Send, SendFails, Fail, ReceiveData, ReceiveLength,
         ReceiveNothing, ReceiveFails, Leave
    <3>3. Joint
      <4>1. SharingSafe(conf)  BY <3>2, <1>2 DEF SharingSafe
      <4> QED BY <4>1, <1>1 DEF ExchangeInv, Joint
    <3>4. /\ PlayerOK(p)' /\ OnlyAt(p)
          /\ \A q \in Players, i \in Exchangers : ConnOK(q, i)'
      BY <3>1, <3>3, PlayerSafe, Zenon
    <3>5. Players' = Players /\ Exchangers' = Exchangers  BY <3>2, SameConf
    <3>6. ASSUME NEW r \in Players PROVE PlayerOK(r)'
      <4>1. CASE r = p  BY <4>1, <3>4
      <4>2. CASE r # p
        <5>1. PlayerOK(r) /\ Shapes  BY <3>3, <1>1 DEF Joint, StreamsInv
        <5> QED BY <5>1, <4>2, <3>4, OtherPlayers
      <4> QED BY <4>1, <4>2
    <3> QED BY <3>4, <3>5, <3>6
  <2> QED BY <2>1, <2>2
<1> QED BY <1>1, <1>2 DEF ExchangeInv

(* The invariant: streams are kept apart from each other, and unless       *)
(* sharing a stream is unsafe, players are in step.                        *)
THEOREM ExchangeInvariant == Spec => []ExchangeInv
<1>1. Init => ExchangeInv  BY ExchangeInit
<1>2. ExchangeInv /\ [Next]_vars => ExchangeInv'  BY ExchangeNext
<1> QED BY <1>1, <1>2, PTL DEF Spec

(* Every exchange hands its caller exactly the message the other player    *)
(* sent in its exchange of that number (octetStream::exchange,             *)
(* Broadcast_Receive_no_stats): for any number of players, lengths,        *)
(* buffers and interleaving, also when a player leaves.  The hypothesis    *)
(* names the configurations with one stream for both directions for which  *)
(* it holds; with separate streams, and for broadcasts, it is TRUE.        *)
THEOREM ExchangesDeliver == Spec => [](SharingSafe(conf) => Delivered)
<1>1. ASSUME ExchangeInv, SharingSafe(conf) PROVE Delivered
  <2> SUFFICES ASSUME NEW p \in Players, NEW i \in Exchangers, NEW t \in DOMAIN got[p]
               PROVE  got[p][t][i] = Message(receive_from(p, i), t)
    BY DEF Delivered
  <2>1. GotOK(p)  BY <1>1 DEF ExchangeInv, PlayerOK
  <2>2. DOMAIN got[p] = 1 .. Len(got[p])
    <3> DEFINE T == [Exchangers -> Seq(Things)]
    <3>1. got[p] \in Seq(T)  BY <2>1 DEF GotOK
    <3> HIDE DEF T
    <3> QED BY <3>1, LenProperties
  <2> QED BY <2>1, <2>2 DEF GotOK
<1>2. ExchangeInv => (SharingSafe(conf) => Delivered)  BY <1>1
<1> QED BY <1>2, ExchangeInvariant, PTL
=============================================================================
