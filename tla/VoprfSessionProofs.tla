------------------------- MODULE VoprfSessionProofs -------------------------
(***************************************************************************)
(* The verdict of a run of voprf_e2e means what it says, for circuits of   *)
(* any number of wires, any number of circuits and any `-n': the server's  *)
(* `check: pass' is printed exactly when the verifier accepted, and the    *)
(* client then holds F_k at every input.                                   *)
(*                                                                         *)
(* The blobs are not numbered, and the client knows what it receives only  *)
(* by the order in which it asks.  The invariant therefore compares the    *)
(* socket with the script of a complete run: what is under way is what     *)
(* follows, in the script, the blobs that the client has consumed.         *)
(***************************************************************************)
EXTENDS VoprfSession, TLAPS

Message(type, data) == [type |-> type, data |-> data]

(* The data of the blobs.                                                  *)
Table(i) == [gc |-> i, gc_hash |-> gc_hash(i)]
KeyLabel(k, i) == [gc |-> i, key |-> k]
Hashes(m) == [i \in 1 .. m |-> gc_hash(i - 1)]

(* Where they are in the script of a session s.                            *)
TablesAt(s) == IF s.tables_online THEN 6 ELSE 4
PingAt(s)   == IF s.tables_online THEN 4 ELSE 4 + s.server_m
LabelsAt(s) == 6 + s.server_m
Total(s)    == 7 + 2 * s.server_m

Script(s, k, p) ==
    CASE p = 1 -> Message("base_ot", <<>>)
      [] p = 2 -> Message("cm", <<"cm", k>>)
      [] p = 3 -> Message("meta", [m |-> s.server_m, hashes |-> Hashes(s.server_m)])
      [] TablesAt(s) <= p /\ p < TablesAt(s) + s.server_m ->
            Message("tables", Table(p - TablesAt(s)))
      [] p = PingAt(s) -> Message("ping", <<>>)
      [] p = PingAt(s) + 1 -> Message("masks", mask(s.server_m))
      [] LabelsAt(s) <= p /\ p < LabelsAt(s) + s.server_m ->
            Message("key_labels", KeyLabel(k, p - LabelsAt(s)))
      [] p = Total(s) - 1 -> Message("proof", [gc_hash |-> gc_hash(0)])
      [] OTHER -> Message("key", k)

Messages(s, k) == {Script(s, k, p) : p \in Nat}

(* The sequence c is the script after its first p blobs.                   *)
Follows(s, k, p, c) ==
    /\ c \in Seq(Messages(s, k))
    /\ \A n \in 1 .. Len(c) : c[n] = Script(s, k, p + n)
-----------------------------------------------------------------------------
(* How much of the script the server has sent and the client consumed.     *)
Sent ==
    CASE server.at = "base_ot"         -> 0
      [] server.at = "base_ot2"        -> 1
      [] server.at \in {"pong", "ot"}  -> PingAt(session)
      [] OTHER                         -> Total(session)

Consumed ==
    CASE client.at = "base_ot"                 -> 0
      [] client.at = "cm"                      -> 1
      [] client.at = "meta"                    -> 2
      [] client.at = "tables"                  -> (TablesAt(session) - 1) + Len(got.tables)
      [] client.at = "ping"                    -> PingAt(session) - 1
      [] client.at \in {"ot", "masks", "overrun"} -> PingAt(session)
      [] client.at = "key_labels"              -> (LabelsAt(session) - 1) + Len(got.key_labels)
      [] client.at = "proof"                   -> Total(session) - 2
      [] client.at = "key"                     -> Total(session) - 1
      [] OTHER                                 -> Total(session)

(* The places of run_client() at which a part of the script has arrived.   *)
PastLabels == {"proof", "key", "eval", "exit"}
PastMasks  == {"key_labels"} \union PastLabels \union
              (IF session.tables_online THEN {"tables"} ELSE {})
PastPing   == {"ot", "masks", "overrun"} \union PastMasks
PastTables == IF session.tables_online THEN {"key_labels"} \union PastLabels
                                       ELSE {"ping"} \union (PastPing \ {"tables"})
PastMeta   == {"tables", "ping"} \union PastPing

(* A client that gave up reads no more.                                    *)
SocketOK ==
    /\ client.at # "error" =>
         /\ Follows(session, key, Consumed, toClient)
         /\ server.at # "error" => Consumed + Len(toClient) = Sent
         /\ Consumed + Len(toClient) > PingAt(session) =>
              session.n_ot = session.server_m * PerCircuit
    /\ server.at \in {"ot", "vok", "exit"} => session.n_ot = session.server_m * PerCircuit

GotFields == {"cm", "hashes", "tables", "masks", "key_labels", "proof", "key"}

TablesOK ==
    /\ got.tables \in Seq({Table(i) : i \in Nat})
    /\ \A n \in 1 .. Len(got.tables) : got.tables[n] = Table(n - 1)
    /\ client.at \in PastTables => Len(got.tables) = session.server_m
    /\ client.at = "tables" => Len(got.tables) < session.server_m
    /\ client.at \notin PastTables \union {"tables", "error"} => Len(got.tables) = 0

LabelsOK ==
    /\ got.key_labels \in Seq({KeyLabel(key, i) : i \in Nat})
    /\ \A n \in 1 .. Len(got.key_labels) : got.key_labels[n] = KeyLabel(key, n - 1)
    /\ client.at \in PastLabels => Len(got.key_labels) = session.server_m
    /\ client.at = "key_labels" => Len(got.key_labels) < session.server_m
    /\ client.at \notin PastLabels \union {"key_labels", "error"} => Len(got.key_labels) = 0

MasksOK ==
    client.at \in PastMasks =>
      /\ session.n_ot = session.server_m * PerCircuit
      /\ got.masks = [idx \in 0 .. session.n_ot - 1 |-> mask(session.server_m)[idx][shares[idx]]]

(* The two shares of wire j of circuit i, transfers i * 256 + 2 * j and    *)
(* the one after it, add up to the input bit.                              *)
Transfer(i, j, h) == i * PerCircuit + (2 * j + h)

AddUp(sh, x, i, j) ==
    (sh[Transfer(i, j, 0)] # sh[Transfer(i, j, 1)]) = H1[x[i + 1]][j]

SharesOK ==
    client.at \in PastPing \ {"overrun"} =>
      /\ xs \in [1 .. session.server_m -> Xs]
      /\ session.n_ot >= session.server_m * PerCircuit
      /\ shares \in [0 .. session.n_ot - 1 -> BOOLEAN]
      /\ \A i \in 0 .. session.server_m - 1, j \in W : AddUp(shares, xs, i, j)

GotOK ==
    /\ DOMAIN got = GotFields
    /\ client.at \in PastMeta => /\ session.client_m = session.server_m
                                 /\ got.hashes = Hashes(session.server_m)
    /\ client.at \in {"key", "eval", "exit"} => got.proof = [gc_hash |-> gc_hash(0)]
    /\ client.at \in {"eval", "exit"} => got.key = key

VerdictOK ==
    /\ verdict \in [stark_ok : BOOLEAN, bind_ok : BOOLEAN, plaintext_ok : BOOLEAN, plain_match : Nat]
    /\ client \in [at : ClientPlaces \ {"report"}, i : Nat]
    /\ verdict.plaintext_ok = TRUE /\ verdict.plain_match = client.i
    /\ ys \in Seq({F_k(key, x) : x \in Xs})
    /\ Len(ys) = client.i
    /\ client.at \notin {"eval", "exit"} => client.i = 0
    /\ client.at \in {"eval", "exit"} =>
         /\ verdict.bind_ok = verdict.stark_ok
         /\ client.i <= session.server_m
         /\ \A n \in 1 .. client.i : ys[n] = F_k(key, xs[n])
    /\ client.at = "exit" => client.i = session.server_m \/ ~ verdict.stark_ok

(* A verdict under way is the one of a client that has ended.              *)
ReportOK ==
    /\ server \in [at : ServerPlaces, vok : BOOLEAN]
    /\ toServer \in Seq([type : {"base_ot", "ping", "ot", "vok"}, data : {<<>>} \union BOOLEAN])
    /\ \A n \in 1 .. Len(toServer) : toServer[n].type = "vok" =>
         client.at = "exit" /\ toServer[n].data = verdict.stark_ok
    /\ server.at = "exit" => client.at = "exit" /\ server.vok = verdict.stark_ok
    /\ server.vok => server.at = "exit"

SessionInv ==
    /\ session \in Sessions
    /\ SocketOK /\ GotOK /\ TablesOK /\ LabelsOK /\ MasksOK /\ SharesOK
    /\ VerdictOK /\ ReportOK
-----------------------------------------------------------------------------
(* Arithmetic: transfer number i * 256 + 2 * j + share is decomposed again. *)
LEMMA DivUnique ==
    ASSUME NEW n \in Nat, n > 0, NEW q \in Nat, NEW r \in Nat, r < n
    PROVE  (q * n + r) \div n = q /\ (q * n + r) % n = r
<1> DEFINE a == q * n + r
           d == a \div n
<1>0. q * n \in Nat
  OBVIOUS
<1>1. a \in Nat /\ d \in Nat /\ a % n \in Nat /\ a = n * d + (a % n) /\ a % n < n
  BY <1>0
<1> HIDE DEF d
<1>2. d = q
  <2>1. CASE d >= q + 1
    <3>1. n * d >= n * (q + 1)
      BY <2>1, <1>1
    <3>2. QED
      BY <3>1, <1>1, <1>0
  <2>2. CASE d <= q - 1
    <3>1. n * d <= n * (q - 1)
      BY <2>2, <1>1
    <3>2. n * (q - 1) = n * q - n
      OBVIOUS
    <3>3. QED
      BY <3>1, <3>2, <1>1, <1>0
  <2>3. QED
    BY <2>1, <2>2, <1>1
<1>3. a % n = r
  BY <1>1, <1>2
<1>4. QED
  BY <1>2, <1>3 DEF d

Decomposed(m, i, j, h, idx) ==
    /\ idx \in 0 .. m * PerCircuit - 1
    /\ idx \div PerCircuit = i
    /\ (idx % PerCircuit) \div 2 = j
    /\ idx % 2 = h
    /\ idx \div 2 = i * NWires + j
    /\ i * NWires + j \in 0 .. m * NWires - 1

LEMMA TransferIndex ==
    ASSUME NEW m \in Nat, NEW i \in 0 .. m - 1, NEW j \in W, NEW h \in 0 .. 1
    PROVE  Decomposed(m, i, j, h, Transfer(i, j, h))
<1> DEFINE idx == Transfer(i, j, h)
<1>0. idx = i * PerCircuit + (2 * j + h)
  BY DEF Transfer
<1> HIDE DEF idx
<1>1. NWires \in Nat /\ PerCircuit \in Nat /\ PerCircuit > 0 /\ PerCircuit = 2 * NWires
  BY InputsOK DEF PerCircuit
<1>2. j \in Nat /\ j < NWires /\ h \in Nat /\ h < 2 /\ i \in Nat
  BY <1>1 DEF W
<1>3. 2 * j + h \in Nat /\ 2 * j + h < PerCircuit
  BY <1>1, <1>2
<1>4. idx \div PerCircuit = i /\ idx % PerCircuit = 2 * j + h
  BY <1>0, <1>1, <1>2, <1>3, DivUnique
<1>5. (2 * j + h) \div 2 = j
  BY <1>2
<1>6. i * NWires \in Nat /\ i * PerCircuit = 2 * (i * NWires)
  BY <1>1, <1>2
<1>7. idx = 2 * (i * NWires + j) + h
  BY <1>0, <1>2, <1>6
<1>8. idx % 2 = h /\ idx \div 2 = i * NWires + j
  <2> DEFINE e == i * NWires + j
  <2>1. e \in Nat
    BY <1>2, <1>6
  <2>2. idx = 2 * e + h
    BY <1>7
  <2> HIDE DEF e
  <2>3. idx % 2 = h /\ idx \div 2 = e
    BY <2>1, <2>2, <1>2
  <2>4. QED
    BY <2>3 DEF e
<1>9. i * NWires + NWires <= m * NWires
  <2>1. m - i - 1 \in Nat
    OBVIOUS
  <2>2. (m - i - 1) * NWires >= 0
    BY <2>1, <1>1
  <2>3. (m - i - 1) * NWires = m * NWires - i * NWires - NWires
    BY <1>1, <1>2
  <2>4. m * NWires \in Nat
    BY <1>1
  <2>5. QED
    BY <2>2, <2>3, <2>4, <1>6, <1>1
<1>10. i * NWires + j \in 0 .. m * NWires - 1
  BY <1>9, <1>6, <1>2, <1>1
<1>11. idx \in 0 .. m * PerCircuit - 1
  <2>1. m * PerCircuit = 2 * (m * NWires) /\ m * NWires \in Nat
    BY <1>1
  <2>2. QED
    BY <2>1, <1>7, <1>9, <1>6, <1>2, <1>1
<1>12. QED
  BY <1>4, <1>5, <1>8, <1>10, <1>11 DEF Decomposed, idx
-----------------------------------------------------------------------------
(* The blobs of the script, by their place in it.                          *)
LEMMA SessionType ==
    ASSUME NEW s \in Sessions
    PROVE  /\ s.server_m \in Nat /\ s.server_m >= 1
           /\ s.client_m \in Nat /\ s.client_m >= 1
           /\ s.n_ot \in Nat /\ s.tables_online \in BOOLEAN
           /\ TablesAt(s) \in Nat /\ PingAt(s) \in Nat /\ LabelsAt(s) \in Nat /\ Total(s) \in Nat
           /\ TablesAt(s) >= 4 /\ PingAt(s) >= 4 /\ LabelsAt(s) >= 7 /\ Total(s) >= 9
BY SessionsOK DEF TablesAt, PingAt, LabelsAt, Total

LEMMA ScriptValues ==
    ASSUME NEW s \in Sessions, NEW k
    PROVE  /\ Script(s, k, 1) = Message("base_ot", <<>>)
           /\ Script(s, k, 2) = Message("cm", <<"cm", k>>)
           /\ Script(s, k, 3) = Message("meta", [m |-> s.server_m, hashes |-> Hashes(s.server_m)])
           /\ \A i \in 0 .. s.server_m - 1 :
                Script(s, k, TablesAt(s) + i) = Message("tables", Table(i))
           /\ Script(s, k, PingAt(s)) = Message("ping", <<>>)
           /\ Script(s, k, PingAt(s) + 1) = Message("masks", mask(s.server_m))
           /\ \A i \in 0 .. s.server_m - 1 :
                Script(s, k, LabelsAt(s) + i) = Message("key_labels", KeyLabel(k, i))
           /\ Script(s, k, Total(s) - 1) = Message("proof", [gc_hash |-> gc_hash(0)])
           /\ Script(s, k, Total(s)) = Message("key", k)
<1> USE SessionType
<1>1. /\ Script(s, k, 1) = Message("base_ot", <<>>)
      /\ Script(s, k, 2) = Message("cm", <<"cm", k>>)
      /\ Script(s, k, 3) = Message("meta", [m |-> s.server_m, hashes |-> Hashes(s.server_m)])
  BY DEF Script, TablesAt, PingAt, LabelsAt, Total
<1>2. ASSUME NEW i \in 0 .. s.server_m - 1
      PROVE  Script(s, k, TablesAt(s) + i) = Message("tables", Table(i))
  <2> DEFINE p == TablesAt(s) + i
  <2>1. /\ p # 1 /\ p # 2 /\ p # 3 /\ TablesAt(s) <= p /\ p < TablesAt(s) + s.server_m
        /\ p # PingAt(s) /\ p # PingAt(s) + 1 /\ p < LabelsAt(s) /\ p # Total(s) - 1
        /\ p - TablesAt(s) = i
    BY DEF TablesAt, PingAt, LabelsAt, Total
  <2> HIDE DEF p
  <2>2. QED
    BY <2>1 DEF Script, p
<1>3. /\ Script(s, k, PingAt(s)) = Message("ping", <<>>)
      /\ Script(s, k, PingAt(s) + 1) = Message("masks", mask(s.server_m))
  <2>1. /\ PingAt(s) >= 4 /\ PingAt(s) < LabelsAt(s) - 1
        /\ ~ (TablesAt(s) <= PingAt(s) /\ PingAt(s) < TablesAt(s) + s.server_m)
        /\ ~ (TablesAt(s) <= PingAt(s) + 1 /\ PingAt(s) + 1 < TablesAt(s) + s.server_m)
    BY DEF TablesAt, PingAt, LabelsAt
  <2>2. Script(s, k, PingAt(s)) = Message("ping", <<>>)
    <3>1. PingAt(s) # 1 /\ PingAt(s) # 2 /\ PingAt(s) # 3 /\ PingAt(s) # PingAt(s) + 1
          /\ PingAt(s) < LabelsAt(s) /\ PingAt(s) # Total(s) - 1
      BY <2>1 DEF Total, LabelsAt
    <3>2. QED
      BY <2>1, <3>1 DEF Script
  <2>3. Script(s, k, PingAt(s) + 1) = Message("masks", mask(s.server_m))
    <3> DEFINE p == PingAt(s) + 1
    <3>1. p # 1 /\ p # 2 /\ p # 3 /\ p # PingAt(s)
          /\ p < LabelsAt(s) /\ p # Total(s) - 1
          /\ ~ (TablesAt(s) <= p /\ p < TablesAt(s) + s.server_m)
      BY <2>1 DEF Total, LabelsAt
    <3>2. p = PingAt(s) + 1
      OBVIOUS
    <3> HIDE DEF p
    <3>3. QED
      BY <3>1, <3>2 DEF Script
  <2>4. QED
    BY <2>2, <2>3
<1>4. ASSUME NEW i \in 0 .. s.server_m - 1
      PROVE  Script(s, k, LabelsAt(s) + i) = Message("key_labels", KeyLabel(k, i))
  <2> DEFINE p == LabelsAt(s) + i
  <2>1. /\ p # 1 /\ p # 2 /\ p # 3 /\ p >= TablesAt(s) + s.server_m
        /\ p # PingAt(s) /\ p # PingAt(s) + 1 /\ p >= LabelsAt(s)
        /\ p < LabelsAt(s) + s.server_m /\ p # Total(s) - 1
        /\ p - LabelsAt(s) = i
    BY DEF TablesAt, PingAt, LabelsAt, Total
  <2> HIDE DEF p
  <2>2. QED
    BY <2>1 DEF Script, p
<1>5. /\ Script(s, k, Total(s) - 1) = Message("proof", [gc_hash |-> gc_hash(0)])
      /\ Script(s, k, Total(s)) = Message("key", k)
  <2>1. ASSUME NEW p \in {Total(s) - 1, Total(s)}
        PROVE  /\ p # 1 /\ p # 2 /\ p # 3 /\ ~ p < TablesAt(s) + s.server_m
               /\ p # PingAt(s) /\ p # PingAt(s) + 1 /\ ~ p < LabelsAt(s) + s.server_m
    BY DEF TablesAt, PingAt, LabelsAt, Total
  <2>2. Total(s) # Total(s) - 1
    OBVIOUS
  <2>3. QED
    BY <2>1, <2>2 DEF Script
<1>6. QED
  BY <1>1, <1>2, <1>3, <1>4, <1>5

(* The script is taken from its beginning and extended at its end.         *)
LEMMA FollowsCat ==
    ASSUME NEW s, NEW k, NEW p \in Nat, NEW c, NEW d, NEW q,
           Follows(s, k, p, c), Follows(s, k, q, d), p + Len(c) = q
    PROVE  Follows(s, k, p, c \o d) /\ Len(c \o d) = Len(c) + Len(d)
<1>1. c \in Seq(Messages(s, k)) /\ d \in Seq(Messages(s, k))
  BY DEF Follows
<1>2. c \o d \in Seq(Messages(s, k)) /\ Len(c \o d) = Len(c) + Len(d)
      /\ Len(c) \in Nat /\ Len(d) \in Nat
  BY <1>1
<1>3. ASSUME NEW n \in 1 .. Len(c \o d)
      PROVE  (c \o d)[n] = Script(s, k, p + n)
  <2>1. CASE n <= Len(c)
    BY <2>1, <1>1, <1>2 DEF Follows
  <2>2. CASE n > Len(c)
    <3>1. (c \o d)[n] = d[n - Len(c)] /\ n - Len(c) \in 1 .. Len(d)
      BY <2>2, <1>1, <1>2
    <3>2. d[n - Len(c)] = Script(s, k, (p + Len(c)) + (n - Len(c)))
      BY <3>1 DEF Follows
    <3>3. (p + Len(c)) + (n - Len(c)) = p + n
      BY <1>2
    <3>4. QED
      BY <3>1, <3>2, <3>3
  <2>3. QED
    BY <2>1, <2>2, <1>2
<1>4. QED
  BY <1>2, <1>3 DEF Follows

LEMMA FollowsTail ==
    ASSUME NEW s, NEW k, NEW p \in Nat, NEW c, Follows(s, k, p, c), c # <<>>
    PROVE  /\ Head(c) = Script(s, k, p + 1)
           /\ Follows(s, k, p + 1, Tail(c))
           /\ Len(c) \in Nat /\ Len(Tail(c)) = Len(c) - 1
<1>1. c \in Seq(Messages(s, k)) /\ Len(c) \in Nat /\ Len(c) >= 1
  BY DEF Follows
<1>2. Tail(c) \in Seq(Messages(s, k)) /\ Len(Tail(c)) = Len(c) - 1
      /\ Head(c) = c[1]
  BY <1>1
<1>3. ASSUME NEW n \in 1 .. Len(Tail(c))
      PROVE  Tail(c)[n] = Script(s, k, (p + 1) + n)
  <2>1. Tail(c)[n] = c[n + 1] /\ n + 1 \in 1 .. Len(c)
    BY <1>1, <1>2
  <2>2. c[n + 1] = Script(s, k, p + (n + 1))
    BY <2>1 DEF Follows
  <2>3. p + (n + 1) = (p + 1) + n
    OBVIOUS
  <2>4. QED
    BY <2>1, <2>2, <2>3
<1>4. QED
  BY <1>1, <1>2, <1>3 DEF Follows

LEMMA FollowsBlob ==
    ASSUME NEW s, NEW k, NEW p \in Nat, NEW q, NEW type, NEW data,
           q = p + 1, Script(s, k, q) = Message(type, data)
    PROVE  Follows(s, k, p, Blob(type, data)) /\ Len(Blob(type, data)) = 1
<1>1. Message(type, data) \in Messages(s, k)
  <2>1. p + 1 \in Nat
    OBVIOUS
  <2>2. QED
    BY <2>1 DEF Messages
<1>2. Blob(type, data) = << Message(type, data) >>
  BY DEF Blob, Message
<1>3. Blob(type, data) \in Seq(Messages(s, k)) /\ Len(Blob(type, data)) = 1
      /\ Blob(type, data)[1] = Message(type, data)
  BY <1>1, <1>2
<1>4. QED
  BY <1>3 DEF Follows

LEMMA FollowsNothing ==
    ASSUME NEW s, NEW k, NEW p \in Nat
    PROVE  Follows(s, k, p, <<>>) /\ Len(<<>>) = 0
BY DEF Follows

(* The blobs that are sent once for each circuit.                          *)
LEMMA FollowsTables ==
    ASSUME NEW s \in Sessions, NEW k
    PROVE  /\ Follows(s, k, TablesAt(s) - 1, table_blobs(s.server_m))
           /\ Len(table_blobs(s.server_m)) = s.server_m
<1> DEFINE m == s.server_m
           c == [i \in 1 .. m |-> Message("tables", Table(i - 1))]
<1>1. m \in Nat /\ TablesAt(s) \in Nat /\ TablesAt(s) >= 1
  BY SessionType DEF TablesAt
<1>2. table_blobs(m) = c
  BY DEF table_blobs, Blobs, Message, Table
<1>3. ASSUME NEW n \in 1 .. m
      PROVE  c[n] = Script(s, k, (TablesAt(s) - 1) + n) /\ c[n] \in Messages(s, k)
  <2>1. n - 1 \in 0 .. m - 1 /\ (TablesAt(s) - 1) + n = TablesAt(s) + (n - 1)
        /\ (TablesAt(s) - 1) + n \in Nat
    BY <1>1
  <2>2. c[n] = Message("tables", Table(n - 1))
    OBVIOUS
  <2>3. Script(s, k, TablesAt(s) + (n - 1)) = Message("tables", Table(n - 1))
    BY <2>1, ScriptValues
  <2>4. QED
    BY <2>1, <2>2, <2>3 DEF Messages
<1> HIDE DEF c
<1>4. DOMAIN c = 1 .. m /\ c = [i \in 1 .. m |-> c[i]]
  BY DEF c
<1>5. c \in Seq(Messages(s, k)) /\ Len(c) = m
  BY <1>1, <1>3, <1>4
<1>6. QED
  BY <1>2, <1>3, <1>5 DEF Follows

label_blobs(m, k) == [i \in 1 .. m |-> Message("key_labels", KeyLabel(k, i - 1))]

LEMMA FollowsLabels ==
    ASSUME NEW s \in Sessions, NEW k
    PROVE  /\ Follows(s, k, LabelsAt(s) - 1, label_blobs(s.server_m, k))
           /\ Len(label_blobs(s.server_m, k)) = s.server_m
<1> DEFINE m == s.server_m
           c == label_blobs(m, k)
<1>1. m \in Nat /\ LabelsAt(s) \in Nat /\ LabelsAt(s) >= 1
  BY SessionType DEF LabelsAt
<1>2. ASSUME NEW n \in 1 .. m
      PROVE  c[n] = Script(s, k, (LabelsAt(s) - 1) + n) /\ c[n] \in Messages(s, k)
  <2>1. n - 1 \in 0 .. m - 1 /\ (LabelsAt(s) - 1) + n = LabelsAt(s) + (n - 1)
        /\ (LabelsAt(s) - 1) + n \in Nat
    BY <1>1
  <2>2. c[n] = Message("key_labels", KeyLabel(k, n - 1))
    BY DEF label_blobs
  <2>3. Script(s, k, LabelsAt(s) + (n - 1)) = Message("key_labels", KeyLabel(k, n - 1))
    BY <2>1, ScriptValues
  <2>4. QED
    BY <2>1, <2>2, <2>3 DEF Messages
<1>3. DOMAIN c = 1 .. m /\ c = [i \in 1 .. m |-> c[i]]
  BY DEF label_blobs
<1> HIDE DEF c
<1>4. c \in Seq(Messages(s, k)) /\ Len(c) = m
  BY <1>1, <1>2, <1>3
<1>5. QED
  BY <1>2, <1>4 DEF Follows, c
-----------------------------------------------------------------------------
LEMMA InitInv == Init => SessionInv
<1> SUFFICES ASSUME Init PROVE SessionInv
  OBVIOUS
<1> USE DEF Init
<1>1. session \in Sessions
  OBVIOUS
<1>2. SocketOK
  <2>1. Consumed = 0 /\ Sent = 0
    BY DEF Consumed, Sent
  <2>2. PingAt(session) \in Nat
    BY SessionType
  <2>3. QED
    BY <2>1, <2>2, FollowsNothing DEF SocketOK
<1>3. GotOK
  BY DEF GotOK, GotFields, PastMeta, PastPing, PastMasks, PastLabels
<1>4. TablesOK
  BY DEF TablesOK, PastTables, PastPing, PastMasks, PastLabels
<1>5. LabelsOK
  BY DEF LabelsOK, PastLabels
<1>6. MasksOK /\ SharesOK
  BY DEF MasksOK, SharesOK, PastPing, PastMasks, PastLabels
<1>7. VerdictOK
  BY DEF VerdictOK, ClientPlaces
<1>8. ReportOK
  BY DEF ReportOK, ServerPlaces
<1>9. QED
  BY <1>1, <1>2, <1>3, <1>4, <1>5, <1>6, <1>7, <1>8 DEF SessionInv

LEMMA ConsumedType ==
    ASSUME SessionInv
    PROVE  Consumed \in Nat /\ Sent \in Nat
<1>1. session \in Sessions /\ Len(got.tables) \in Nat /\ Len(got.key_labels) \in Nat
  BY DEF SessionInv, TablesOK, LabelsOK
<1>2. /\ (TablesAt(session) - 1) + Len(got.tables) \in Nat
      /\ PingAt(session) - 1 \in Nat /\ PingAt(session) \in Nat
      /\ (LabelsAt(session) - 1) + Len(got.key_labels) \in Nat
      /\ Total(session) - 2 \in Nat /\ Total(session) - 1 \in Nat /\ Total(session) \in Nat
  <2>1. /\ TablesAt(session) \in Nat /\ PingAt(session) \in Nat
        /\ LabelsAt(session) \in Nat /\ Total(session) \in Nat
        /\ TablesAt(session) >= 4 /\ PingAt(session) >= 4
        /\ LabelsAt(session) >= 7 /\ Total(session) >= 9
    BY <1>1, SessionType
  <2>2. ASSUME NEW a \in Nat, NEW b \in Nat, a >= 2
        PROVE  (a - 1) + b \in Nat /\ a - 1 \in Nat /\ a - 2 \in Nat
    BY <2>2
  <2>3. (TablesAt(session) - 1) + Len(got.tables) \in Nat
    BY <1>1, <2>1, <2>2
  <2>4. (LabelsAt(session) - 1) + Len(got.key_labels) \in Nat
    BY <1>1, <2>1, <2>2
  <2>5. PingAt(session) - 1 \in Nat
    BY <2>1, <2>2
  <2>6. Total(session) - 2 \in Nat /\ Total(session) - 1 \in Nat /\ Total(session) \in Nat
    BY <2>1, <2>2
  <2>7. QED
    BY <2>1, <2>3, <2>4, <2>5, <2>6
<1>3. Consumed \in Nat
  BY <1>2 DEF Consumed
<1>4. Sent \in Nat
  BY <1>2 DEF Sent
<1>5. QED
  BY <1>3, <1>4

(* The client takes the next blob of the script.                           *)
LEMMA TakeNext ==
    ASSUME SessionInv, client.at # "error", NEW type, Take(type)
    PROVE  /\ Head(toClient) = Script(session, key, Consumed + 1)
           /\ Head(toClient).type = type
           /\ Consumed + Len(toClient) > Consumed
           /\ Consumed + 1 > PingAt(session) => session.n_ot = session.server_m * PerCircuit
           /\ UNCHANGED <<session, key, server>> /\ (client.at # "error")' =>
                (Consumed' = Consumed + 1 => SocketOK')
<1>1. Follows(session, key, Consumed, toClient) /\ toClient # <<>>
      /\ toClient' = Tail(toClient) /\ Head(toClient).type = type
  BY DEF SessionInv, SocketOK, Take, Expects
<1>2. /\ Head(toClient) = Script(session, key, Consumed + 1)
      /\ Follows(session, key, Consumed + 1, Tail(toClient))
      /\ Len(toClient) \in Nat /\ Len(Tail(toClient)) = Len(toClient) - 1
  BY <1>1, ConsumedType, FollowsTail
<1>3. Len(toClient) >= 1
  BY <1>1, <1>2 DEF Follows
<1>4. Consumed + 1 > PingAt(session) => session.n_ot = session.server_m * PerCircuit
  BY <1>2, <1>3, ConsumedType, SessionType DEF SessionInv, SocketOK
<1>5. ASSUME UNCHANGED <<session, key, server>>, Consumed' = Consumed + 1
      PROVE  SocketOK'
  <2>1. Sent' = Sent
    BY <1>5 DEF Sent
  <2>2. Consumed' + Len(toClient') = Consumed + Len(toClient)
    BY <1>1, <1>2, <1>5, ConsumedType
  <2>3. Follows(session', key', Consumed', toClient')
    BY <1>1, <1>2, <1>5
  <2>4. QED
    BY <2>1, <2>2, <2>3, <1>5 DEF SessionInv, SocketOK
<1>6. QED
  BY <1>1, <1>2, <1>3, <1>4, <1>5, ConsumedType

(* run_client() until it has the number of circuits.                       *)
LEMMA Step_Client_base_ot == SessionInv /\ Client_base_ot => SessionInv'
<1> SUFFICES ASSUME SessionInv, Client_base_ot PROVE SessionInv'
  OBVIOUS
<1>1. /\ client.at = "base_ot" /\ Take("base_ot")
      /\ toServer' = Append(toServer, Message("base_ot", <<>>))
      /\ client \in [at : ClientPlaces \ {"report"}, i : Nat]
      /\ client' = [client EXCEPT !.at = "cm"] /\ client'.at = "cm" /\ client'.i = client.i
      /\ UNCHANGED <<session, key, server, xs, shares, got, verdict, ys>>
  BY DEF Client_base_ot, Blob, Message, SessionInv, VerdictOK, ReportOK
<1>2. SocketOK'
  <2>1. Consumed = 0 /\ Consumed' = 1
    BY <1>1 DEF Consumed
  <2>2. QED
    BY <1>1, <2>1, TakeNext
<1>3. GotOK'
  BY <1>1 DEF SessionInv, GotOK, PastMeta, PastPing, PastMasks, PastLabels
<1>4. TablesOK' /\ LabelsOK'
  BY <1>1 DEF SessionInv, TablesOK, LabelsOK, PastTables, PastPing, PastMasks, PastLabels
<1>5. MasksOK' /\ SharesOK'
  BY <1>1 DEF SessionInv, MasksOK, SharesOK, PastPing, PastMasks, PastLabels
<1>6. VerdictOK'
  BY <1>1 DEF SessionInv, VerdictOK, ClientPlaces
<1>7. ReportOK'
  BY <1>1 DEF SessionInv, ReportOK, Message
<1>8. QED
  BY <1>1, <1>2, <1>3, <1>4, <1>5, <1>6, <1>7 DEF SessionInv

LEMMA Step_Client_cm == SessionInv /\ Client_cm => SessionInv'
<1> SUFFICES ASSUME SessionInv, Client_cm PROVE SessionInv'
  OBVIOUS
<1>1. /\ client.at = "cm" /\ Take("cm")
      /\ client \in [at : ClientPlaces \ {"report"}, i : Nat]
      /\ client' = [client EXCEPT !.at = "meta"] /\ client'.at = "meta" /\ client'.i = client.i
      /\ UNCHANGED <<session, key, server, xs, shares, verdict, ys, toServer>>
  BY DEF Client_cm, SessionInv, VerdictOK
<1>2. DOMAIN got' = DOMAIN got /\ got'.tables = got.tables /\ got'.key_labels = got.key_labels
  BY DEF Client_cm, SessionInv, GotOK, GotFields
<1>3. SocketOK'
  <2>1. Consumed = 1 /\ Consumed' = 2
    BY <1>1 DEF Consumed
  <2>2. QED
    BY <1>1, <2>1, TakeNext
<1>4. GotOK'
  BY <1>1, <1>2 DEF SessionInv, GotOK, PastMeta, PastPing, PastMasks, PastLabels
<1>5. TablesOK' /\ LabelsOK'
  BY <1>1, <1>2 DEF SessionInv, TablesOK, LabelsOK, PastTables, PastPing, PastMasks, PastLabels
<1>6. MasksOK' /\ SharesOK'
  BY <1>1 DEF SessionInv, MasksOK, SharesOK, PastPing, PastMasks, PastLabels
<1>7. VerdictOK'
  BY <1>1 DEF SessionInv, VerdictOK, ClientPlaces
<1>8. ReportOK'
  BY <1>1 DEF SessionInv, ReportOK
<1>9. QED
  BY <1>1, <1>3, <1>4, <1>5, <1>6, <1>7, <1>8 DEF SessionInv

(* The number of circuits is compared: from here on both sides agree on it. *)
LEMMA Step_Client_meta == SessionInv /\ Client_meta => SessionInv'
<1> SUFFICES ASSUME SessionInv, Client_meta PROVE SessionInv'
  OBVIOUS
<1> DEFINE place == IF session.tables_online THEN "ping" ELSE "tables"
<1>1. /\ client.at = "meta" /\ Take("meta")
      /\ client \in [at : ClientPlaces \ {"report"}, i : Nat]
      /\ client' = [client EXCEPT !.at = IF Head(toClient).data.m # session.client_m
                                         THEN "error" ELSE place]
      /\ UNCHANGED <<session, key, server, xs, shares, verdict, ys, toServer>>
      /\ session \in Sessions
  BY DEF Client_meta, SessionInv, VerdictOK
<1>2. /\ DOMAIN got' = DOMAIN got /\ got'.tables = got.tables /\ got'.key_labels = got.key_labels
      /\ got'.hashes = Head(toClient).data.hashes
  BY DEF Client_meta, SessionInv, GotOK, GotFields
<1>3. Consumed = 2
  BY <1>1 DEF Consumed
<1>4. Head(toClient).data = [m |-> session.server_m, hashes |-> Hashes(session.server_m)]
  <2>1. Head(toClient) = Script(session, key, 3)
    BY <1>1, <1>3, TakeNext
  <2>2. Script(session, key, 3)
          = Message("meta", [m |-> session.server_m, hashes |-> Hashes(session.server_m)])
    BY <1>1, ScriptValues
  <2>3. QED
    BY <2>1, <2>2 DEF Message
<1>5. /\ client'.i = client.i /\ client'.at \in {"error", place}
      /\ client'.at # "error" => session.client_m = session.server_m
      /\ got'.hashes = Hashes(session.server_m)
  BY <1>1, <1>2, <1>4
<1>6. place \in {"ping", "tables"} /\ (place = "ping" <=> session.tables_online)
  BY <1>1, SessionType
<1>7. Len(got.tables) = 0 /\ Len(got.key_labels) = 0
  BY <1>1 DEF SessionInv, TablesOK, LabelsOK, PastTables, PastPing, PastMasks, PastLabels
<1> HIDE DEF place
<1>8. SocketOK'
  <2>1. CASE client'.at = "error"
    BY <1>1, <2>1 DEF SessionInv, SocketOK
  <2>2. CASE client'.at = place
    <3>1. Consumed' = 3
      BY <1>1, <1>2, <1>6, <1>7, <2>2, SessionType DEF Consumed, TablesAt, PingAt
    <3>2. client'.at # "error"
      BY <2>2, <1>6
    <3>3. QED
      BY <1>1, <1>3, <3>1, <3>2, TakeNext
  <2>3. QED
    BY <2>1, <2>2, <1>5
<1>9. GotOK'
  BY <1>1, <1>2, <1>5, <1>6 DEF SessionInv, GotOK, PastMeta, PastPing, PastMasks, PastLabels
<1>10. TablesOK'
  <2>1. 0 < session.server_m
    BY <1>1, SessionType
  <2>2. client'.at \notin PastTables'
    BY <1>1, <1>5, <1>6 DEF PastTables, PastPing, PastMasks, PastLabels
  <2>3. QED
    BY <1>1, <1>2, <1>7, <2>1, <2>2 DEF SessionInv, TablesOK
<1>11. LabelsOK'
  BY <1>1, <1>2, <1>5, <1>6, <1>7 DEF SessionInv, LabelsOK, PastLabels
<1>12. MasksOK' /\ SharesOK'
  BY <1>1, <1>5, <1>6 DEF SessionInv, MasksOK, SharesOK, PastPing, PastMasks, PastLabels
<1>13. VerdictOK'
  <2>1. client' \in [at : ClientPlaces \ {"report"}, i : Nat]
    BY <1>1, <1>5, <1>6 DEF ClientPlaces, Gone
  <2>2. client'.at \notin {"eval", "exit"}
    BY <1>5, <1>6
  <2>3. QED
    <3>1. /\ client'.i = client.i /\ client.at = "meta"
          /\ UNCHANGED <<session, key, xs, verdict, ys>>
      BY <1>1, <1>5
    <3>2. QED
      BY <2>1, <2>2, <3>1 DEF SessionInv, VerdictOK
<1>14. ReportOK'
  BY <1>1, <1>5, <1>6 DEF SessionInv, ReportOK
<1>15. QED
  BY <1>1, <1>8, <1>9, <1>10, <1>11, <1>12, <1>13, <1>14 DEF SessionInv

(* The tables arrive in the order of the circuits.                         *)
LEMMA Step_Client_tables == SessionInv /\ Client_tables => SessionInv'
<1> SUFFICES ASSUME SessionInv, Client_tables PROVE SessionInv'
  OBVIOUS
<1> DEFINE n == Len(got.tables)
           place == IF Len(got'.tables) < session.client_m THEN "tables"
                    ELSE IF session.tables_online THEN "key_labels" ELSE "ping"
<1>1. /\ client.at = "tables" /\ Take("tables")
      /\ client \in [at : ClientPlaces \ {"report"}, i : Nat]
      /\ client' = [client EXCEPT !.at = place]
      /\ UNCHANGED <<session, key, server, xs, shares, verdict, ys, toServer>>
      /\ session \in Sessions
  BY DEF Client_tables, SessionInv, VerdictOK
<1>2. client'.at = place /\ client'.i = client.i
  BY <1>1
<1>3. /\ DOMAIN got' = DOMAIN got /\ got'.key_labels = got.key_labels
      /\ got'.hashes = got.hashes /\ got'.masks = got.masks
      /\ got'.tables = Append(got.tables, Head(toClient).data)
  BY DEF Client_tables, SessionInv, GotOK, GotFields
<1>4. /\ got.tables \in Seq({Table(i) : i \in Nat}) /\ n \in Nat /\ n < session.server_m
      /\ n = Len(got.tables) /\ session.client_m = session.server_m
      /\ \A q \in 1 .. n : got.tables[q] = Table(q - 1)
  BY <1>1 DEF SessionInv, TablesOK, GotOK, PastMeta
<1>5. Consumed = (TablesAt(session) - 1) + n
  BY <1>1 DEF Consumed
<1> HIDE DEF n
<1>6. Head(toClient).data = Table(n)
  <2>1. Consumed + 1 = TablesAt(session) + n
    <3>1. TablesAt(session) \in Nat
      BY <1>1, SessionType
    <3>2. n \in Nat
      BY <1>4
    <3>3. QED
      BY <3>1, <3>2, <1>5
  <2>2. Head(toClient) = Script(session, key, TablesAt(session) + n)
    BY <1>1, <2>1, TakeNext
  <2>3. n \in 0 .. session.server_m - 1
    BY <1>1, <1>4, SessionType
  <2>4. Script(session, key, TablesAt(session) + n) = Message("tables", Table(n))
    <3>1. \A i \in 0 .. session.server_m - 1 :
            Script(session, key, TablesAt(session) + i) = Message("tables", Table(i))
      <4>1. session \in Sessions
        BY <1>1
      <4>2. QED
        BY <4>1, ScriptValues
    <3>2. QED
      BY <2>3, <3>1
  <2>5. QED
    BY <2>2, <2>4 DEF Message
<1>7. /\ got'.tables \in Seq({Table(i) : i \in Nat}) /\ Len(got'.tables) = n + 1
      /\ \A q \in 1 .. n + 1 : got'.tables[q] = Table(q - 1)
  <2>1. Table(n) \in {Table(i) : i \in Nat}
    BY <1>4
  <2>2. got'.tables = Append(got.tables, Table(n))
    BY <1>3, <1>6
  <2>3. got'.tables \in Seq({Table(i) : i \in Nat}) /\ Len(got'.tables) = n + 1
    BY <2>1, <2>2, <1>4
  <2>4. ASSUME NEW q \in 1 .. n + 1
        PROVE  got'.tables[q] = Table(q - 1)
    <3>1. CASE q = n + 1
      <4>1. q - 1 = n
        BY <3>1, <1>4
      <4>2. QED
        BY <2>2, <3>1, <4>1, <1>4
    <3>2. CASE q # n + 1
      <4>1. q \in 1 .. n
        BY <3>2, <1>4
      <4>2. QED
        BY <2>2, <4>1, <1>4
    <3>3. QED
      BY <3>1, <3>2
  <2>5. QED
    BY <2>3, <2>4
<1>8. \/ place = "tables" /\ n + 1 < session.server_m
      \/ place = "key_labels" /\ n + 1 = session.server_m /\ session.tables_online
      \/ place = "ping" /\ n + 1 = session.server_m /\ ~ session.tables_online
  BY <1>1, <1>4, <1>7, SessionType
<1>9. Len(got.key_labels) = 0
  BY <1>1 DEF SessionInv, LabelsOK, PastLabels
<1> HIDE DEF place
<1>10. SocketOK'
  <2>1. Consumed + 1 = TablesAt(session) + n
    <3>1. TablesAt(session) \in Nat
      BY <1>1, SessionType
    <3>2. n \in Nat
      BY <1>4
    <3>3. QED
      BY <3>1, <3>2, <1>5
  <2>2. Consumed' = TablesAt(session) + n
    <3>1. CASE place = "tables"
      <4>1. Consumed' = (TablesAt(session) - 1) + (n + 1)
        BY <3>1, <1>1, <1>2, <1>7 DEF Consumed
      <4>2. QED
        BY <4>1, <1>1, <1>4, SessionType
    <3>2. CASE place = "key_labels"
      <4>1. Consumed' = (LabelsAt(session) - 1) + 0
        BY <3>2, <1>1, <1>2, <1>3, <1>9 DEF Consumed
      <4>2. session.tables_online /\ n + 1 = session.server_m
        BY <3>2, <1>8
      <4>3. QED
        BY <4>1, <4>2, <1>1, <1>4, SessionType DEF LabelsAt, TablesAt
    <3>3. CASE place = "ping"
      <4>1. Consumed' = PingAt(session) - 1
        BY <3>3, <1>1, <1>2 DEF Consumed
      <4>2. ~ session.tables_online /\ n + 1 = session.server_m
        BY <3>3, <1>8
      <4>3. QED
        BY <4>1, <4>2, <1>1, <1>4, SessionType DEF PingAt, TablesAt
    <3>4. QED
      BY <1>8, <3>1, <3>2, <3>3
  <2>3. client'.at # "error" /\ client.at # "error"
    BY <1>1, <1>2, <1>8
  <2>4. QED
    BY <1>1, <2>1, <2>2, <2>3, TakeNext
<1>11. GotOK'
  BY <1>1, <1>2, <1>3, <1>8 DEF SessionInv, GotOK, PastMeta, PastPing, PastMasks, PastLabels
<1>12. TablesOK'
  <2>1. \A q \in 1 .. Len(got'.tables) : got'.tables[q] = Table(q - 1)
    BY <1>7
  <2>2. QED
    BY <1>1, <1>2, <1>7, <1>8, <2>1, <1>4, SessionType
       DEF TablesOK, PastTables, PastPing, PastMasks, PastLabels
<1>13. LabelsOK'
  BY <1>1, <1>2, <1>3, <1>8, <1>9, SessionType DEF SessionInv, LabelsOK, PastLabels
<1>14. MasksOK' /\ SharesOK'
  BY <1>1, <1>2, <1>3, <1>8 DEF SessionInv, MasksOK, SharesOK, PastPing, PastMasks, PastLabels
<1>15. VerdictOK'
  <2>1. client' \in [at : ClientPlaces \ {"report"}, i : Nat]
    BY <1>1, <1>2, <1>8 DEF ClientPlaces, Gone
  <2>2. client'.at \notin {"eval", "exit"}
    BY <1>2, <1>8
  <2>3. QED
    BY <1>1, <1>2, <2>1, <2>2 DEF SessionInv, VerdictOK
<1>16. ReportOK'
  BY <1>1, <1>2, <1>8 DEF SessionInv, ReportOK
<1>17. QED
  BY <1>1, <1>10, <1>11, <1>12, <1>13, <1>14, <1>15, <1>16 DEF SessionInv

(* The shares of an input are drawn: those of circuit i and wire j are     *)
(* transfers i * 256 + 2 * j and the one after it.                         *)
LEMMA BooleanDifference ==
    ASSUME NEW a \in BOOLEAN, NEW b \in BOOLEAN
    PROVE  (a # (a # b)) = b
OBVIOUS

all_shares(m, n_ot, x, r) ==
    [idx \in 0 .. n_ot - 1 |->
       IF idx >= m * PerCircuit THEN FALSE
       ELSE IF idx % 2 = 0 THEN r[idx \div 2]
       ELSE r[idx \div 2] # H1[x[idx \div PerCircuit + 1]][(idx % PerCircuit) \div 2]]

LEMMA SharesAddUp ==
    ASSUME NEW m \in Nat, NEW n_ot \in Nat, n_ot >= m * PerCircuit,
           NEW x \in [1 .. m -> Xs], NEW r \in [0 .. m * NWires - 1 -> BOOLEAN], NEW sh,
           sh = all_shares(m, n_ot, x, r)
    PROVE  /\ sh \in [0 .. n_ot - 1 -> BOOLEAN]
           /\ \A i \in 0 .. m - 1, j \in W : AddUp(sh, x, i, j)
<1>0. PerCircuit \in Nat /\ m * PerCircuit \in Nat
  BY InputsOK DEF PerCircuit
<1>1. ASSUME NEW idx \in 0 .. n_ot - 1
      PROVE  sh[idx] \in BOOLEAN
  <2>1. CASE idx >= m * PerCircuit
    BY <2>1 DEF all_shares
  <2>2. CASE ~ idx >= m * PerCircuit /\ idx % 2 = 0
    <3>1. idx \div 2 \in 0 .. m * NWires - 1
      <4>1. m * PerCircuit = 2 * (m * NWires) /\ m * NWires \in Nat /\ idx \in Nat
        BY InputsOK DEF PerCircuit
      <4>2. idx < m * PerCircuit
        BY <4>1, <2>2, <1>0
      <4>3. ASSUME NEW z \in Nat, idx < 2 * z
            PROVE  idx \div 2 \in 0 .. z - 1
        BY <4>1, <4>3
      <4>4. QED
        BY <4>1, <4>2, <4>3
    <3>2. sh[idx] = r[idx \div 2]
      BY <2>2 DEF all_shares
    <3>3. QED
      BY <3>1, <3>2
  <2>3. CASE ~ idx >= m * PerCircuit /\ idx % 2 # 0
    BY <2>3 DEF all_shares
  <2>4. QED
    BY <2>1, <2>2, <2>3
<1>2. ASSUME NEW i \in 0 .. m - 1, NEW j \in W
      PROVE  AddUp(sh, x, i, j)
  <2> DEFINE a == Transfer(i, j, 0)
             b == Transfer(i, j, 1)
             e == i * NWires + j
  <2>1. /\ a \in 0 .. m * PerCircuit - 1 /\ a % 2 = 0 /\ a \div 2 = e
        /\ e \in 0 .. m * NWires - 1
    <3>1. Decomposed(m, i, j, 0, a)
      BY TransferIndex
    <3>2. QED
      BY <3>1 DEF Decomposed
  <2>2. /\ b \in 0 .. m * PerCircuit - 1 /\ b % 2 = 1 /\ b \div 2 = e
        /\ b \div PerCircuit = i /\ (b % PerCircuit) \div 2 = j
    <3>1. Decomposed(m, i, j, 1, b)
      BY TransferIndex
    <3>2. QED
      BY <3>1 DEF Decomposed
  <2>4. i + 1 \in 1 .. m
    OBVIOUS
  <2>5. H1[x[i + 1]][j] \in BOOLEAN
    <3>1. x[i + 1] \in Xs
      BY <2>4
    <3>2. H1[x[i + 1]] \in [W -> BOOLEAN]
      BY <3>1, InputsOK
    <3>3. QED
      BY <3>2
  <2> HIDE DEF a, b, e
  <2>6. a \in 0 .. n_ot - 1 /\ ~ a >= m * PerCircuit
    BY <2>1, <1>0
  <2>7. b \in 0 .. n_ot - 1 /\ ~ b >= m * PerCircuit
    BY <2>2, <1>0
  <2>8. sh[a] = r[e]
    BY <2>1, <2>6 DEF all_shares
  <2>9. sh[b] = (r[e] # H1[x[i + 1]][j])
    BY <2>2, <2>7 DEF all_shares
  <2>10. r[e] \in BOOLEAN
    BY <2>1
  <2>11. (r[e] # (r[e] # H1[x[i + 1]][j])) = H1[x[i + 1]][j]
    BY <2>5, <2>10, BooleanDifference
  <2>12. (sh[a] # sh[b]) = H1[x[i + 1]][j]
    BY <2>8, <2>9, <2>11, Zenon
  <2>13. QED
    BY <2>12 DEF AddUp, a, b
<1>3. DOMAIN sh = 0 .. n_ot - 1 /\ sh = [idx \in 0 .. n_ot - 1 |-> sh[idx]]
  BY DEF all_shares
<1>4. sh \in [0 .. n_ot - 1 -> BOOLEAN]
  BY <1>1, <1>3
<1>5. QED
  BY <1>2, <1>4

LEMMA Step_Client_encode == SessionInv /\ Client_encode => SessionInv'
<1> SUFFICES ASSUME SessionInv, Client_encode PROVE SessionInv'
  OBVIOUS
<1> DEFINE place == IF session.client_m * PerCircuit > session.n_ot THEN "overrun" ELSE "ot"
<1>1. /\ client.at = "ping" /\ Take("ping")
      /\ toServer' = Append(toServer, Message("ping", <<>>))
      /\ client \in [at : ClientPlaces \ {"report"}, i : Nat]
      /\ client' = [client EXCEPT !.at = place] /\ client'.at = place /\ client'.i = client.i
      /\ UNCHANGED <<session, key, server, got, verdict, ys>>
      /\ session \in Sessions
  BY DEF Client_encode, SessionInv, VerdictOK, ReportOK, Blob, Message
<1>2. place \in {"overrun", "ot"}
      /\ (place = "ot" => session.n_ot >= session.client_m * PerCircuit)
  <2>1. session.client_m * PerCircuit \in Nat /\ session.n_ot \in Nat
    <3>1. session.client_m \in Nat /\ session.n_ot \in Nat
      BY <1>1, SessionType
    <3>2. PerCircuit \in Nat
      BY InputsOK DEF PerCircuit
    <3>3. QED
      BY <3>1, <3>2
  <2>2. QED
    BY <2>1
<1>3. session.client_m = session.server_m
  BY <1>1 DEF SessionInv, GotOK, PastMeta
<1>4. place = "ot" =>
        /\ xs' \in [1 .. session.server_m -> Xs]
        /\ shares' \in [0 .. session.n_ot - 1 -> BOOLEAN]
        /\ \A i \in 0 .. session.server_m - 1, j \in W : AddUp(shares', xs', i, j)
  <2> SUFFICES ASSUME session.n_ot >= session.client_m * PerCircuit
               PROVE  /\ xs' \in [1 .. session.client_m -> Xs]
                      /\ shares' \in [0 .. session.n_ot - 1 -> BOOLEAN]
                      /\ \A i \in 0 .. session.client_m - 1, j \in W : AddUp(shares', xs', i, j)
    BY <1>2, <1>3
  <2>1. PICK x \in [1 .. session.client_m -> Xs],
             r \in [0 .. session.client_m * NWires - 1 -> BOOLEAN] :
          xs' = x /\ shares' = all_shares(session.client_m, session.n_ot, x, r)
    BY DEF Client_encode, all_shares
  <2>2. session.client_m \in Nat /\ session.n_ot \in Nat
    BY <1>1, SessionType
  <2>3. QED
    BY <2>1, <2>2, SharesAddUp
<1> HIDE DEF place
<1>5. SocketOK'
  <2>1. Consumed = PingAt(session) - 1 /\ Consumed' = PingAt(session)
    BY <1>1, <1>2 DEF Consumed
  <2>2. Consumed' = Consumed + 1
    <3>1. PingAt(session) \in Nat
      BY <1>1, SessionType
    <3>2. QED
      BY <2>1, <3>1
  <2>3. client'.at # "error" /\ client.at # "error"
    BY <1>1, <1>2
  <2>4. QED
    BY <1>1, <2>2, <2>3, TakeNext
<1>6. GotOK'
  BY <1>1, <1>2 DEF SessionInv, GotOK, PastMeta, PastPing, PastMasks, PastLabels
<1>7. TablesOK' /\ LabelsOK'
  BY <1>1, <1>2 DEF SessionInv, TablesOK, LabelsOK, PastTables, PastPing, PastMasks, PastLabels
<1>8. MasksOK'
  BY <1>1, <1>2 DEF SessionInv, MasksOK, PastMasks, PastLabels
<1>9. SharesOK'
  <2>1. CASE place = "overrun"
    BY <1>1, <2>1 DEF SharesOK
  <2>2. CASE place = "ot"
    BY <1>1, <1>2, <1>3, <1>4, <2>2 DEF SharesOK
  <2>3. QED
    BY <1>2, <2>1, <2>2
<1>10. VerdictOK'
  <2>1. client' \in [at : ClientPlaces \ {"report"}, i : Nat]
    BY <1>1, <1>2 DEF ClientPlaces, Gone
  <2>2. client'.at \notin {"eval", "exit"}
    BY <1>1, <1>2
  <2>3. QED
    BY <1>1, <2>1, <2>2 DEF SessionInv, VerdictOK
<1>11. ReportOK'
  BY <1>1, <1>2 DEF SessionInv, ReportOK, Message
<1>12. QED
  BY <1>1, <1>5, <1>6, <1>7, <1>8, <1>9, <1>10, <1>11 DEF SessionInv

LEMMA Step_Client_ot == SessionInv /\ Client_ot => SessionInv'
<1> SUFFICES ASSUME SessionInv, Client_ot PROVE SessionInv'
  OBVIOUS
<1>1. /\ client.at = "ot"
      /\ toServer' = Append(toServer, Message("ot", <<>>))
      /\ client \in [at : ClientPlaces \ {"report"}, i : Nat]
      /\ client' = [client EXCEPT !.at = "masks"] /\ client'.at = "masks" /\ client'.i = client.i
      /\ UNCHANGED <<session, key, server, xs, shares, got, verdict, ys, toClient>>
  BY DEF Client_ot, SessionInv, VerdictOK, ReportOK, Blob, Message
<1>2. SocketOK'
  <2>1. Consumed' = Consumed /\ Sent' = Sent
    BY <1>1 DEF Consumed, Sent
  <2>2. QED
    BY <1>1, <2>1 DEF SessionInv, SocketOK
<1>3. GotOK'
  BY <1>1 DEF SessionInv, GotOK, PastMeta, PastPing, PastMasks, PastLabels
<1>4. TablesOK' /\ LabelsOK'
  BY <1>1 DEF SessionInv, TablesOK, LabelsOK, PastTables, PastPing, PastMasks, PastLabels
<1>5. MasksOK' /\ SharesOK'
  BY <1>1 DEF SessionInv, MasksOK, SharesOK, PastPing, PastMasks, PastLabels
<1>6. VerdictOK'
  BY <1>1 DEF SessionInv, VerdictOK, ClientPlaces
<1>7. ReportOK'
  BY <1>1 DEF SessionInv, ReportOK, Message
<1>8. QED
  BY <1>1, <1>2, <1>3, <1>4, <1>5, <1>6, <1>7 DEF SessionInv

(* The label of each transfer's chosen bit arrives.                        *)
LEMMA Step_Client_masks == SessionInv /\ Client_masks => SessionInv'
<1> SUFFICES ASSUME SessionInv, Client_masks PROVE SessionInv'
  OBVIOUS
<1> DEFINE place == IF session.tables_online THEN "tables" ELSE "key_labels"
<1>1. /\ client.at = "masks" /\ Take("masks")
      /\ client \in [at : ClientPlaces \ {"report"}, i : Nat]
      /\ client' = [client EXCEPT !.at = place] /\ client'.at = place /\ client'.i = client.i
      /\ UNCHANGED <<session, key, server, xs, shares, verdict, ys, toServer>>
      /\ session \in Sessions
  BY DEF Client_masks, SessionInv, VerdictOK
<1>2. /\ DOMAIN got' = DOMAIN got /\ got'.tables = got.tables /\ got'.key_labels = got.key_labels
      /\ got'.hashes = got.hashes
      /\ got'.masks = [idx \in 0 .. session.n_ot - 1 |-> Head(toClient).data[idx][shares[idx]]]
  BY DEF Client_masks, SessionInv, GotOK, GotFields
<1>3. place \in {"tables", "key_labels"} /\ (place = "tables" <=> session.tables_online)
  BY <1>1, SessionType
<1> HIDE DEF place
<1>4. PingAt(session) \in Nat /\ 0 < session.server_m
  BY <1>1, SessionType
<1>5. Consumed = PingAt(session)
  BY <1>1 DEF Consumed
<1>6. Head(toClient).data = mask(session.server_m)
  <2>1. Head(toClient) = Script(session, key, PingAt(session) + 1)
    BY <1>1, <1>5, TakeNext
  <2>2. Script(session, key, PingAt(session) + 1) = Message("masks", mask(session.server_m))
    BY <1>1, ScriptValues
  <2>3. QED
    BY <2>1, <2>2 DEF Message
<1>7. session.n_ot = session.server_m * PerCircuit
  BY <1>1, <1>4, <1>5, TakeNext
<1>8. /\ Len(got.key_labels) = 0
      /\ Len(got.tables) = IF session.tables_online THEN 0 ELSE session.server_m
  BY <1>1 DEF SessionInv, TablesOK, LabelsOK, PastTables, PastPing, PastMasks, PastLabels
<1>9. SocketOK'
  <2>1. Consumed' = PingAt(session) + 1
    <3>1. CASE place = "tables"
      <4>1. Consumed' = (TablesAt(session) - 1) + Len(got.tables)
        BY <3>1, <1>1, <1>2 DEF Consumed
      <4>2. QED
        BY <4>1, <3>1, <1>3, <1>8 DEF TablesAt, PingAt
    <3>2. CASE place = "key_labels"
      <4>1. Consumed' = (LabelsAt(session) - 1) + Len(got.key_labels)
        BY <3>2, <1>1, <1>2 DEF Consumed
      <4>2. session.server_m \in Nat /\ ~ session.tables_online
        BY <3>2, <1>1, <1>3, SessionType
      <4>3. QED
        BY <4>1, <4>2, <1>8 DEF LabelsAt, PingAt
    <3>3. QED
      BY <1>3, <3>1, <3>2
  <2>2. client'.at # "error" /\ client.at # "error"
    BY <1>1, <1>3
  <2>3. QED
    BY <1>1, <1>5, <2>1, <2>2, TakeNext
<1>10. GotOK'
  BY <1>1, <1>2, <1>3 DEF SessionInv, GotOK, PastMeta, PastPing, PastMasks, PastLabels
<1>11. TablesOK'
  <2>1. client'.at \in PastTables' <=> place = "key_labels"
    BY <1>1, <1>3 DEF PastTables, PastPing, PastMasks, PastLabels
  <2>2. QED
    BY <1>1, <1>2, <1>3, <1>4, <1>8, <2>1 DEF SessionInv, TablesOK
<1>12. LabelsOK'
  BY <1>1, <1>2, <1>3, <1>4, <1>8 DEF SessionInv, LabelsOK, PastLabels
<1>13. MasksOK'
  BY <1>1, <1>2, <1>6, <1>7 DEF MasksOK
<1>14. SharesOK'
  BY <1>1, <1>3 DEF SessionInv, SharesOK, PastPing, PastMasks, PastLabels
<1>15. VerdictOK'
  <2>1. client' \in [at : ClientPlaces \ {"report"}, i : Nat]
    BY <1>1, <1>3 DEF ClientPlaces, Gone
  <2>2. client'.at \notin {"eval", "exit"}
    BY <1>1, <1>3
  <2>3. QED
    BY <1>1, <2>1, <2>2 DEF SessionInv, VerdictOK
<1>16. ReportOK'
  BY <1>1, <1>3 DEF SessionInv, ReportOK
<1>17. QED
  BY <1>1, <1>9, <1>10, <1>11, <1>12, <1>13, <1>14, <1>15, <1>16 DEF SessionInv

(* The labels of the key arrive in the order of the circuits.              *)
LEMMA Step_Client_key_labels == SessionInv /\ Client_key_labels => SessionInv'
<1> SUFFICES ASSUME SessionInv, Client_key_labels PROVE SessionInv'
  OBVIOUS
<1> DEFINE n == Len(got.key_labels)
           KL == {KeyLabel(key, i) : i \in Nat}
           place == IF Len(got'.key_labels) < session.client_m THEN "key_labels" ELSE "proof"
<1>1. /\ client.at = "key_labels" /\ Take("key_labels")
      /\ client \in [at : ClientPlaces \ {"report"}, i : Nat]
      /\ client' = [client EXCEPT !.at = place]
      /\ UNCHANGED <<session, key, server, xs, shares, verdict, ys, toServer>>
      /\ session \in Sessions
  BY DEF Client_key_labels, SessionInv, VerdictOK
<1>2. client'.at = place /\ client'.i = client.i
  BY <1>1
<1>3. /\ DOMAIN got' = DOMAIN got /\ got'.tables = got.tables
      /\ got'.hashes = got.hashes /\ got'.masks = got.masks
      /\ got'.key_labels = Append(got.key_labels, Head(toClient).data)
  BY DEF Client_key_labels, SessionInv, GotOK, GotFields
<1>4. /\ got.key_labels \in Seq(KL) /\ n \in Nat /\ n < session.server_m
      /\ n = Len(got.key_labels) /\ session.client_m = session.server_m
      /\ \A q \in 1 .. n : got.key_labels[q] = KeyLabel(key, q - 1)
  BY <1>1 DEF SessionInv, LabelsOK, GotOK, PastMeta, PastPing, PastMasks
<1>5. Consumed = (LabelsAt(session) - 1) + n
  BY <1>1 DEF Consumed
<1> HIDE DEF n
<1>6. Consumed + 1 = LabelsAt(session) + n
  <2>1. LabelsAt(session) \in Nat
    BY <1>1, SessionType
  <2>2. n \in Nat
    BY <1>4
  <2>3. QED
    BY <2>1, <2>2, <1>5
<1>7. Head(toClient).data = KeyLabel(key, n)
  <2>1. Head(toClient) = Script(session, key, LabelsAt(session) + n)
    BY <1>1, <1>6, TakeNext
  <2>2. n \in 0 .. session.server_m - 1
    BY <1>1, <1>4, SessionType
  <2>3. session \in Sessions
    BY <1>1
  <2>4. \A i \in 0 .. session.server_m - 1 :
          Script(session, key, LabelsAt(session) + i) = Message("key_labels", KeyLabel(key, i))
    BY <2>3, ScriptValues
  <2>5. Script(session, key, LabelsAt(session) + n) = Message("key_labels", KeyLabel(key, n))
    BY <2>2, <2>4
  <2>6. QED
    BY <2>1, <2>5 DEF Message
<1>8. /\ got'.key_labels \in Seq(KL) /\ Len(got'.key_labels) = n + 1
      /\ \A q \in 1 .. n + 1 : got'.key_labels[q] = KeyLabel(key, q - 1)
  <2>1. KeyLabel(key, n) \in KL
    BY <1>4
  <2> HIDE DEF KL
  <2>2. got'.key_labels = Append(got.key_labels, KeyLabel(key, n))
    BY <1>3, <1>7
  <2>3. got'.key_labels \in Seq(KL) /\ Len(got'.key_labels) = n + 1
    BY <2>1, <2>2, <1>4
  <2>4. ASSUME NEW q \in 1 .. n + 1
        PROVE  got'.key_labels[q] = KeyLabel(key, q - 1)
    <3>1. CASE q = n + 1
      <4>1. q - 1 = n
        BY <3>1, <1>4
      <4>2. QED
        BY <2>2, <3>1, <4>1, <1>4
    <3>2. CASE q # n + 1
      <4>1. q \in 1 .. n
        BY <3>2, <1>4
      <4>2. QED
        BY <2>2, <4>1, <1>4
    <3>3. QED
      BY <3>1, <3>2
  <2>5. QED
    BY <2>3, <2>4
<1>9. \/ place = "key_labels" /\ n + 1 < session.server_m
      \/ place = "proof" /\ n + 1 = session.server_m
  BY <1>1, <1>4, <1>8, SessionType
<1> HIDE DEF place
<1>10. SocketOK'
  <2>1. Consumed' = LabelsAt(session) + n
    <3>0. LabelsAt(session) \in Nat /\ n \in Nat /\ session.server_m \in Nat
      BY <1>1, <1>4, SessionType
    <3>1. CASE place = "key_labels"
      <4>1. Consumed' = (LabelsAt(session) - 1) + (n + 1)
        BY <3>1, <1>1, <1>2, <1>8 DEF Consumed
      <4>2. QED
        BY <4>1, <3>0
    <3>2. CASE place = "proof"
      <4>1. Consumed' = Total(session) - 2
        BY <3>2, <1>1, <1>2 DEF Consumed
      <4>2. n + 1 = session.server_m
        BY <3>2, <1>9
      <4>3. QED
        BY <4>1, <4>2, <3>0 DEF LabelsAt, Total
    <3>3. QED
      BY <1>9, <3>1, <3>2
  <2>2. client'.at # "error" /\ client.at # "error"
    BY <1>1, <1>2, <1>9
  <2>3. QED
    BY <1>1, <1>6, <2>1, <2>2, TakeNext
<1>11. GotOK'
  BY <1>1, <1>2, <1>3, <1>9 DEF SessionInv, GotOK, PastMeta, PastPing, PastMasks, PastLabels
<1>12. TablesOK'
  BY <1>1, <1>2, <1>3, <1>9 DEF SessionInv, TablesOK, PastTables, PastPing, PastMasks, PastLabels
<1>13. LabelsOK'
  <2>1. \A q \in 1 .. Len(got'.key_labels) : got'.key_labels[q] = KeyLabel(key, q - 1)
    BY <1>8
  <2>2. client'.at \in {"key_labels", "proof"}
    BY <1>2, <1>9
  <2>3. QED
    BY <1>1, <1>2, <1>8, <1>9, <2>1, <2>2, SessionType DEF LabelsOK, PastLabels
<1>14. MasksOK' /\ SharesOK'
  BY <1>1, <1>2, <1>3, <1>9 DEF SessionInv, MasksOK, SharesOK, PastPing, PastMasks, PastLabels
<1>15. VerdictOK'
  <2>1. client' \in [at : ClientPlaces \ {"report"}, i : Nat]
    BY <1>1, <1>2, <1>9 DEF ClientPlaces, Gone
  <2>2. client'.at \notin {"eval", "exit"}
    BY <1>2, <1>9
  <2>3. QED
    BY <1>1, <1>2, <2>1, <2>2 DEF SessionInv, VerdictOK
<1>16. ReportOK'
  BY <1>1, <1>2, <1>9 DEF SessionInv, ReportOK
<1>17. QED
  BY <1>1, <1>10, <1>11, <1>12, <1>13, <1>14, <1>15, <1>16 DEF SessionInv

LEMMA Step_Client_proof == SessionInv /\ Client_proof => SessionInv'
<1> SUFFICES ASSUME SessionInv, Client_proof PROVE SessionInv'
  OBVIOUS
<1>1. /\ client.at = "proof" /\ Take("proof")
      /\ client \in [at : ClientPlaces \ {"report"}, i : Nat]
      /\ client' = [client EXCEPT !.at = "key"] /\ client'.at = "key" /\ client'.i = client.i
      /\ UNCHANGED <<session, key, server, xs, shares, verdict, ys, toServer>>
      /\ session \in Sessions
  BY DEF Client_proof, SessionInv, VerdictOK
<1>2. /\ DOMAIN got' = DOMAIN got /\ got'.tables = got.tables /\ got'.key_labels = got.key_labels
      /\ got'.hashes = got.hashes /\ got'.masks = got.masks
      /\ got'.proof = Head(toClient).data
  BY DEF Client_proof, SessionInv, GotOK, GotFields
<1>3. Total(session) \in Nat
  BY <1>1, SessionType
<1>4. Consumed + 1 = Total(session) - 1 /\ Consumed' = Total(session) - 1
  <2>1. Consumed = Total(session) - 2 /\ Consumed' = Total(session) - 1
    BY <1>1 DEF Consumed
  <2>2. QED
    BY <1>3, <2>1
<1>5. Head(toClient).data = [gc_hash |-> gc_hash(0)]
  <2>1. Head(toClient) = Script(session, key, Total(session) - 1)
    BY <1>1, <1>4, TakeNext
  <2>2. Script(session, key, Total(session) - 1) = Message("proof", [gc_hash |-> gc_hash(0)])
    BY <1>1, ScriptValues
  <2>3. QED
    BY <2>1, <2>2 DEF Message
<1>6. SocketOK'
  BY <1>1, <1>4, TakeNext
<1>7. GotOK'
  BY <1>1, <1>2, <1>5 DEF SessionInv, GotOK, PastMeta, PastPing, PastMasks, PastLabels
<1>8. TablesOK' /\ LabelsOK'
  BY <1>1, <1>2 DEF SessionInv, TablesOK, LabelsOK, PastTables, PastPing, PastMasks, PastLabels
<1>9. MasksOK' /\ SharesOK'
  BY <1>1, <1>2 DEF SessionInv, MasksOK, SharesOK, PastPing, PastMasks, PastLabels
<1>10. VerdictOK'
  BY <1>1 DEF SessionInv, VerdictOK, ClientPlaces
<1>11. ReportOK'
  BY <1>1 DEF SessionInv, ReportOK
<1>12. QED
  BY <1>1, <1>6, <1>7, <1>8, <1>9, <1>10, <1>11 DEF SessionInv

(* An accepted proof is bound to the first circuit: its hash is the one of *)
(* the first tables and the one announced.                                 *)
LEMMA Step_Client_verify == SessionInv /\ Client_verify => SessionInv'
<1> SUFFICES ASSUME SessionInv, Client_verify PROVE SessionInv'
  OBVIOUS
<1>1. /\ client.at = "key" /\ Take("key")
      /\ client \in [at : ClientPlaces \ {"report"}, i : Nat]
      /\ client' = [client EXCEPT !.at = "eval"] /\ client'.at = "eval" /\ client'.i = client.i
      /\ UNCHANGED <<session, key, server, xs, shares, ys, toServer>>
      /\ session \in Sessions
  BY DEF Client_verify, SessionInv, VerdictOK
<1>2. /\ DOMAIN got' = DOMAIN got /\ got'.tables = got.tables /\ got'.key_labels = got.key_labels
      /\ got'.hashes = got.hashes /\ got'.masks = got.masks /\ got'.proof = got.proof
      /\ got'.key = Head(toClient).data
  BY DEF Client_verify, SessionInv, GotOK, GotFields
<1>3. Total(session) \in Nat
  BY <1>1, SessionType
<1>4. Consumed + 1 = Total(session) /\ Consumed' = Total(session)
  <2>1. Consumed = Total(session) - 1 /\ Consumed' = Total(session)
    BY <1>1 DEF Consumed
  <2>2. QED
    BY <1>3, <2>1
<1>5. Head(toClient).data = key
  <2>1. Head(toClient) = Script(session, key, Total(session))
    BY <1>1, <1>4, TakeNext
  <2>2. Script(session, key, Total(session)) = Message("key", key)
    BY <1>1, ScriptValues
  <2>3. QED
    BY <2>1, <2>2 DEF Message
<1>6. /\ got.proof.gc_hash = gc_hash(0) /\ got.tables[1].gc_hash = gc_hash(0)
      /\ got.hashes[1] = gc_hash(0)
  <2>1. session.server_m \in Nat /\ session.server_m >= 1
    BY <1>1, SessionType
  <2>2. Len(got.tables) = session.server_m
        /\ \A n \in 1 .. Len(got.tables) : got.tables[n] = Table(n - 1)
    BY <1>1 DEF SessionInv, TablesOK, PastTables, PastPing, PastMasks, PastLabels
  <2>3. got.tables[1] = Table(0)
    <3>1. 1 \in 1 .. Len(got.tables) /\ 1 - 1 = 0
      BY <2>1, <2>2
    <3>2. QED
      BY <2>2, <3>1
  <2>4. got.hashes = Hashes(session.server_m) /\ got.proof = [gc_hash |-> gc_hash(0)]
    BY <1>1 DEF SessionInv, GotOK, PastMeta, PastPing, PastMasks, PastLabels
  <2>5. Hashes(session.server_m)[1] = gc_hash(0)
    BY <2>1 DEF Hashes
  <2>6. QED
    BY <2>3, <2>4, <2>5 DEF Table
<1>7. \E stark_ok \in BOOLEAN :
        verdict' = [verdict EXCEPT !.stark_ok = stark_ok, !.bind_ok = stark_ok]
  BY <1>6 DEF Client_verify
<1>8. SocketOK'
  BY <1>1, <1>4, TakeNext
<1>9. GotOK'
  BY <1>1, <1>2, <1>5 DEF SessionInv, GotOK, PastMeta, PastPing, PastMasks, PastLabels
<1>10. TablesOK' /\ LabelsOK'
  BY <1>1, <1>2 DEF SessionInv, TablesOK, LabelsOK, PastTables, PastPing, PastMasks, PastLabels
<1>11. MasksOK' /\ SharesOK'
  BY <1>1, <1>2 DEF SessionInv, MasksOK, SharesOK, PastPing, PastMasks, PastLabels
<1>12. VerdictOK'
  <2>1. verdict' \in [stark_ok : BOOLEAN, bind_ok : BOOLEAN, plaintext_ok : BOOLEAN, plain_match : Nat]
        /\ verdict'.bind_ok = verdict'.stark_ok /\ verdict'.plain_match = verdict.plain_match
        /\ verdict'.plaintext_ok = TRUE
    BY <1>7 DEF SessionInv, VerdictOK
  <2>2. client' \in [at : ClientPlaces \ {"report"}, i : Nat] /\ client'.i = 0
    BY <1>1 DEF SessionInv, VerdictOK, ClientPlaces
  <2>3. 0 <= session.server_m
    BY <1>1, SessionType
  <2>4. QED
    <3>1. client.i = 0 /\ verdict.plain_match = 0 /\ Len(ys) = 0
      BY <1>1 DEF SessionInv, VerdictOK
    <3>2. \A n \in 1 .. client'.i : ys'[n] = F_k(key', xs'[n])
      BY <2>2
    <3>3. ys' \in Seq({F_k(key', x) : x \in Xs}) /\ Len(ys') = 0 /\ verdict'.plain_match = 0
      BY <1>1, <2>1, <3>1 DEF SessionInv, VerdictOK
    <3>4. QED
      BY <1>1, <2>1, <2>2, <2>3, <3>2, <3>3 DEF VerdictOK
<1>13. ReportOK'
  BY <1>1 DEF SessionInv, ReportOK
<1>14. QED
  BY <1>1, <1>8, <1>9, <1>10, <1>11, <1>12, <1>13 DEF SessionInv

(* A circuit evaluated with its own labels computes AES of the input that  *)
(* was shared.                                                             *)
LEMMA LabelOfTransfer ==
    ASSUME NEW m \in Nat, NEW i \in 0 .. m - 1, NEW j \in W, NEW h \in 0 .. 1,
           NEW sh \in [0 .. m * PerCircuit - 1 -> BOOLEAN]
    PROVE  /\ 2 * j + h \in 0 .. PerCircuit - 1
           /\ Transfer(i, j, h) \in 0 .. m * PerCircuit - 1
           /\ mask(m)[Transfer(i, j, h)][sh[Transfer(i, j, h)]]
                = [gc |-> i, wire |-> j, share |-> h, bit |-> sh[Transfer(i, j, h)]]
<1> DEFINE idx == Transfer(i, j, h)
<1>1. 2 * j + h \in 0 .. PerCircuit - 1
  <2>1. NWires \in Nat /\ j \in Nat /\ j < NWires /\ h \in Nat /\ h < 2
    BY InputsOK DEF W
  <2>2. 2 * j + h \in Nat /\ 2 * j + h < 2 * NWires
    BY <2>1
  <2>3. QED
    BY <2>1, <2>2 DEF PerCircuit
<1>2. Decomposed(m, i, j, h, idx)
  BY TransferIndex
<1> HIDE DEF idx
<1>3. /\ idx \in 0 .. m * PerCircuit - 1 /\ idx \div PerCircuit = i
      /\ (idx % PerCircuit) \div 2 = j /\ idx % 2 = h
  BY <1>2 DEF Decomposed
<1>4. sh[idx] \in BOOLEAN
  BY <1>3
<1>5. mask(m)[idx][sh[idx]] = [gc |-> i, wire |-> j, share |-> h, bit |-> sh[idx]]
  BY <1>3, <1>4 DEF mask
<1>6. QED
  BY <1>1, <1>3, <1>5 DEF idx

(* The labels of circuit i, out of the labels unmasked.                    *)
Unmasked(m, sh) == [idx \in 0 .. m * PerCircuit - 1 |-> mask(m)[idx][sh[idx]]]
LabelsOf(masks, i) == [l \in 0 .. PerCircuit - 1 |-> masks[i * PerCircuit + l]]

LEMMA EvaluateCircuit ==
    ASSUME NEW m \in Nat, NEW i \in 0 .. m - 1, NEW k, NEW x \in [1 .. m -> Xs],
           NEW sh \in [0 .. m * PerCircuit - 1 -> BOOLEAN],
           \A j \in W : AddUp(sh, x, i, j)
    PROVE  Evaluate(i, KeyLabel(k, i), LabelsOf(Unmasked(m, sh), i)) = <<"AES", k, H1[x[i + 1]]>>
<1> DEFINE lab == LabelsOf(Unmasked(m, sh), i)
           bits == [j \in W |-> lab[2 * j].bit # lab[2 * j + 1].bit]
<1>1. ASSUME NEW j \in W, NEW h \in 0 .. 1
      PROVE  lab[2 * j + h] = [gc |-> i, wire |-> j, share |-> h, bit |-> sh[Transfer(i, j, h)]]
  <2>1. /\ 2 * j + h \in 0 .. PerCircuit - 1
        /\ Transfer(i, j, h) \in 0 .. m * PerCircuit - 1
        /\ mask(m)[Transfer(i, j, h)][sh[Transfer(i, j, h)]]
             = [gc |-> i, wire |-> j, share |-> h, bit |-> sh[Transfer(i, j, h)]]
    BY LabelOfTransfer
  <2>2. lab[2 * j + h] = Unmasked(m, sh)[Transfer(i, j, h)]
    BY <2>1 DEF LabelsOf, Transfer
  <2>3. Unmasked(m, sh)[Transfer(i, j, h)] = mask(m)[Transfer(i, j, h)][sh[Transfer(i, j, h)]]
    BY <2>1 DEF Unmasked
  <2>4. QED
    BY <2>1, <2>2, <2>3
<1> HIDE DEF lab
<1>2. \A j \in W : \A s \in {0, 1} :
        lab[2 * j + s].gc = i /\ lab[2 * j + s].wire = j /\ lab[2 * j + s].share = s
  <2> SUFFICES ASSUME NEW j \in W, NEW s \in {0, 1}
               PROVE  lab[2 * j + s].gc = i /\ lab[2 * j + s].wire = j /\ lab[2 * j + s].share = s
    OBVIOUS
  <2>1. s \in 0 .. 1
    OBVIOUS
  <2>2. lab[2 * j + s] = [gc |-> i, wire |-> j, share |-> s, bit |-> sh[Transfer(i, j, s)]]
    BY <1>1, <2>1
  <2>3. QED
    BY <2>2
<1>3. KeyLabel(k, i).gc = i /\ KeyLabel(k, i).key = k
  BY DEF KeyLabel
<1>4. bits = H1[x[i + 1]]
  <2>1. i + 1 \in 1 .. m
    OBVIOUS
  <2>2. x[i + 1] \in Xs
    BY <2>1
  <2>3. H1[x[i + 1]] \in [W -> BOOLEAN]
    BY <2>2, InputsOK
  <2>4. ASSUME NEW j \in W
        PROVE  bits[j] = H1[x[i + 1]][j]
    <3>1. lab[2 * j + 0].bit = sh[Transfer(i, j, 0)] /\ lab[2 * j + 1].bit = sh[Transfer(i, j, 1)]
      <4>1. 0 \in 0 .. 1 /\ 1 \in 0 .. 1
        OBVIOUS
      <4>2. lab[2 * j + 0] = [gc |-> i, wire |-> j, share |-> 0, bit |-> sh[Transfer(i, j, 0)]]
        BY <1>1, <4>1
      <4>3. lab[2 * j + 1] = [gc |-> i, wire |-> j, share |-> 1, bit |-> sh[Transfer(i, j, 1)]]
        BY <1>1, <4>1
      <4>4. QED
        BY <4>2, <4>3
    <3>2. 2 * j + 0 = 2 * j
      <4>1. j \in Nat
        BY InputsOK DEF W
      <4>2. QED
        BY <4>1
    <3>3. bits[j] = (lab[2 * j].bit # lab[2 * j + 1].bit)
      OBVIOUS
    <3>4. (sh[Transfer(i, j, 0)] # sh[Transfer(i, j, 1)]) = H1[x[i + 1]][j]
      BY DEF AddUp
    <3> HIDE DEF bits
    <3>5. lab[2 * j].bit = sh[Transfer(i, j, 0)]
      BY <3>1, <3>2
    <3>6. (lab[2 * j].bit # lab[2 * j + 1].bit) = H1[x[i + 1]][j]
      BY <3>1, <3>4, <3>5, Zenon
    <3>7. QED
      BY <3>3, <3>6
  <2>5. DOMAIN bits = W
    OBVIOUS
  <2>6. bits = [j \in W |-> bits[j]] /\ H1[x[i + 1]] = [j \in W |-> H1[x[i + 1]][j]]
    BY <2>3
  <2> HIDE DEF bits
  <2>7. QED
    BY <2>4, <2>6
<1>5. Evaluate(i, KeyLabel(k, i), lab) = <<"AES", KeyLabel(k, i).key, bits>>
  BY <1>2, <1>3 DEF Evaluate
<1> HIDE DEF bits
<1>6. QED
  BY <1>3, <1>4, <1>5 DEF lab

(* Every circuit is the one whose hash was announced, and its output is    *)
(* F_k at the input: evaluation never stops half way.                      *)
LEMMA Step_Client_eval == SessionInv /\ Client_eval => SessionInv'
<1> SUFFICES ASSUME SessionInv, Client_eval PROVE SessionInv'
  OBVIOUS
<1> DEFINE i == client.i
           m == session.server_m
           y == H2(xs[i + 1], Evaluate(got.tables[i + 1].gc, got.key_labels[i + 1],
                                       LabelsOf(got.masks, i)))
<1>1. /\ client.at = "eval" /\ i < session.client_m /\ verdict.stark_ok /\ verdict.bind_ok
      /\ client \in [at : ClientPlaces \ {"report"}, i : Nat]
      /\ UNCHANGED <<session, key, server, xs, shares, got, toClient, toServer>>
      /\ session \in Sessions /\ session.client_m = m
  BY DEF Client_eval, SessionInv, VerdictOK, GotOK, PastMeta, PastPing, PastMasks, PastLabels
<1>2. m \in Nat /\ i \in Nat /\ i \in 0 .. m - 1 /\ i + 1 \in 1 .. m /\ (i + 1) - 1 = i
  <2>1. m \in Nat /\ i \in Nat
    BY <1>1, SessionType
  <2>2. QED
    BY <1>1, <2>1
<1>3. /\ got.tables[i + 1] = Table(i) /\ got.key_labels[i + 1] = KeyLabel(key, i)
      /\ got.hashes[i + 1] = gc_hash(i) /\ got.key = key
  <2>1. Len(got.tables) = m /\ \A n \in 1 .. Len(got.tables) : got.tables[n] = Table(n - 1)
    BY <1>1 DEF SessionInv, TablesOK, PastTables, PastPing, PastMasks, PastLabels
  <2>2. Len(got.key_labels) = m
        /\ \A n \in 1 .. Len(got.key_labels) : got.key_labels[n] = KeyLabel(key, n - 1)
    BY <1>1 DEF SessionInv, LabelsOK, PastLabels
  <2>3. got.hashes = Hashes(m) /\ got.key = key
    BY <1>1 DEF SessionInv, GotOK, PastMeta, PastPing, PastMasks, PastLabels
  <2> HIDE DEF i, m
  <2>4. Hashes(m)[i + 1] = gc_hash(i)
    BY <1>2 DEF Hashes
  <2>5. QED
    BY <1>2, <2>1, <2>2, <2>3, <2>4
<1>4. y = F_k(key, xs[i + 1])
  <2>1. /\ session.n_ot = m * PerCircuit
        /\ got.masks = [idx \in 0 .. session.n_ot - 1 |-> mask(m)[idx][shares[idx]]]
    BY <1>1 DEF SessionInv, MasksOK, PastMasks, PastLabels
  <2>2. got.masks = Unmasked(m, shares)
    BY <2>1 DEF Unmasked
  <2>3. /\ xs \in [1 .. m -> Xs] /\ shares \in [0 .. session.n_ot - 1 -> BOOLEAN]
        /\ \A a \in 0 .. m - 1, j \in W : AddUp(shares, xs, a, j)
    BY <1>1 DEF SessionInv, SharesOK, PastPing, PastMasks, PastLabels
  <2> HIDE DEF i, m
  <2>4. shares \in [0 .. m * PerCircuit - 1 -> BOOLEAN] /\ \A j \in W : AddUp(shares, xs, i, j)
    BY <1>2, <2>1, <2>3
  <2>5. Evaluate(i, KeyLabel(key, i), LabelsOf(Unmasked(m, shares), i))
          = <<"AES", key, H1[xs[i + 1]]>>
    BY <1>2, <2>3, <2>4, EvaluateCircuit
  <2>6. got.tables[i + 1].gc = i
    BY <1>3 DEF Table
  <2>7. QED
    BY <1>3, <2>2, <2>5, <2>6 DEF F_k
<1>5. /\ ys' = Append(ys, F_k(key, xs[i + 1]))
      /\ verdict' = [verdict EXCEPT !.plaintext_ok = TRUE, !.plain_match = @ + 1]
      /\ client' = [client EXCEPT !.i = @ + 1]
  <2>1. got.tables[i + 1].gc_hash = got.hashes[i + 1]
    BY <1>3 DEF Table
  <2>2. LabelsOf(got.masks, i) = [l \in 0 .. PerCircuit - 1 |-> got.masks[i * PerCircuit + l]]
    BY DEF LabelsOf
  <2>3. /\ ys' = Append(ys, y)
        /\ verdict' = [verdict EXCEPT !.plaintext_ok = @ /\ (y = F_k(got.key, xs[i + 1])),
                                      !.plain_match = IF y = F_k(got.key, xs[i + 1]) THEN @ + 1 ELSE @]
        /\ client' = [client EXCEPT !.i = @ + 1]
    BY <2>1, <2>2 DEF Client_eval
  <2> HIDE DEF y, i
  <2>4. (y = F_k(got.key, xs[i + 1])) = TRUE /\ verdict.plaintext_ok = TRUE
    BY <1>3, <1>4 DEF SessionInv, VerdictOK
  <2>5. QED
    BY <2>3, <2>4, <1>3, <1>4
<1>6. /\ verdict' \in [stark_ok : BOOLEAN, bind_ok : BOOLEAN, plaintext_ok : BOOLEAN, plain_match : Nat]
      /\ verdict'.bind_ok = verdict'.stark_ok /\ verdict'.stark_ok = verdict.stark_ok
      /\ verdict'.plain_match = i + 1 /\ verdict'.plaintext_ok = TRUE
  <2>1. /\ verdict \in [stark_ok : BOOLEAN, bind_ok : BOOLEAN, plaintext_ok : BOOLEAN, plain_match : Nat]
        /\ verdict.bind_ok = verdict.stark_ok /\ verdict.plain_match = i
    BY <1>1 DEF SessionInv, VerdictOK
  <2>2. verdict' = [verdict EXCEPT !.plaintext_ok = TRUE, !.plain_match = @ + 1]
    BY <1>5
  <2> HIDE DEF i
  <2>3. verdict' \in [stark_ok : BOOLEAN, bind_ok : BOOLEAN, plaintext_ok : BOOLEAN, plain_match : Nat]
    <3>1. verdict' = [stark_ok |-> verdict.stark_ok, bind_ok |-> verdict.bind_ok,
                      plaintext_ok |-> TRUE, plain_match |-> verdict.plain_match + 1]
      BY <2>1, <2>2
    <3>2. verdict.plain_match + 1 \in Nat /\ verdict.stark_ok \in BOOLEAN /\ verdict.bind_ok \in BOOLEAN
      BY <2>1
    <3>3. QED
      BY <3>1, <3>2
  <2>4. verdict'.bind_ok = verdict.bind_ok /\ verdict'.stark_ok = verdict.stark_ok
        /\ verdict'.plain_match = i + 1 /\ verdict'.plaintext_ok = TRUE
    BY <2>1, <2>2
  <2>5. QED
    BY <2>1, <2>3, <2>4
<1>7. client' \in [at : ClientPlaces \ {"report"}, i : Nat]
      /\ client'.at = client.at /\ client'.i = i + 1
  BY <1>1, <1>2, <1>5
<1>8. /\ ys' \in Seq({F_k(key, x) : x \in Xs}) /\ Len(ys') = i + 1
      /\ \A n \in 1 .. i + 1 : ys'[n] = F_k(key, xs[n])
  <2> DEFINE Ys == {F_k(key, x) : x \in Xs}
  <2>1. ys \in Seq(Ys) /\ Len(ys) = i /\ \A n \in 1 .. i : ys[n] = F_k(key, xs[n])
    BY <1>1 DEF SessionInv, VerdictOK
  <2>2. xs \in [1 .. m -> Xs]
    BY <1>1 DEF SessionInv, SharesOK, PastPing, PastMasks, PastLabels
  <2> HIDE DEF i, m
  <2>3. F_k(key, xs[i + 1]) \in Ys
    <3>1. xs[i + 1] \in Xs
      BY <1>2, <2>2
    <3>2. QED
      BY <3>1
  <2> HIDE DEF Ys
  <2>4. ys' \in Seq(Ys) /\ Len(ys') = i + 1
    BY <1>5, <2>1, <2>3
  <2>5. ASSUME NEW n \in 1 .. i + 1
        PROVE  ys'[n] = F_k(key, xs[n])
    <3>1. CASE n = i + 1
      BY <1>5, <2>1, <2>3, <3>1
    <3>2. CASE n # i + 1
      <4>1. n \in 1 .. i
        BY <3>2, <1>2
      <4>2. QED
        BY <1>5, <2>1, <2>3, <4>1
    <3>3. QED
      BY <3>1, <3>2
  <2>6. QED
    BY <2>4, <2>5 DEF Ys
<1>9. SocketOK'
  <2>1. Consumed' = Consumed /\ Sent' = Sent
    BY <1>1, <1>7 DEF Consumed, Sent
  <2>2. QED
    BY <1>1, <1>7, <2>1 DEF SessionInv, SocketOK
<1>10. GotOK'
  BY <1>1, <1>7 DEF SessionInv, GotOK, PastMeta, PastPing, PastMasks, PastLabels
<1>11. TablesOK' /\ LabelsOK'
  BY <1>1, <1>7 DEF SessionInv, TablesOK, LabelsOK, PastTables, PastPing, PastMasks, PastLabels
<1>12. MasksOK' /\ SharesOK'
  BY <1>1, <1>7 DEF SessionInv, MasksOK, SharesOK, PastPing, PastMasks, PastLabels
<1>13. VerdictOK'
  <2> HIDE DEF i
  <2>1. i + 1 <= session.server_m
    BY <1>2
  <2>2. QED
    BY <1>1, <1>6, <1>7, <1>8, <2>1 DEF VerdictOK
<1>14. ReportOK'
  BY <1>1, <1>6, <1>7 DEF SessionInv, ReportOK
<1>15. QED
  BY <1>1, <1>9, <1>10, <1>11, <1>12, <1>13, <1>14 DEF SessionInv

(* The verdict that is sent is the verifier's.                             *)
LEMMA Step_Client_report == SessionInv /\ Client_report => SessionInv'
<1> SUFFICES ASSUME SessionInv, Client_report PROVE SessionInv'
  OBVIOUS
<1>1. /\ client.at = "eval"
      /\ ~ (client.i < session.client_m /\ verdict.stark_ok /\ verdict.bind_ok)
      /\ client \in [at : ClientPlaces \ {"report"}, i : Nat]
      /\ client' = [client EXCEPT !.at = "exit"] /\ client'.at = "exit" /\ client'.i = client.i
      /\ UNCHANGED <<session, key, server, xs, shares, got, verdict, ys, toClient>>
      /\ session \in Sessions
  BY DEF Client_report, SessionInv, VerdictOK
<1>2. /\ session.client_m = session.server_m /\ session.server_m \in Nat
      /\ client.i \in Nat /\ client.i <= session.server_m
      /\ verdict.bind_ok = verdict.stark_ok /\ verdict.plain_match = client.i
      /\ verdict.plaintext_ok = TRUE /\ verdict.stark_ok \in BOOLEAN
  BY <1>1, SessionType DEF SessionInv, VerdictOK, GotOK, PastMeta, PastPing, PastMasks, PastLabels
<1>3. client.i = session.server_m \/ ~ verdict.stark_ok
  BY <1>1, <1>2
<1>4. toServer' = Append(toServer, Message("vok", verdict.stark_ok))
  <2> DEFINE vok == /\ verdict.stark_ok /\ verdict.bind_ok /\ verdict.plaintext_ok
                    /\ verdict.plain_match = session.client_m
  <2>1. vok = verdict.stark_ok
    BY <1>2, <1>3
  <2>2. toServer' = toServer \o << Message("vok", vok) >>
    BY DEF Client_report, Blob, Message
  <2> HIDE DEF vok
  <2>3. QED
    BY <2>1, <2>2 DEF SessionInv, ReportOK
<1>5. SocketOK'
  <2>1. Consumed' = Consumed /\ Sent' = Sent
    BY <1>1 DEF Consumed, Sent
  <2>2. QED
    BY <1>1, <2>1 DEF SessionInv, SocketOK
<1>6. GotOK'
  BY <1>1 DEF SessionInv, GotOK, PastMeta, PastPing, PastMasks, PastLabels
<1>7. TablesOK' /\ LabelsOK'
  BY <1>1 DEF SessionInv, TablesOK, LabelsOK, PastTables, PastPing, PastMasks, PastLabels
<1>8. MasksOK' /\ SharesOK'
  BY <1>1 DEF SessionInv, MasksOK, SharesOK, PastPing, PastMasks, PastLabels
<1>9. VerdictOK'
  <2>1. client' \in [at : ClientPlaces \ {"report"}, i : Nat]
    BY <1>1 DEF ClientPlaces, Gone
  <2>2. QED
    BY <1>1, <1>3, <2>1 DEF SessionInv, VerdictOK
<1>10. ReportOK'
  BY <1>1, <1>2, <1>4 DEF SessionInv, ReportOK, Message
<1>11. QED
  BY <1>1, <1>5, <1>6, <1>7, <1>8, <1>9, <1>10 DEF SessionInv

LEMMA Step_Throws == SessionInv /\ (ServerThrows \/ ClientThrows) => SessionInv'
<1> SUFFICES ASSUME SessionInv, ServerThrows \/ ClientThrows PROVE SessionInv'
  OBVIOUS
<1>1. CASE ServerThrows
  <2>1. /\ server \in [at : ServerPlaces, vok : BOOLEAN]
        /\ server.at # "exit" /\ server'.at = "error" /\ server'.vok = server.vok
        /\ server' \in [at : ServerPlaces, vok : BOOLEAN]
        /\ UNCHANGED <<session, key, client, xs, shares, got, verdict, ys, toClient, toServer>>
    BY <1>1 DEF ServerThrows, SessionInv, ReportOK, ServerPlaces, Gone
  <2>2. SocketOK'
    <3>1. Consumed' = Consumed
      BY <2>1 DEF Consumed
    <3>2. QED
      BY <2>1, <3>1 DEF SessionInv, SocketOK
  <2>3. GotOK' /\ TablesOK' /\ LabelsOK'
    BY <2>1 DEF SessionInv, GotOK, TablesOK, LabelsOK, PastMeta, PastTables, PastPing, PastMasks, PastLabels
  <2>4. MasksOK' /\ SharesOK'
    BY <2>1 DEF SessionInv, MasksOK, SharesOK, PastPing, PastMasks, PastLabels
  <2>5. VerdictOK'
    BY <2>1 DEF SessionInv, VerdictOK
  <2>6. ReportOK'
    BY <2>1 DEF SessionInv, ReportOK
  <2>7. QED
    BY <2>1, <2>2, <2>3, <2>4, <2>5, <2>6 DEF SessionInv
<1>2. CASE ClientThrows
  <2>1. /\ client \in [at : ClientPlaces \ {"report"}, i : Nat]
        /\ client.at \notin {"eval", "exit"} /\ client'.at = "error" /\ client'.i = client.i
        /\ client' \in [at : ClientPlaces \ {"report"}, i : Nat]
        /\ UNCHANGED <<session, key, server, xs, shares, got, verdict, ys, toClient, toServer>>
    BY <1>2 DEF ClientThrows, SessionInv, VerdictOK, ClientPlaces, Gone
  <2>2. SocketOK'
    BY <2>1 DEF SessionInv, SocketOK
  <2>3. GotOK' /\ TablesOK' /\ LabelsOK'
    BY <2>1 DEF SessionInv, GotOK, TablesOK, LabelsOK, PastMeta, PastTables, PastPing, PastMasks, PastLabels
  <2>4. MasksOK' /\ SharesOK'
    BY <2>1 DEF SessionInv, MasksOK, SharesOK, PastPing, PastMasks, PastLabels
  <2>5. VerdictOK'
    BY <2>1 DEF SessionInv, VerdictOK
  <2>6. ReportOK'
    BY <2>1 DEF SessionInv, ReportOK
  <2>7. QED
    BY <2>1, <2>2, <2>3, <2>4, <2>5, <2>6 DEF SessionInv
<1>3. QED
  BY <1>1, <1>2
-----------------------------------------------------------------------------
(* run_server(): what it sends continues the script.                       *)

(* What a step of the server leaves alone.                                 *)
LEMMA ServerFrame ==
    ASSUME SessionInv, UNCHANGED <<session, key, client, xs, shares, got, verdict, ys>>
    PROVE  /\ session' \in Sessions /\ GotOK' /\ TablesOK' /\ LabelsOK' /\ MasksOK' /\ SharesOK'
           /\ VerdictOK' /\ Consumed' = Consumed
<1>1. session' \in Sessions /\ GotOK' /\ TablesOK' /\ LabelsOK'
  BY DEF SessionInv, GotOK, TablesOK, LabelsOK, PastMeta, PastTables, PastPing, PastMasks, PastLabels
<1>2. MasksOK' /\ SharesOK'
  BY DEF SessionInv, MasksOK, SharesOK, PastPing, PastMasks, PastLabels
<1>3. VerdictOK'
  BY DEF SessionInv, VerdictOK
<1>4. Consumed' = Consumed
  BY DEF Consumed
<1>5. QED
  BY <1>1, <1>2, <1>3, <1>4

(* ... and the messages it takes from the client.                          *)
LEMMA ServerTakes ==
    ASSUME SessionInv, NEW type, Expects(toServer, type)
    PROVE  /\ Tail(toServer) \in Seq([type : {"base_ot", "ping", "ot", "vok"},
                                      data : {<<>>} \union BOOLEAN])
           /\ \A n \in 1 .. Len(Tail(toServer)) : Tail(toServer)[n].type = "vok" =>
                client.at = "exit" /\ Tail(toServer)[n].data = verdict.stark_ok
           /\ type = "vok" => client.at = "exit" /\ Head(toServer).data = verdict.stark_ok
<1> DEFINE M == [type : {"base_ot", "ping", "ot", "vok"}, data : {<<>>} \union BOOLEAN]
<1>1. /\ toServer \in Seq(M) /\ toServer # <<>> /\ Head(toServer).type = type
      /\ \A n \in 1 .. Len(toServer) : toServer[n].type = "vok" =>
           client.at = "exit" /\ toServer[n].data = verdict.stark_ok
  BY DEF SessionInv, ReportOK, Expects
<1> HIDE DEF M
<1>2. /\ Tail(toServer) \in Seq(M) /\ Head(toServer) = toServer[1] /\ 1 \in 1 .. Len(toServer)
      /\ Len(Tail(toServer)) = Len(toServer) - 1 /\ Len(toServer) \in Nat
  BY <1>1
<1>3. ASSUME NEW n \in 1 .. Len(Tail(toServer)), Tail(toServer)[n].type = "vok"
      PROVE  client.at = "exit" /\ Tail(toServer)[n].data = verdict.stark_ok
  <2>1. Tail(toServer)[n] = toServer[n + 1] /\ n + 1 \in 1 .. Len(toServer)
    BY <1>1, <1>2
  <2>2. QED
    BY <1>1, <1>3, <2>1
<1>4. type = "vok" => client.at = "exit" /\ Head(toServer).data = verdict.stark_ok
  BY <1>1, <1>2
<1>5. QED
  BY <1>2, <1>3, <1>4 DEF M

LEMMA Step_Server_base_ot == SessionInv /\ Server_base_ot => SessionInv'
<1> SUFFICES ASSUME SessionInv, Server_base_ot PROVE SessionInv'
  OBVIOUS
<1>1. /\ server.at = "base_ot" /\ toClient' = toClient \o Blob("base_ot", <<>>)
      /\ server' = [server EXCEPT !.at = "base_ot2"]
      /\ UNCHANGED <<session, key, client, xs, shares, got, verdict, ys, toServer>>
  BY DEF Server_base_ot
<1>2. /\ server'.at = "base_ot2" /\ server'.vok = server.vok
      /\ server' \in [at : ServerPlaces, vok : BOOLEAN]
  BY <1>1 DEF SessionInv, ReportOK, ServerPlaces
<1>3. SocketOK'
  <2> SUFFICES ASSUME client.at # "error"
               PROVE  SocketOK'
    BY <1>1, <1>2 DEF SocketOK
  <2>1. Follows(session, key, Consumed, toClient) /\ Consumed + Len(toClient) = 0
    BY <1>1 DEF SessionInv, SocketOK, Sent
  <2>2. Len(toClient) \in Nat /\ Consumed \in Nat
    BY <2>1, ConsumedType DEF Follows
  <2>3. Follows(session, key, Consumed + Len(toClient), Blob("base_ot", <<>>))
        /\ Len(Blob("base_ot", <<>>)) = 1
    <3>1. session \in Sessions
      BY DEF SessionInv
    <3>2. Script(session, key, 1) = Message("base_ot", <<>>)
      BY <3>1, ScriptValues
    <3>3. (Consumed + Len(toClient)) + 1 = 1 /\ Consumed + Len(toClient) \in Nat
      BY <2>1
    <3>4. QED
      BY <3>2, <3>3, FollowsBlob
  <2>4. Follows(session, key, Consumed, toClient') /\ Len(toClient') = Len(toClient) + 1
    BY <1>1, <2>1, <2>2, <2>3, FollowsCat
  <2>5. Consumed' = Consumed
    BY <1>1, ServerFrame
  <2>6. Sent' = 1
    BY <1>2 DEF Sent
  <2>7. PingAt(session) \in Nat /\ PingAt(session) >= 4
    BY SessionType DEF SessionInv
  <2>8. Consumed' + Len(toClient') = 1
    BY <2>1, <2>2, <2>4, <2>5
  <2>9. QED
    BY <1>1, <1>2, <2>4, <2>5, <2>6, <2>7, <2>8 DEF SocketOK
<1>4. ReportOK'
  BY <1>1, <1>2 DEF SessionInv, ReportOK
<1>5. QED
  BY <1>1, <1>3, <1>4, ServerFrame DEF SessionInv

(* The offline part: the announcement, the tables unless they are online,  *)
(* and the ping.                                                           *)
Offline(s, k, c) ==
    c \o Blob("cm", <<"cm", k>>)
      \o Blob("meta", [m |-> s.server_m, hashes |-> Hashes(s.server_m)])
      \o (IF s.tables_online THEN <<>> ELSE table_blobs(s.server_m))
      \o Blob("ping", <<>>)

LEMMA FollowsOffline ==
    ASSUME NEW s \in Sessions, NEW k, NEW p \in Nat, NEW c, Follows(s, k, p, c), p + Len(c) = 1
    PROVE  Follows(s, k, p, Offline(s, k, c)) /\ p + Len(Offline(s, k, c)) = PingAt(s)
<1> DEFINE b1 == Blob("cm", <<"cm", k>>)
           b2 == Blob("meta", [m |-> s.server_m, hashes |-> Hashes(s.server_m)])
           b3 == IF s.tables_online THEN <<>> ELSE table_blobs(s.server_m)
           b4 == Blob("ping", <<>>)
           n3 == IF s.tables_online THEN 0 ELSE s.server_m
<1>0. s.server_m \in Nat /\ n3 \in Nat /\ Len(c) \in Nat
  BY SessionType DEF Follows
<1>1. Follows(s, k, 1, b1) /\ Len(b1) = 1
  <2>1. Script(s, k, 2) = Message("cm", <<"cm", k>>)
    BY ScriptValues
  <2>2. 1 + 1 = 2 /\ 1 \in Nat
    OBVIOUS
  <2>3. QED
    BY <2>1, <2>2, FollowsBlob
<1>2. Follows(s, k, 2, b2) /\ Len(b2) = 1
  <2>1. Script(s, k, 3) = Message("meta", [m |-> s.server_m, hashes |-> Hashes(s.server_m)])
    BY ScriptValues
  <2>2. 2 + 1 = 3 /\ 2 \in Nat
    OBVIOUS
  <2>3. QED
    BY <2>1, <2>2, FollowsBlob
<1>3. Follows(s, k, 3, b3) /\ Len(b3) = n3
  <2>1. CASE s.tables_online
    <3>1. Follows(s, k, 3, <<>>) /\ Len(<<>>) = 0
      BY FollowsNothing
    <3>2. QED
      BY <2>1, <3>1
  <2>2. CASE ~ s.tables_online
    <3>1. TablesAt(s) - 1 = 3
      BY <2>2 DEF TablesAt
    <3>2. QED
      BY <2>2, <3>1, FollowsTables
  <2>3. QED
    BY <2>1, <2>2
<1>4. PingAt(s) = (3 + n3) + 1
  BY <1>0 DEF PingAt
<1>5. Follows(s, k, 3 + n3, b4) /\ Len(b4) = 1
  <2>1. Script(s, k, PingAt(s)) = Message("ping", <<>>)
    BY ScriptValues
  <2>2. 3 + n3 \in Nat
    BY <1>0
  <2> HIDE DEF n3
  <2>3. QED
    BY <1>4, <2>1, <2>2, FollowsBlob
<1> HIDE DEF b1, b2, b3, b4, n3
<1>6. Follows(s, k, p, c \o b1) /\ p + Len(c \o b1) = 2
  <2>1. Follows(s, k, p, c \o b1) /\ Len(c \o b1) = Len(c) + Len(b1)
    <3>1. Follows(s, k, 1, b1)
      BY <1>1
    <3>2. QED
      BY <3>1, FollowsCat
  <2>2. QED
    BY <2>1, <1>0, <1>1
<1>7. Follows(s, k, p, c \o b1 \o b2) /\ p + Len(c \o b1 \o b2) = 3
  <2> DEFINE e == c \o b1
  <2>0. Follows(s, k, p, e) /\ p + Len(e) = 2 /\ Len(e) \in Nat
    BY <1>6 DEF Follows
  <2> HIDE DEF e
  <2>1. Follows(s, k, p, e \o b2) /\ Len(e \o b2) = Len(e) + Len(b2)
    <3>1. Follows(s, k, 2, b2)
      BY <1>2
    <3>2. QED
      BY <2>0, <3>1, FollowsCat
  <2>2. QED
    BY <2>0, <2>1, <1>2 DEF e
<1>8. Follows(s, k, p, c \o b1 \o b2 \o b3) /\ p + Len(c \o b1 \o b2 \o b3) = 3 + n3
  <2> DEFINE e == c \o b1 \o b2
  <2>0. Follows(s, k, p, e) /\ p + Len(e) = 3 /\ Len(e) \in Nat
    BY <1>7 DEF Follows
  <2> HIDE DEF e
  <2>1. Follows(s, k, p, e \o b3) /\ Len(e \o b3) = Len(e) + Len(b3)
    BY <2>0, <1>3, FollowsCat
  <2>2. QED
    BY <2>0, <2>1, <1>3, <1>0 DEF e
<1>9. Follows(s, k, p, c \o b1 \o b2 \o b3 \o b4)
      /\ p + Len(c \o b1 \o b2 \o b3 \o b4) = PingAt(s)
  <2> DEFINE e == c \o b1 \o b2 \o b3
  <2>0. Follows(s, k, p, e) /\ p + Len(e) = 3 + n3 /\ Len(e) \in Nat
    BY <1>8 DEF Follows
  <2> HIDE DEF e
  <2>1. Follows(s, k, p, e \o b4) /\ Len(e \o b4) = Len(e) + Len(b4)
    <3>1. Follows(s, k, 3 + n3, b4)
      BY <1>5
    <3>2. QED
      BY <2>0, <3>1, FollowsCat
  <2>2. QED
    BY <2>0, <2>1, <1>4, <1>5, <1>0 DEF e
<1>10. QED
  BY <1>9 DEF Offline, b1, b2, b3, b4

(* The online part: everything else.                                       *)
Online(s, k, c) ==
    c \o Blob("masks", mask(s.server_m))
      \o (IF s.tables_online THEN table_blobs(s.server_m) ELSE <<>>)
      \o label_blobs(s.server_m, k)
      \o Blob("proof", [gc_hash |-> gc_hash(0)])
      \o Blob("key", k)

LEMMA FollowsOnline ==
    ASSUME NEW s \in Sessions, NEW k, NEW p \in Nat, NEW c,
           Follows(s, k, p, c), p + Len(c) = PingAt(s)
    PROVE  Follows(s, k, p, Online(s, k, c)) /\ p + Len(Online(s, k, c)) = Total(s)
<1> DEFINE b1 == Blob("masks", mask(s.server_m))
           b2 == IF s.tables_online THEN table_blobs(s.server_m) ELSE <<>>
           b3 == label_blobs(s.server_m, k)
           b4 == Blob("proof", [gc_hash |-> gc_hash(0)])
           b5 == Blob("key", k)
           n2 == IF s.tables_online THEN s.server_m ELSE 0
<1>0. /\ s.server_m \in Nat /\ n2 \in Nat /\ Len(c) \in Nat
      /\ PingAt(s) \in Nat /\ LabelsAt(s) \in Nat /\ Total(s) \in Nat
      /\ LabelsAt(s) - 1 \in Nat /\ Total(s) - 2 \in Nat /\ Total(s) - 1 \in Nat
  <2>1. s.server_m \in Nat /\ n2 \in Nat /\ Len(c) \in Nat
    BY SessionType DEF Follows
  <2>2. PingAt(s) \in Nat /\ LabelsAt(s) \in Nat /\ Total(s) \in Nat
    BY SessionType
  <2>3. LabelsAt(s) - 1 \in Nat /\ Total(s) - 2 \in Nat /\ Total(s) - 1 \in Nat
    BY <2>1 DEF LabelsAt, Total
  <2>4. QED
    BY <2>1, <2>2, <2>3
<1>1. Follows(s, k, PingAt(s), b1) /\ Len(b1) = 1
  <2>1. Script(s, k, PingAt(s) + 1) = Message("masks", mask(s.server_m))
    BY ScriptValues
  <2>2. QED
    BY <1>0, <2>1, FollowsBlob
<1>2. Follows(s, k, PingAt(s) + 1, b2) /\ Len(b2) = n2
  <2>1. CASE s.tables_online
    <3>1. TablesAt(s) - 1 = PingAt(s) + 1
      BY <2>1 DEF TablesAt, PingAt
    <3>2. QED
      BY <2>1, <3>1, FollowsTables
  <2>2. CASE ~ s.tables_online
    <3>1. PingAt(s) + 1 \in Nat
      BY <1>0
    <3>2. Follows(s, k, PingAt(s) + 1, <<>>) /\ Len(<<>>) = 0
      BY <3>1, FollowsNothing
    <3>3. QED
      BY <2>2, <3>2
  <2>3. QED
    BY <2>1, <2>2
<1>3. (PingAt(s) + 1) + n2 = LabelsAt(s) - 1 /\ (LabelsAt(s) - 1) + s.server_m = Total(s) - 2
  <2>1. s.server_m \in Nat
    BY <1>0
  <2>2. (PingAt(s) + 1) + n2 = LabelsAt(s) - 1
    BY <2>1 DEF PingAt, LabelsAt
  <2>3. (LabelsAt(s) - 1) + s.server_m = Total(s) - 2
    BY <2>1 DEF LabelsAt, Total
  <2>4. QED
    BY <2>2, <2>3
<1>4. Follows(s, k, LabelsAt(s) - 1, b3) /\ Len(b3) = s.server_m
  BY FollowsLabels
<1>5. Follows(s, k, Total(s) - 2, b4) /\ Len(b4) = 1
  <2>1. Script(s, k, Total(s) - 1) = Message("proof", [gc_hash |-> gc_hash(0)])
    BY ScriptValues
  <2>2. Total(s) - 1 = (Total(s) - 2) + 1
    BY <1>0
  <2>3. QED
    BY <1>0, <2>1, <2>2, FollowsBlob
<1>6. Follows(s, k, Total(s) - 1, b5) /\ Len(b5) = 1
  <2>1. Script(s, k, Total(s)) = Message("key", k)
    BY ScriptValues
  <2>2. Total(s) = (Total(s) - 1) + 1
    BY <1>0
  <2>3. QED
    BY <1>0, <2>1, <2>2, FollowsBlob
<1> HIDE DEF b1, b2, b3, b4, b5, n2
<1>7. Follows(s, k, p, c \o b1) /\ p + Len(c \o b1) = PingAt(s) + 1
  <2>1. Follows(s, k, p, c \o b1) /\ Len(c \o b1) = Len(c) + Len(b1)
    <3>1. Follows(s, k, PingAt(s), b1)
      BY <1>1
    <3>2. QED
      BY <3>1, FollowsCat
  <2>2. QED
    BY <2>1, <1>0, <1>1
<1>8. Follows(s, k, p, c \o b1 \o b2) /\ p + Len(c \o b1 \o b2) = LabelsAt(s) - 1
  <2> DEFINE e == c \o b1
  <2>0. Follows(s, k, p, e) /\ p + Len(e) = PingAt(s) + 1 /\ Len(e) \in Nat
    BY <1>7 DEF Follows
  <2> HIDE DEF e
  <2>1. Follows(s, k, p, e \o b2) /\ Len(e \o b2) = Len(e) + Len(b2)
    <3>1. Follows(s, k, PingAt(s) + 1, b2)
      BY <1>2
    <3>2. QED
      BY <2>0, <3>1, FollowsCat
  <2>2. QED
    BY <2>0, <2>1, <1>0, <1>2, <1>3 DEF e
<1>9. Follows(s, k, p, c \o b1 \o b2 \o b3) /\ p + Len(c \o b1 \o b2 \o b3) = Total(s) - 2
  <2> DEFINE e == c \o b1 \o b2
  <2>0. Follows(s, k, p, e) /\ p + Len(e) = LabelsAt(s) - 1 /\ Len(e) \in Nat
    BY <1>8 DEF Follows
  <2> HIDE DEF e
  <2>1. Follows(s, k, p, e \o b3) /\ Len(e \o b3) = Len(e) + Len(b3)
    <3>1. Follows(s, k, LabelsAt(s) - 1, b3)
      BY <1>4
    <3>2. QED
      BY <2>0, <3>1, FollowsCat
  <2>2. p + (Len(e) + Len(b3)) = Total(s) - 2
    <3>1. /\ p + Len(e) = LabelsAt(s) - 1 /\ Len(e) \in Nat /\ Len(b3) = s.server_m
          /\ s.server_m \in Nat /\ (LabelsAt(s) - 1) + s.server_m = Total(s) - 2
      BY <2>0, <1>0, <1>3, <1>4
    <3>2. p + (Len(e) + Len(b3)) = (p + Len(e)) + Len(b3)
      BY <3>1
    <3>3. QED
      BY <3>1, <3>2
  <2>3. QED
    BY <2>1, <2>2 DEF e
<1>10. Follows(s, k, p, c \o b1 \o b2 \o b3 \o b4)
       /\ p + Len(c \o b1 \o b2 \o b3 \o b4) = Total(s) - 1
  <2> DEFINE e == c \o b1 \o b2 \o b3
  <2>0. Follows(s, k, p, e) /\ p + Len(e) = Total(s) - 2 /\ Len(e) \in Nat
    BY <1>9 DEF Follows
  <2> HIDE DEF e
  <2>1. Follows(s, k, p, e \o b4) /\ Len(e \o b4) = Len(e) + Len(b4)
    <3>1. Follows(s, k, Total(s) - 2, b4)
      BY <1>5
    <3>2. QED
      BY <2>0, <3>1, FollowsCat
  <2>2. p + (Len(e) + Len(b4)) = Total(s) - 1
    <3>1. p + Len(e) = Total(s) - 2 /\ Len(e) \in Nat /\ Len(b4) = 1 /\ Total(s) \in Nat
      BY <2>0, <1>0, <1>5
    <3>2. QED
      BY <3>1
  <2>3. QED
    BY <2>1, <2>2 DEF e
<1>11. Follows(s, k, p, c \o b1 \o b2 \o b3 \o b4 \o b5)
       /\ p + Len(c \o b1 \o b2 \o b3 \o b4 \o b5) = Total(s)
  <2> DEFINE e == c \o b1 \o b2 \o b3 \o b4
  <2>0. Follows(s, k, p, e) /\ p + Len(e) = Total(s) - 1 /\ Len(e) \in Nat
    BY <1>10 DEF Follows
  <2> HIDE DEF e
  <2>1. Follows(s, k, p, e \o b5) /\ Len(e \o b5) = Len(e) + Len(b5)
    <3>1. Follows(s, k, Total(s) - 1, b5)
      BY <1>6
    <3>2. QED
      BY <2>0, <3>1, FollowsCat
  <2>2. QED
    BY <2>0, <2>1, <1>0, <1>6 DEF e
<1>12. QED
  BY <1>11 DEF Online, b1, b2, b3, b4, b5

LEMMA Step_Server_offline == SessionInv /\ Server_offline => SessionInv'
<1> SUFFICES ASSUME SessionInv, Server_offline PROVE SessionInv'
  OBVIOUS
<1>1. /\ server.at = "base_ot2" /\ Expects(toServer, "base_ot") /\ toServer' = Tail(toServer)
      /\ \/ toClient' = Offline(session, key, toClient) /\ server' = [server EXCEPT !.at = "pong"]
         \/ server' = [server EXCEPT !.at = "error"] /\ UNCHANGED toClient
      /\ UNCHANGED <<session, key, client, xs, shares, got, verdict, ys>>
  BY DEF Server_offline, Offline, Hashes
<1>2. /\ server'.at \in {"pong", "error"} /\ server'.vok = server.vok
      /\ server' \in [at : ServerPlaces, vok : BOOLEAN]
      /\ server'.at = "pong" => toClient' = Offline(session, key, toClient)
      /\ server'.at = "error" => toClient' = toClient
  BY <1>1 DEF SessionInv, ReportOK, ServerPlaces, Gone
<1>3. SocketOK'
  <2> SUFFICES ASSUME client.at # "error"
               PROVE  SocketOK'
    BY <1>1, <1>2 DEF SocketOK
  <2>1. /\ Follows(session, key, Consumed, toClient) /\ Consumed + Len(toClient) = 1
        /\ session \in Sessions
    BY <1>1 DEF SessionInv, SocketOK, Sent
  <2>2. Consumed' = Consumed /\ Consumed \in Nat
    BY <1>1, ServerFrame, ConsumedType
  <2>3. CASE server'.at = "pong"
    <3>1. Follows(session, key, Consumed, toClient') /\ Consumed + Len(toClient') = PingAt(session)
      BY <1>2, <2>1, <2>2, <2>3, FollowsOffline
    <3>2. Sent' = PingAt(session)
      BY <1>1, <2>3 DEF Sent
    <3>3. PingAt(session) \in Nat
      BY <2>1, SessionType
    <3>4. QED
      BY <1>1, <2>2, <2>3, <3>1, <3>2, <3>3 DEF SocketOK
  <2>4. CASE server'.at = "error"
    BY <1>1, <1>2, <2>2, <2>4 DEF SessionInv, SocketOK
  <2>5. QED
    BY <1>2, <2>3, <2>4
<1>4. ReportOK'
  BY <1>1, <1>2, ServerTakes DEF SessionInv, ReportOK
<1>5. QED
  BY <1>1, <1>3, <1>4, ServerFrame DEF SessionInv

(* The check of n_ot: past it, every transfer has its label.               *)
LEMMA Step_Server_pong == SessionInv /\ Server_pong => SessionInv'
<1> SUFFICES ASSUME SessionInv, Server_pong PROVE SessionInv'
  OBVIOUS
<1>1. /\ server.at = "pong" /\ Expects(toServer, "ping") /\ toServer' = Tail(toServer)
      /\ server' = [server EXCEPT !.at = IF session.n_ot # session.server_m * PerCircuit
                                         THEN "error" ELSE "ot"]
      /\ UNCHANGED <<session, key, client, xs, shares, got, verdict, ys, toClient>>
  BY DEF Server_pong
<1>2. /\ server'.at \in {"ot", "error"} /\ server'.vok = server.vok
      /\ server' \in [at : ServerPlaces, vok : BOOLEAN]
      /\ server'.at = "ot" => session.n_ot = session.server_m * PerCircuit
  BY <1>1 DEF SessionInv, ReportOK, ServerPlaces, Gone
<1>3. SocketOK'
  <2>1. Consumed' = Consumed
    BY <1>1, ServerFrame
  <2>2. server'.at = "ot" => Sent' = Sent
    BY <1>1 DEF Sent
  <2>3. QED
    BY <1>1, <1>2, <2>1, <2>2 DEF SessionInv, SocketOK
<1>4. ReportOK'
  BY <1>1, <1>2, ServerTakes DEF SessionInv, ReportOK
<1>5. QED
  BY <1>1, <1>3, <1>4, ServerFrame DEF SessionInv

LEMMA Step_Server_online == SessionInv /\ Server_online => SessionInv'
<1> SUFFICES ASSUME SessionInv, Server_online PROVE SessionInv'
  OBVIOUS
<1>1. /\ server.at = "ot" /\ Expects(toServer, "ot") /\ toServer' = Tail(toServer)
      /\ server' = [server EXCEPT !.at = "vok"]
      /\ UNCHANGED <<session, key, client, xs, shares, got, verdict, ys>>
  BY DEF Server_online
<1>2. toClient' = Online(session, key, toClient)
  BY DEF Server_online, Online, label_blobs, Blobs, Message, KeyLabel
<1>3. /\ server'.at = "vok" /\ server'.vok = server.vok
      /\ server' \in [at : ServerPlaces, vok : BOOLEAN]
  BY <1>1 DEF SessionInv, ReportOK, ServerPlaces
<1>4. session.n_ot = session.server_m * PerCircuit /\ session \in Sessions
  BY <1>1 DEF SessionInv, SocketOK
<1>5. SocketOK'
  <2> SUFFICES ASSUME client.at # "error"
               PROVE  SocketOK'
    BY <1>1, <1>3, <1>4 DEF SocketOK
  <2>1. Follows(session, key, Consumed, toClient) /\ Consumed + Len(toClient) = PingAt(session)
    BY <1>1 DEF SessionInv, SocketOK, Sent
  <2>2. Consumed' = Consumed /\ Consumed \in Nat
    BY <1>1, ServerFrame, ConsumedType
  <2>3. Follows(session, key, Consumed, toClient') /\ Consumed + Len(toClient') = Total(session)
    BY <1>2, <1>4, <2>1, <2>2, FollowsOnline
  <2>4. Sent' = Total(session)
    BY <1>1, <1>3 DEF Sent
  <2>5. QED
    BY <1>1, <1>3, <1>4, <2>2, <2>3, <2>4 DEF SocketOK
<1>6. ReportOK'
  BY <1>1, <1>3, ServerTakes DEF SessionInv, ReportOK
<1>7. QED
  BY <1>1, <1>5, <1>6, ServerFrame DEF SessionInv

LEMMA Step_Server_vok == SessionInv /\ Server_vok => SessionInv'
<1> SUFFICES ASSUME SessionInv, Server_vok PROVE SessionInv'
  OBVIOUS
<1>1. /\ server.at = "vok" /\ Expects(toServer, "vok") /\ toServer' = Tail(toServer)
      /\ server' = [at |-> "exit", vok |-> Head(toServer).data]
      /\ UNCHANGED <<session, key, client, xs, shares, got, verdict, ys, toClient>>
  BY DEF Server_vok
<1>2. client.at = "exit" /\ Head(toServer).data = verdict.stark_ok
  BY <1>1, ServerTakes
<1>3. /\ server'.at = "exit" /\ server'.vok = verdict.stark_ok
      /\ server' \in [at : ServerPlaces, vok : BOOLEAN]
  <2>1. verdict.stark_ok \in BOOLEAN
    BY DEF SessionInv, VerdictOK
  <2>2. QED
    BY <1>1, <1>2, <2>1 DEF ServerPlaces, Gone
<1>4. SocketOK'
  <2>1. Consumed' = Consumed
    BY <1>1, ServerFrame
  <2>2. Sent' = Sent
    BY <1>1, <1>3 DEF Sent
  <2>3. QED
    BY <1>1, <1>3, <2>1, <2>2 DEF SessionInv, SocketOK
<1>5. ReportOK'
  BY <1>1, <1>2, <1>3, ServerTakes DEF SessionInv, ReportOK
<1>6. QED
  BY <1>1, <1>4, <1>5, ServerFrame DEF SessionInv
-----------------------------------------------------------------------------
(* SessionInv is inductive.                                                *)
LEMMA StepInv == SessionInv /\ [Next]_vars => SessionInv'
<1> SUFFICES ASSUME SessionInv, [Next]_vars PROVE SessionInv'
  OBVIOUS
<1>1. CASE UNCHANGED vars
  <2>1. UNCHANGED <<session, key, server, client, xs, shares, got, verdict, ys, toClient, toServer>>
    BY <1>1 DEF vars
  <2>2. Sent' = Sent
    BY <2>1 DEF Sent
  <2>3. SocketOK' /\ ReportOK'
    BY <2>1, <2>2, ServerFrame DEF SessionInv, SocketOK, ReportOK
  <2>4. QED
    BY <2>1, <2>3, ServerFrame DEF SessionInv
<1>2. CASE Server_base_ot \/ Server_offline \/ Server_pong \/ Server_online \/ Server_vok
  BY <1>2, Step_Server_base_ot, Step_Server_offline, Step_Server_pong, Step_Server_online,
     Step_Server_vok
<1>3. CASE Client_base_ot \/ Client_cm \/ Client_meta \/ Client_tables \/ Client_encode
  BY <1>3, Step_Client_base_ot, Step_Client_cm, Step_Client_meta, Step_Client_tables,
     Step_Client_encode
<1>4. CASE Client_ot \/ Client_masks \/ Client_key_labels \/ Client_proof \/ Client_verify
  BY <1>4, Step_Client_ot, Step_Client_masks, Step_Client_key_labels, Step_Client_proof,
     Step_Client_verify
<1>5. CASE Client_eval \/ Client_report \/ ServerThrows \/ ClientThrows
  BY <1>5, Step_Client_eval, Step_Client_report, Step_Throws
<1>6. QED
  BY <1>1, <1>2, <1>3, <1>4, <1>5 DEF Next

(* Whatever m, n and the place of the tables: what is under way on the     *)
(* socket is what the client expects next, and what it has received is     *)
(* what the server sent for the circuit it takes it for.                   *)
THEOREM SessionInvariant == Spec => []SessionInv
<1>1. QED
  BY InitInv, StepInv, PTL DEF Spec

(* The server prints `check: pass' only when the client has F_k at each of *)
(* its inputs, for as many circuits as the server garbled.                 *)
THEOREM VerdictIsSound == Spec => []VerdictSound
<1>1. SessionInv => VerdictSound
  <2> SUFFICES ASSUME SessionInv, server.vok
               PROVE  /\ session.client_m = session.server_m
                      /\ ys = [i \in 1 .. session.client_m |-> F_k(key, xs[i])]
    BY DEF VerdictSound
  <2>1. client.at = "exit" /\ verdict.stark_ok
    BY DEF SessionInv, ReportOK
  <2>2. session.client_m = session.server_m
    BY <2>1 DEF SessionInv, GotOK, PastMeta, PastPing, PastMasks, PastLabels
  <2>3. /\ client.i = session.client_m
        /\ ys \in Seq({F_k(key, x) : x \in Xs}) /\ Len(ys) = client.i
        /\ \A n \in 1 .. client.i : ys[n] = F_k(key, xs[n])
    BY <2>1, <2>2 DEF SessionInv, VerdictOK
  <2>4. ys = [n \in 1 .. client.i |-> ys[n]]
    BY <2>3
  <2>5. QED
    BY <2>2, <2>3, <2>4
<1>2. QED
  BY <1>1, SessionInvariant, PTL

(* A session that runs to its end passes exactly when the verifier         *)
(* accepted: labels, masks, shares and tables are paired up right.         *)
THEOREM VerdictIsComplete == Spec => []VerdictComplete
<1>1. SessionInv => VerdictComplete
  BY DEF SessionInv, ReportOK, VerdictOK, VerdictComplete
<1>2. QED
  BY <1>1, SessionInvariant, PTL
=============================================================================
