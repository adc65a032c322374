-------------------------- MODULE PartyStartProofs --------------------------
(***************************************************************************)
(* Proofs about PartyStart, for any number of players and tape threads:    *)
(* the two ends of a connection belong together, and no thread asks for an *)
(* id that was asked for before.                                           *)
(*                                                                         *)
(* The argument: an id names a base and a player, and a base one thread of *)
(* a process, so that only this thread asks for its connections, for one   *)
(* after the other; and it never comes back to a base, because the master  *)
(* makes its players in the order of the tape threads, and each of these   *)
(* is started once.                                                        *)
(***************************************************************************)
EXTENDS PartyStart, TLAPS

(* Owns(t, b): the players with base b are made by thread t.               *)
Owns(t, b) ==
    IF t = 0 THEN b = "main" \/ \E u \in TapeThreads : b = two_party_id(u)
    ELSE b = thread_id(t)

Serving == {"server", "wait", "woken"}
Busy == {"client"} \cup Serving

(* Nobody has asked server socket s for a connection of base b from player *)
(* j on.                                                                   *)
Fresh(us, b, j) == \A k \in Players : k >= j => client_id(b, k) \notin us

(* While a thread sets up connections it asks for those of its own base,   *)
(* first to last.                                                          *)
ThreadOK(p, t, m, us) ==
    /\ m.pc # "threw"
    /\ m.base \in Bases
    /\ m.pc \in Busy => Owns(t, m.base)
    /\ m.pc = "client" => m.i \in p .. N - 1 /\ Fresh(us, m.base, 0)
    /\ m.pc \in Serving => m.i \in 0 .. p /\ Fresh(us, m.base, m.i)

(* Ahead(m, u): a master at m has not constructed tape thread u yet.       *)
Ahead(m, u) ==
    \/ m.pc \in {"off", "names", "addresses"}
    \/ m.pc \in Busy /\ m.base = "main"
    \/ m.pc \in Busy /\ \E v \in TapeThreads : m.base = two_party_id(v) /\ v < u
    \/ m.pc = "construct" /\ m.i <= u
    \/ m.pc \in {"derive", "ot"} /\ m.i < u

MasterOK(m, us) ==
    /\ m.pc \in {"construct", "derive", "ot"} => m.i \in Int
    /\ m.pc \in {"derive", "ot"} => m.i \in TapeThreads
    /\ m.pc \in {"off", "names", "addresses"} => Fresh(us, "main", 0)
    /\ \A u \in TapeThreads :
         Ahead(m, u) \/ (m.pc = "derive" /\ m.i = u) => Fresh(us, two_party_id(u), 0)

(* The threads of a process.                                               *)
ProcessOK(p, row, us) ==
    /\ row \in [Threads -> [pc : Places, base : Bases, i : Int]]
    /\ \A t \in Threads : ThreadOK(p, t, row[t], us)
    /\ MasterOK(row[0], us)
    /\ \A u \in TapeThreads :
         /\ Ahead(row[0], u) => row[u].pc = "none"
         /\ row[u].pc = "none" => Fresh(us, thread_id(u), 0)

(* Who opens a connection is its base's owner, or the main thread for the  *)
(* coordinator.                                                            *)
ConnectionOK(c) == c \in Connections /\ (c.base # no_base => Owns(c.by, c.base))

ClientsOK(s) ==
    \A id \in DOMAIN clients[s] :
        LET c == clients[s][id] IN
        ConnectionOK(c) /\ c.to = s /\ id = client_id(c.base, c.from)

(* What a socket is connected to, by its key.                              *)
SocketOK(p, b, q) ==
    <<b, q>> \in DOMAIN sock[p] =>
        \E t \in Threads :
            /\ Owns(t, b)
            /\ sock[p][<<b, q>>] = IF p <= q THEN Connection(p, t, server_of(q), b)
                               ELSE Connection(q, t, server_of(p), b)

Shapes ==
    /\ conf \in Confs
    /\ srv \in [pc : {"none", "check", "wait", "woken", "names", "end"}, i : Players]
    /\ DOMAIN th = Players
    /\ DOMAIN sock = Players
    /\ DOMAIN clients = Servers
    /\ DOMAIN used = Servers

ConnectionsOK ==
    /\ \A c \in jobs : ConnectionOK(c)
    /\ \A s \in Servers : ClientsOK(s)
    /\ \A p, q \in Players, b \in Bases : SocketOK(p, b, q)

ProcessesOK == \A p \in Players : ProcessOK(p, th[p], used[server_of(p)])

IInv == Shapes /\ ConnectionsOK /\ ProcessesOK

(***************************************************************************)
(* Server sockets, bases and ids.                                          *)
(***************************************************************************)
(* The main thread is thread 0; player 0 runs the coordinator.             *)
LEMMA Indices == 0 \in Threads /\ 0 \in Players /\ TapeThreads = Threads \ {0} /\ Coordinator \in Servers
  BY PartyStartAssumption DEF Threads, Players, TapeThreads, Coordinator, Servers

(* Two players never share a server socket.                                *)
LEMMA ServerOf ==
  ASSUME conf \in Confs, NEW p \in Players
  PROVE  /\ server_of(p) \in Servers
         /\ \A q \in Players : server_of(p) = server_of(q) => p = q
  BY PartyStartAssumption DEF server_of, Players, Servers, Coordinator

(* The kinds of bases differ.                                              *)
LEMMA BaseTypes ==
  /\ no_base \in Bases /\ "main" \in Bases /\ no_base # "main"
  /\ \A t \in TapeThreads :
       /\ thread_id(t) \in Bases /\ thread_id(t) # no_base /\ thread_id(t) # "main"
       /\ two_party_id(t) \in Bases /\ two_party_id(t) # no_base /\ two_party_id(t) # "main"
  <1>1. "" # "main"
    OBVIOUS
  <1>2. no_base # "main"
    BY <1>1 DEF no_base
  <1>3. \A t \in TapeThreads :
       /\ thread_id(t) # no_base /\ thread_id(t) # "main"
       /\ two_party_id(t) # no_base /\ two_party_id(t) # "main"
    BY IdsAssumption
  <1> QED BY <1>2, <1>3 DEF Bases

(* A base names the one thread that makes its players.                     *)
LEMMA Owner ==
  ASSUME NEW t \in Threads, NEW b, Owns(t, b)
  PROVE  /\ b \in Bases
         /\ b # no_base
         /\ \A u \in Threads : Owns(u, b) => u = t
  <1>1. b \in Bases /\ b # no_base
    BY BaseTypes, Indices DEF Owns
  <1>2. ASSUME NEW u \in Threads, Owns(u, b)
        PROVE  u = t
    <2>1. CASE t = 0 /\ u # 0
      BY <2>1, <1>2, BaseTypes, IdsAssumption, Indices DEF Owns
    <2>2. CASE t # 0 /\ u = 0
      BY <2>2, <1>2, BaseTypes, IdsAssumption, Indices DEF Owns
    <2>3. CASE t # 0 /\ u # 0
      <3>1. t \in TapeThreads /\ u \in TapeThreads /\ thread_id(t) = thread_id(u)
        BY <2>3, <1>2, Indices DEF Owns
      <3> QED BY <3>1, IdsAssumption
    <2> QED BY <2>1, <2>2, <2>3
  <1> QED BY <1>1, <1>2

(* Asking for an id leaves fresh what has another base or a later player.  *)
LEMMA FreshAfter ==
  ASSUME NEW us, NEW b \in Bases, NEW j \in Int, Fresh(us, b, j),
         NEW c \in Bases, NEW i \in Players, b # c \/ i < j
  PROVE  Fresh(us \cup {client_id(c, i)}, b, j)
  <1> SUFFICES ASSUME NEW k \in Players, k >= j, client_id(b, k) \in us \cup {client_id(c, i)}
               PROVE  FALSE
    BY DEF Fresh
  <1>1. client_id(b, k) = client_id(c, i)
    BY DEF Fresh
  <1>2. b = c /\ k = i
    BY <1>1, IdsAssumption
  <1> QED BY <1>2 DEF Players
-----------------------------------------------------------------------------
(***************************************************************************)
(* The threads of one process.                                             *)
(***************************************************************************)
Row == [Threads -> [pc : Places, base : Bases, i : Int]]

(* A thread goes on without asking for a connection.                       *)
LEMMA ThreadMoves ==
  ASSUME NEW p \in Players, NEW row, NEW us, ProcessOK(p, row, us),
         NEW t \in Threads, NEW m \in [pc : Places, base : Bases, i : Int],
         ThreadOK(p, t, m, us),
         t = 0 => MasterOK(m, us) /\ \A u \in TapeThreads : Ahead(m, u) => Ahead(row[0], u),
         t # 0 => m.pc # "none" /\ ~Ahead(row[0], t)
  PROVE  ProcessOK(p, [row EXCEPT ![t] = m], us)
  <1> DEFINE r == [row EXCEPT ![t] = m]
  <1>1. /\ row \in Row
        /\ \A x \in Threads : ThreadOK(p, x, row[x], us)
        /\ MasterOK(row[0], us)
        /\ \A u \in TapeThreads : /\ Ahead(row[0], u) => row[u].pc = "none"
                                  /\ row[u].pc = "none" => Fresh(us, thread_id(u), 0)
    BY DEF ProcessOK, Row
  <1>2. r \in Row /\ r[t] = m /\ \A x \in Threads : x # t => r[x] = row[x]
    BY <1>1 DEF Row
  <1> HIDE DEF r
  <1>3. \A x \in Threads : ThreadOK(p, x, r[x], us)
    BY <1>1, <1>2
  <1>4. MasterOK(r[0], us)
    BY <1>1, <1>2, Indices
  <1>5. ASSUME NEW u \in TapeThreads
        PROVE  /\ Ahead(r[0], u) => r[u].pc = "none"
               /\ r[u].pc = "none" => Fresh(us, thread_id(u), 0)
    <2>1. CASE t = 0
      BY <2>1, <1>1, <1>2, Indices
    <2>2. CASE t # 0
      <3>1. r[0] = row[0] /\ (r[u] = row[u] \/ u = t)
        BY <2>2, <1>2, Indices
      <3> QED BY <3>1, <2>2, <1>1, <1>2
    <2> QED BY <2>1, <2>2
  <1> QED BY <1>2, <1>3, <1>4, <1>5 DEF ProcessOK, Row, r

(* Threads that wait are woken.                                            *)
LEMMA ThreadsWake ==
  ASSUME NEW p \in Players, NEW row, NEW us, ProcessOK(p, row, us),
         NEW r \in Row,
         \A t \in Threads : /\ r[t].base = row[t].base /\ r[t].i = row[t].i
                            /\ r[t].pc = row[t].pc \/ (row[t].pc \in Serving /\ r[t].pc \in Serving)
  PROVE  ProcessOK(p, r, us)
  <1>1. \A t \in Threads : ThreadOK(p, t, r[t], us)
    <2> TAKE t \in Threads
    <2>1. ThreadOK(p, t, row[t], us)
      BY DEF ProcessOK
    <2> QED BY <2>1 DEF ThreadOK, Serving, Busy
  <1>2. \A u \in TapeThreads : Ahead(r[0], u) => Ahead(row[0], u)
    BY Indices DEF Ahead, Serving, Busy
  <1>3. MasterOK(r[0], us)
    <2>1. MasterOK(row[0], us)
      BY DEF ProcessOK
    <2> QED BY <2>1, <1>2, Indices DEF MasterOK, Serving
  <1>4. ASSUME NEW u \in TapeThreads
        PROVE  /\ Ahead(r[0], u) => r[u].pc = "none"
               /\ r[u].pc = "none" => Fresh(us, thread_id(u), 0)
    BY <1>2, Indices DEF ProcessOK, Serving
  <1> QED BY <1>1, <1>3, <1>4 DEF ProcessOK, Row

(* A process that has failed asks for nothing.                             *)
LEMMA ProcessFails ==
  ASSUME NEW p \in Players, NEW us
  PROVE  ProcessOK(p, [t \in Threads |-> At("failed", no_base, 0)], us)
  <1> DEFINE m == At("failed", no_base, 0)
             r == [t \in Threads |-> m]
  <1>1. m \in [pc : Places, base : Bases, i : Int] /\ m.pc = "failed" /\ m.base = no_base
    BY BaseTypes DEF At, Places
  <1> HIDE DEF m
  <1>2. r \in Row /\ \A t \in Threads : r[t] = m
    BY <1>1 DEF Row
  <1> HIDE DEF r
  <1>3. \A t \in Threads : ThreadOK(p, t, m, us)
    BY <1>1, BaseTypes DEF ThreadOK, Serving, Busy
  <1>4. \A u \in TapeThreads : ~Ahead(m, u)
    BY <1>1 DEF Ahead, Busy, Serving
  <1>5. MasterOK(m, us)
    BY <1>1, <1>4 DEF MasterOK
  <1> QED BY <1>1, <1>2, <1>3, <1>4, <1>5, Indices DEF ProcessOK, Row, r, m

(* The coordinator asks for an id with an empty base.                      *)
LEMMA CoordinatorAsks ==
  ASSUME NEW p \in Players, NEW row, NEW us, ProcessOK(p, row, us), NEW i \in Players
  PROVE  ProcessOK(p, row, us \cup {client_id(no_base, i)})
  <1> DEFINE new == us \cup {client_id(no_base, i)}
  <1>0. \A b \in Bases, j \in Int : b # no_base /\ Fresh(us, b, j) => Fresh(new, b, j)
    BY FreshAfter, BaseTypes
  <1>1. row \in Row
    BY DEF ProcessOK, Row
  <1> HIDE DEF new
  <1>2. \A t \in Threads : ThreadOK(p, t, row[t], new)
    <2> TAKE t \in Threads
    <2>1. ThreadOK(p, t, row[t], us) /\ row[t].i \in Int
      BY <1>1 DEF ProcessOK, Row
    <2>2. row[t].pc \in Busy => row[t].base \in Bases /\ row[t].base # no_base
      BY <2>1, Owner DEF ThreadOK
    <2> QED BY <1>0, <2>1, <2>2 DEF ThreadOK, Busy
  <1>3. MasterOK(row[0], new)
    <2>1. MasterOK(row[0], us)
      BY DEF ProcessOK
    <2> QED BY <1>0, <2>1, BaseTypes DEF MasterOK
  <1>4. \A u \in TapeThreads : Fresh(us, thread_id(u), 0) => Fresh(new, thread_id(u), 0)
    BY <1>0, BaseTypes
  <1> QED BY <1>1, <1>2, <1>3, <1>4 DEF ProcessOK, Row, new

(* The CHOOSE of Opened finds the tape thread whose player was connected.  *)
LEMMA OpenedIs ==
  ASSUME NEW p, NEW t \in Threads, NEW b, Owns(t, b)
  PROVE  /\ Opened(p, t, b) \in [pc : Places, base : Bases, i : Int]
         /\ t # 0 => Opened(p, t, b).pc = "pre_run"
         /\ t = 0 /\ b = "main" => Opened(p, t, b).pc = "construct" /\ Opened(p, t, b).i = 1
         /\ \A v \in TapeThreads :
              t = 0 /\ b = two_party_id(v) => Opened(p, t, b).pc = "ot" /\ Opened(p, t, b).i = v
  <1>1. b \in Bases
    BY Owner
  <1>2. CASE t # 0
    <2>1. Opened(p, t, b) = At("pre_run", b, 0)
      BY <1>2 DEF Opened, Threads
    <2> QED BY <1>1, <1>2, <2>1 DEF At, Places
  <1>3. CASE t = 0 /\ b = "main"
    <2>1. Opened(p, t, b) = At("construct", b, 1)
      BY <1>3 DEF Opened
    <2> QED BY <1>1, <1>3, <2>1, BaseTypes DEF At, Places
  <1>4. CASE t = 0 /\ b # "main"
    <2>1. PICK v \in TapeThreads : b = two_party_id(v)
      BY <1>4 DEF Owns
    <2>2. (CHOOSE u \in TapeThreads : two_party_id(u) = b) = v
      BY <2>1, IdsAssumption
    <2>3. Opened(p, t, b) = At("ot", b, v)
      <3>1. Opened(p, t, b) = At("ot", b, CHOOSE u \in TapeThreads : two_party_id(u) = b)
        BY <1>4 DEF Opened
      <3> QED BY <3>1, <2>2, Zenon
    <2>4. v \in Int /\ \A u \in TapeThreads : b = two_party_id(u) => u = v
      BY <2>1, IdsAssumption DEF TapeThreads
    <2> QED BY <1>1, <1>4, <2>3, <2>4 DEF At, Places
  <1> QED BY <1>2, <1>3, <1>4

(* A thread gets a connection.                                             *)
LEMMA ThreadGets ==
  ASSUME NEW p \in Players, NEW row, NEW us, ProcessOK(p, row, us),
         NEW t \in Threads, row[t].pc \in Serving
  PROVE  LET me == row[t]
             m == IF me.i < p THEN At("server", me.base, me.i + 1) ELSE Opened(p, t, me.base)
         IN  ProcessOK(p, [row EXCEPT ![t] = m], us \cup {client_id(me.base, me.i)})
  <1> DEFINE me == row[t]
             m == IF me.i < p THEN At("server", me.base, me.i + 1) ELSE Opened(p, t, me.base)
             r == [row EXCEPT ![t] = m]
             new == us \cup {client_id(me.base, me.i)}
  <1>1. /\ row \in Row
        /\ \A x \in Threads : ThreadOK(p, x, row[x], us)
        /\ MasterOK(row[0], us)
        /\ \A u \in TapeThreads : /\ Ahead(row[0], u) => row[u].pc = "none"
                                  /\ row[u].pc = "none" => Fresh(us, thread_id(u), 0)
    BY DEF ProcessOK, Row
  <1>2. Owns(t, me.base) /\ me.i \in 0 .. p /\ Fresh(us, me.base, me.i) /\ me.pc \in Serving
    BY <1>1 DEF ThreadOK, Busy
  <1>3. me.i \in Players /\ me.base \in Bases
    BY <1>2, Owner, PartyStartAssumption DEF Players
  <1>4. ASSUME NEW b \in Bases, NEW j \in Int, Fresh(us, b, j), b # me.base \/ me.i < j
        PROVE  Fresh(new, b, j)
    BY <1>3, <1>4, FreshAfter
  <1>5. \/ m.pc = "server" /\ m.base = me.base /\ m.i = me.i + 1 /\ me.i < p
        \/ t # 0 /\ m.pc = "pre_run"
        \/ t = 0 /\ me.base = "main" /\ m.pc = "construct"
        \/ t = 0 /\ \E v \in TapeThreads : me.base = two_party_id(v) /\ m.pc = "ot" /\ m.i = v
    <2>1. CASE me.i < p
      BY <2>1 DEF At
    <2>2. CASE ~(me.i < p)
      <3>1. m = Opened(p, t, me.base)
        BY <2>2
      <3> HIDE DEF m, me
      <3>2. CASE t # 0
        BY <3>1, <3>2, <1>2, OpenedIs
      <3>3. CASE t = 0 /\ me.base = "main"
        BY <3>1, <3>3, <1>2, OpenedIs
      <3>4. CASE t = 0 /\ me.base # "main"
        <4>1. PICK v \in TapeThreads : me.base = two_party_id(v)
          BY <3>4, <1>2 DEF Owns
        <4>2. m.pc = "ot" /\ m.i = v
          BY <3>1, <3>4, <4>1, <1>2, OpenedIs
        <4> QED BY <3>4, <4>1, <4>2
      <3> QED BY <3>2, <3>3, <3>4
    <2> QED BY <2>1, <2>2
  <1>6. m \in [pc : Places, base : Bases, i : Int]
    <2>1. CASE me.i < p
      <3>1. m = [pc |-> "server", base |-> me.base, i |-> me.i + 1]
        BY <2>1 DEF At
      <3> HIDE DEF m, me
      <3> QED BY <3>1, <1>2, <1>3 DEF Places
    <2>2. CASE ~(me.i < p)
      <3>1. m = Opened(p, t, me.base)
        BY <2>2
      <3> HIDE DEF m, me
      <3> QED BY <3>1, <1>2, OpenedIs
    <2> QED BY <2>1, <2>2
  <1> HIDE DEF m, new
  <1>7. r \in Row /\ r[t] = m /\ \A x \in Threads : x # t => r[x] = row[x]
    BY <1>1, <1>6 DEF Row
  <1> HIDE DEF r, me
  <1>8. me = row[t]
    BY DEF me
  <1>9. \A x \in Threads : ThreadOK(p, x, r[x], new)
    <2> TAKE x \in Threads
    <2>1. CASE x # t
      <3>1. ThreadOK(p, x, row[x], us) /\ r[x] = row[x] /\ row[x].i \in Int /\ row[x].base \in Bases
        BY <1>1, <1>7, <2>1 DEF Row
      <3>2. row[x].pc \in Busy => row[x].base # me.base
        BY <3>1, <2>1, <1>2, Owner DEF ThreadOK
      <3> QED BY <3>1, <3>2, <1>4 DEF ThreadOK, Busy
    <2>2. CASE x = t
      <3>1. Fresh(us, me.base, me.i + 1)
        BY <1>2, <1>3 DEF Fresh, Players
      <3>2. Fresh(new, me.base, me.i + 1)
        BY <3>1, <1>2, <1>3, <1>4
      <3>3. m.base \in Bases
        BY <1>6
      <3>4. CASE m.pc = "server" /\ m.base = me.base /\ m.i = me.i + 1 /\ me.i < p
        <4>1. m.i \in 0 .. p /\ Owns(t, m.base) /\ Fresh(new, m.base, m.i)
          BY <3>4, <3>2, <1>2 DEF Players
        <4> QED BY <4>1, <3>3, <3>4, <2>2, <1>7 DEF ThreadOK, Serving, Busy
      <3>5. CASE m.pc \in {"pre_run", "construct", "ot"}
        BY <3>3, <3>5, <2>2, <1>7 DEF ThreadOK, Serving, Busy
      <3> QED BY <3>4, <3>5, <1>5
    <2> QED BY <2>1, <2>2
  <1>10. \A u \in TapeThreads :
           Ahead(r[0], u) => Ahead(row[0], u) /\ two_party_id(u) # me.base
    <2> SUFFICES ASSUME NEW u \in TapeThreads, Ahead(r[0], u)
                 PROVE  Ahead(row[0], u) /\ two_party_id(u) # me.base
      OBVIOUS
    <2>0. u \in Int
      BY DEF TapeThreads
    <2>1. CASE t # 0
      BY <2>1, <1>2, <1>7, Indices, IdsAssumption DEF Owns
    <2>2. CASE t = 0
      <3>1. r[0] = m /\ row[0] = me
        BY <2>2, <1>7, <1>8
      <3>2. CASE me.base = "main"
        BY <3>1, <3>2, <1>2, BaseTypes DEF Ahead, Busy
      <3>3. CASE me.base # "main"
        <4>1. PICK v \in TapeThreads : me.base = two_party_id(v)
          BY <3>3, <2>2, <1>2 DEF Owns
        <4>2. \A w \in TapeThreads : me.base = two_party_id(w) => w = v
          BY <4>1, IdsAssumption
        <4>3. (m.pc = "server" /\ m.base = me.base) \/ (m.pc = "ot" /\ m.i = v)
          BY <1>5, <2>2, <3>3, <4>2
        <4>4. v < u
          BY <4>1, <4>2, <4>3, <3>1, <3>3 DEF Ahead, Busy, Serving
        <4>5. u # v
          BY <4>4, <2>0 DEF TapeThreads
        <4> QED BY <3>1, <4>1, <4>2, <4>4, <4>5, <1>2 DEF Ahead, Busy
      <3> QED BY <3>2, <3>3
    <2> QED BY <2>1, <2>2
  <1>11. MasterOK(r[0], new)
    <2>1. ASSUME NEW u \in TapeThreads, Fresh(us, two_party_id(u), 0), two_party_id(u) # me.base
          PROVE  Fresh(new, two_party_id(u), 0)
      BY <2>1, <1>4, BaseTypes
    <2>2. CASE t # 0
      <3>1. r[0] = row[0]
        BY <2>2, <1>7, Indices
      <3>2. me.base # "main" /\ \A u \in TapeThreads : two_party_id(u) # me.base
        BY <2>2, <1>2, Indices, IdsAssumption, BaseTypes DEF Owns
      <3>3. Fresh(us, "main", 0) => Fresh(new, "main", 0)
        BY <3>2, <1>4, BaseTypes
      <3> QED BY <3>1, <3>2, <3>3, <2>1, <1>1 DEF MasterOK
    <2>3. CASE t = 0
      <3>1. r[0] = m /\ row[0] = me
        BY <2>3, <1>7, <1>8
      <3>2. m.i \in Int /\ m.pc \notin {"off", "names", "addresses", "derive"}
            /\ (m.pc = "ot" => m.i \in TapeThreads)
        BY <1>5, <1>6
      <3>3. \A u \in TapeThreads : Ahead(m, u) => Fresh(new, two_party_id(u), 0)
        BY <2>1, <1>1, <1>10, <3>1 DEF MasterOK
      <3> QED BY <3>1, <3>2, <3>3 DEF MasterOK
    <2> QED BY <2>2, <2>3
  <1>12. ASSUME NEW u \in TapeThreads
         PROVE  /\ Ahead(r[0], u) => r[u].pc = "none"
                /\ r[u].pc = "none" => Fresh(new, thread_id(u), 0)
    <2>1. row[u].pc = "none" => u # t
      BY <1>2, <1>8 DEF Serving
    <2>2. r[u].pc = "none" => row[u].pc = "none"
      BY <1>5, <1>7, Indices
    <2>3. Ahead(r[0], u) => r[u].pc = "none"
      BY <2>1, <1>1, <1>7, <1>10, Indices
    <2>4. u # t => thread_id(u) # me.base
      BY <1>2, Indices, IdsAssumption, BaseTypes DEF Owns
    <2>5. Fresh(us, thread_id(u), 0) /\ u # t => Fresh(new, thread_id(u), 0)
      BY <2>4, <1>4, BaseTypes
    <2> QED BY <2>1, <2>2, <2>3, <2>5, <1>1
  <1>13. ProcessOK(p, r, new)
    BY <1>7, <1>9, <1>11, <1>12 DEF ProcessOK, Row
  <1> QED BY <1>13 DEF r, new, m, me
-----------------------------------------------------------------------------
(***************************************************************************)
(* All processes, and the connections.                                     *)
(***************************************************************************)
(* A step of one process leaves the others as they are.                    *)
LEMMA OneProcess ==
  ASSUME ProcessesOK, NEW p \in Players, conf' = conf,
         \A q \in Players : q # p => th'[q] = th[q] /\ used'[server_of(q)] = used[server_of(q)],
         ProcessOK(p, th'[p], used'[server_of(p)])
  PROVE  ProcessesOK'
  <1>1. \A q \in Players : server_of(q)' = server_of(q)
    BY DEF server_of
  <1>2. ASSUME NEW q \in Players
        PROVE  ProcessOK(q, th'[q], used'[server_of(q)'])
    <2>1. CASE q = p
      BY <2>1, <1>1
    <2>2. CASE q # p
      BY <2>2, <1>1 DEF ProcessesOK
    <2> QED BY <2>1, <2>2
  <1> QED BY <1>2 DEF ProcessesOK

(* One thread goes on without asking for a connection.                     *)
LEMMA OneThread ==
  ASSUME Shapes, ProcessesOK, NEW p \in Players, NEW t \in Threads, NEW m, Go(p, t, m),
         conf' = conf, used' = used,
         m \in [pc : Places, base : Bases, i : Int],
         ThreadOK(p, t, m, used[server_of(p)]),
         t = 0 => /\ MasterOK(m, used[server_of(p)])
                  /\ \A u \in TapeThreads : Ahead(m, u) => Ahead(th[p][0], u),
         t # 0 => m.pc # "none" /\ th[p][t].pc # "none"
  PROVE  ProcessesOK' /\ DOMAIN th' = Players
  <1> DEFINE us == used[server_of(p)]
  <1>1. ProcessOK(p, th[p], us)
    BY DEF ProcessesOK
  <1>2. t # 0 => ~Ahead(th[p][0], t)
    BY <1>1, Indices DEF ProcessOK
  <1>3. ProcessOK(p, [th[p] EXCEPT ![t] = m], us)
    <2> HIDE DEF us
    <2> QED BY <1>1, <1>2, ThreadMoves DEF us
  <1>4. th' = [th EXCEPT ![p] = [th[p] EXCEPT ![t] = m]]
    BY DEF Go
  <1>5. DOMAIN th' = Players /\ th'[p] = [th[p] EXCEPT ![t] = m] /\ \A q \in Players : q # p => th'[q] = th[q]
    BY <1>4 DEF Shapes
  <1>6. ProcessOK(p, th'[p], used'[server_of(p)])
    BY <1>3, <1>5
  <1> QED BY <1>5, <1>6, OneProcess

(* A process fails.                                                        *)
LEMMA Fails ==
  ASSUME Shapes, ProcessesOK, NEW p \in Players, Fail(p, "failed")
  PROVE  ProcessesOK' /\ DOMAIN th' = Players
  <1>1. /\ DOMAIN th' = Players
        /\ th'[p] = [t \in Threads |-> At("failed", no_base, 0)]
        /\ \A q \in Players : q # p => th'[q] = th[q]
    BY DEF Shapes, Fail
  <1>2. ProcessOK(p, th'[p], used'[server_of(p)])
    BY <1>1, ProcessFails
  <1>3. conf' = conf /\ used' = used
    BY DEF Fail
  <1> QED BY <1>1, <1>2, <1>3, OneProcess

(* Steps that leave all connections alone.                                 *)
LEMMA SameConnections ==
  ASSUME ConnectionsOK, UNCHANGED <<conf, jobs, clients, sock>>
  PROVE  ConnectionsOK'
  <1>1. \A s \in Servers : ClientsOK(s)'
    BY DEF ConnectionsOK, ClientsOK
  <1>2. \A p, q \in Players, b \in Bases : SocketOK(p, b, q)'
    BY DEF ConnectionsOK, SocketOK, server_of
  <1> QED BY <1>1, <1>2 DEF ConnectionsOK
-----------------------------------------------------------------------------
(***************************************************************************)
(* The actions.                                                            *)
(***************************************************************************)
(* The invariant holds at first.                                           *)
LEMMA InitOK == Init => IInv
  <1> SUFFICES ASSUME Init PROVE IInv
    OBVIOUS
  <1>1. Shapes
    BY Indices DEF Init, Shapes
  <1>2. ConnectionsOK
    <2>1. \A s \in Servers : ClientsOK(s)
      BY DEF Init, ClientsOK
    <2>2. \A p, q \in Players, b \in Bases : SocketOK(p, b, q)
      BY DEF Init, SocketOK
    <2> QED BY <2>1, <2>2 DEF Init, ConnectionsOK
  <1>3. ASSUME NEW p \in Players
        PROVE  ProcessOK(p, th[p], used[server_of(p)])
    <2> DEFINE us == used[server_of(p)]
    <2>1. us = {}
      BY <1>1, ServerOf DEF Init, Shapes
    <2>2. \A b, j : Fresh(us, b, j)
      BY <2>1 DEF Fresh
    <2> HIDE DEF us
    <2>3. th[p] = [t \in Threads |-> At(IF t = 0 THEN "off" ELSE "none", no_base, 0)]
      BY DEF Init
    <2>4. /\ th[p][0].pc = "off"
          /\ \A t \in Threads : th[p][t].base = no_base /\ th[p][t].pc \in {"off", "none"}
      BY <2>3, Indices DEF At
    <2>5. \A t \in TapeThreads : th[p][t].pc = "none"
      BY <2>3, Indices DEF At
    <2>6. th[p] \in Row
      BY <2>3, BaseTypes DEF At, Row, Places
    <2>7. \A t \in Threads : ThreadOK(p, t, th[p][t], us)
      BY <2>4, BaseTypes DEF ThreadOK, Busy, Serving
    <2>8. MasterOK(th[p][0], us)
      BY <2>2, <2>4, Indices DEF MasterOK
    <2> QED BY <2>2, <2>6, <2>7, <2>8, <2>5 DEF ProcessOK, Row, us
  <1> QED BY <1>1, <1>2, <1>3 DEF IInv, ProcessesOK

(* What the invariant says of a thread.                                    *)
LEMMA ThreadHas ==
  ASSUME IInv, NEW p \in Players, NEW t \in Threads
  PROVE  /\ ProcessOK(p, th[p], used[server_of(p)])
         /\ th[p] \in Row
         /\ th[p][t] \in [pc : Places, base : Bases, i : Int]
         /\ ThreadOK(p, t, th[p][t], used[server_of(p)])
         /\ MasterOK(th[p][0], used[server_of(p)])
  <1>1. ProcessOK(p, th[p], used[server_of(p)])
    BY DEF IInv, ProcessesOK
  <1> QED BY <1>1 DEF ProcessOK, Row

(* The main thread goes to a place where it sets up no connections.        *)
LEMMA MasterGoes ==
  ASSUME IInv, NEW p \in Players, NEW pc \in Places, NEW i \in Int, Go(p, 0, At(pc, no_base, i)),
         UNCHANGED <<conf, used>>,
         pc \notin {"threw", "derive", "ot"} \cup Busy,
         \A u \in TapeThreads : Ahead(At(pc, no_base, i), u) => Ahead(th[p][0], u),
         pc \in {"off", "names", "addresses"} => th[p][0].pc \in {"off", "names", "addresses"}
  PROVE  ProcessesOK' /\ DOMAIN th' = Players
  <1> DEFINE m == At(pc, no_base, i)
  <1>1. m.pc = pc /\ m.base = no_base /\ m.i = i /\ m \in [pc : Places, base : Bases, i : Int]
    BY BaseTypes DEF At
  <1> HIDE DEF m
  <1>2. ThreadOK(p, 0, m, used[server_of(p)])
    BY <1>1, BaseTypes DEF ThreadOK, Busy, Serving
  <1>3. MasterOK(th[p][0], used[server_of(p)])
    BY ThreadHas, Indices
  <1>4. \A u \in TapeThreads : Ahead(m, u) => Ahead(th[p][0], u)
    BY DEF m
  <1>5. MasterOK(m, used[server_of(p)])
    BY <1>1, <1>3, <1>4 DEF MasterOK
  <1>6. Go(p, 0, m)
    BY DEF m
  <1> QED BY <1>1, <1>2, <1>4, <1>5, <1>6, Indices, OneThread DEF IInv

(* One lemma per action: each preserves the invariant.                     *)
LEMMA BeginOK ==
  ASSUME IInv, NEW p \in Players, Begin(p)
  PROVE  IInv'
  <1>1. ProcessesOK' /\ DOMAIN th' = Players
    BY MasterGoes DEF Begin, Ahead, At, Places, Busy, Serving
  <1>2. ConnectionsOK'
    BY SameConnections DEF IInv, Begin
  <1>3. Shapes'
    BY <1>1 DEF IInv, Shapes, Begin
  <1> QED BY <1>1, <1>2, <1>3 DEF IInv

LEMMA ConnectNamesOK ==
  ASSUME IInv, NEW p \in Players, ConnectNames(p)
  PROVE  IInv'
  <1>1. ProcessesOK' /\ DOMAIN th' = Players
    BY MasterGoes DEF ConnectNames, Ahead, At, Places, Busy, Serving
  <1>2. ConnectionsOK'
    <2>1. ConnectionOK(Connection(p, 0, Coordinator, no_base))
      BY Indices, BaseTypes DEF ConnectionOK, Connection, Connections
    <2>2. \A c \in jobs' : ConnectionOK(c)
      BY <2>1 DEF IInv, ConnectionsOK, ConnectNames
    <2>3. \A s \in Servers : ClientsOK(s)'
      BY DEF IInv, ConnectionsOK, ClientsOK, ConnectNames
    <2>4. \A q, x \in Players, b \in Bases : SocketOK(q, b, x)'
      BY DEF IInv, ConnectionsOK, SocketOK, ConnectNames, server_of
    <2> QED BY <2>2, <2>3, <2>4 DEF ConnectionsOK
  <1>3. Shapes'
    BY <1>1 DEF IInv, Shapes, ConnectNames
  <1> QED BY <1>1, <1>2, <1>3 DEF IInv

LEMMA CoordinateOK ==
  ASSUME IInv, Coordinate
  PROVE  IInv'
  <1>1. conf' = conf /\ th' = th
    BY DEF Coordinate, CoordinatorWaits, CoordinatorGets, send_names
  <1>2. ConnectionsOK'
    BY SameConnections DEF IInv, Coordinate, CoordinatorWaits, CoordinatorGets, send_names, network
  <1>3. srv.i + 1 < N => srv.i + 1 \in Players
    BY PartyStartAssumption DEF IInv, Shapes, Players
  <1>4. Shapes'
    BY <1>1, <1>3, Indices DEF IInv, Shapes, Coordinate, CoordinatorWaits, CoordinatorGets, send_names, network
  <1>5. ProcessesOK'
    <2>1. ASSUME NEW q \in Players
          PROVE  ProcessOK(q, th'[q], used'[server_of(q)])
      <3>1. ProcessOK(q, th[q], used[server_of(q)])
        BY DEF IInv, ProcessesOK
      <3>2. \/ used'[server_of(q)] = used[server_of(q)]
            \/ used'[server_of(q)] = used[server_of(q)] \cup {client_id(no_base, srv.i)}
        BY ServerOf, Indices DEF IInv, Shapes, Coordinate, CoordinatorWaits, CoordinatorGets, send_names
      <3>3. srv.i \in Players
        BY DEF IInv, Shapes
      <3> QED BY <1>1, <3>1, <3>2, <3>3, CoordinatorAsks
    <2>2. \A q \in Players : server_of(q)' = server_of(q)
      BY <1>1 DEF server_of
    <2> QED BY <2>1, <2>2 DEF ProcessesOK
  <1> QED BY <1>2, <1>4, <1>5 DEF IInv

LEMMA ReceiveNamesOK ==
  ASSUME IInv, NEW p \in Players, ReceiveNames(p)
  PROVE  IInv'
  <1> DEFINE m == At("client", "main", p)
             us == used[server_of(p)]
  <1>1. m.pc = "client" /\ m.base = "main" /\ m.i = p /\ m \in [pc : Places, base : Bases, i : Int]
    BY BaseTypes DEF At, Places, Players
  <1>2. /\ th[p][0].pc = "addresses" /\ Go(p, 0, m)
        /\ conf' = conf /\ srv' = srv /\ used' = used /\ jobs' = jobs /\ clients' = clients /\ sock' = sock
    BY DEF ReceiveNames
  <1> HIDE DEF m, us
  <1>3. MasterOK(th[p][0], us)
    BY ThreadHas, Indices DEF us
  <1>4. Fresh(us, "main", 0)
    BY <1>2, <1>3 DEF MasterOK
  <1>5. ThreadOK(p, 0, m, us)
    BY <1>1, <1>4, BaseTypes, PartyStartAssumption DEF ThreadOK, Busy, Serving, Owns, Players
  <1>6. \A u \in TapeThreads : Ahead(th[p][0], u)
    BY <1>2 DEF Ahead
  <1>7. MasterOK(m, us)
    BY <1>1, <1>3, <1>6 DEF MasterOK
  <1>8. ProcessesOK' /\ DOMAIN th' = Players
    BY <1>1, <1>2, <1>5, <1>6, <1>7, Indices, OneThread DEF IInv, us
  <1>9. ConnectionsOK'
    BY <1>2, SameConnections DEF IInv
  <1>10. Shapes'
    BY <1>2, <1>8 DEF IInv, Shapes
  <1> QED BY <1>8, <1>9, <1>10 DEF IInv

LEMMA ConnectOK ==
  ASSUME IInv, NEW p \in Players, NEW t \in Threads, Connect(p, t)
  PROVE  IInv'
  <1> DEFINE me == th[p][t]
             us == used[server_of(p)]
             c == Connection(p, t, server_of(me.i), me.base)
             m == IF me.i + 1 < N THEN At("client", me.base, me.i + 1) ELSE At("server", me.base, 0)
  <1>1. /\ me.pc = "client" /\ Go(p, t, m)
        /\ jobs' = jobs \cup {c}
        /\ sock' = [sock EXCEPT ![p] = Put(sock[p], <<me.base, me.i>>, c)]
        /\ conf' = conf /\ srv' = srv /\ used' = used /\ clients' = clients
    BY DEF Connect
  <1>2. ThreadOK(p, t, me, us) /\ me \in [pc : Places, base : Bases, i : Int]
    BY ThreadHas
  <1>3. me.i \in p .. N - 1 /\ me.base \in Bases /\ Owns(t, me.base) /\ Fresh(us, me.base, 0)
    BY <1>1, <1>2 DEF ThreadOK, Busy
  <1>4. me.i \in Players /\ p <= me.i
    BY <1>3, PartyStartAssumption DEF Players
  <1>5. /\ m \in [pc : Places, base : Bases, i : Int] /\ m.base = me.base
        /\ \/ m.pc = "client" /\ m.i \in p .. N - 1
           \/ m.pc = "server" /\ m.i = 0
    <2> HIDE DEF me
    <2>1. CASE me.i + 1 < N
      <3>1. m = [pc |-> "client", base |-> me.base, i |-> me.i + 1]
        BY <2>1 DEF At
      <3>2. me.i + 1 \in Int /\ me.i + 1 \in p .. N - 1
        BY <2>1, <1>3, PartyStartAssumption DEF Players
      <3> HIDE DEF m
      <3> QED BY <3>1, <3>2, <1>3 DEF Places
    <2>2. CASE ~(me.i + 1 < N)
      <3>1. m = [pc |-> "server", base |-> me.base, i |-> 0]
        BY <2>2 DEF At
      <3> HIDE DEF m
      <3> QED BY <3>1, <1>3 DEF Places
    <2> QED BY <2>1, <2>2
  <1>6. /\ conf \in Confs /\ DOMAIN th = Players /\ DOMAIN sock = Players
        /\ Shapes /\ ProcessesOK
    BY DEF IInv, Shapes
  <1> HIDE DEF m, c, us, me
  <1>7. ThreadOK(p, t, m, us)
    BY <1>3, <1>5 DEF ThreadOK, Busy, Serving, Players
  <1>8. t = 0 => /\ MasterOK(m, us)
                 /\ \A u \in TapeThreads : Ahead(m, u) => Ahead(th[p][0], u)
    <2> SUFFICES ASSUME t = 0
                 PROVE  /\ MasterOK(m, us)
                        /\ \A u \in TapeThreads : Ahead(m, u) => Ahead(th[p][0], u)
      OBVIOUS
    <2>1. th[p][0] = me /\ MasterOK(me, us)
      BY ThreadHas DEF me, us
    <2>2. \A u \in TapeThreads : Ahead(m, u) => Ahead(me, u)
      BY <1>1, <1>5 DEF Ahead, Busy, Serving
    <2> QED BY <2>1, <2>2, <1>5 DEF MasterOK
  <1>9. m.pc # "none" /\ th[p][t].pc # "none"
    BY <1>1, <1>5 DEF me
  <1>10. ProcessesOK' /\ DOMAIN th' = Players
    BY <1>1, <1>5, <1>6, <1>7, <1>8, <1>9, OneThread DEF us
  <1>11. ConnectionOK(c)
    BY <1>3, <1>4, <1>6, ServerOf DEF ConnectionOK, Connection, Connections, c
  <1>12. ConnectionsOK'
    <2>1. \A x \in jobs' : ConnectionOK(x)
      BY <1>1, <1>11 DEF IInv, ConnectionsOK
    <2>2. \A s \in Servers : ClientsOK(s)'
      BY <1>1 DEF IInv, ConnectionsOK, ClientsOK
    <2>3. ASSUME NEW x \in Players, NEW q \in Players, NEW b \in Bases
          PROVE  SocketOK(x, b, q)'
      <3>0. server_of(x)' = server_of(x) /\ server_of(q)' = server_of(q)
        BY <1>1 DEF server_of
      <3>1. SocketOK(x, b, q)
        BY DEF IInv, ConnectionsOK
      <3>2. CASE x = p /\ b = me.base /\ q = me.i
        <4>1. sock'[p][<<b, q>>] = c
          BY <1>1, <1>6, <3>2 DEF Put
        <4> QED BY <4>1, <3>0, <3>2, <1>3, <1>4 DEF SocketOK, c
      <3>3. CASE ~(x = p /\ b = me.base /\ q = me.i)
        <4>1. <<b, q>> \in DOMAIN sock'[x] => <<b, q>> \in DOMAIN sock[x] /\ sock'[x][<<b, q>>] = sock[x][<<b, q>>]
          <5>1. CASE x = p
            BY <5>1, <1>1, <1>6, <3>3 DEF Put
          <5>2. CASE x # p
            BY <5>2, <1>1, <1>6
          <5> QED BY <5>1, <5>2
        <4> QED BY <4>1, <3>0, <3>1 DEF SocketOK
      <3> QED BY <3>2, <3>3
    <2> QED BY <2>1, <2>2, <2>3 DEF ConnectionsOK
  <1>13. Shapes'
    BY <1>1, <1>10 DEF IInv, Shapes
  <1> QED BY <1>10, <1>12, <1>13 DEF IInv

LEMMA GetSocketOK ==
  ASSUME IInv, NEW p \in Players, NEW t \in Threads, GetSocket(p, t)
  PROVE  IInv'
  <1> DEFINE me == th[p][t]
             s == server_of(p)
             us == used[s]
             id == client_id(me.base, me.i)
             m == IF me.i < p THEN At("server", me.base, me.i + 1) ELSE Opened(p, t, me.base)
             c == clients[s][id]
  <1>1. /\ me.pc \in {"server", "woken"} /\ Go(p, t, m) /\ id \in DOMAIN clients[s]
        /\ sock' = [sock EXCEPT ![p] = Put(sock[p], <<me.base, me.i>>, c)]
        /\ used' = [used EXCEPT ![s] = us \cup {id}]
        /\ conf' = conf /\ srv' = srv /\ jobs' = jobs /\ clients' = clients
    BY DEF GetSocket, Found, network
  <1>2. ThreadOK(p, t, me, us) /\ ProcessOK(p, th[p], us)
    BY ThreadHas
  <1>3. me.i \in 0 .. p /\ me.base \in Bases /\ Owns(t, me.base)
    BY <1>1, <1>2 DEF ThreadOK, Busy, Serving
  <1>4. me.i \in Players /\ me.i <= p
    BY <1>3, PartyStartAssumption DEF Players
  <1>5. /\ conf \in Confs /\ DOMAIN th = Players /\ DOMAIN sock = Players /\ DOMAIN used = Servers
        /\ s \in Servers
    BY ServerOf DEF IInv, Shapes
  <1>6. ProcessOK(p, [th[p] EXCEPT ![t] = m], us \cup {id})
    BY <1>1, <1>2, ThreadGets DEF Serving
  <1> HIDE DEF m
  <1>7. /\ DOMAIN th' = Players
        /\ th'[p] = [th[p] EXCEPT ![t] = m]
        /\ \A q \in Players : q # p => th'[q] = th[q]
    <2>1. th' = [th EXCEPT ![p] = [th[p] EXCEPT ![t] = m]]
      BY <1>1 DEF Go
    <2> QED BY <2>1, <1>5
  <1> HIDE DEF id, us, me, c
  <1>8. used'[s] = us \cup {id} /\ \A q \in Players : q # p => used'[server_of(q)] = used[server_of(q)]
    BY <1>1, <1>5, ServerOf
  <1>9. ProcessesOK'
    <2>1. ProcessOK(p, th'[p], used'[server_of(p)])
      BY <1>6, <1>7, <1>8
    <2> HIDE DEF s
    <2> QED BY <2>1, <1>1, <1>7, <1>8, OneProcess DEF IInv
  <1>10. c = Connection(me.i, t, s, me.base)
    <2>1. ConnectionOK(c) /\ c.to = s /\ id = client_id(c.base, c.from)
      BY <1>1, <1>5 DEF IInv, ConnectionsOK, ClientsOK, c
    <2>2. c.from \in Players /\ c.base \in Bases /\ c.by \in Threads /\ c = [from |-> c.from, by |-> c.by, to |-> c.to, base |-> c.base]
      BY <2>1 DEF ConnectionOK, Connections
    <2>3. c.base = me.base /\ c.from = me.i
      BY <2>1, <2>2, <1>3, <1>4, IdsAssumption DEF id
    <2>4. Owns(c.by, c.base)
      BY <2>1, <2>3, <1>3, Owner DEF ConnectionOK
    <2>5. c.by = t
      BY <2>2, <2>3, <2>4, <1>3, Owner
    <2> QED BY <2>1, <2>2, <2>3, <2>5 DEF Connection
  <1>11. ConnectionsOK'
    <2>1. \A x \in jobs' : ConnectionOK(x)
      BY <1>1 DEF IInv, ConnectionsOK
    <2>2. \A x \in Servers : ClientsOK(x)'
      BY <1>1 DEF IInv, ConnectionsOK, ClientsOK
    <2>3. ASSUME NEW x \in Players, NEW q \in Players, NEW b \in Bases
          PROVE  SocketOK(x, b, q)'
      <3>0. server_of(x)' = server_of(x) /\ server_of(q)' = server_of(q)
        BY <1>1 DEF server_of
      <3>1. SocketOK(x, b, q)
        BY DEF IInv, ConnectionsOK
      <3>2. CASE x = p /\ b = me.base /\ q = me.i
        <4>1. sock'[p][<<b, q>>] = c
          BY <1>1, <1>5, <3>2 DEF Put
        <4>2. p <= q => q = p
          BY <1>4, <3>2 DEF Players
        <4>3. sock'[x][<<b, q>>] = IF x <= q THEN Connection(x, t, server_of(q), b)
                                   ELSE Connection(q, t, server_of(x), b)
          BY <4>1, <4>2, <3>2, <1>10
        <4> QED BY <4>3, <3>0, <3>2, <1>3 DEF SocketOK
      <3>3. CASE ~(x = p /\ b = me.base /\ q = me.i)
        <4>1. <<b, q>> \in DOMAIN sock'[x] => <<b, q>> \in DOMAIN sock[x] /\ sock'[x][<<b, q>>] = sock[x][<<b, q>>]
          <5>1. CASE x = p
            BY <5>1, <1>1, <1>5, <3>3 DEF Put
          <5>2. CASE x # p
            BY <5>2, <1>1, <1>5
          <5> QED BY <5>1, <5>2
        <4> QED BY <4>1, <3>0, <3>1 DEF SocketOK
      <3> QED BY <3>2, <3>3
    <2> QED BY <2>1, <2>2, <2>3 DEF ConnectionsOK
  <1>12. Shapes'
    BY <1>1, <1>7 DEF IInv, Shapes
  <1> QED BY <1>9, <1>11, <1>12 DEF IInv

LEMMA GetWaitsOK ==
  ASSUME IInv, NEW p \in Players, NEW t \in Threads, GetWaits(p, t)
  PROVE  IInv'
  <1> DEFINE me == th[p][t]
             us == used[server_of(p)]
             m == [me EXCEPT !.pc = "wait"]
             r == [th[p] EXCEPT ![t] = m]
  <1>1. /\ me.pc \in {"server", "woken"} /\ Go(p, t, m)
        /\ conf' = conf /\ srv' = srv /\ used' = used /\ jobs' = jobs /\ clients' = clients /\ sock' = sock
    BY DEF GetWaits, network
  <1>2. ProcessOK(p, th[p], us) /\ th[p] \in Row /\ me \in [pc : Places, base : Bases, i : Int]
    BY ThreadHas
  <1> HIDE DEF me
  <1>3. m.pc = "wait" /\ m.base = me.base /\ m.i = me.i /\ m \in [pc : Places, base : Bases, i : Int]
    BY <1>2 DEF Places
  <1> HIDE DEF m
  <1>4. r \in Row /\ r[t] = m /\ \A x \in Threads : x # t => r[x] = th[p][x]
    BY <1>2, <1>3 DEF Row
  <1>5. th' = [th EXCEPT ![p] = r]
    BY <1>1 DEF Go
  <1> HIDE DEF r, us
  <1>6. ProcessOK(p, r, us)
    <2>1. \A x \in Threads : /\ r[x].base = th[p][x].base /\ r[x].i = th[p][x].i
                             /\ r[x].pc = th[p][x].pc \/ (th[p][x].pc \in Serving /\ r[x].pc \in Serving)
      BY <1>1, <1>3, <1>4 DEF Serving, me
    <2> QED BY <2>1, <1>2, <1>4, ThreadsWake
  <1>7. DOMAIN th' = Players /\ th'[p] = r /\ \A q \in Players : q # p => th'[q] = th[q]
    BY <1>5 DEF IInv, Shapes
  <1>8. ProcessesOK'
    BY <1>1, <1>6, <1>7, OneProcess DEF IInv, us
  <1>9. ConnectionsOK'
    BY <1>1, SameConnections DEF IInv
  <1>10. Shapes'
    BY <1>1, <1>7 DEF IInv, Shapes
  <1> QED BY <1>8, <1>9, <1>10 DEF IInv

LEMMA AcceptOK ==
  ASSUME IInv, NEW s \in Servers, Accept(s)
  PROVE  IInv'
  <1>1. PICK c \in jobs : /\ c.to = s
                          /\ jobs' = jobs \ {c}
                          /\ process_connection(s, c)
                          /\ conf' = conf /\ used' = used /\ sock' = sock
    BY DEF Accept
  <1> DEFINE id == client_id(c.base, c.from)
  <1>2. /\ clients' = [clients EXCEPT ![s] = Put(clients[s], id, c)]
        /\ th' = wake(s)
        /\ srv' = IF s = Coordinator /\ srv.pc = "wait" THEN [srv EXCEPT !.pc = "woken"] ELSE srv
    BY <1>1 DEF process_connection
  <1> HIDE DEF id
  <1>3. Shapes'
    <2>1. srv' \in [pc : {"none", "check", "wait", "woken", "names", "end"}, i : Players]
      BY <1>2 DEF IInv, Shapes
    <2>2. DOMAIN clients' = Servers
      BY <1>2 DEF IInv, Shapes
    <2>3. DOMAIN th' = Players
      BY <1>2 DEF wake
    <2> QED BY <1>1, <2>1, <2>2, <2>3 DEF IInv, Shapes
  <1>4. ConnectionsOK'
    <2>1. \A x \in jobs' : ConnectionOK(x)
      BY <1>1 DEF IInv, ConnectionsOK
    <2>2. ConnectionOK(c)
      BY DEF IInv, ConnectionsOK
    <2>3. ASSUME NEW x \in Servers, NEW y \in DOMAIN clients'[x]
          PROVE  LET d == clients'[x][y] IN
                 ConnectionOK(d) /\ d.to = x /\ y = client_id(d.base, d.from)
      <3>1. CASE x = s /\ y = id
        <4>1. clients'[x][y] = c
          BY <1>2, <3>1 DEF IInv, Shapes, Put
        <4> QED BY <4>1, <2>2, <1>1, <3>1 DEF id
      <3>2. CASE ~(x = s /\ y = id)
        <4>1. y \in DOMAIN clients[x] /\ clients'[x][y] = clients[x][y]
          <5>1. CASE x = s
            BY <1>2, <3>2, <2>3, <5>1 DEF IInv, Shapes, Put
          <5>2. CASE x # s
            BY <1>2, <2>3, <5>2 DEF IInv, Shapes
          <5> QED BY <5>1, <5>2
        <4> QED BY <4>1 DEF IInv, ConnectionsOK, ClientsOK
      <3> QED BY <3>1, <3>2
    <2>4. \A x \in Servers : ClientsOK(x)'
      BY <2>3 DEF ClientsOK
    <2>5. \A p, q \in Players, b \in Bases : SocketOK(p, b, q)'
      BY <1>1 DEF IInv, ConnectionsOK, SocketOK, server_of
    <2> QED BY <2>1, <2>4, <2>5 DEF ConnectionsOK
  <1>5. ProcessesOK'
    <2>1. ASSUME NEW p \in Players
          PROVE  ProcessOK(p, th'[p], used'[server_of(p)])
      <3> DEFINE r == th'[p]
      <3>1. ProcessOK(p, th[p], used[server_of(p)]) /\ th[p] \in Row
        BY ThreadHas, Indices
      <3>2. r = [t \in Threads |->
                   IF server_of(p) = s /\ th[p][t].pc = "wait"
                     THEN [th[p][t] EXCEPT !.pc = "woken"] ELSE th[p][t]]
        BY <1>2 DEF wake
      <3> HIDE DEF r
      <3>3. ASSUME NEW t \in Threads
            PROVE  /\ r[t] \in [pc : Places, base : Bases, i : Int]
                   /\ r[t].base = th[p][t].base /\ r[t].i = th[p][t].i
                   /\ r[t].pc = th[p][t].pc \/ (th[p][t].pc \in Serving /\ r[t].pc \in Serving)
        <4>1. th[p][t] \in [pc : Places, base : Bases, i : Int]
          BY <3>1 DEF Row
        <4>2. CASE server_of(p) = s /\ th[p][t].pc = "wait"
          <5>1. r[t] = [th[p][t] EXCEPT !.pc = "woken"]
            BY <3>2, <4>2
          <5> QED BY <5>1, <4>1, <4>2 DEF Places, Serving
        <4>3. CASE ~(server_of(p) = s /\ th[p][t].pc = "wait")
          <5>1. r[t] = th[p][t]
            BY <3>2, <4>3
          <5> QED BY <5>1, <4>1
        <4> QED BY <4>2, <4>3
      <3>4. r \in Row
        <4>1. r = [t \in Threads |-> r[t]]
          BY <3>2
        <4> QED BY <4>1, <3>3 DEF Row
      <3>5. ProcessOK(p, r, used[server_of(p)])
        BY <3>1, <3>3, <3>4, ThreadsWake
      <3> QED BY <3>5, <1>1 DEF r
    <2>2. \A p \in Players : server_of(p)' = server_of(p)
      BY <1>1 DEF server_of
    <2> QED BY <2>1, <2>2 DEF ProcessesOK
  <1> QED BY <1>3, <1>4, <1>5 DEF IInv

(* What a step of the master or of a tape thread leaves alone.             *)
LEMMA Frame ==
  ASSUME IInv, UNCHANGED <<conf, srv, used, jobs, clients, sock>>, ProcessesOK', DOMAIN th' = Players
  PROVE  IInv'
  <1>1. ConnectionsOK'
    BY SameConnections DEF IInv
  <1>2. Shapes'
    BY DEF IInv, Shapes
  <1> QED BY <1>1, <1>2 DEF IInv

LEMMA ConstructOK ==
  ASSUME IInv, NEW p \in Players, Construct(p)
  PROVE  IInv'
  <1> DEFINE t == th[p][0].i
             us == used[server_of(p)]
             row == th[p]
  <1>1. /\ row[0].pc = "construct"
        /\ conf' = conf /\ srv' = srv /\ used' = used /\ jobs' = jobs /\ clients' = clients /\ sock' = sock
    BY DEF Construct, network
  <1>2. ProcessOK(p, row, us) /\ row \in Row /\ MasterOK(row[0], us)
    BY ThreadHas, Indices
  <1>3. CASE t \notin TapeThreads
    <2>1. Go(p, 0, At("join", no_base, 1))
      BY <1>3 DEF Construct
    <2>2. ProcessesOK' /\ DOMAIN th' = Players
      BY <2>1, <1>1, MasterGoes DEF Ahead, At, Places, Busy, Serving
    <2> QED BY <2>2, <1>1, Frame
  <1>4. CASE t \in TapeThreads
    <2> DEFINE m0 == [row[0] EXCEPT !.pc = "derive"]
               m == At("client", thread_id(t), p)
               r == [row EXCEPT ![0] = m0]
    <2>1. t \in Threads /\ t # 0
      BY <1>4, Indices
    <2>2. th' = [th EXCEPT ![p] = [r EXCEPT ![t] = m]]
      <3>1. th' = [th EXCEPT ![p][0].pc = "derive", ![p][t] = m]
        BY <1>4 DEF Construct
      <3> QED BY <3>1
    <2>3. row[0] \in [pc : Places, base : Bases, i : Int]
      BY <1>2, Indices DEF Row
    <2> HIDE DEF row, us
    <2>4. m0.pc = "derive" /\ m0.i = t /\ m0 \in [pc : Places, base : Bases, i : Int]
      BY <2>3 DEF Places, row
    <2>5. m.pc = "client" /\ m.base = thread_id(t) /\ m.i = p /\ m \in [pc : Places, base : Bases, i : Int]
      BY <1>4, BaseTypes DEF At, Places, Players
    <2>6. row[0].i = t
      BY DEF row
    <2> HIDE DEF m0, m, t
    <2>7. ThreadOK(p, 0, m0, us)
      BY <2>4 DEF ThreadOK, Busy, Serving
    <2>8. \A u \in TapeThreads : Ahead(m0, u) \/ u = t => Ahead(row[0], u)
      BY <2>4, <2>6, <1>1, <1>4 DEF Ahead, TapeThreads, Busy, Serving
    <2>9. MasterOK(m0, us)
      BY <2>4, <2>8, <1>2, <1>4 DEF MasterOK
    <2>10. ProcessOK(p, r, us)
      BY <2>4, <2>7, <2>8, <2>9, <1>2, Indices, ThreadMoves
    <2>11. Fresh(us, thread_id(t), 0)
      BY <2>8, <1>2, <1>4 DEF ProcessOK
    <2>12. ThreadOK(p, t, m, us)
      BY <2>1, <2>5, <2>11, <1>4, BaseTypes, PartyStartAssumption DEF ThreadOK, Owns, Busy, Serving, Players
    <2>13. r[0] = m0
      BY <1>2, Indices DEF Row
    <2>14. ~Ahead(m0, t)
      BY <2>4, <1>4 DEF Ahead, TapeThreads, Busy, Serving
    <2> HIDE DEF r
    <2>15. ProcessOK(p, [r EXCEPT ![t] = m], us)
      BY <2>1, <2>5, <2>10, <2>12, <2>13, <2>14, ThreadMoves
    <2>16. /\ DOMAIN th' = Players /\ th'[p] = [r EXCEPT ![t] = m]
           /\ \A q \in Players : q # p => th'[q] = th[q]
      BY <2>2 DEF IInv, Shapes
    <2>17. ProcessesOK'
      BY <2>15, <2>16, <1>1, OneProcess DEF IInv, us
    <2> QED BY <2>16, <2>17, <1>1, Frame
  <1> QED BY <1>3, <1>4

LEMMA DeriveOK ==
  ASSUME IInv, NEW p \in Players, Derive(p)
  PROVE  IInv'
  <1> DEFINE t == th[p][0].i
             us == used[server_of(p)]
             m == At("client", two_party_id(t), p)
  <1>1. /\ th[p][0].pc = "derive" /\ Go(p, 0, m)
        /\ conf' = conf /\ srv' = srv /\ used' = used /\ jobs' = jobs /\ clients' = clients /\ sock' = sock
    BY DEF Derive, network
  <1>2. MasterOK(th[p][0], us)
    BY ThreadHas, Indices
  <1>3. t \in TapeThreads
    BY <1>1, <1>2 DEF MasterOK
  <1>4. m.pc = "client" /\ m.base = two_party_id(t) /\ m.i = p /\ m \in [pc : Places, base : Bases, i : Int]
    BY <1>3, BaseTypes DEF At, Places, Players
  <1>5. th[p][0].i = t
    OBVIOUS
  <1> HIDE DEF m, us, t
  <1>6. Fresh(us, two_party_id(t), 0)
    BY <1>1, <1>2, <1>3, <1>5 DEF MasterOK
  <1>7. ThreadOK(p, 0, m, us)
    BY <1>3, <1>4, <1>6, BaseTypes, PartyStartAssumption DEF ThreadOK, Owns, Busy, Serving, Players
  <1>8. ASSUME NEW u \in TapeThreads, Ahead(m, u)
        PROVE  Ahead(th[p][0], u)
    <2>1. PICK v \in TapeThreads : two_party_id(t) = two_party_id(v) /\ v < u
      BY <1>3, <1>4, <1>8, BaseTypes DEF Ahead, Busy, Serving
    <2>2. v = t
      BY <2>1, <1>3, IdsAssumption
    <2> QED BY <2>1, <2>2, <1>1, <1>5 DEF Ahead
  <1>9. MasterOK(m, us)
    BY <1>2, <1>4, <1>8 DEF MasterOK
  <1>10. ProcessesOK' /\ DOMAIN th' = Players
    BY <1>1, <1>4, <1>7, <1>8, <1>9, Indices, OneThread DEF IInv, us
  <1> QED BY <1>1, <1>10, Frame

LEMMA BeginOTOK ==
  ASSUME IInv, NEW p \in Players, BeginOT(p)
  PROVE  IInv'
  <1>1. UNCHANGED <<conf, th, srv, used, jobs, clients, sock>>
    BY DEF BeginOT, network
  <1>2. ProcessesOK'
    BY <1>1 DEF IInv, ProcessesOK, server_of
  <1> QED BY <1>1, <1>2, Frame DEF IInv, Shapes

LEMMA EndOTOK ==
  ASSUME IInv, NEW p \in Players, EndOT(p)
  PROVE  IInv'
  <1> DEFINE t == th[p][0].i
  <1>1. /\ th[p][0].pc = "ot" /\ Go(p, 0, At("construct", no_base, t + 1))
        /\ conf' = conf /\ srv' = srv /\ used' = used /\ jobs' = jobs /\ clients' = clients /\ sock' = sock
    BY DEF EndOT, network
  <1>2. t \in Int
    BY <1>1, ThreadHas, Indices DEF MasterOK
  <1>3. \A u \in TapeThreads : Ahead(At("construct", no_base, t + 1), u) => Ahead(th[p][0], u)
    BY <1>1, <1>2 DEF Ahead, At, TapeThreads, Busy, Serving
  <1> HIDE DEF t
  <1>4. t + 1 \in Int /\ "construct" \in Places /\ "construct" \notin {"threw", "derive", "ot"} \cup Busy
        /\ "construct" \notin {"off", "names", "addresses"}
    BY <1>2 DEF Places, Busy, Serving
  <1>5. ProcessesOK' /\ DOMAIN th' = Players
    BY <1>1, <1>3, <1>4, MasterGoes
  <1> QED BY <1>1, <1>5, Frame

LEMMA JoinOK ==
  ASSUME IInv, NEW p \in Players, Join(p)
  PROVE  IInv'
  <1>1. /\ \/ Go(p, 0, At("join", no_base, th[p][0].i + 1)) /\ th[p][0].i \in TapeThreads
           \/ Go(p, 0, At("started", no_base, 0))
        /\ conf' = conf /\ srv' = srv /\ used' = used /\ jobs' = jobs /\ clients' = clients /\ sock' = sock
    BY DEF Join, network
  <1>2. PICK pc \in {"join", "started"}, i \in Int : Go(p, 0, At(pc, no_base, i))
    BY <1>1 DEF TapeThreads
  <1>3. \A u \in TapeThreads : ~Ahead(At(pc, no_base, i), u)
    BY DEF Ahead, At, Busy, Serving
  <1>4. pc \in Places /\ pc \notin {"threw", "derive", "ot"} \cup Busy /\ pc \notin {"off", "names", "addresses"}
    BY DEF Places, Busy, Serving
  <1>5. ProcessesOK' /\ DOMAIN th' = Players
    BY <1>1, <1>2, <1>3, <1>4, MasterGoes
  <1> QED BY <1>1, <1>5, Frame

LEMMA PreRunOK ==
  ASSUME IInv, NEW p \in Players, NEW t \in Threads, t # 0, PreRun(p, t)
  PROVE  IInv'
  <1> DEFINE m == At("ready", no_base, 0)
  <1>1. /\ th[p][t].pc = "pre_run" /\ Go(p, t, m)
        /\ conf' = conf /\ srv' = srv /\ used' = used /\ jobs' = jobs /\ clients' = clients /\ sock' = sock
    BY DEF PreRun, network
  <1>2. m.pc = "ready" /\ m.base = no_base /\ m \in [pc : Places, base : Bases, i : Int]
    BY BaseTypes DEF At, Places
  <1> HIDE DEF m
  <1>3. ThreadOK(p, t, m, used[server_of(p)])
    BY <1>2, BaseTypes DEF ThreadOK, Busy, Serving
  <1>4. ProcessesOK' /\ DOMAIN th' = Players
    BY <1>1, <1>2, <1>3, OneThread DEF IInv
  <1> QED BY <1>1, <1>4, Frame
-----------------------------------------------------------------------------
(* Failures.                                                               *)
LEMMA FailOK ==
  ASSUME IInv, NEW p \in Players, Fail(p, "failed")
  PROVE  IInv'
  <1>1. UNCHANGED <<conf, srv, used, jobs, clients, sock>>
    BY DEF Fail, network
  <1> QED BY <1>1, Fails, Frame DEF IInv

(* No thread finds the id it asks for used.                                *)
LEMMA NeverUsed ==
  ASSUME IInv, NEW p \in Players, NEW t \in Threads
  PROVE  ~AlreadyUsed(p, t)
  <1> SUFFICES ASSUME AlreadyUsed(p, t) PROVE FALSE
    OBVIOUS
  <1>1. ThreadOK(p, t, th[p][t], used[server_of(p)])
    BY ThreadHas
  <1>2. /\ th[p][t].i \in 0 .. p /\ Fresh(used[server_of(p)], th[p][t].base, th[p][t].i)
        /\ client_id(th[p][t].base, th[p][t].i) \in used[server_of(p)]
    BY <1>1 DEF AlreadyUsed, ThreadOK, Serving
  <1>3. th[p][t].i \in Players /\ th[p][t].i >= th[p][t].i
    BY <1>2, PartyStartAssumption DEF Players
  <1> QED BY <1>2, <1>3 DEF Fresh

(* Any step of a thread, and then any step.                                *)
LEMMA ThreadStep ==
  ASSUME IInv, NEW p \in Players, NEW t \in Threads, Thread(p, t)
  PROVE  IInv'
  <1>1. CASE Connect(p, t)
    BY <1>1, ConnectOK
  <1>2. CASE get_connection_socket(p, t)
    <2>1. GetWaits(p, t) \/ GetSocket(p, t)
      BY <1>2, NeverUsed DEF get_connection_socket
    <2> QED BY <2>1, GetWaitsOK, GetSocketOK
  <1>3. CASE Begin(p)
    BY <1>3, BeginOK
  <1>4. CASE ConnectNames(p)
    BY <1>4, ConnectNamesOK
  <1>5. CASE ReceiveNames(p)
    BY <1>5, ReceiveNamesOK
  <1>6. CASE Construct(p)
    BY <1>6, ConstructOK
  <1>7. CASE Derive(p)
    BY <1>7, DeriveOK
  <1>8. CASE BeginOT(p)
    BY <1>8, BeginOTOK
  <1>9. CASE EndOT(p)
    BY <1>9, EndOTOK
  <1>10. CASE Join(p)
    BY <1>10, JoinOK
  <1>11. CASE PeerClosed(p)
    BY <1>11, FailOK DEF PeerClosed
  <1>12. CASE t > 0 /\ PreRun(p, t)
    <2>1. t # 0
      BY <1>12
    <2> QED BY <2>1, <1>12, PreRunOK
  <1> QED BY <1>1, <1>2, <1>3, <1>4, <1>5, <1>6, <1>7, <1>8, <1>9, <1>10, <1>11, <1>12 DEF Thread

LEMMA NextOK ==
  ASSUME IInv, [Next]_vars
  PROVE  IInv'
  <1>1. ASSUME NEW p \in Players, NEW t \in Threads, Thread(p, t)
        PROVE  IInv'
    BY <1>1, ThreadStep
  <1>2. ASSUME NEW s \in Servers, Accept(s)
        PROVE  IInv'
    BY <1>2, AcceptOK
  <1>3. CASE Coordinate
    BY <1>3, CoordinateOK
  <1>4. CASE TimesOut
    <2>1. PICK p \in Players, t \in Threads : Timeout(p, t)
      BY <1>4 DEF TimesOut
    <2> QED BY <2>1, FailOK DEF Timeout
  <1>5. CASE UNCHANGED vars
    <2>1. UNCHANGED <<conf, th, srv, used, jobs, clients, sock>>
      BY <1>5 DEF vars, network
    <2>2. ProcessesOK'
      BY <2>1 DEF IInv, ProcessesOK, server_of
    <2> QED BY <2>1, <2>2, Frame DEF IInv, Shapes
  <1> QED BY <1>1, <1>2, <1>3, <1>4, <1>5 DEF Next, Works

(* The inductive invariant of a start.                                     *)
LEMMA StartInvariant == Spec => []IInv
  BY InitOK, NextOK, PTL DEF Spec
-----------------------------------------------------------------------------
(* Whatever the order in which connections are accepted, identified and    *)
(* asked for, the two sockets that players use to talk to each other under *)
(* some id are the two ends of one connection (get_connection_socket,      *)
(* setup_sockets), for any number of players and tape threads.             *)
THEOREM StartPaired == Spec => []Paired
  <1>1. ASSUME IInv
        PROVE  Paired
    <2> SUFFICES ASSUME NEW p \in Players, NEW q \in Players, NEW b \in Bases, p <= q,
                        <<b, q>> \in DOMAIN sock[p], <<b, p>> \in DOMAIN sock[q]
                 PROVE  sock[p][<<b, q>>] = sock[q][<<b, p>>]
      BY DEF Paired
    <2>1. PICK t \in Threads : Owns(t, b) /\ sock[p][<<b, q>>] = Connection(p, t, server_of(q), b)
      BY <1>1 DEF IInv, ConnectionsOK, SocketOK
    <2>2. PICK u \in Threads : Owns(u, b) /\ sock[q][<<b, p>>] = Connection(p, u, server_of(q), b)
      <3>1. SocketOK(q, b, p)
        BY <1>1 DEF IInv, ConnectionsOK
      <3>2. CASE p = q
        BY <3>1, <3>2 DEF SocketOK
      <3>3. CASE p # q
        <4>1. ~(q <= p)
          BY <3>3 DEF Players
        <4> QED BY <3>1, <4>1 DEF SocketOK
      <3> QED BY <3>2, <3>3
    <2>3. t = u
      BY <2>1, <2>2, Owner
    <2> QED BY <2>1, <2>2, <2>3
  <1> QED BY <1>1, StartInvariant, PTL

(* No thread of a party asks its server socket for an id that was asked    *)
(* for before, so none throws "Connection id already used"                 *)
(* (ServerSocket.cpp:192-197), for any number of players and tape threads. *)
THEOREM StartThrowsNothing == Spec => []NobodyThrows
  <1>1. ASSUME IInv
        PROVE  NobodyThrows
    BY <1>1, ThreadHas, Indices DEF NobodyThrows, ThreadOK
  <1> QED BY <1>1, StartInvariant, PTL
=============================================================================
