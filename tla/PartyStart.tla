---------------------------- MODULE PartyStart ------------------------------
(***************************************************************************)
(* How the parties of the virtual machine start: they learn each other's   *)
(* addresses from a coordinator that runs in player 0 (Networking/Server,  *)
(* Names), then open their connections (PlainPlayer::setup_sockets against *)
(* the ServerSocket of the other side) from several threads at once while  *)
(* the master constructs the tape threads (GC/ThreadMaster, GC/Thread and  *)
(* the constructors of YaoGarbler and YaoEvaluator).                       *)
(*                                                                         *)
(* Thread 0 of a player is its main thread, thread t > 0 is the tape       *)
(* thread number t - 1; server -1 is the coordinator's ServerSocket and    *)
(* server p is that of player p.  A connection is the record of its two    *)
(* ends, the thread that opened it and what for; the program tells         *)
(* connections apart by the id that the client sends as its first message. *)
(* Sending does not block.  A thread that throws ends its process.         *)
(***************************************************************************)
EXTENDS Integers, Sequences, FiniteSets, TLC

CONSTANTS N,         \* number of players
          NThreads,  \* number of tape threads
          Confs      \* [default_port : BOOLEAN]

ASSUME PartyStartAssumption ==
    /\ N \in Nat \ {0}
    /\ NThreads \in Nat
    /\ Confs \subseteq [default_port : BOOLEAN]

VARIABLES
    conf,
    th,         \* th[p][t]: where the threads are
    srv,        \* the coordinator: place and loop variable of Server::start
    names_sent, \* players to which the coordinator sent the addresses
    listening,  \* server sockets that are bound
    jobs,       \* connections whose id the server has not read yet
    clients,    \* ServerSocket::clients
    used,       \* ServerSocket::used
    sock,       \* sock[p]: MultiPlayer::sockets of each of p's players
    vptr,       \* vptr[p][t]: what the object of tape thread t is so far
    pre,        \* pre[p][t]: whose pre_run() thread t has called
    ot          \* how many set-ups of OT extensions a player has begun

network == <<names_sent, listening, jobs, clients>>
vars == <<conf, th, srv, network, used, sock, vptr, pre, ot>>

Players == 0 .. N - 1
TapeThreads == 1 .. NThreads
Threads == 0 .. NThreads
Coordinator == -1
Servers == Coordinator .. N - 1

(* Player 0 keeps the coordinator's socket for itself unless it was given  *)
(* a port of its own.                                                      *)
server_of(p) == IF p = 0 /\ conf.default_port THEN Coordinator ELSE p

Failed(p) == th[p][0].pc \in {"failed", "threw"}
-----------------------------------------------------------------------------
(* The ids of the connections.  They are strings, put together without     *)
(* separators: that two threads never use the same is not obvious.  Those  *)
(* of the connections to the coordinator have no base.                     *)
thread_id(t) == "T" \o ToString(t - 1)
two_party_id(t) == "thread" \o ToString(t - 1) \o "2"
no_base == ""
client_id(id_base, p) == id_base \o "P" \o ToString(p)

(* The players (in the sense of MultiPlayer) that a party makes.           *)
Bases ==
    {no_base, "main"} \cup {thread_id(t) : t \in TapeThreads}
                      \cup {two_party_id(t) : t \in TapeThreads}

(* A base is what precedes the only "P" of an id; those of tape threads    *)
(* and of two-party players differ in their first letter.                  *)
ASSUME IdsAssumption ==
    /\ \A b, c \in Bases, p, q \in Players :
         client_id(b, p) = client_id(c, q) => b = c /\ p = q
    /\ \A t \in TapeThreads :
         /\ {thread_id(t), two_party_id(t)} \cap {no_base, "main"} = {}
         /\ \A u \in TapeThreads :
              /\ thread_id(t) # two_party_id(u)
              /\ t # u => thread_id(t) # thread_id(u) /\ two_party_id(t) # two_party_id(u)

Connection(p, t, q, b) == [from |-> p, by |-> t, to |-> q, base |-> b]
Ids == {client_id(b, p) : b \in Bases, p \in Players}
Connections ==
    [from : Players, by : Threads, to : Servers, base : Bases]

At(pc, base, i) == [pc |-> pc, base |-> base, i |-> i]

Init ==
    /\ conf \in Confs
    /\ th = [p \in Players |->
               [t \in Threads |-> At(IF t = 0 THEN "off" ELSE "none", no_base, 0)]]
    /\ srv = [pc |-> "none", i |-> 0]
    /\ names_sent = {}
    /\ listening = {}
    /\ jobs = {}
    /\ clients = [s \in Servers |-> <<>>]
    /\ used = [s \in Servers |-> {}]
    /\ sock = [p \in Players |-> <<>>]
    /\ vptr = [p \in Players |-> [t \in TapeThreads |-> "none"]]
    /\ pre = [p \in Players |-> [t \in TapeThreads |-> "none"]]
    /\ ot = [p \in Players |-> 0]
-----------------------------------------------------------------------------
(* Server sockets.  The accept thread handles the id itself if it has      *)
(* arrived, and else leaves the connection to a thread that waits for it;  *)
(* hence connections are identified in any order.                          *)

(* Mutant: does not wake the threads that wait.                            *)
wake_none(s) == th
(* data_signal.broadcast(): all threads that wait for a client of server s *)
(* look again.                                                             *)
wake(s) ==
    [p \in Players |-> [t \in Threads |->
        IF server_of(p) = s /\ th[p][t].pc = "wait"
          THEN [th[p][t] EXCEPT !.pc = "woken"] ELSE th[p][t]]]

(* m[k] = v of a std::map.                                                 *)
Put(m, k, v) == [x \in DOMAIN m \cup {k} |-> IF x = k THEN v ELSE m[x]]

process_connection(s, c) ==
    /\ clients' = [clients EXCEPT ![s] = Put(@, client_id(c.base, c.from), c)]
    /\ th' = wake(s)
    /\ srv' = IF s = Coordinator /\ srv.pc = "wait" THEN [srv EXCEPT !.pc = "woken"] ELSE srv

Alive(s) == ~Failed(IF s = Coordinator THEN 0 ELSE s)

Accept(s) ==
    \E c \in jobs :
        /\ c.to = s
        /\ Alive(s)
        /\ jobs' = jobs \ {c}
        /\ process_connection(s, c)
        /\ UNCHANGED <<conf, names_sent, listening, used, sock, vptr, pre, ot>>

(* get_connection_socket(): what it does when it holds the mutex, for the  *)
(* first time or after a wait.                                             *)
Found(s, id) == id \in DOMAIN clients[s]
-----------------------------------------------------------------------------
(* Names and Server::start.                                                *)
Go(p, t, to) == th' = [th EXCEPT ![p][t] = to]

(* A process starts.  Player 0 starts the coordinator.                     *)
Begin(p) ==
    /\ th[p][0].pc = "off"
    /\ Go(p, 0, At("names", no_base, 0))
    /\ IF p = 0
         THEN srv' = [srv EXCEPT !.pc = "check"] /\ listening' = listening \cup {Coordinator}
         ELSE UNCHANGED <<srv, listening>>
    /\ UNCHANGED <<conf, names_sent, jobs, clients, used, sock, vptr, pre, ot>>

(* setup_names(): connect, send id, name and port.                         *)
ConnectNames(p) ==
    /\ th[p][0].pc = "names"
    /\ Coordinator \in listening /\ Alive(Coordinator)
    /\ Go(p, 0, At("addresses", no_base, 0))
    /\ jobs' = jobs \cup {Connection(p, 0, Coordinator, no_base)}
    /\ UNCHANGED <<conf, srv, names_sent, listening, clients, used, sock, vptr, pre, ot>>

(* The coordinator waits for the players one after the other, then sends   *)
(* all of them the addresses.                                              *)
CoordinatorWaits ==
    /\ srv.pc \in {"check", "woken"} /\ ~Failed(0)
    /\ ~Found(Coordinator, client_id(no_base, srv.i))
    /\ srv' = [srv EXCEPT !.pc = "wait"]
    /\ UNCHANGED <<conf, th, network, used, sock, vptr, pre, ot>>

CoordinatorGets ==
    /\ srv.pc \in {"check", "woken"} /\ ~Failed(0)
    /\ Found(Coordinator, client_id(no_base, srv.i))
    /\ used' = [used EXCEPT ![Coordinator] = @ \cup {client_id(no_base, srv.i)}]
    /\ srv' = IF srv.i + 1 < N THEN [pc |-> "check", i |-> srv.i + 1]
              ELSE [pc |-> "names", i |-> 0]
    /\ UNCHANGED <<conf, th, network, sock, vptr, pre, ot>>

send_names ==
    /\ srv.pc = "names" /\ ~Failed(0)
    /\ names_sent' = names_sent \cup {srv.i}
    /\ srv' = IF srv.i + 1 < N THEN [srv EXCEPT !.i = @ + 1] ELSE [pc |-> "end", i |-> 0]
    /\ UNCHANGED <<conf, th, listening, jobs, clients, used, sock, vptr, pre, ot>>

(* The addresses arrive: the player opens its own server socket, unless it *)
(* is to have the coordinator's; player 0 joins the coordinator first.     *)
ReceiveNames(p) ==
    /\ th[p][0].pc = "addresses"
    /\ p \in names_sent
    /\ p = 0 => srv.pc = "end"
    /\ listening' = listening \cup {server_of(p)}
    /\ Go(p, 0, At("client", "main", p))
    /\ UNCHANGED <<conf, srv, names_sent, jobs, clients, used, sock, vptr, pre, ot>>
-----------------------------------------------------------------------------
(* PlainPlayer::setup_sockets, by thread t of player p.                    *)

(* As a client of the players from p on, itself included: connect and send *)
(* the id.  How long the id takes to arrive is seen in Accept.             *)
Connect(p, t) ==
    LET me == th[p][t]
        s == server_of(me.i)
        c == Connection(p, t, s, me.base) IN
    /\ me.pc = "client"
    /\ s \in listening /\ Alive(s)
    /\ jobs' = jobs \cup {c}
    /\ sock' = [sock EXCEPT ![p] = Put(@, <<me.base, me.i>>, c)]
    /\ Go(p, t, IF me.i + 1 < N THEN At("client", me.base, me.i + 1) ELSE At("server", me.base, 0))
    /\ UNCHANGED <<conf, srv, names_sent, listening, clients, used, vptr, pre, ot>>

AlreadyUsed(p, t) ==
    /\ th[p][t].pc = "server"
    /\ client_id(th[p][t].base, th[p][t].i) \in used[server_of(p)]

GetWaits(p, t) ==
    LET me == th[p][t] IN
    /\ me.pc \in {"server", "woken"}
    /\ ~Found(server_of(p), client_id(me.base, me.i))
    /\ Go(p, t, [me EXCEPT !.pc = "wait"])
    /\ UNCHANGED <<conf, srv, network, used, sock, vptr, pre, ot>>

(* Where a thread goes when its connections are made.                      *)
Opened(p, t, base) ==
    IF t > 0 THEN At("pre_run", base, 0)
    ELSE IF base = "main" THEN At("construct", base, 1)
    ELSE At("ot", base, CHOOSE u \in TapeThreads : two_party_id(u) = base)

(* Mutant: returns any connection that nobody has asked for.               *)
GetSocket_unused(p, t) ==
    LET me == th[p][t]
        s == server_of(p)
        id == client_id(me.base, me.i) IN
    /\ me.pc \in {"server", "woken"}
    /\ Found(s, id)
    /\ \E other \in DOMAIN clients[s] \ used[s] :
         sock' = [sock EXCEPT ![p] = Put(@, <<me.base, me.i>>, clients[s][other])]
    /\ used' = [used EXCEPT ![s] = @ \cup {id}]
    /\ Go(p, t, IF me.i < p THEN At("server", me.base, me.i + 1)
                ELSE Opened(p, t, me.base))
    /\ UNCHANGED <<conf, srv, network, vptr, pre, ot>>

GetSocket(p, t) ==
    LET me == th[p][t]
        s == server_of(p)
        id == client_id(me.base, me.i) IN
    /\ me.pc \in {"server", "woken"}
    /\ Found(s, id)
    /\ sock' = [sock EXCEPT ![p] = Put(@, <<me.base, me.i>>, clients[s][id])]
    /\ used' = [used EXCEPT ![s] = @ \cup {id}]
    /\ Go(p, t, IF me.i < p THEN At("server", me.base, me.i + 1)
                ELSE Opened(p, t, me.base))
    /\ UNCHANGED <<conf, srv, network, vptr, pre, ot>>
-----------------------------------------------------------------------------
(* Mutant: the thread's connections have the ids of the object's `player'. *)
Construct_two_party(p) ==
    LET t == th[p][0].i IN
    /\ th[p][0].pc = "construct"
    /\ IF t \in TapeThreads
         THEN /\ th' = [th EXCEPT ![p][0].pc = "derive",
                                  ![p][t] = At("client", two_party_id(t), p)]
              /\ vptr' = [vptr EXCEPT ![p][t] = "base"]
         ELSE Go(p, 0, At("join", no_base, 1)) /\ UNCHANGED vptr
    /\ UNCHANGED <<conf, srv, network, used, sock, pre, ot>>

(* ThreadMaster::run: the tape threads are constructed one after the       *)
(* other.  GC::Thread's constructor starts the thread, the constructor of  *)
(* YaoGarbler or YaoEvaluator follows: from then on the object is one, and *)
(* its member `player' is connected, then its OT extension set up.         *)
Construct(p) ==
    LET t == th[p][0].i IN
    /\ th[p][0].pc = "construct"
    /\ IF t \in TapeThreads
         THEN /\ th' = [th EXCEPT ![p][0].pc = "derive",
                                  ![p][t] = At("client", thread_id(t), p)]
              /\ vptr' = [vptr EXCEPT ![p][t] = "base"]
         ELSE Go(p, 0, At("join", no_base, 1)) /\ UNCHANGED vptr
    /\ UNCHANGED <<conf, srv, network, used, sock, pre, ot>>

Derive(p) ==
    LET t == th[p][0].i IN
    /\ th[p][0].pc = "derive"
    /\ vptr' = [vptr EXCEPT ![p][t] = "derived"]
    /\ Go(p, 0, At("client", two_party_id(t), p))
    /\ UNCHANGED <<conf, srv, network, used, sock, pre, ot>>

(* The base transfers of thread t need both sides.                         *)
BeginOT(p) ==
    /\ th[p][0].pc = "ot" /\ ot[p] < th[p][0].i
    /\ ot' = [ot EXCEPT ![p] = @ + 1]
    /\ UNCHANGED <<conf, th, srv, network, used, sock, vptr, pre>>

EndOT(p) ==
    LET t == th[p][0].i IN
    /\ th[p][0].pc = "ot" /\ ot[p] = t
    /\ \A q \in Players : ot[q] >= t
    /\ Go(p, 0, At("construct", no_base, t + 1))
    /\ UNCHANGED <<conf, srv, network, used, sock, vptr, pre, ot>>

(* join_tape() of each thread, then the first tape is scheduled.           *)
Join(p) ==
    LET t == th[p][0].i IN
    /\ th[p][0].pc = "join"
    /\ IF t \in TapeThreads
         THEN th[p][t].pc \in {"pre_run", "ready"} /\ Go(p, 0, At("join", no_base, t + 1))
         ELSE Go(p, 0, At("started", no_base, 0))
    /\ UNCHANGED <<conf, srv, network, used, sock, vptr, pre, ot>>

(* Thread::run() calls the virtual pre_run().                              *)
PreRun(p, t) ==
    /\ th[p][t].pc = "pre_run"
    /\ pre' = [pre EXCEPT ![p][t] = vptr[p][t]]
    /\ Go(p, t, At("ready", no_base, 0))
    /\ UNCHANGED <<conf, srv, network, used, sock, vptr, ot>>
-----------------------------------------------------------------------------
(* Failures.  An exception in any thread ends the process: the main        *)
(* thread's place says so.                                                 *)
Fail(p, how) ==
    /\ th' = [th EXCEPT ![p] = [t \in Threads |-> At(how, no_base, 0)]]
    /\ UNCHANGED <<conf, srv, network, used, sock, vptr, pre, ot>>

get_connection_socket(p, t) ==
    IF AlreadyUsed(p, t) THEN Fail(p, "threw") ELSE GetWaits(p, t) \/ GetSocket(p, t)

(* A minute has passed without the client, or without a server.            *)
Timeout(p, t) ==
    /\ \/ th[p][t].pc = "wait"
       \/ th[p][t].pc = "names" /\ ~(Coordinator \in listening /\ Alive(Coordinator))
       \/ th[p][t].pc = "client" /\ LET s == server_of(th[p][t].i) IN ~(s \in listening /\ Alive(s))
       \/ p = 0 /\ t = 0 /\ srv.pc = "wait" /\ ~Failed(0)
    /\ Fail(p, "failed")

(* A connection on which data is due is closed.                            *)
PeerClosed(p) ==
    /\ \/ th[p][0].pc = "addresses" /\ p \notin names_sent /\ Failed(0)
       \/ th[p][0].pc = "ot" /\ \E q \in Players : Failed(q) /\ ot[q] < th[p][0].i
    /\ Fail(p, "failed")

Thread(p, t) ==
    \/ Connect(p, t) \/ get_connection_socket(p, t)
    \/ t = 0 /\ (\/ Begin(p) \/ ConnectNames(p) \/ ReceiveNames(p)
                 \/ Construct(p) \/ Derive(p) \/ BeginOT(p) \/ EndOT(p) \/ Join(p)
                 \/ PeerClosed(p))
    \/ t > 0 /\ PreRun(p, t)

Coordinate == CoordinatorWaits \/ CoordinatorGets \/ send_names

Works ==
    \/ \E p \in Players, t \in Threads : Thread(p, t)
    \/ \E s \in Servers : Accept(s)
    \/ Coordinate

TimesOut == \E p \in Players, t \in Threads : Timeout(p, t)

Next == Works \/ TimesOut

(* As long as some thread can go on, one does; no step can be repeated for *)
(* ever, so this is all that is needed.  Nobody need run out of time while *)
(* all are alive, but whoever waits for a party that is gone will.         *)
Fairness == WF_vars(Works \/ ((\E p \in Players : Failed(p)) /\ TimesOut))

Spec == Init /\ [][Next]_vars /\ Fairness
-----------------------------------------------------------------------------
Places ==
    {"off", "none", "names", "addresses", "client", "server",
     "wait", "woken", "pre_run", "ready", "construct", "derive", "ot", "join",
     "started", "failed", "threw"}

(* The type invariant; while a thread sets up connections it is at one of  *)
(* the players (setup_sockets, Player.cpp:262-305).                        *)
TypeOK ==
    /\ conf \in Confs
    /\ \A p \in Players, t \in Threads :
         /\ th[p][t].pc \in Places
         /\ th[p][t].base \in Bases
         /\ th[p][t].pc \in {"client", "server", "wait", "woken"} => th[p][t].i \in Players
    /\ srv.pc \in {"none", "check", "wait", "woken", "names", "end"} /\ srv.i \in Players
    /\ names_sent \subseteq Players
    /\ listening \subseteq Servers
    /\ jobs \subseteq Connections
    /\ \A s \in Servers :
         /\ \A id \in DOMAIN clients[s] : clients[s][id] \in Connections
         /\ used[s] \subseteq Ids
    /\ \A p \in Players : \A k \in DOMAIN sock[p] : sock[p][k] \in Connections
    /\ vptr \in [Players -> [TapeThreads -> {"none", "base", "derived"}]]
    /\ pre \in [Players -> [TapeThreads -> {"none", "base", "derived"}]]
    /\ ot \in [Players -> 0 .. NThreads]

(* Whatever the order in which connections are accepted, identified and    *)
(* asked for, by whichever threads: the socket a player uses to talk to    *)
(* another under some id is the other end of the one that the other uses   *)
(* to talk to it under that id (get_connection_socket, setup_sockets).     *)
Paired ==
    \A p, q \in Players, b \in Bases :
        p <= q /\ <<b, q>> \in DOMAIN sock[p] /\ <<b, p>> \in DOMAIN sock[q]
            => sock[p][<<b, q>>] = sock[q][<<b, p>>]

(* No thread asks for an id that was asked for before, also not after one  *)
(* of them ran out of time ("Connection id already used",                  *)
(* ServerSocket.cpp:192-197).                                              *)
NobodyThrows == \A p \in Players : th[p][0].pc # "threw"

(* All parties start, unless one runs out of time; then everyone starts or *)
(* ends: no thread waits for ever for a party that is gone.                *)
StartsOrEnds == <>(\A p \in Players : th[p][0].pc = "started" \/ Failed(p))

(* When a tape thread of the evaluator calls pre_run() it is that of       *)
(* YaoEvaluator (GC/Thread.h:52, YaoEvaluator.h:48), which in the one-shot *)
(* mode receives all the garbled tables.                                   *)
PreRunOfParty == \A t \in TapeThreads : pre[1][t] # "base"
=============================================================================
