---------------------------- MODULE CryptoPlayer ----------------------------
(***************************************************************************)
(* Networking/CryptoPlayer.cpp: the encrypted connections among the        *)
(* parties.  Each party makes two connections to every other one, one      *)
(* after the other, in an order that must not lock the parties up; then it *)
(* has a sender and a receiver thread for every other party                *)
(* (Networking/Sender.cpp, Networking/Receiver.cpp), to which the          *)
(* operations hand their streams and for which they wait.                  *)
(*                                                                         *)
(* Connection 0 is `sockets', connection 1 `other_sockets'.  A message is  *)
(* whatever its stream holds when it is sent: the party that made it and   *)
(* the operation it was made for.  A party has one stream to send, which   *)
(* it fills anew for every operation.  The queues of the threads are taken *)
(* to be what WaitQueue and YaoWorkers show them to be.                    *)
(***************************************************************************)
EXTENDS Integers, Sequences, FiniteSets

CONSTANTS Games,     \* numbers of parties with the operations they carry out
          Capacity   \* messages a connection holds in one direction

ASSUME CryptoPlayerAssumption ==
    /\ Capacity \in Nat \ {0}
    /\ \A g \in Games : g.n \in Nat \ {0, 1} /\ DOMAIN g.ops = 1 .. Len(g.ops)

VARIABLES
    game,
    at,        \* each party's phase and its place in it
    stream,    \* the operation that the party's stream is filled for
    sender,    \* sender[p][q]: queues in and out, and what the thread works on
    receiver,  \* receiver[p][q]: the same
    wire,      \* wire[c][p][q]: under way from p to q on connection c
    got        \* got[p][k][q]: what p received from q in operation k

vars == <<game, at, stream, sender, receiver, wire, got>>

num_players == game.n
Players == 0 .. num_players - 1
Others(p) == Players \ {p}
get_player(p, offset) == (p + offset) % num_players

Idle == 0
NewThread == [in |-> <<>>, out |-> <<>>, busy |-> Idle]

Init ==
    /\ game \in Games
    /\ at = [p \in Players |-> [phase |-> "connect", op |-> 0, call |-> 1]]
    /\ stream = [p \in Players |-> 0]
    /\ sender = [p \in Players |-> [q \in Others(p) |-> NewThread]]
    /\ receiver = [p \in Players |-> [q \in Others(p) |-> NewThread]]
    /\ wire = [c \in 0 .. 1 |-> [p \in Players |-> [q \in Others(p) |-> <<>>]]]
    /\ got = [p \in Players |-> [k \in 1 .. Len(game.ops) |-> [q \in Others(p) |-> <<>>]]]
-----------------------------------------------------------------------------
(* The handshakes of the constructor, in order.                            *)
(* Mutant: everybody begins with the next party.                           *)
Swapped_never(p, offset) == FALSE
Swapped(p, offset) == p % (2 * offset) < offset

(* The k-th other party p connects to: two for every offset, but one for   *)
(* the last when the number of parties is even.                            *)
Other(p, k) ==
    LET offset == (k + 1) \div 2  first == k % 2 = 1 IN
    IF first # Swapped(p, offset) THEN get_player(p, offset) ELSE get_player(p, -offset)

(* connect(): both connections, a handshake each.                          *)
NHandshakes == 2 * (num_players - 1)
Handshake(p, i) == [other |-> Other(p, (i + 1) \div 2), c |-> (i + 1) % 2]

(* A handshake ends when both sides have begun it.                         *)
Begun(q, h) ==
    \E i \in 1 .. (IF at[q].phase = "connect" THEN at[q].call ELSE NHandshakes) :
        Handshake(q, i) = h

CanConnect(p) ==
    LET h == Handshake(p, at[p].call) IN
    at[p].phase = "connect" /\ Begun(h.other, [other |-> p, c |-> h.c])

Connect(p) ==
    /\ CanConnect(p)
    /\ at' = [at EXCEPT ![p] =
         IF @.call < NHandshakes THEN [@ EXCEPT !.call = @ + 1]
         ELSE [phase |-> "run", op |-> 0, call |-> 1]]
    /\ UNCHANGED <<game, stream, sender, receiver, wire, got>>

(* The connection that p sends to q on, and that q receives from p on.     *)
SendsOn(p, q) == IF q < p THEN 0 ELSE 1

(* Mutant: receives on the connection that it sends on.                    *)
ReceivesOn_same(q, p) == IF p < q THEN 0 ELSE 1
ReceivesOn(q, p) == IF p < q THEN 1 ELSE 0
-----------------------------------------------------------------------------
(* An operation is a sequence of requests to the threads and waits.        *)
Call(what, other) == <<[what |-> what, other |-> other]>>
CallIf(condition, what, other) == IF condition THEN Call(what, other) ELSE <<>>

(* pass_around, and exchange where next and previous are the same.         *)
(* Mutant: does not wait for the sender.                                   *)
PassAround_no_wait(next, previous) ==
    Call("send", next) \o Call("receive", previous) \o Call("wait_receive", previous)
PassAround(next, previous) ==
    Call("send", next) \o Call("receive", previous)
      \o Call("wait_send", next) \o Call("wait_receive", previous)

(* The two loops of send_receive_all, partial_broadcast and                *)
(* Broadcast_Receive, which is that on all channels.                       *)
Loop(p, channels, send, receive) ==
    LET from[offset \in 0 .. num_players - 1] ==
          IF offset = 0 THEN <<>>
          ELSE LET other == get_player(p, offset) IN
               from[offset - 1] \o CallIf(<<p, other>> \in channels, send, other)
                                \o CallIf(<<other, p>> \in channels, receive, other)
    IN  from[num_players - 1]

SendReceiveAll(p, channels) ==
    Loop(p, channels, "send", "receive") \o Loop(p, channels, "wait_send", "wait_receive")

(* send_to and receive_player on the two sides.                            *)
SendTo(p, from, to) ==
    CASE p = from -> Call("send", to) \o Call("wait_send", to)
      [] p = to -> Call("receive", from) \o Call("wait_receive", from)
      [] OTHER -> <<>>

(* pass_around and exchange with one stream to send and receive go without *)
(* the threads, on connection 0 both ways.                                 *)
InPlace(next, previous) == Call("write", next) \o Call("read", previous)

Partner(p, op) == IF p = op.a THEN op.b ELSE op.a

Calls(p, op) ==
    CASE op.type = "pass_around" ->
           PassAround(get_player(p, op.offset), get_player(p, -op.offset))
      [] op.type = "pass_around_in_place" ->
           InPlace(get_player(p, op.offset), get_player(p, -op.offset))
      [] op.type = "send_receive_all" -> SendReceiveAll(p, op.channels)
      [] op.type = "send_to" -> SendTo(p, op.a, op.b)
      [] op.type = "exchange" /\ p \in {op.a, op.b} -> PassAround(Partner(p, op), Partner(p, op))
      [] op.type = "exchange_in_place" /\ p \in {op.a, op.b} -> InPlace(Partner(p, op), Partner(p, op))
      [] OTHER -> <<>>

Current(p) == IF at[p].op = 0 THEN <<>> ELSE Calls(p, game.ops[at[p].op])
AtCall(p, what) ==
    /\ at[p].phase = "run" /\ at[p].call \in DOMAIN Current(p)
    /\ Current(p)[at[p].call].what = what
Peer(p) == Current(p)[at[p].call].other
Proceed(p) == at' = [at EXCEPT ![p].call = @ + 1]

(* The caller fills its stream and begins the next operation, or is done   *)
(* and destroys the player.                                                *)
NextOperation(p) ==
    /\ at[p].phase = "run"
    /\ at[p].call > Len(Current(p))
    /\ IF at[p].op < Len(game.ops)
         THEN /\ at' = [at EXCEPT ![p].op = @ + 1, ![p].call = 1]
              /\ stream' = [stream EXCEPT ![p] = at[p].op + 1]
         ELSE at' = [at EXCEPT ![p].phase = "destroyed"] /\ UNCHANGED stream
    /\ UNCHANGED <<game, sender, receiver, wire, got>>

RequestSend(p) ==
    /\ AtCall(p, "send")
    /\ sender' = [sender EXCEPT ![p][Peer(p)].in = Append(@, at[p].op)]
    /\ Proceed(p)
    /\ UNCHANGED <<game, stream, receiver, wire, got>>

RequestReceive(p) ==
    /\ AtCall(p, "receive")
    /\ receiver' = [receiver EXCEPT ![p][Peer(p)].in = Append(@, at[p].op)]
    /\ Proceed(p)
    /\ UNCHANGED <<game, stream, sender, wire, got>>

(* wait(): the stream that comes out must be the one asked for, or         *)
(* not_implemented is thrown.                                              *)
Waited(p, queued) ==
    at' = [at EXCEPT ![p] = IF queued = at[p].op THEN [@ EXCEPT !.call = @ + 1]
                            ELSE [@ EXCEPT !.phase = "throws"]]

WaitSend(p) ==
    /\ AtCall(p, "wait_send") /\ sender[p][Peer(p)].out # <<>>
    /\ sender' = [sender EXCEPT ![p][Peer(p)].out = Tail(@)]
    /\ Waited(p, Head(sender[p][Peer(p)].out))
    /\ UNCHANGED <<game, stream, receiver, wire, got>>

WaitReceive(p) ==
    /\ AtCall(p, "wait_receive") /\ receiver[p][Peer(p)].out # <<>>
    /\ receiver' = [receiver EXCEPT ![p][Peer(p)].out = Tail(@)]
    /\ Waited(p, Head(receiver[p][Peer(p)].out))
    /\ UNCHANGED <<game, stream, sender, wire, got>>

(* octetStream::exchange.  Over TLS its send_non_blocking is write_some,   *)
(* which waits for room.  How the parts of long messages are interleaved   *)
(* is the subject of Exchanger; here a message goes in one piece.          *)
Write(p) ==
    /\ AtCall(p, "write") /\ Len(wire[0][p][Peer(p)]) < Capacity
    /\ wire' = [wire EXCEPT ![0][p][Peer(p)] = Append(@, <<p, stream[p]>>)]
    /\ Proceed(p)
    /\ UNCHANGED <<game, stream, sender, receiver, got>>

Read(p) ==
    LET q == Peer(p) IN
    /\ AtCall(p, "read") /\ wire[0][q][p] # <<>>
    /\ wire' = [wire EXCEPT ![0][q][p] = Tail(@)]
    /\ got' = [got EXCEPT ![p][at[p].op][q] = Head(wire[0][q][p])]
    /\ Proceed(p)
    /\ UNCHANGED <<game, stream, sender, receiver>>
-----------------------------------------------------------------------------
(* Sender::run and Receiver::run.                                          *)
Pop(t) == [t EXCEPT !.busy = Head(t.in), !.in = Tail(t.in)]
Done(t) == [t EXCEPT !.busy = Idle, !.out = Append(t.out, t.busy)]

SenderPops(p, q) ==
    /\ sender[p][q].busy = Idle /\ sender[p][q].in # <<>>
    /\ sender' = [sender EXCEPT ![p][q] = Pop(@)]
    /\ UNCHANGED <<game, at, stream, receiver, wire, got>>

SenderSends(p, q) ==
    LET c == SendsOn(p, q) IN
    /\ sender[p][q].busy # Idle
    /\ Len(wire[c][p][q]) < Capacity
    /\ wire' = [wire EXCEPT ![c][p][q] = Append(@, <<p, stream[p]>>)]
    /\ sender' = [sender EXCEPT ![p][q] = Done(@)]
    /\ UNCHANGED <<game, at, stream, receiver, got>>

ReceiverPops(p, q) ==
    /\ receiver[p][q].busy = Idle /\ receiver[p][q].in # <<>>
    /\ receiver' = [receiver EXCEPT ![p][q] = Pop(@)]
    /\ UNCHANGED <<game, at, stream, sender, wire, got>>

ReceiverReceives(p, q) ==
    LET c == ReceivesOn(p, q) IN
    /\ receiver[p][q].busy # Idle
    /\ wire[c][q][p] # <<>>
    /\ wire' = [wire EXCEPT ![c][q][p] = Tail(@)]
    /\ got' = [got EXCEPT ![p][receiver[p][q].busy][q] = Head(wire[c][q][p])]
    /\ receiver' = [receiver EXCEPT ![p][q] = Done(@)]
    /\ UNCHANGED <<game, at, stream, sender>>

Main(p) ==
    \/ Connect(p) \/ NextOperation(p) \/ RequestSend(p) \/ RequestReceive(p)
    \/ WaitSend(p) \/ WaitReceive(p) \/ Write(p) \/ Read(p)
Sends(p, q) == SenderPops(p, q) \/ SenderSends(p, q)
Receives(p, q) == ReceiverPops(p, q) \/ ReceiverReceives(p, q)

Next ==
    \E p \in Players :
        \/ Main(p)
        \/ \E q \in Others(p) : Sends(p, q) \/ Receives(p, q)

(* As long as some thread can go on, one does; no step can be repeated for *)
(* ever, so this is all that is needed.                                    *)
Fairness == WF_vars(Next)

Spec == Init /\ [][Next]_vars /\ Fairness
-----------------------------------------------------------------------------
(* The type invariant.                                                     *)
Thread == [in : Seq(1 .. Len(game.ops)), out : Seq(1 .. Len(game.ops)), busy : 0 .. Len(game.ops)]
TypeOK ==
    \A p \in Players :
        /\ at[p].phase \in {"connect", "run", "destroyed", "throws"}
        /\ at[p].op \in 0 .. Len(game.ops)
        /\ stream[p] = at[p].op
        /\ \A q \in Others(p) : sender[p][q] \in Thread /\ receiver[p][q] \in Thread

(* What an operation received is what the peer put in its stream for the   *)
(* same operation, though the peer has filled that stream again and is     *)
(* operations ahead (CryptoPlayer.cpp:168-278).                            *)
Delivered ==
    \A p \in Players : \A k \in 1 .. Len(game.ops) : \A q \in Others(p) :
        got[p][k][q] \in {<<>>, <<q, k>>}

(* wait() always finds the stream it was called for: "throw                *)
(* not_implemented()" (Sender.cpp:76-77, Receiver.cpp:80-81) is not        *)
(* reached.                                                                *)
NobodyThrows == \A p \in Players : at[p].phase # "throws"

(* The destructor deletes the sockets before it stops the threads          *)
(* (CryptoPlayer.cpp:115-124): no thread is using one then, and nothing is *)
(* left in a queue or on a connection that nobody will read.               *)
NothingPending ==
    \A p \in Players : at[p].phase = "destroyed" =>
        \A q \in Others(p) :
            /\ sender[p][q] = NewThread /\ receiver[p][q] = NewThread
            /\ \A c \in 0 .. 1 : wire[c][q][p] = <<>>

(* The order of the handshakes locks nobody up: as long as somebody has    *)
(* some to make, two parties are at the same one (CryptoPlayer.cpp:72-83). *)
NoLockup ==
    (\E p \in Players : at[p].phase = "connect") => \E p \in Players : CanConnect(p)

(* The handshakes and the operations end, although the threads' peers and  *)
(* full connections hold them up.                                          *)
Completes == <>(\A p \in Players : at[p].phase = "destroyed")
=============================================================================
