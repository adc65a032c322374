----------------------------- MODULE Exchanger ------------------------------
(***************************************************************************)
(* Networking/Exchanger.h: a player sends one stream while it receives     *)
(* another, on sockets whose buffers may be smaller than either.  It is    *)
(* behind octetStream::exchange(), hence MultiPlayer::exchange_no_stats    *)
(* and pass_around_no_stats (one exchanger, blocking rounds), and behind   *)
(* Broadcast_Receive_no_stats (one exchanger per other player, rounds that *)
(* never block).                                                           *)
(*                                                                         *)
(* The conf record fixes the number n of players, who exchanges            *)
(* with whom (broadcast, or one exchanger at an offset), whether sockets   *)
(* are SSL streams, whether the stream received to is the stream sent      *)
(* from (same), the capacity mxlen of that stream, and the lengths of the  *)
(* messages of each of the exchanges, which follow each other on the same  *)
(* sockets.  A player may leave (its process ends) if conf.leaves.         *)
(*                                                                         *)
(* A byte is known by whose message it is, in which exchange, and where in *)
(* it.  That is for the properties: the program sees the value n only      *)
(* where it decodes a length.                                              *)
(***************************************************************************)
EXTENDS Integers, Sequences, FiniteSetsExt

CONSTANTS
    Confs,         \* the configurations looked at
    LENGTH_SIZE,   \* bytes of an encoded length
    Buffer,        \* bytes a connection holds in one direction
    Record         \* most bytes SSL writes at a time

VARIABLES
    conf,
    chan,          \* chan[p, q]: bytes on their way from p to q
    pc,            \* where in exchange() or Broadcast_Receive() a player is
    turn,          \* how many exchanges a player has begun
    cur,           \* the exchanger a player is at
    left,          \* whether some exchanger of this pass has more to do
    ex,            \* the exchangers of each player
    stream,        \* the contents of each exchanger's receive_stream
    moved,         \* the shared stream was reallocated since `data' was read
    got            \* what each exchange delivered (for the properties)

(* There are peers to talk to, lengths for every exchange, and a broadcast *)
(* receives to streams of its own (o[receive_from], Player.cpp:509).       *)
ASSUME ConfsOK ==
    /\ LENGTH_SIZE \in Nat \ {0} /\ Buffer \in Nat /\ Record \in Nat
    /\ \A c \in Confs :
         /\ c.n \in Nat \ {0, 1} /\ c.offset \in 1 .. c.n - 1
         /\ {c.broadcast, c.ssl, c.same, c.leaves} \subseteq BOOLEAN
         /\ c.len \in Seq([0 .. c.n - 1 -> Nat]) /\ c.len # <<>>
         /\ c.mxlen \in [0 .. c.n - 1 -> Nat]
         /\ c.same => ~c.broadcast

vars == <<conf, chan, pc, turn, cur, left, ex, stream, moved, got>>

Players == 0 .. conf.n - 1
Exchangers == IF conf.broadcast THEN 1 .. conf.n - 1 ELSE {1}
n_turns == Len(conf.len)

offset(i) == IF conf.broadcast THEN i ELSE conf.offset
send_to(p, i) == (p + offset(i)) % conf.n
receive_from(p, i) == (p + conf.n - offset(i)) % conf.n

Byte(p, t, k) == [is |-> "byte", by |-> p, turn |-> t, n |-> k]
Message(p, t) == [k \in 1 .. conf.len[t][p] |-> Byte(p, t, k)]
Header(p, t) == [is |-> "len", by |-> p, turn |-> t, n |-> conf.len[t][p]]
Junk(p, t) == [is |-> "junk", by |-> p, turn |-> t, n |-> 0]

len(p) == conf.len[turn[p]][p]

NewExchanger ==
    [header |-> 0, sent |-> 0, received |-> 0, new_len |-> 0,
     length_received |-> FALSE]

(* The stream that exchanger receives to, before anything is received.  A  *)
(* separate one has contents that nobody looks at.                         *)
NewStream(p, t) == IF conf.same THEN Message(p, t) ELSE <<>>

Init ==
    /\ conf \in Confs
    /\ chan = [pq \in Players \X Players |-> <<>>]
    /\ pc = [p \in Players |-> "ctor"]
    /\ turn = [p \in Players |-> 1]
    /\ cur = [p \in Players |-> 1]
    /\ left = [p \in Players |-> FALSE]
    /\ ex = [p \in Players |-> [i \in Exchangers |-> NewExchanger]]
    /\ stream = [p \in Players |-> [i \in Exchangers |-> NewStream(p, 1)]]
    /\ moved = [p \in Players |-> FALSE]
    /\ got = [p \in Players |-> <<>>]
-----------------------------------------------------------------------------
Ended(p) == pc[p] \in {"gone", "failed"}

room(p, q) == Buffer - Len(chan[<<p, q>>])

Fail(p) ==
    /\ pc' = [pc EXCEPT ![p] = "failed"]
    /\ UNCHANGED <<conf, chan, turn, cur, left, ex, stream, moved, got>>

(* A send to a player whose process has ended fails at the latest when no  *)
(* more fits the connection.                                               *)
SendFails(p) ==
    LET i == cur[p] IN
    /\ \/ pc[p] = "ctor"
       \/ pc[p] = "send" /\ ex[p][i].sent < len(p)
    /\ Ended(send_to(p, i))
    /\ Fail(p)

(* The constructor sends the length, and does not return before.           *)
Construct(p) ==
    LET i == cur[p]
        q == send_to(p, i)
        e == ex[p][i] IN
    /\ pc[p] = "ctor"
    /\ room(p, q) > 0
    /\ chan' = [chan EXCEPT ![<<p, q>>] = Append(@, Header(p, turn[p]))]
    /\ ex' = [ex EXCEPT ![p][i].header = e.header + 1]
    /\ IF e.header + 1 < LENGTH_SIZE
         THEN UNCHANGED <<pc, cur>>
         ELSE IF i + 1 \in Exchangers
           THEN cur' = [cur EXCEPT ![p] = i + 1] /\ UNCHANGED pc
           ELSE /\ cur' = [cur EXCEPT ![p] = 1]
                /\ pc' = [pc EXCEPT ![p] = "send"]
    /\ UNCHANGED <<conf, turn, left, stream, moved, got>>

(* What send_non_blocking takes at `data + sent'.  `data' is the address   *)
(* the stream had when the exchanger was made: after the stream has moved  *)
(* it points to freed memory, which may or may not still hold the bytes.   *)
Data(p) ==
    LET s == IF conf.same THEN stream[p][1] ELSE Message(p, turn[p]) IN
    IF moved[p]
          THEN {s, [k \in DOMAIN s |-> Junk(p, turn[p])]}
          ELSE {s}

(* How many bytes a call writes: a plain socket takes none when it is full *)
(* and the call returns, unless the other end is closed; an SSL stream     *)
(* waits until it can write.                                               *)
written(p, q, to_send) ==
    IF conf.ssl THEN 1 .. Min({to_send, room(p, q), Record})
    ELSE IF room(p, q) = 0 THEN IF Ended(q) THEN {} ELSE {0}
    ELSE 1 .. Min({to_send, room(p, q)})

(* Mutant: sends everything before it receives anything.                   *)
Send_blocking(p) ==
    LET i == cur[p]
        q == send_to(p, i)
        e == ex[p][i] IN
    /\ pc[p] = "send"
    /\ \E newly_sent \in 0 .. Min({len(p) - e.sent, room(p, q)}), d \in Data(p) :
         /\ newly_sent = 0 => e.sent = len(p)
         /\ chan' = [chan EXCEPT ![<<p, q>>] =
                       @ \o SubSeq(d, e.sent + 1, e.sent + newly_sent)]
         /\ ex' = [ex EXCEPT ![p][i].sent = e.sent + newly_sent]
         /\ pc' = [pc EXCEPT ![p] = IF e.sent + newly_sent = len(p) THEN "recv" ELSE "send"]
    /\ UNCHANGED <<conf, turn, cur, left, stream, moved, got>>

(* The first half of round().                                              *)
Send(p) ==
    LET i == cur[p]
        q == send_to(p, i)
        e == ex[p][i] IN
    /\ pc[p] = "send"
    /\ pc' = [pc EXCEPT ![p] = "recv"]
    /\ IF e.sent < len(p)
         THEN \E newly_sent \in written(p, q, len(p) - e.sent), d \in Data(p) :
                /\ chan' = [chan EXCEPT ![<<p, q>>] =
                              @ \o SubSeq(d, e.sent + 1, e.sent + newly_sent)]
                /\ ex' = [ex EXCEPT ![p][i].sent = e.sent + newly_sent]
         ELSE UNCHANGED <<chan, ex>>
    /\ UNCHANGED <<conf, turn, cur, left, stream, moved, got>>
-----------------------------------------------------------------------------
(* Mutant: receives into a shared stream without regard to what was sent.  *)
to_receive_all(p, i) == ex[p][i].new_len - ex[p][i].received

(* How many bytes round() tries to receive: with a shared stream no more   *)
(* than has been sent, until all is.                                       *)
to_receive(p, i) ==
    LET e == ex[p][i] IN
    IF e.sent = len(p) \/ ~conf.same THEN e.new_len - e.received
    ELSE IF e.sent > e.received THEN e.sent - e.received
    ELSE 0

(* Mutant: never waits, so that a closed connection goes unnoticed.        *)
Blocks_never(p, i) == FALSE

(* Whether the receiving call waits for data: when all is sent and round() *)
(* may block, and always on SSL streams.                                   *)
Blocks(p, i) == conf.ssl \/ (~conf.broadcast /\ ex[p][i].sent = len(p))

(* Mutant: does not wait for the length.                                   *)
More_no_length(e, l) == e.received < e.new_len \/ e.sent < l

(* What round() returns, and what follows it: the next exchanger, another  *)
(* pass, or the end of the exchange, when the receive_streams are handed   *)
(* to the caller.                                                          *)
More(e, l) == e.received < e.new_len \/ e.sent < l \/ ~e.length_received

EndRound(p, e, s, m) ==
    LET i == cur[p]
        any == left[p] \/ More(e, len(p))
        results == [stream[p] EXCEPT ![i] = s]
        delivered(j) == SubSeq(results[j], 1, IF j = i THEN e.new_len ELSE ex[p][j].new_len)
    IN
    IF i + 1 \in Exchangers \/ any
      THEN /\ pc' = [pc EXCEPT ![p] = "send"]
           /\ cur' = [cur EXCEPT ![p] = IF i + 1 \in Exchangers THEN i + 1 ELSE 1]
           /\ left' = [left EXCEPT ![p] = i + 1 \in Exchangers /\ any]
           /\ ex' = [ex EXCEPT ![p][i] = e]
           /\ stream' = [stream EXCEPT ![p][i] = s]
           /\ moved' = [moved EXCEPT ![p] = m]
           /\ UNCHANGED <<turn, got>>
      ELSE /\ got' = [got EXCEPT ![p] = Append(@, [j \in Exchangers |-> delivered(j)])]
           /\ cur' = [cur EXCEPT ![p] = 1]
           /\ left' = [left EXCEPT ![p] = FALSE]
           /\ moved' = [moved EXCEPT ![p] = FALSE]
           /\ ex' = [ex EXCEPT ![p] = [j \in Exchangers |-> NewExchanger]]
           /\ IF turn[p] < n_turns
                THEN /\ turn' = [turn EXCEPT ![p] = @ + 1]
                     /\ pc' = [pc EXCEPT ![p] = "ctor"]
                     /\ stream' = [stream EXCEPT ![p] =
                                     [j \in Exchangers |-> NewStream(p, turn[p] + 1)]]
                ELSE /\ pc' = [pc EXCEPT ![p] = "done"]
                     /\ UNCHANGED turn
                     /\ stream' = [stream EXCEPT ![p][i] = s]

(* The contents of a stream after bytes were written at a position.        *)
Written(s, at, bytes) ==
    [k \in 1 .. Max({Len(s), at + Len(bytes)}) |->
        IF k \in at + 1 .. at + Len(bytes) THEN bytes[k - at] ELSE s[k]]

(* The second half of round() when there are bytes to receive.             *)
ReceiveData(p) ==
    LET i == cur[p]
        q == receive_from(p, i)
        e == ex[p][i]
        l == to_receive(p, i) IN
    /\ pc[p] = "recv"
    /\ e.received < e.new_len
    /\ \E newly_received \in 0 .. Min({l, Len(chan[<<q, p>>])}) :
         /\ newly_received = 0 => l = 0 \/ (chan[<<q, p>>] = <<>> /\ ~Blocks(p, i))
         /\ chan' = [chan EXCEPT ![<<q, p>>] = SubSeq(@, newly_received + 1, Len(@))]
         /\ EndRound(p, [e EXCEPT !.received = @ + newly_received],
                     Written(stream[p][i], e.received, SubSeq(chan[<<q, p>>], 1, newly_received)), moved[p])
    /\ UNCHANGED conf

(* Whether receive_stream.resize() moves the stream that is sent from: it  *)
(* allocates anew unless the capacity is larger than both lengths.         *)
moves(p, new_len) ==
    conf.same /\ LET l == Max({new_len, len(p)}) IN l > 0 /\ l >= conf.mxlen[p]

(* When the length is still to come: it is taken as a whole or not at all. *)
ReceiveLength(p) ==
    LET i == cur[p]
        q == receive_from(p, i)
        e == ex[p][i]
        new_len == Head(chan[<<q, p>>]).n IN
    /\ pc[p] = "recv"
    /\ e.received >= e.new_len
    /\ ~e.length_received
    /\ \/ /\ Len(chan[<<q, p>>]) < LENGTH_SIZE
          /\ ~Blocks(p, i)
          /\ EndRound(p, e, stream[p][i], moved[p])
          /\ UNCHANGED chan
       \/ /\ Len(chan[<<q, p>>]) >= LENGTH_SIZE
          /\ chan' = [chan EXCEPT ![<<q, p>>] = SubSeq(@, LENGTH_SIZE + 1, Len(@))]
          /\ EndRound(p, [e EXCEPT !.new_len = new_len, !.length_received = TRUE],
                      stream[p][i], moves(p, new_len))
    /\ UNCHANGED conf

(* When everything was received: only the sending half had work to do.     *)
ReceiveNothing(p) ==
    LET i == cur[p]
        e == ex[p][i] IN
    /\ pc[p] = "recv"
    /\ e.received >= e.new_len
    /\ e.length_received
    /\ EndRound(p, e, stream[p][i], moved[p])
    /\ UNCHANGED <<conf, chan>>

(* A blocking receive from a player whose process has ended finds the      *)
(* connection closed, once it has taken what was sent.                     *)
ReceiveFails(p) ==
    LET i == cur[p]
        q == receive_from(p, i)
        e == ex[p][i] IN
    /\ pc[p] = "recv"
    /\ Ended(q)
    /\ Blocks(p, i)
    /\ \/ e.received < e.new_len /\ to_receive(p, i) > 0 /\ chan[<<q, p>>] = <<>>
       \/ e.received >= e.new_len /\ ~e.length_received /\ Len(chan[<<q, p>>]) < LENGTH_SIZE
    /\ Fail(p)

(* The process of a player ends during an exchange.                        *)
Leave(p) ==
    /\ conf.leaves
    /\ \A q \in Players : ~Ended(q)
    /\ pc[p] \in {"ctor", "send", "recv"}
    /\ pc' = [pc EXCEPT ![p] = "gone"]
    /\ UNCHANGED <<conf, chan, turn, cur, left, ex, stream, moved, got>>

Exchange(p) ==
    \/ Construct(p) \/ Send(p) \/ SendFails(p)
    \/ ReceiveData(p) \/ ReceiveLength(p) \/ ReceiveNothing(p) \/ ReceiveFails(p)

Next == \E p \in Players : Exchange(p) \/ Leave(p)

(* Every player is a thread that runs.                                     *)
AllPlayers == UNION {0 .. c.n - 1 : c \in Confs}
Fairness == \A p \in AllPlayers : WF_vars(p \in Players /\ Exchange(p))

Spec == Init /\ [][Next]_vars /\ Fairness
-----------------------------------------------------------------------------
Bytes ==
    [is : {"byte", "len", "junk"}, by : Players, turn : 1 .. n_turns, n : Nat]

(* The type invariant; no connection holds more than its buffer, and no    *)
(* exchanger counts further than its lengths (round(), lines 60-119).      *)
TypeOK ==
    /\ conf \in Confs
    /\ \A pq \in Players \X Players :
         chan[pq] \in Seq(Bytes) /\ Len(chan[pq]) <= Buffer
    /\ pc \in [Players -> {"ctor", "send", "recv", "done", "gone", "failed"}]
    /\ turn \in [Players -> 1 .. n_turns]
    /\ cur \in [Players -> Exchangers]
    /\ left \in [Players -> BOOLEAN]
    /\ \A p \in Players, i \in Exchangers :
         /\ ex[p][i].header \in 0 .. LENGTH_SIZE
         /\ ex[p][i].sent \in 0 .. len(p)
         /\ ex[p][i].received \in 0 .. ex[p][i].new_len
         /\ ex[p][i].length_received \in BOOLEAN
         /\ stream[p][i] \in Seq(Bytes)
    /\ moved \in [Players -> BOOLEAN]
    /\ \A p \in Players : got[p] \in Seq([Exchangers -> Seq(Bytes)])

(* Each exchange hands its caller exactly the message the other player     *)
(* sent in its exchange of that number, whatever the lengths, however the  *)
(* bytes are cut up, and although a fast player's next message follows on  *)
(* the same socket (octetStream::exchange, Broadcast_Receive_no_stats).    *)
Delivered ==
    \A p \in Players, i \in Exchangers : \A t \in DOMAIN got[p] :
        got[p][t][i] = Message(receive_from(p, i), t)

(* With one stream for both directions, what is not sent yet is not        *)
(* overwritten by what arrives ("only receive up to already sent data",    *)
(* Exchanger.h:84-86).                                                     *)
UnsentIntact ==
    conf.same =>
        \A p \in Players : pc[p] \in {"ctor", "send", "recv"} =>
            \A k \in ex[p][1].sent + 1 .. len(p) :
                stream[p][1][k] = Byte(p, turn[p], k)

(* Nobody waits for ever: although every player may send more than the     *)
(* connections hold before anyone receives, all exchanges end ("avoid      *)
(* problems with OS max buffer size", Player.cpp:495-497).                 *)
Completes == ~conf.leaves => <>(\A p \in Players : pc[p] = "done")

(* A player whose peer's process ends notices it in an exchange (the       *)
(* closed_connection and error() calls of sockets.h).  Not so in a         *)
(* broadcast: a non-blocking receive takes a closed connection for one     *)
(* without data.                                                           *)
PeerLossNoticed ==
    conf.leaves /\ ~conf.broadcast =>
        <>(\A p \in Players : pc[p] \in {"done", "gone", "failed"})
=============================================================================
