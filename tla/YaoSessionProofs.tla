-------------------------- MODULE YaoSessionProofs --------------------------
(***************************************************************************)
(* Proofs about YaoSession.                                                *)
(***************************************************************************)
EXTENDS YaoSession, SequenceTheorems, TLAPS

(* The variables as functions of parties and threads.  A thread in         *)
(* execute() has not yet counted a whole batch.                            *)
ThreadStates == [at : Places[0] \union Places[1], tape : DOMAIN session.tapes, run : Nat,
                 PC : Nat \ {0}, last : {"time", "done"}, complexity : 0 .. BatchSize,
                 tainted : BOOLEAN, reg : BOOLEAN]

Grid(S) == [Parties -> [Threads -> S]]

ThOK ==
    /\ th \in Grid(ThreadStates)
    /\ \A p \in Parties, t \in Threads :
         /\ th[p][t].at \in Places[p]
         /\ th[p][t].at \in {"exec", "keys"} => th[p][t].complexity < BatchSize

BuffersOK ==
    /\ gates \in Grid(Seq(Positions)) /\ masks \in Grid(Seq(Positions))
    /\ keys \in [Threads -> Seq(Positions)] /\ store \in [Threads -> Seq(Batches)]

ChannelsOK ==
    /\ chan \in Grid(Seq(Messages[0] \union Messages[1])) /\ ot \in Grid(Seq(Positions))
    /\ \A p \in Parties, t \in Threads :
         /\ chan[p][t] \in Seq(Messages[p])
         /\ Len(chan[p][t]) <= Capacity /\ Len(ot[p][t]) <= Capacity

QueuesOK ==
    /\ queue \in Grid(Seq(DOMAIN session.tapes))
    /\ stopped \in Grid(BOOLEAN) /\ done \in Grid(Nat)
    /\ master \in [Parties -> [at : {"start", "stop", "join", "sync", "exit"}, thread : Threads]]

Types ==
    /\ IsSession(session)
    /\ ThOK /\ BuffersOK /\ ChannelsOK /\ QueuesOK
    /\ failure \in [Parties -> {"none", "overflow", "misread", "branching"}]

LEMMA InitTypes == Init => Types
<1> SUFFICES ASSUME Init PROVE Types
  OBVIOUS
<1>1. IsSession(session)
  BY SessionsOK DEF Init
<1>0. 0 \in Threads /\ 0 \in DOMAIN session.tapes
  BY <1>1, BoundsOK DEF Threads, IsSession
<1>2. ThOK
  BY <1>0, BoundsOK DEF Init, ThOK, ThreadStates, Grid, Places, Parties
<1>3. BuffersOK
  BY DEF Init, BuffersOK, Grid
<1>4. ChannelsOK
  BY BoundsOK DEF Init, ChannelsOK, Grid
<1>5. QueuesOK
  BY <1>0 DEF Init, QueuesOK, Grid
<1>6. QED
  BY <1>1, <1>2, <1>3, <1>4, <1>5 DEF Init, Types

(* What the invariant says in TypeOK's words.                              *)
LEMMA TypesGiveTypeOK == Types => TypeOK
<1> SUFFICES ASSUME Types PROVE TypeOK
  OBVIOUS
<1>1. ASSUME NEW p \in Parties, NEW t \in Threads
      PROVE  th[p][t] \in [at : Places[p], tape : DOMAIN session.tapes, run : Nat, PC : Nat,
                           last : {"time", "done"}, complexity : 0 .. BatchSize,
                           tainted : BOOLEAN, reg : BOOLEAN]
  <2>1. th[p][t] \in ThreadStates /\ th[p][t].at \in Places[p]
    BY DEF Types, ThOK, Grid
  <2>2. QED
    BY <2>1 DEF ThreadStates
<1>2. ASSUME NEW p \in Parties, NEW t \in Threads
      PROVE  /\ gates[p][t] \in Seq(Positions) /\ masks[p][t] \in Seq(Positions)
             /\ chan[p][t] \in Seq(Messages[p]) /\ Len(chan[p][t]) <= Capacity
             /\ ot[p][t] \in Seq(Positions) /\ Len(ot[p][t]) <= Capacity
             /\ queue[p][t] \in Seq(DOMAIN session.tapes)
             /\ stopped[p][t] \in BOOLEAN
             /\ done[p][t] \in Nat
  BY DEF Types, BuffersOK, ChannelsOK, QueuesOK, Grid
<1>3. QED
  BY <1>1, <1>2 DEF Types, TypeOK, BuffersOK, QueuesOK

LEMMA AppendOK ==
  ASSUME NEW S, NEW s \in Seq(S), NEW x \in S
  PROVE  /\ Append(s, x) \in Seq(S) /\ Len(s) \in Nat
         /\ Len(Append(s, x)) = Len(s) + 1
         /\ \A j \in 1 .. Len(s) : Append(s, x)[j] = s[j]
         /\ Append(s, x)[Len(s) + 1] = x
         /\ Append(s, x) # <<>>
OBVIOUS

LEMMA TailOK ==
  ASSUME NEW S, NEW s \in Seq(S), s # <<>>
  PROVE  /\ Head(s) \in S /\ Head(s) = s[1]
         /\ Tail(s) \in Seq(S) /\ Len(s) \in Nat \ {0}
         /\ Len(Tail(s)) = Len(s) - 1
         /\ \A j \in 1 .. Len(s) - 1 : Tail(s)[j] = s[j + 1]
OBVIOUS

(* Only the named entry of a grid changes.                                 *)
Elsewhere(f, g, p, t) ==
    \A q \in Parties, u \in Threads : <<q, u>> # <<p, t>> => g[q][u] = f[q][u]

(* What the actions' parts do to the types.                                *)
LEMMA ThUpdate ==
  ASSUME ThOK, NEW p \in Parties, NEW t \in Threads, NEW x \in ThreadStates,
         x.at \in Places[p], x.at \in {"exec", "keys"} => x.complexity < BatchSize,
         Becomes(p, t, x), session' = session
  PROVE  /\ ThOK'
         /\ th'[p][t] = x
         /\ \A q \in Parties, u \in Threads : <<q, u>> # <<p, t>> => th'[q][u] = th[q][u]
<1>1. /\ th' \in Grid(ThreadStates) /\ th'[p][t] = x
      /\ \A q \in Parties, u \in Threads : <<q, u>> # <<p, t>> => th'[q][u] = th[q][u]
  <2>1. th \in Grid(ThreadStates)
    BY DEF ThOK
  <2>2. th' = [th EXCEPT ![p][t] = x]
    BY DEF Becomes
  <2>3. QED
    BY <2>1, <2>2 DEF Grid
<1>2. ThreadStates' = ThreadStates
  BY DEF ThreadStates
<1>3. QED
  <2>1. ASSUME NEW q \in Parties, NEW u \in Threads
        PROVE  /\ th'[q][u].at \in Places[q]
               /\ th'[q][u].at \in {"exec", "keys"} => th'[q][u].complexity < BatchSize
    <3>1. CASE q = p /\ u = t
      BY <3>1, <1>1
    <3>2. CASE <<q, u>> # <<p, t>>
      BY <3>2, <1>1 DEF ThOK
    <3>3. QED
      BY <3>1, <3>2
  <2>2. QED
    BY <1>1, <1>2, <2>1 DEF ThOK, Grid

LEMMA SendUpdate ==
  ASSUME ChannelsOK, NEW p \in Parties, NEW t \in Threads, NEW msg \in Messages[p],
         Send(p, t, msg), ot' = ot
  PROVE  /\ ChannelsOK'
         /\ chan'[p][t] = Append(chan[p][t], msg)
         /\ \A q \in Parties, u \in Threads : <<q, u>> # <<p, t>> => chan'[q][u] = chan[q][u]
<1> DEFINE M == Messages[0] \union Messages[1]
<1>1. chan \in Grid(Seq(M)) /\ chan[p][t] \in Seq(Messages[p]) /\ Len(chan[p][t]) < Capacity
  BY DEF ChannelsOK, Send
<1>2. msg \in M
  BY DEF Parties
<1>3. chan' = [chan EXCEPT ![p][t] = Append(chan[p][t], msg)]
  BY DEF Send
<1>4. Append(chan[p][t], msg) \in Seq(M) /\ Append(chan[p][t], msg) \in Seq(Messages[p])
      /\ Len(Append(chan[p][t], msg)) = Len(chan[p][t]) + 1
  <2> HIDE DEF M
  <2>1. chan[p][t] \in Seq(M)
    BY <1>1 DEF Grid
  <2>2. QED
    BY <1>1, <1>2, <2>1, AppendOK, ZenonT(60)
<1> HIDE DEF M
<1>5. /\ chan' \in Grid(Seq(M)) /\ chan'[p][t] = Append(chan[p][t], msg)
      /\ \A q \in Parties, u \in Threads : <<q, u>> # <<p, t>> => chan'[q][u] = chan[q][u]
  <2> DEFINE x == Append(chan[p][t], msg)
  <2>1. chan' = [chan EXCEPT ![p][t] = x] /\ x \in Seq(M)
    BY <1>3, <1>4
  <2> HIDE DEF x
  <2>2. /\ chan' \in Grid(Seq(M)) /\ chan'[p][t] = x
        /\ \A q \in Parties, u \in Threads : <<q, u>> # <<p, t>> => chan'[q][u] = chan[q][u]
    BY <1>1, <2>1 DEF Grid
  <2>3. QED
    BY <2>2 DEF x
<1>6. ASSUME NEW q \in Parties, NEW u \in Threads
      PROVE  chan'[q][u] \in Seq(Messages[q]) /\ Len(chan'[q][u]) <= Capacity
  <2>1. CASE q = p /\ u = t
    <3>1. Len(chan[p][t]) \in Nat
      BY <1>1
    <3>2. QED
      BY <2>1, <3>1, <1>1, <1>4, <1>5, BoundsOK
  <2>2. CASE <<q, u>> # <<p, t>>
    BY <2>2, <1>5 DEF ChannelsOK
  <2>3. QED
    BY <2>1, <2>2
<1>7. QED
  BY <1>5, <1>6 DEF ChannelsOK, M

LEMMA ReceiveUpdate ==
  ASSUME ChannelsOK, NEW p \in Parties, NEW t \in Threads, Receive(p, t), ot' = ot
  PROVE  /\ ChannelsOK'
         /\ chan[p][t] # <<>> /\ Head(chan[p][t]) \in Messages[p]
         /\ chan'[p][t] = Tail(chan[p][t])
         /\ \A q \in Parties, u \in Threads : <<q, u>> # <<p, t>> => chan'[q][u] = chan[q][u]
<1> DEFINE M == Messages[0] \union Messages[1]
<1>1. chan \in Grid(Seq(M)) /\ chan[p][t] \in Seq(Messages[p]) /\ Len(chan[p][t]) <= Capacity
  BY DEF ChannelsOK
<1>2. chan[p][t] # <<>> /\ chan' = [chan EXCEPT ![p][t] = Tail(chan[p][t])]
  BY DEF Receive
<1>3. /\ Tail(chan[p][t]) \in Seq(M) /\ Tail(chan[p][t]) \in Seq(Messages[p])
      /\ Head(chan[p][t]) \in Messages[p]
      /\ Len(Tail(chan[p][t])) = Len(chan[p][t]) - 1 /\ Len(chan[p][t]) \in Nat
  <2> HIDE DEF M
  <2>1. chan[p][t] \in Seq(M)
    BY <1>1 DEF Grid
  <2>2. QED
    BY <1>1, <1>2, <2>1, TailOK
<1> HIDE DEF M
<1>5. /\ chan' \in Grid(Seq(M)) /\ chan'[p][t] = Tail(chan[p][t])
      /\ \A q \in Parties, u \in Threads : <<q, u>> # <<p, t>> => chan'[q][u] = chan[q][u]
  <2> DEFINE x == Tail(chan[p][t])
  <2>1. chan' = [chan EXCEPT ![p][t] = x] /\ x \in Seq(M)
    BY <1>2, <1>3
  <2> HIDE DEF x
  <2>2. /\ chan' \in Grid(Seq(M)) /\ chan'[p][t] = x
        /\ \A q \in Parties, u \in Threads : <<q, u>> # <<p, t>> => chan'[q][u] = chan[q][u]
    BY <1>1, <2>1 DEF Grid
  <2>3. QED
    BY <2>2 DEF x
<1>6. ASSUME NEW q \in Parties, NEW u \in Threads
      PROVE  chan'[q][u] \in Seq(Messages[q]) /\ Len(chan'[q][u]) <= Capacity
  <2>1. CASE q = p /\ u = t
    BY <2>1, <1>1, <1>3, <1>5, BoundsOK
  <2>2. CASE <<q, u>> # <<p, t>>
    BY <2>2, <1>5 DEF ChannelsOK
  <2>3. QED
    BY <2>1, <2>2
<1>7. QED
  BY <1>2, <1>3, <1>5, <1>6 DEF ChannelsOK, M

LEMMA InstrOK ==
  ASSUME Types, NEW p \in Parties, NEW t \in Threads, NEW o, Executing(p, t, o)
  PROVE  /\ Instr(p, t).op = o
         /\ o = "branch" => Instr(p, t).to \in Nat \ {0}
         /\ o = "run_tape" => /\ Instr(p, t).thread \in Threads
                              /\ Instr(p, t).tape \in DOMAIN session.tapes
         /\ o = "join_tape" => Instr(p, t).thread \in Threads
<1>1. th[p][t].tape \in DOMAIN session.tapes /\ th[p][t].PC \in Nat \ {0}
  BY DEF Types, ThOK, Grid, ThreadStates
<1>2. PICK i \in DOMAIN session.tapes : i = th[p][t].tape
  BY <1>1
<1>3. PICK k : k = th[p][t].PC
  OBVIOUS
<1>4. session.tapes[i] \in Seq(Instructions) /\ k \in 1 .. Len(session.tapes[i])
  BY <1>1, <1>2, <1>3 DEF Types, IsSession, Executing, Tape
<1>5. Instr(p, t) = session.tapes[i][k] /\ Instr(p, t) \in Instructions /\ Instr(p, t).op = o
  BY <1>2, <1>3, <1>4 DEF Instr, Tape, Executing
<1>6. o = "run_tape" => session.tapes[i][k].tape \in DOMAIN session.tapes
  <2>1. k \in DOMAIN session.tapes[i]
    BY <1>4
  <2>2. QED
    BY <1>2, <1>5, <2>1 DEF Types, IsSession
<1>7. QED
  BY <1>5, <1>6 DEF Instructions

LEMMA PlacesOf ==
  /\ Places[0] = {"schedule", "exec", "send", "inputs", "finish", "post_run", "post_inputs", "ended"}
  /\ Places[1] = {"store", "schedule", "receive", "exec", "keys", "ended"}
BY DEF Places, Parties

(* What the parts shared by several actions do to a thread.                *)
LEMMA Do_Becomes ==
  ASSUME Types, NEW p \in Parties, NEW t \in Threads, NEW x, Becomes(p, t, x),
         x \in ThreadStates, x.at \in Places[p],
         x.at \in {"exec", "keys"} => x.complexity < BatchSize, session' = session
  PROVE  ThOK' /\ th'[p][t] = x /\ Elsewhere(th, th', p, t)
BY ThUpdate DEF Types, Elsewhere

LEMMA ThType ==
  ASSUME Types, NEW p \in Parties, NEW t \in Threads
  PROVE  /\ th[p][t] \in ThreadStates /\ th[p][t].at \in Places[p]
         /\ th[p][t].at \in {"exec", "keys"} => th[p][t].complexity < BatchSize
         /\ Position(p, t) \in Positions
BY DEF Types, ThOK, Grid, Position, Positions, ThreadStates

(* A change of place only.                                                 *)
LEMMA Do_Place ==
  ASSUME Types, NEW p \in Parties, NEW t \in Threads, NEW place \in Places[p] \ {"exec", "keys"},
         Becomes(p, t, [th[p][t] EXCEPT !.at = place]), session' = session
  PROVE  ThOK' /\ th'[p][t] = [th[p][t] EXCEPT !.at = place] /\ Elsewhere(th, th', p, t)
<1>0. PICK y \in ThreadStates : y = th[p][t]
  BY ThType
<1> DEFINE x == [y EXCEPT !.at = place]
<1>1. Becomes(p, t, x) /\ x = [th[p][t] EXCEPT !.at = place]
  BY <1>0
<1>2. x \in ThreadStates /\ x.at = place
  BY <1>0 DEF ThreadStates, Parties
<1> HIDE DEF x
<1>3. QED
  BY <1>1, <1>2, Do_Becomes

LEMMA Do_Step ==
  ASSUME Types, NEW p \in Parties, NEW t \in Threads, Step(p, t),
         th[p][t].at \in {"exec", "keys"}, session' = session
  PROVE  ThOK' /\ th'[p][t] = [th[p][t] EXCEPT !.PC = @ + 1, !.at = "exec"]
         /\ Elsewhere(th, th', p, t)
<1>0. PICK y \in ThreadStates : y = th[p][t] /\ y.complexity < BatchSize
  BY ThType
<1> DEFINE x == [y EXCEPT !.PC = @ + 1, !.at = "exec"]
<1>1. Becomes(p, t, x) /\ x = [th[p][t] EXCEPT !.PC = @ + 1, !.at = "exec"]
  BY <1>0 DEF Step
<1>2. x \in ThreadStates /\ x.at = "exec" /\ x.complexity < BatchSize
  <2>1. y.PC + 1 \in Nat \ {0} /\ "exec" \in Places[0] \union Places[1]
    BY <1>0, PlacesOf DEF ThreadStates
  <2>2. QED
    BY <1>0, <2>1 DEF ThreadStates
<1>3. x.at \in Places[p]
  BY <1>2, PlacesOf DEF Parties
<1> HIDE DEF x
<1>4. QED
  BY <1>1, <1>2, <1>3, Do_Becomes

LEMMA Do_CountGate ==
  ASSUME Types, NEW p \in Parties, NEW t \in Threads, NEW break \in Places[p] \ {"exec", "keys"},
         CountGate(p, t, break), th[p][t].at = "exec", session' = session
  PROVE  /\ ThOK' /\ Elsewhere(th, th', p, t)
         /\ th'[p][t] = [th[p][t] EXCEPT !.PC = @ + 1, !.complexity = @ + 1,
                           !.at = IF th[p][t].complexity + 1 >= BatchSize THEN break ELSE "exec",
                           !.last = "time"]
<1>0. PICK y \in ThreadStates : y = th[p][t] /\ y.complexity < BatchSize
  BY ThType
<1> DEFINE x == [y EXCEPT !.PC = @ + 1, !.complexity = @ + 1,
                          !.at = IF y.complexity + 1 >= BatchSize THEN break ELSE "exec",
                          !.last = "time"]
<1>1. Becomes(p, t, x)
  BY <1>0 DEF CountGate
<1>5. x = [th[p][t] EXCEPT !.PC = @ + 1, !.complexity = @ + 1,
                 !.at = IF th[p][t].complexity + 1 >= BatchSize THEN break ELSE "exec",
                 !.last = "time"]
  BY <1>0
<1>2. x \in ThreadStates /\ x.at \in Places[p] /\ (x.at \in {"exec", "keys"} => x.complexity < BatchSize)
  <2>1. x.at \in {break, "exec"} /\ (x.at = "exec" => y.complexity + 1 < BatchSize)
    BY <1>0, BoundsOK DEF ThreadStates
  <2>2. y.complexity + 1 \in 0 .. BatchSize /\ y.PC + 1 \in Nat \ {0}
    BY <1>0, BoundsOK DEF ThreadStates
  <2>3. x.at \in Places[p] /\ x.at \in Places[0] \union Places[1]
    BY <2>1, PlacesOf DEF Parties
  <2>4. x.complexity = y.complexity + 1
    BY <1>0 DEF ThreadStates
  <2>5. x \in ThreadStates
    BY <1>0, <2>2, <2>3 DEF ThreadStates
  <2>6. QED
    BY <2>1, <2>3, <2>4, <2>5
<1> HIDE DEF x
<1>3. ThOK' /\ th'[p][t] = x /\ Elsewhere(th, th', p, t)
  BY <1>1, <1>2, Do_Becomes
<1>4. QED
  BY <1>3, <1>5

LEMMA Do_NextBatch ==
  ASSUME Types, NEW t \in Threads, NextBatch(t), session' = session
  PROVE  /\ ThOK' /\ Elsewhere(th, th', 0, t)
         /\ th'[0][t] = [th[0][t] EXCEPT !.complexity = 0,
                           !.at = IF @ = "post_inputs" THEN "ended"
                                  ELSE IF th[0][t].last = "done" THEN "finish" ELSE "exec"]
<1>0. PICK y \in ThreadStates : y = th[0][t]
  BY ThType DEF Parties
<1> DEFINE a == IF y.at = "post_inputs" THEN "ended"
                ELSE IF y.last = "done" THEN "finish" ELSE "exec"
           x == [y EXCEPT !.at = a, !.complexity = 0]
<1>1. /\ Becomes(0, t, x)
      /\ x = [th[0][t] EXCEPT !.complexity = 0,
                 !.at = IF @ = "post_inputs" THEN "ended"
                        ELSE IF th[0][t].last = "done" THEN "finish" ELSE "exec"]
  BY <1>0 DEF NextBatch, ThreadStates
<1>2. a \in Places[0]
  BY PlacesOf
<1> HIDE DEF a
<1>3. x \in ThreadStates /\ x.at \in Places[0] /\ (x.at \in {"exec", "keys"} => x.complexity < BatchSize)
  <2>1. 0 \in 0 .. BatchSize /\ 0 < BatchSize /\ a \in Places[0] \union Places[1]
    BY <1>2, BoundsOK
  <2>2. x \in ThreadStates /\ x.at = a /\ x.complexity = 0
    BY <1>0, <2>1 DEF ThreadStates
  <2>3. QED
    BY <1>2, <2>1, <2>2
<1> HIDE DEF x
<1>4. QED
  BY <1>1, <1>3, Do_Becomes DEF Parties

LEMMA Do_EndTape ==
  ASSUME Types, NEW p \in Parties, NEW t \in Threads, EndTape(p, t), session' = session,
         UNCHANGED <<queue, stopped, master>>
  PROVE  /\ ThOK' /\ QueuesOK' /\ Elsewhere(th, th', p, t)
         /\ th'[p][t] = [th[p][t] EXCEPT !.at = "schedule"]
<1>1. ThOK' /\ Elsewhere(th, th', p, t) /\ th'[p][t] = [th[p][t] EXCEPT !.at = "schedule"]
  <2>1. "schedule" \in Places[p] \ {"exec", "keys"}
    BY PlacesOf DEF Parties
  <2>2. QED
    BY <2>1, Do_Place DEF EndTape
<1>2. done' \in Grid(Nat)
  <2>1. done \in Grid(Nat) /\ done[p][t] \in Nat
    BY DEF Types, QueuesOK, Grid
  <2> DEFINE d == done[p][t] + 1
  <2>2. done' = [done EXCEPT ![p][t] = d] /\ d \in Nat
    BY <2>1 DEF EndTape
  <2> HIDE DEF d
  <2>3. QED
    BY <2>1, <2>2 DEF Grid
<1>3. QED
  BY <1>1, <1>2 DEF Types, QueuesOK

LEMMA Do_Load ==
  ASSUME Types, NEW t \in Threads, session' = session,
         Becomes(1, t, [th[1][t] EXCEPT !.at = "exec", !.complexity = 0])
  PROVE  /\ ThOK' /\ Elsewhere(th, th', 1, t)
         /\ th'[1][t] = [th[1][t] EXCEPT !.at = "exec", !.complexity = 0]
<1>0. PICK y \in ThreadStates : y = th[1][t]
  BY ThType DEF Parties
<1> DEFINE x == [y EXCEPT !.at = "exec", !.complexity = 0]
<1>1. Becomes(1, t, x) /\ x = [th[1][t] EXCEPT !.at = "exec", !.complexity = 0]
  BY <1>0
<1>2. 0 \in 0 .. BatchSize /\ 0 < BatchSize /\ "exec" \in Places[0] \union Places[1] /\ "exec" \in Places[1]
  BY BoundsOK, PlacesOf
<1>3. x \in ThreadStates /\ x.at = "exec" /\ x.complexity = 0
  BY <1>0, <1>2 DEF ThreadStates
<1> HIDE DEF x
<1>4. Becomes(1, t, x)
  BY <1>1
<1>5. ThOK' /\ th'[1][t] = x /\ Elsewhere(th, th', 1, t)
  BY <1>2, <1>3, <1>4, Do_Becomes DEF Parties
<1>6. QED
  BY <1>1, <1>5

LEMMA Do_Jump ==
  ASSUME Types, NEW p \in Parties, NEW t \in Threads, session' = session,
         Executing(p, t, "branch"), Jump(p, t)
  PROVE  /\ ThOK' /\ Elsewhere(th, th', p, t)
         /\ th'[p][t] = [th[p][t] EXCEPT !.PC = IF th[p][t].reg THEN Instr(p, t).to ELSE @ + 1]
<1>0. PICK y \in ThreadStates : y = th[p][t] /\ y.at \in Places[p] /\ y.complexity < BatchSize
  BY ThType DEF Executing, At
<1> DEFINE pc == IF y.reg THEN Instr(p, t).to ELSE y.PC + 1
           x == [y EXCEPT !.PC = pc]
<1>1. Becomes(p, t, x) /\ x = [th[p][t] EXCEPT !.PC = IF th[p][t].reg THEN Instr(p, t).to ELSE @ + 1]
  BY <1>0 DEF Jump
<1>2. pc \in Nat \ {0}
  BY <1>0, InstrOK DEF ThreadStates
<1> HIDE DEF pc
<1>3. x \in ThreadStates /\ x.at = y.at /\ x.complexity = y.complexity
  BY <1>0, <1>2 DEF ThreadStates
<1> HIDE DEF x
<1>4. Becomes(p, t, x)
  BY <1>1
<1>5. ThOK' /\ th'[p][t] = x /\ Elsewhere(th, th', p, t)
  BY <1>0, <1>3, <1>4, Do_Becomes
<1>6. QED
  BY <1>1, <1>5

LEMMA Do_Fail ==
  ASSUME Types, NEW p \in Parties, NEW what \in {"overflow", "misread", "branching"}, Fail(p, what)
  PROVE  /\ failure' \in [Parties -> {"none", "overflow", "misread", "branching"}]
         /\ failure'[p] = what
         /\ \A q \in Parties : q # p => failure'[q] = failure[q]
BY DEF Types, Fail

(* The actions: what they change, and that the types are kept.             *)
LEMMA Do_StartTape ==
  ASSUME Types, NEW p \in Parties, NEW t \in Threads, StartTape(p, t)
  PROVE  /\ Types'
         /\ th'[p][t] = [th[p][t] EXCEPT !.tape = Head(queue[p][t]), !.run = @ + 1,
                           !.PC = 1, !.complexity = 0, !.last = "time",
                           !.at = IF p = 0 THEN "exec" ELSE "receive"]
         /\ queue'[p][t] = Tail(queue[p][t])
         /\ Elsewhere(th, th', p, t) /\ Elsewhere(queue, queue', p, t)
<1>0. PICK y \in ThreadStates : y = th[p][t]
  BY ThType
<1>1. queue \in Grid(Seq(DOMAIN session.tapes)) /\ queue[p][t] \in Seq(DOMAIN session.tapes)
  BY DEF Types, QueuesOK, Grid
<1>2. queue[p][t] # <<>> /\ queue' = [queue EXCEPT ![p][t] = Tail(queue[p][t])]
  BY DEF StartTape
<1> DEFINE h == Head(queue[p][t])
           q == Tail(queue[p][t])
<1>3. h \in DOMAIN session.tapes /\ q \in Seq(DOMAIN session.tapes)
  BY <1>1, <1>2, TailOK
<1>4. queue' \in Grid(Seq(DOMAIN session.tapes)) /\ queue'[p][t] = q /\ Elsewhere(queue, queue', p, t)
  <2>1. queue' = [queue EXCEPT ![p][t] = q]
    BY <1>2
  <2> HIDE DEF q
  <2>2. QED
    BY <1>1, <1>3, <2>1 DEF Grid, Elsewhere
<1> DEFINE a == IF p = 0 THEN "exec" ELSE "receive"
           x == [y EXCEPT !.tape = h, !.run = @ + 1, !.PC = 1, !.complexity = 0, !.last = "time",
                          !.at = a]
<1>5. Becomes(p, t, x) /\ session' = session
  BY <1>0 DEF StartTape
<1>6. x = [th[p][t] EXCEPT !.tape = Head(queue[p][t]), !.run = @ + 1,
                           !.PC = 1, !.complexity = 0, !.last = "time",
                           !.at = IF p = 0 THEN "exec" ELSE "receive"]
  BY <1>0
<1>7. a \in Places[p] /\ a \in Places[0] \union Places[1]
  BY PlacesOf DEF Parties
<1>8. 0 \in 0 .. BatchSize /\ 0 < BatchSize
  BY BoundsOK
<1> HIDE DEF h, q, a
<1>9. x \in ThreadStates /\ x.at = a /\ x.complexity = 0
  <2>1. y.run + 1 \in Nat /\ 1 \in Nat \ {0}
    BY <1>0 DEF ThreadStates
  <2>2. x.at = a /\ x.complexity = 0
    BY <1>0 DEF ThreadStates
  <2>3. [y EXCEPT !.tape = h, !.PC = 1, !.complexity = 0] \in ThreadStates
    BY <1>0, <1>3, <1>8, <2>1 DEF ThreadStates
  <2>4. x \in ThreadStates
    BY <1>0, <1>3, <1>7, <1>8, <2>1, <2>3, ZenonT(60) DEF ThreadStates
  <2>5. QED
    BY <2>2, <2>4
<1> HIDE DEF x
<1>10. ThOK' /\ th'[p][t] = x /\ Elsewhere(th, th', p, t)
  BY <1>5, <1>7, <1>8, <1>9, Do_Becomes
<1>11. UNCHANGED <<session, gates, masks, keys, store, chan, ot, stopped, done, master, failure>>
  BY DEF StartTape
<1>12. Types'
  BY <1>4, <1>10, <1>11 DEF Types, BuffersOK, ChannelsOK, QueuesOK
<1>13. QED
  BY <1>4, <1>6, <1>10, <1>12 DEF q

LEMMA Do_EndThread ==
  ASSUME Types, NEW p \in Parties, NEW t \in Threads, EndThread(p, t)
  PROVE  /\ Types' /\ Elsewhere(th, th', p, t)
         /\ th'[p][t] = [th[p][t] EXCEPT !.at =
                           IF p = 0 /\ ~session.continuous THEN "post_run" ELSE "ended"]
<1> DEFINE a == IF p = 0 /\ ~session.continuous THEN "post_run" ELSE "ended"
<1>1. a \in Places[p] \ {"exec", "keys"}
  BY PlacesOf DEF Parties
<1>2. Becomes(p, t, [th[p][t] EXCEPT !.at = a])
      /\ UNCHANGED <<session, gates, masks, keys, store, chan, ot, queue, stopped, done, master, failure>>
  BY DEF EndThread, queues
<1> HIDE DEF a
<1>3. ThOK' /\ th'[p][t] = [th[p][t] EXCEPT !.at = a] /\ Elsewhere(th, th', p, t)
  BY <1>1, <1>2, Do_Place
<1>4. Types'
  BY <1>2, <1>3 DEF Types, BuffersOK, ChannelsOK, QueuesOK
<1>5. QED
  BY <1>3, <1>4 DEF a

LEMMA Do_join_tape ==
  ASSUME Types, NEW p \in Parties, NEW t \in Threads, join_tape(p, t)
  PROVE  /\ Types' /\ Elsewhere(th, th', p, t)
         /\ th'[p][t] = [th[p][t] EXCEPT !.PC = @ + 1, !.at = "exec"]
<1>1. UNCHANGED <<session, gates, masks, keys, store, chan, ot, queue, stopped, master, failure>>
  BY DEF join_tape
<1>2. ThOK' /\ Elsewhere(th, th', p, t) /\ th'[p][t] = [th[p][t] EXCEPT !.PC = @ + 1, !.at = "exec"]
  BY <1>1, Do_Step DEF join_tape, Executing, At
<1>3. PICK c \in Threads : c = Instr(p, t).thread
  BY InstrOK DEF join_tape
<1>4. done \in Grid(Nat) /\ done[p][c] \in Nat /\ done[p][c] > 0
  BY <1>3 DEF Types, QueuesOK, Grid, join_tape
<1> DEFINE d == done[p][c] - 1
<1>5. done' = [done EXCEPT ![p][c] = d] /\ d \in Nat
  BY <1>3, <1>4 DEF join_tape
<1> HIDE DEF d
<1>6. done' \in Grid(Nat)
  BY <1>4, <1>5 DEF Grid
<1>7. QED
  BY <1>1, <1>2, <1>6 DEF Types, BuffersOK, ChannelsOK, QueuesOK

LEMMA Do_Schedule ==
  ASSUME Types, NEW p \in Parties, NEW t \in Threads, Executing(p, t, "run_tape"), Schedule(p, t),
         UNCHANGED <<session, stopped, done, master>>
  PROVE  QueuesOK'
<1>1. queue \in Grid(Seq(DOMAIN session.tapes))
  BY DEF Types, QueuesOK
<1>2. PICK c \in Threads, i \in DOMAIN session.tapes : c = Instr(p, t).thread /\ i = Instr(p, t).tape
  BY InstrOK
<1> DEFINE q == Append(queue[p][c], i)
<1>3. q \in Seq(DOMAIN session.tapes)
  <2>1. queue[p][c] \in Seq(DOMAIN session.tapes)
    BY <1>1, <1>2 DEF Grid
  <2>2. QED
    BY <1>2, <2>1, AppendOK
<1>4. queue' = [queue EXCEPT ![p][c] = q]
  BY <1>2 DEF Schedule
<1> HIDE DEF q
<1>5. queue' \in Grid(Seq(DOMAIN session.tapes))
  BY <1>1, <1>3, <1>4 DEF Grid
<1>6. QED
  BY <1>5 DEF Types, QueuesOK

LEMMA BufferTypes ==
  ASSUME Types, NEW p \in Parties, NEW t \in Threads
  PROVE  /\ gates \in Grid(Seq(Positions)) /\ masks \in Grid(Seq(Positions))
         /\ ot \in Grid(Seq(Positions))
         /\ gates[p][t] \in Seq(Positions) /\ masks[p][t] \in Seq(Positions)
         /\ ot[p][t] \in Seq(Positions) /\ Len(ot[p][t]) <= Capacity
         /\ keys[t] \in Seq(Positions) /\ store[t] \in Seq(Batches)
         /\ chan[p][t] \in Seq(Messages[p])
BY DEF Types, BuffersOK, ChannelsOK, Grid

LEMMA Do_Garble_and ==
  ASSUME Types, NEW t \in Threads, Garble_and(t)
  PROVE  /\ Types'
         /\ th'[0][t] = [th[0][t] EXCEPT !.PC = @ + 1, !.complexity = @ + 1,
                           !.at = IF th[0][t].complexity + 1 >= BatchSize THEN "send" ELSE "exec",
                           !.last = "time"]
         /\ gates'[0][t] = Append(gates[0][t], Position(0, t))
         /\ Elsewhere(th, th', 0, t) /\ Elsewhere(gates, gates', 0, t)
<1>1. UNCHANGED <<session, masks, keys, store, chan, ot, queue, stopped, done, master, failure>>
  BY DEF Garble_and, queues
<1>2. "send" \in Places[0] \ {"exec", "keys"} /\ 0 \in Parties
  BY PlacesOf DEF Parties
<1>3. /\ ThOK' /\ Elsewhere(th, th', 0, t)
      /\ th'[0][t] = [th[0][t] EXCEPT !.PC = @ + 1, !.complexity = @ + 1,
                        !.at = IF th[0][t].complexity + 1 >= BatchSize THEN "send" ELSE "exec",
                        !.last = "time"]
  BY <1>1, <1>2, Do_CountGate DEF Garble_and, Executing, At
<1> DEFINE s == Append(gates[0][t], Position(0, t))
<1>4. s \in Seq(Positions) /\ gates' = [gates EXCEPT ![0][t] = s]
  BY <1>2, ThType, BufferTypes, AppendOK DEF Garble_and
<1> HIDE DEF s
<1>5. gates' \in Grid(Seq(Positions)) /\ gates'[0][t] = s /\ Elsewhere(gates, gates', 0, t)
  BY <1>2, <1>4, BufferTypes DEF Grid, Elsewhere
<1>6. Types'
  BY <1>1, <1>3, <1>5 DEF Types, BuffersOK, ChannelsOK, QueuesOK
<1>7. QED
  BY <1>3, <1>5, <1>6 DEF s

LEMMA Do_Garble_inputb ==
  ASSUME Types, NEW t \in Threads, Garble_inputb(t)
  PROVE  /\ Types'
         /\ th'[0][t] = [th[0][t] EXCEPT !.PC = @ + 1, !.at = "exec"]
         /\ keys'[t] = Append(keys[t], Position(0, t))
         /\ Elsewhere(th, th', 0, t) /\ \A u \in Threads : u # t => keys'[u] = keys[u]
<1>1. UNCHANGED <<session, gates, masks, store, chan, ot, queue, stopped, done, master, failure>>
  BY DEF Garble_inputb, queues
<1>2. 0 \in Parties
  BY DEF Parties
<1>3. ThOK' /\ Elsewhere(th, th', 0, t) /\ th'[0][t] = [th[0][t] EXCEPT !.PC = @ + 1, !.at = "exec"]
  BY <1>1, <1>2, Do_Step DEF Garble_inputb, Executing, At
<1> DEFINE s == Append(keys[t], Position(0, t))
<1>4. s \in Seq(Positions) /\ keys' = [keys EXCEPT ![t] = s]
  BY <1>2, ThType, BufferTypes, AppendOK DEF Garble_inputb
<1> HIDE DEF s
<1>5. keys' \in [Threads -> Seq(Positions)] /\ keys'[t] = s /\ \A u \in Threads : u # t => keys'[u] = keys[u]
  BY <1>4 DEF Types, BuffersOK
<1>6. Types'
  BY <1>1, <1>3, <1>5 DEF Types, BuffersOK, ChannelsOK, QueuesOK
<1>7. QED
  BY <1>3, <1>5, <1>6 DEF s

LEMMA Do_Clean ==
  ASSUME Types, NEW t \in Threads, Clean(t), session' = session
  PROVE  /\ ThOK' /\ Elsewhere(th, th', 0, t)
         /\ th'[0][t] = [th[0][t] EXCEPT !.tainted = FALSE, !.at = "send", !.last = "time"]
<1>0. PICK y \in ThreadStates : y = th[0][t]
  BY ThType DEF Parties
<1> DEFINE x == [y EXCEPT !.tainted = FALSE, !.at = "send", !.last = "time"]
<1>1. Becomes(0, t, x)
  BY <1>0 DEF Clean
<1>2. x = [th[0][t] EXCEPT !.tainted = FALSE, !.at = "send", !.last = "time"]
  BY <1>0
<1>3. "send" \in Places[0] \union Places[1] /\ "send" \in Places[0] /\ 0 \in Parties
  BY PlacesOf DEF Parties
<1>4. x \in ThreadStates /\ x.at = "send"
  BY <1>0, <1>3 DEF ThreadStates
<1> HIDE DEF x
<1>5. ThOK' /\ th'[0][t] = x /\ Elsewhere(th, th', 0, t)
  BY <1>1, <1>3, <1>4, Do_Becomes
<1>6. QED
  BY <1>2, <1>5

(* Past an instruction that leaves the thread in execute().                *)
LEMMA Do_Past ==
  ASSUME Types, NEW p \in Parties, NEW t \in Threads, NEW bit \in BOOLEAN, th[p][t].at = "exec",
         Becomes(p, t, [th[p][t] EXCEPT !.PC = @ + 1, !.reg = bit, !.tainted = TRUE]),
         session' = session
  PROVE  /\ ThOK' /\ Elsewhere(th, th', p, t)
         /\ th'[p][t] = [th[p][t] EXCEPT !.PC = @ + 1, !.reg = bit, !.tainted = TRUE]
<1>0. PICK y \in ThreadStates : y = th[p][t] /\ y.at = "exec" /\ y.complexity < BatchSize
  BY ThType
<1> DEFINE x == [y EXCEPT !.PC = @ + 1, !.reg = bit, !.tainted = TRUE]
<1>1. Becomes(p, t, x)
  BY <1>0
<1>2. x = [th[p][t] EXCEPT !.PC = @ + 1, !.reg = bit, !.tainted = TRUE]
  BY <1>0
<1>3. "exec" \in Places[p] /\ y.PC + 1 \in Nat \ {0}
  BY <1>0, PlacesOf DEF Parties, ThreadStates
<1>4. x \in ThreadStates /\ x.at = "exec" /\ x.complexity < BatchSize
  BY <1>0, <1>3 DEF ThreadStates
<1> HIDE DEF x
<1>5. ThOK' /\ th'[p][t] = x /\ Elsewhere(th, th', p, t)
  BY <1>1, <1>3, <1>4, Do_Becomes
<1>6. QED
  BY <1>2, <1>5

LEMMA Do_Garble_reveal ==
  ASSUME Types, NEW t \in Threads, Garble_reveal(t)
  PROVE  /\ Types'
         /\ th'[0][t] = IF session.continuous
                        THEN [th[0][t] EXCEPT !.tainted = FALSE, !.at = "send", !.last = "time"]
                        ELSE [th[0][t] EXCEPT !.PC = @ + 1, !.reg = FALSE, !.tainted = TRUE]
         /\ masks'[0][t] = Append(masks[0][t], Position(0, t))
         /\ Elsewhere(th, th', 0, t) /\ Elsewhere(masks, masks', 0, t)
<1>1. UNCHANGED <<session, gates, keys, store, chan, ot, queue, stopped, done, master, failure>>
  BY DEF Garble_reveal, queues
<1>2. 0 \in Parties /\ th[0][t].at = "exec"
  BY DEF Parties, Garble_reveal, Executing, At
<1>3. /\ ThOK' /\ Elsewhere(th, th', 0, t)
      /\ th'[0][t] = IF session.continuous
                     THEN [th[0][t] EXCEPT !.tainted = FALSE, !.at = "send", !.last = "time"]
                     ELSE [th[0][t] EXCEPT !.PC = @ + 1, !.reg = FALSE, !.tainted = TRUE]
  <2>1. CASE session.continuous
    BY <1>1, <2>1, Do_Clean DEF Garble_reveal
  <2>2. CASE ~session.continuous
    <3>1. Becomes(0, t, [th[0][t] EXCEPT !.PC = @ + 1, !.reg = FALSE, !.tainted = TRUE])
      BY <2>2 DEF Garble_reveal
    <3>2. QED
      BY <1>1, <1>2, <2>2, <3>1, Do_Past
  <2>3. QED
    BY <2>1, <2>2
<1> DEFINE s == Append(masks[0][t], Position(0, t))
<1>4. s \in Seq(Positions) /\ masks' = [masks EXCEPT ![0][t] = s]
  BY <1>2, ThType, BufferTypes, AppendOK DEF Garble_reveal
<1> HIDE DEF s
<1>5. masks' \in Grid(Seq(Positions)) /\ masks'[0][t] = s /\ Elsewhere(masks, masks', 0, t)
  BY <1>2, <1>4, BufferTypes DEF Grid, Elsewhere
<1>6. Types'
  BY <1>1, <1>3, <1>5 DEF Types, BuffersOK, ChannelsOK, QueuesOK
<1>7. QED
  BY <1>3, <1>5, <1>6 DEF s

LEMMA MessagesOf ==
  /\ \A m \in Messages[0] : m.type = "value" => m.bit \in BOOLEAN
  /\ \A m \in Messages[1] : m.type = "MORE" => m \in Batches /\ m.gates \in Seq(Positions) /\ m.masks \in Seq(Positions)
  /\ [type |-> "pack"] \in Messages[0] /\ [type |-> "pack"] \in Messages[1]
  /\ [type |-> "DONE"] \in Messages[1]
  /\ \A b \in BOOLEAN : [type |-> "value", bit |-> b] \in Messages[0]
  /\ \A g \in Seq(Positions), m \in Seq(Positions) : [type |-> "MORE", gates |-> g, masks |-> m] \in Messages[1]
BY DEF Messages, Parties, Batches

LEMMA Do_Garble_reveal_again ==
  ASSUME Types, NEW t \in Threads, Garble_reveal_again(t)
  PROVE  /\ Types'
         /\ chan[0][t] # <<>> /\ chan'[0][t] = Tail(chan[0][t]) /\ Elsewhere(chan, chan', 0, t)
         /\ Head(chan[0][t]).type = "value" =>
              /\ th'[0][t] = [th[0][t] EXCEPT !.PC = @ + 1, !.reg = Head(chan[0][t]).bit, !.tainted = TRUE]
              /\ Elsewhere(th, th', 0, t) /\ UNCHANGED failure
<1>1. UNCHANGED <<session, gates, masks, keys, store, ot, queue, stopped, done, master>>
  BY DEF Garble_reveal_again, queues
<1>2. 0 \in Parties /\ th[0][t].at = "exec"
  BY DEF Parties, Garble_reveal_again, Executing, At
<1>3. /\ ChannelsOK' /\ Head(chan[0][t]) \in Messages[0]
      /\ chan[0][t] # <<>> /\ chan'[0][t] = Tail(chan[0][t]) /\ Elsewhere(chan, chan', 0, t)
  BY <1>1, <1>2, ReceiveUpdate DEF Types, Garble_reveal_again, Elsewhere
<1>4. CASE Head(chan[0][t]).type = "value"
  <2>1. PICK b \in BOOLEAN : b = Head(chan[0][t]).bit
    BY <1>3, <1>4, MessagesOf
  <2>2. Becomes(0, t, [th[0][t] EXCEPT !.PC = @ + 1, !.reg = b, !.tainted = TRUE]) /\ UNCHANGED failure
    BY <1>4, <2>1 DEF Garble_reveal_again
  <2>3. /\ ThOK' /\ Elsewhere(th, th', 0, t)
        /\ th'[0][t] = [th[0][t] EXCEPT !.PC = @ + 1, !.reg = b, !.tainted = TRUE]
    BY <1>1, <1>2, <2>2, Do_Past, ZenonT(60)
  <2>4. Types'
    BY <1>1, <1>3, <2>2, <2>3 DEF Types, BuffersOK, QueuesOK
  <2>5. QED
    BY <1>3, <2>1, <2>2, <2>3, <2>4
<1>5. CASE Head(chan[0][t]).type # "value"
  <2>1. Fail(0, "misread") /\ UNCHANGED th
    BY <1>5 DEF Garble_reveal_again
  <2>2. failure' \in [Parties -> {"none", "overflow", "misread", "branching"}]
    BY <1>2, <2>1, Do_Fail
  <2>3. Types'
    BY <1>1, <1>3, <2>1, <2>2 DEF Types, BuffersOK, QueuesOK, ThOK, ThreadStates
  <2>4. QED
    BY <1>3, <1>5, <2>3
<1>6. QED
  BY <1>4, <1>5

LEMMA Do_Branch ==
  ASSUME Types, NEW p \in Parties, NEW t \in Threads, Executing(p, t, "branch"),
         IF session.continuous THEN Jump(p, t) /\ UNCHANGED failure
         ELSE Fail(p, "branching") /\ UNCHANGED th,
         UNCHANGED <<session, gates, masks, keys, store, chan, ot, queues>>
  PROVE  /\ Types'
         /\ session.continuous =>
              /\ th'[p][t] = [th[p][t] EXCEPT !.PC = IF th[p][t].reg THEN Instr(p, t).to ELSE @ + 1]
              /\ Elsewhere(th, th', p, t) /\ UNCHANGED failure
         /\ ~session.continuous =>
              UNCHANGED th /\ failure'[p] = "branching" /\ \A q \in Parties : q # p => failure'[q] = failure[q]
<1>1. UNCHANGED <<session, gates, masks, keys, store, chan, ot, queue, stopped, done, master>>
  BY DEF queues
<1>2. CASE session.continuous
  <2>1. /\ ThOK' /\ Elsewhere(th, th', p, t) /\ UNCHANGED failure
        /\ th'[p][t] = [th[p][t] EXCEPT !.PC = IF th[p][t].reg THEN Instr(p, t).to ELSE @ + 1]
    BY <1>1, <1>2, Do_Jump
  <2>2. Types'
    BY <1>1, <2>1 DEF Types, BuffersOK, QueuesOK, ChannelsOK
  <2>3. QED
    BY <1>2, <2>1, <2>2
<1>3. CASE ~session.continuous
  <2>1. /\ failure' \in [Parties -> {"none", "overflow", "misread", "branching"}]
        /\ failure'[p] = "branching" /\ \A q \in Parties : q # p => failure'[q] = failure[q]
    BY <1>3, Do_Fail
  <2>2. Types'
    BY <1>1, <1>3, <2>1 DEF Types, BuffersOK, QueuesOK, ThOK, ThreadStates, ChannelsOK
  <2>3. QED
    BY <1>3, <2>1, <2>2
<1>4. QED
  BY <1>2, <1>3

LEMMA Do_Garble_run_tapes ==
  ASSUME Types, NEW t \in Threads, Garble_run_tapes(t) PROVE Types'
<1>1. UNCHANGED <<session, gates, masks, keys, store, chan, ot, stopped, done, master, failure>>
  BY DEF Garble_run_tapes
<1>2. 0 \in Parties /\ th[0][t].at = "exec" /\ Executing(0, t, "run_tape")
  BY DEF Parties, Garble_run_tapes, Executing, At
<1>3. CASE session.continuous /\ th[0][t].tainted
  <2>1. ThOK' /\ UNCHANGED queue
    BY <1>1, <1>3, Do_Clean DEF Garble_run_tapes
  <2>2. QED
    BY <1>1, <2>1 DEF Types, BuffersOK, QueuesOK, ChannelsOK
<1>4. CASE ~(session.continuous /\ th[0][t].tainted)
  <2>1. Schedule(0, t) /\ Becomes(0, t, [th[0][t] EXCEPT !.PC = @ + 1, !.tainted = TRUE])
    BY <1>4 DEF Garble_run_tapes
  <2>2. QueuesOK'
    BY <1>1, <1>2, <2>1, Do_Schedule
  <2>3. th[0][t] \in ThreadStates
    BY <1>2, ThType
  <2>4. PICK b \in BOOLEAN : b = th[0][t].reg
    BY <2>3 DEF ThreadStates
  <2>5. [th[0][t] EXCEPT !.PC = @ + 1, !.tainted = TRUE]
          = [th[0][t] EXCEPT !.PC = @ + 1, !.reg = b, !.tainted = TRUE]
    BY <2>3, <2>4 DEF ThreadStates
  <2>6. ThOK'
    BY <1>1, <1>2, <2>1, <2>5, Do_Past
  <2>7. QED
    BY <1>1, <2>2, <2>6 DEF Types, BuffersOK, ChannelsOK
<1>5. QED
  BY <1>3, <1>4

LEMMA Do_Garble_end ==
  ASSUME Types, NEW t \in Threads, Garble_end(t)
  PROVE  /\ Types' /\ Elsewhere(th, th', 0, t)
         /\ th'[0][t] = [th[0][t] EXCEPT !.at = "send", !.last = "done"]
<1>0. PICK y \in ThreadStates : y = th[0][t]
  BY ThType DEF Parties
<1> DEFINE x == [y EXCEPT !.at = "send", !.last = "done"]
<1>1. Becomes(0, t, x)
  BY <1>0 DEF Garble_end
<1>2. x = [th[0][t] EXCEPT !.at = "send", !.last = "done"]
  BY <1>0
<1>3. "send" \in Places[0] \union Places[1] /\ "send" \in Places[0] /\ 0 \in Parties
  BY PlacesOf DEF Parties
<1>4. x \in ThreadStates /\ x.at = "send"
  BY <1>0, <1>3 DEF ThreadStates
<1> HIDE DEF x
<1>5. UNCHANGED <<session, gates, masks, keys, store, chan, ot, queue, stopped, done, master, failure>>
  BY DEF Garble_end, queues
<1>6. ThOK' /\ th'[0][t] = x /\ Elsewhere(th, th', 0, t)
  BY <1>1, <1>3, <1>4, <1>5, Do_Becomes
<1>7. Types'
  BY <1>5, <1>6 DEF Types, BuffersOK, QueuesOK, ChannelsOK
<1>8. QED
  BY <1>2, <1>6, <1>7

LEMMA Do_send ==
  ASSUME Types, NEW t \in Threads, send(t)
  PROVE  /\ Types'
         /\ chan'[1][t] = Append(chan[1][t], [type |-> "MORE", gates |-> gates[0][t], masks |-> masks[0][t]])
         /\ gates'[0][t] = <<>> /\ masks'[0][t] = <<>>
         /\ Elsewhere(chan, chan', 1, t) /\ Elsewhere(gates, gates', 0, t)
         /\ Elsewhere(masks, masks', 0, t) /\ Elsewhere(th, th', 0, t)
         /\ th'[0][t] = IF session.continuous /\ keys[t] # <<>>
                        THEN [th[0][t] EXCEPT !.at = "inputs"]
                        ELSE [th[0][t] EXCEPT !.complexity = 0,
                                !.at = IF @ = "post_inputs" THEN "ended"
                                       ELSE IF th[0][t].last = "done" THEN "finish" ELSE "exec"]
<1>1. UNCHANGED <<session, keys, store, ot, queue, stopped, done, master, failure>>
  BY DEF send, queues
<1>2. 0 \in Parties /\ 1 \in Parties /\ "inputs" \in Places[0] \ {"exec", "keys"}
  BY PlacesOf DEF Parties
<1> DEFINE m == [type |-> "MORE", gates |-> gates[0][t], masks |-> masks[0][t]]
<1>3. m \in Messages[1] /\ Send(1, t, m)
  BY <1>2, MessagesOf, BufferTypes DEF send
<1> HIDE DEF m
<1>4. ChannelsOK' /\ chan'[1][t] = Append(chan[1][t], m) /\ Elsewhere(chan, chan', 1, t)
  BY <1>1, <1>2, <1>3, SendUpdate DEF Types, Elsewhere
<1>5. /\ gates' \in Grid(Seq(Positions)) /\ gates'[0][t] = <<>> /\ Elsewhere(gates, gates', 0, t)
      /\ masks' \in Grid(Seq(Positions)) /\ masks'[0][t] = <<>> /\ Elsewhere(masks, masks', 0, t)
  <2>1. gates' = [gates EXCEPT ![0][t] = <<>>] /\ masks' = [masks EXCEPT ![0][t] = <<>>]
    BY DEF send
  <2>2. QED
    BY <1>2, <2>1, BufferTypes DEF Grid, Elsewhere
<1>6. CASE session.continuous /\ keys[t] # <<>>
  <2>1. Becomes(0, t, [th[0][t] EXCEPT !.at = "inputs"])
    BY <1>6 DEF send
  <2>2. ThOK' /\ th'[0][t] = [th[0][t] EXCEPT !.at = "inputs"] /\ Elsewhere(th, th', 0, t)
    BY <1>1, <1>2, <2>1, Do_Place
  <2>3. Types'
    BY <1>1, <1>4, <1>5, <2>2 DEF Types, BuffersOK, QueuesOK
  <2>4. QED
    BY <1>4, <1>5, <1>6, <2>2, <2>3 DEF m
<1>7. CASE ~(session.continuous /\ keys[t] # <<>>)
  <2>1. NextBatch(t)
    BY <1>7 DEF send
  <2>2. /\ ThOK' /\ Elsewhere(th, th', 0, t)
        /\ th'[0][t] = [th[0][t] EXCEPT !.complexity = 0,
                           !.at = IF @ = "post_inputs" THEN "ended"
                                  ELSE IF th[0][t].last = "done" THEN "finish" ELSE "exec"]
    BY <1>1, <2>1, Do_NextBatch
  <2>3. Types'
    BY <1>1, <1>4, <1>5, <2>2 DEF Types, BuffersOK, QueuesOK
  <2>4. QED
    BY <1>4, <1>5, <1>7, <2>2, <2>3 DEF m
<1>8. QED
  BY <1>6, <1>7

LEMMA Do_process ==
  ASSUME Types, NEW t \in Threads, process_receiver_inputs(t), keys[t] # <<>>
  PROVE  /\ Types'
         /\ ot'[0][t] = Tail(ot[0][t]) /\ ot'[1][t] = Append(ot[1][t], Head(keys[t]))
         /\ \A p \in Parties, u \in Threads : u # t => ot'[p][u] = ot[p][u]
         /\ keys'[t] = Tail(keys[t]) /\ \A u \in Threads : u # t => keys'[u] = keys[u]
         /\ Elsewhere(th, th', 0, t)
         /\ Len(keys[t]) = 1 =>
              th'[0][t] = [th[0][t] EXCEPT !.complexity = 0,
                             !.at = IF @ = "post_inputs" THEN "ended"
                                    ELSE IF th[0][t].last = "done" THEN "finish" ELSE "exec"]
         /\ Len(keys[t]) # 1 => th' = th
<1>1. UNCHANGED <<session, gates, masks, store, chan, queue, stopped, done, master, failure>>
  BY DEF process_receiver_inputs, queues
<1>2. 0 \in Parties /\ 1 \in Parties
  BY DEF Parties
<1>3. /\ keys' \in [Threads -> Seq(Positions)]
      /\ keys'[t] = Tail(keys[t]) /\ \A u \in Threads : u # t => keys'[u] = keys[u]
  <2> DEFINE s == Tail(keys[t])
  <2>1. s \in Seq(Positions) /\ keys' = [keys EXCEPT ![t] = s]
    BY <1>2, BufferTypes, TailOK DEF process_receiver_inputs
  <2> HIDE DEF s
  <2>2. keys' \in [Threads -> Seq(Positions)] /\ keys'[t] = s /\ \A u \in Threads : u # t => keys'[u] = keys[u]
    BY <2>1 DEF Types, BuffersOK
  <2>3. QED
    BY <2>2 DEF s
<1>4. /\ ot' \in Grid(Seq(Positions))
      /\ ot'[0][t] = Tail(ot[0][t]) /\ ot'[1][t] = Append(ot[1][t], Head(keys[t]))
      /\ \A p \in Parties, u \in Threads : u # t => ot'[p][u] = ot[p][u]
      /\ Len(ot'[0][t]) <= Capacity /\ Len(ot'[1][t]) <= Capacity
  <2> DEFINE s == Tail(ot[0][t])
             r == Append(ot[1][t], Head(keys[t]))
  <2>1. ot[0][t] # <<>> /\ Len(ot[1][t]) < Capacity
    BY DEF process_receiver_inputs
  <2>2. Head(keys[t]) \in Positions
    BY <1>2, BufferTypes, TailOK
  <2>3. s \in Seq(Positions) /\ Len(s) = Len(ot[0][t]) - 1 /\ Len(ot[0][t]) \in Nat
    BY <1>2, <2>1, BufferTypes, TailOK
  <2>4. r \in Seq(Positions) /\ Len(r) = Len(ot[1][t]) + 1 /\ Len(ot[1][t]) \in Nat
    BY <1>2, <2>2, BufferTypes, AppendOK
  <2>5. Len(s) <= Capacity /\ Len(r) <= Capacity
    BY <1>2, <2>1, <2>3, <2>4, BufferTypes, BoundsOK
  <2>6. ot' = [ot EXCEPT ![0][t] = s, ![1][t] = r]
    BY DEF process_receiver_inputs
  <2> HIDE DEF s, r
  <2>7. ot' \in Grid(Seq(Positions)) /\ ot'[0][t] = s /\ ot'[1][t] = r
        /\ \A p \in Parties, u \in Threads : u # t => ot'[p][u] = ot[p][u]
    <3> DEFINE o == [ot EXCEPT ![0][t] = s]
    <3>1. o \in Grid(Seq(Positions)) /\ o[0][t] = s /\ Elsewhere(ot, o, 0, t)
      BY <1>2, <2>3, BufferTypes DEF Grid, Elsewhere
    <3>2. ot' = [o EXCEPT ![1][t] = r]
      BY <2>6
    <3> HIDE DEF o
    <3>3. ot' \in Grid(Seq(Positions)) /\ ot'[1][t] = r /\ Elsewhere(o, ot', 1, t)
      BY <1>2, <2>4, <3>1, <3>2 DEF Grid, Elsewhere
    <3>4. QED
      BY <1>2, <3>1, <3>3 DEF Elsewhere
  <2>8. QED
    BY <2>5, <2>7 DEF s, r
<1>5. ChannelsOK'
  <2>1. ASSUME NEW p \in Parties, NEW u \in Threads PROVE Len(ot'[p][u]) <= Capacity
    BY <1>4 DEF Types, ChannelsOK, Parties
  <2>2. QED
    BY <1>1, <1>4, <2>1 DEF Types, ChannelsOK
<1>6. CASE Len(keys[t]) = 1
  <2>1. /\ ThOK' /\ Elsewhere(th, th', 0, t)
        /\ th'[0][t] = [th[0][t] EXCEPT !.complexity = 0,
                           !.at = IF @ = "post_inputs" THEN "ended"
                                  ELSE IF th[0][t].last = "done" THEN "finish" ELSE "exec"]
    BY <1>1, <1>6, Do_NextBatch DEF process_receiver_inputs
  <2>2. Types'
    BY <1>1, <1>3, <1>5, <2>1 DEF Types, BuffersOK, QueuesOK
  <2>3. QED
    BY <1>3, <1>4, <1>6, <2>1, <2>2
<1>7. CASE Len(keys[t]) # 1
  <2>1. th' = th /\ Elsewhere(th, th', 0, t)
    BY <1>7 DEF process_receiver_inputs, Elsewhere
  <2>2. Types'
    BY <1>1, <1>3, <1>5, <2>1 DEF Types, BuffersOK, QueuesOK, ThOK, ThreadStates
  <2>3. QED
    BY <1>3, <1>4, <1>7, <2>1, <2>2
<1>8. QED
  BY <1>6, <1>7

LEMMA Do_Garbler_finish ==
  ASSUME Types, NEW t \in Threads, Garbler_finish(t)
  PROVE  /\ Types'
         /\ session.variant = "init" =>
              chan[0][t] # <<>> /\ chan'[0][t] = Tail(chan[0][t]) /\ Elsewhere(chan, chan', 0, t)
         /\ session.variant = "reconstruct" =>
              chan'[1][t] = Append(chan[1][t], [type |-> "pack"]) /\ Elsewhere(chan, chan', 1, t)
         /\ session.variant \notin {"init", "reconstruct"} => chan' = chan
         /\ (session.variant = "init" => Head(chan[0][t]).type = "pack") =>
              /\ th'[0][t] = [th[0][t] EXCEPT !.at = "schedule"] /\ Elsewhere(th, th', 0, t)
              /\ UNCHANGED failure
<1>1. UNCHANGED <<session, gates, masks, keys, store, ot, queue, stopped, master>>
  BY DEF Garbler_finish
<1>2. 0 \in Parties /\ 1 \in Parties
  BY DEF Parties
<1>3. /\ ChannelsOK'
      /\ session.variant = "init" =>
           chan[0][t] # <<>> /\ chan'[0][t] = Tail(chan[0][t]) /\ Elsewhere(chan, chan', 0, t)
      /\ session.variant = "reconstruct" =>
           chan'[1][t] = Append(chan[1][t], [type |-> "pack"]) /\ Elsewhere(chan, chan', 1, t)
      /\ session.variant \notin {"init", "reconstruct"} => chan' = chan
  <2>1. CASE session.variant = "init"
    <3>1. Receive(0, t)
      BY <2>1 DEF Garbler_finish
    <3>2. QED
      BY <1>1, <1>2, <2>1, <3>1, ReceiveUpdate DEF Types, Elsewhere
  <2>2. CASE session.variant = "reconstruct"
    <3>1. Send(1, t, [type |-> "pack"])
      BY <2>2 DEF Garbler_finish
    <3>2. QED
      BY <1>1, <1>2, <2>2, <3>1, SendUpdate, MessagesOf DEF Types, Elsewhere
  <2>3. CASE session.variant \notin {"init", "reconstruct"}
    <3>1. chan' = chan
      BY <2>3 DEF Garbler_finish
    <3>2. QED
      BY <1>1, <2>3, <3>1 DEF Types, ChannelsOK
  <2>4. QED
    BY <2>1, <2>2, <2>3
<1>4. CASE session.variant = "init" => Head(chan[0][t]).type = "pack"
  <2>1. EndTape(0, t) /\ UNCHANGED failure
    BY <1>4 DEF Garbler_finish
  <2>2. /\ ThOK' /\ QueuesOK' /\ Elsewhere(th, th', 0, t)
        /\ th'[0][t] = [th[0][t] EXCEPT !.at = "schedule"]
    BY <1>1, <1>2, <2>1, Do_EndTape
  <2>3. Types'
    BY <1>1, <1>3, <2>1, <2>2 DEF Types, BuffersOK
  <2>4. QED
    BY <1>3, <2>1, <2>2, <2>3
<1>5. CASE ~(session.variant = "init" => Head(chan[0][t]).type = "pack")
  <2>1. Fail(0, "misread") /\ UNCHANGED <<th, done>>
    BY <1>5 DEF Garbler_finish
  <2>2. failure' \in [Parties -> {"none", "overflow", "misread", "branching"}]
    BY <1>2, <2>1, Do_Fail
  <2>3. Types'
    BY <1>1, <1>3, <2>1, <2>2 DEF Types, BuffersOK, QueuesOK, ThOK, ThreadStates
  <2>4. QED
    BY <1>3, <1>5, <2>3
<1>6. QED
  BY <1>4, <1>5

LEMMA Do_post_run ==
  ASSUME Types, NEW t \in Threads, post_run(t)
  PROVE  /\ Types'
         /\ chan'[1][t] = Append(chan[1][t], [type |-> "DONE"]) /\ Elsewhere(chan, chan', 1, t)
         /\ th'[0][t] = [th[0][t] EXCEPT !.at = IF keys[t] # <<>> THEN "post_inputs" ELSE "ended"]
         /\ Elsewhere(th, th', 0, t)
<1>1. UNCHANGED <<session, gates, masks, keys, store, ot, queue, stopped, done, master, failure>>
  BY DEF post_run, queues
<1> DEFINE a == IF keys[t] # <<>> THEN "post_inputs" ELSE "ended"
<1>2. 0 \in Parties /\ 1 \in Parties /\ a \in Places[0] \ {"exec", "keys"}
  BY PlacesOf DEF Parties
<1>3. ChannelsOK' /\ chan'[1][t] = Append(chan[1][t], [type |-> "DONE"]) /\ Elsewhere(chan, chan', 1, t)
  BY <1>1, <1>2, SendUpdate, MessagesOf DEF Types, Elsewhere, post_run
<1>4. Becomes(0, t, [th[0][t] EXCEPT !.at = a])
  BY DEF post_run
<1> HIDE DEF a
<1>5. ThOK' /\ th'[0][t] = [th[0][t] EXCEPT !.at = a] /\ Elsewhere(th, th', 0, t)
  BY <1>1, <1>2, <1>4, Do_Place
<1>6. Types'
  BY <1>1, <1>3, <1>5 DEF Types, BuffersOK, QueuesOK
<1>7. QED
  BY <1>3, <1>5, <1>6 DEF a

LEMMA Do_receive_to_store ==
  ASSUME Types, NEW t \in Threads, receive_to_store(t)
  PROVE  /\ Types'
         /\ chan[1][t] # <<>> /\ chan'[1][t] = Tail(chan[1][t]) /\ Elsewhere(chan, chan', 1, t)
         /\ Head(chan[1][t]).type = "MORE" =>
              /\ store'[t] = Append(store[t], Head(chan[1][t]))
              /\ \A u \in Threads : u # t => store'[u] = store[u]
              /\ UNCHANGED <<th, failure>>
         /\ Head(chan[1][t]).type = "DONE" =>
              /\ th'[1][t] = [th[1][t] EXCEPT !.at = "schedule"] /\ Elsewhere(th, th', 1, t)
              /\ UNCHANGED <<store, failure>>
<1>1. UNCHANGED <<session, gates, masks, keys, ot, queue, stopped, done, master>>
  BY DEF receive_to_store, queues
<1>2. 1 \in Parties /\ "schedule" \in Places[1] \ {"exec", "keys"}
  BY PlacesOf DEF Parties
<1>3. /\ ChannelsOK' /\ Head(chan[1][t]) \in Messages[1]
      /\ chan[1][t] # <<>> /\ chan'[1][t] = Tail(chan[1][t]) /\ Elsewhere(chan, chan', 1, t)
  BY <1>1, <1>2, ReceiveUpdate DEF Types, receive_to_store, Elsewhere
<1>4. PICK m \in Messages[1] : m = Head(chan[1][t])
  BY <1>3
<1>5. CASE m.type = "MORE"
  <2>1. store' = [store EXCEPT ![t] = Append(store[t], m)] /\ UNCHANGED <<th, failure>>
    BY <1>4, <1>5 DEF receive_to_store
  <2> DEFINE s == Append(store[t], m)
  <2>2. s \in Seq(Batches) /\ store' = [store EXCEPT ![t] = s]
    BY <1>2, <1>4, <1>5, <2>1, MessagesOf, BufferTypes, AppendOK
  <2> HIDE DEF s
  <2>3. store' \in [Threads -> Seq(Batches)] /\ store'[t] = s /\ \A u \in Threads : u # t => store'[u] = store[u]
    BY <2>2 DEF Types, BuffersOK
  <2>4. Types'
    BY <1>1, <1>3, <2>1, <2>3 DEF Types, BuffersOK, QueuesOK, ThOK, ThreadStates
  <2>5. QED
    BY <1>3, <1>4, <1>5, <2>1, <2>3, <2>4 DEF s
<1>6. CASE m.type = "DONE"
  <2>1. Becomes(1, t, [th[1][t] EXCEPT !.at = "schedule"]) /\ UNCHANGED <<store, failure>>
    BY <1>4, <1>6 DEF receive_to_store
  <2>2. ThOK' /\ th'[1][t] = [th[1][t] EXCEPT !.at = "schedule"] /\ Elsewhere(th, th', 1, t)
    BY <1>1, <1>2, <2>1, Do_Place
  <2>3. Types'
    BY <1>1, <1>3, <2>1, <2>2 DEF Types, BuffersOK, QueuesOK
  <2>4. QED
    BY <1>3, <1>4, <1>6, <2>1, <2>2, <2>3
<1>7. CASE m.type \notin {"MORE", "DONE"}
  <2>1. Fail(1, "misread") /\ UNCHANGED <<th, store>>
    BY <1>4, <1>7 DEF receive_to_store
  <2>2. failure' \in [Parties -> {"none", "overflow", "misread", "branching"}]
    BY <1>2, <2>1, Do_Fail
  <2>3. Types'
    BY <1>1, <1>3, <2>1, <2>2 DEF Types, BuffersOK, QueuesOK, ThOK, ThreadStates
  <2>4. QED
    BY <1>3, <1>4, <1>7, <2>3
<1>8. QED
  BY <1>5, <1>6, <1>7

LEMMA Do_LoadBatch ==
  ASSUME Types, NEW t \in Threads, NEW b \in Batches, LoadBatch(t, b), session' = session,
         UNCHANGED keys, store' \in [Threads -> Seq(Batches)]
  PROVE  /\ ThOK' /\ BuffersOK'
         /\ th'[1][t] = [th[1][t] EXCEPT !.at = "exec", !.complexity = 0]
         /\ gates'[1][t] = b.gates /\ masks'[1][t] = b.masks
         /\ Elsewhere(th, th', 1, t) /\ Elsewhere(gates, gates', 1, t) /\ Elsewhere(masks, masks', 1, t)
<1>1. 1 \in Parties /\ b.gates \in Seq(Positions) /\ b.masks \in Seq(Positions)
  BY DEF Parties, Batches
<1>2. gates' = [gates EXCEPT ![1][t] = b.gates] /\ masks' = [masks EXCEPT ![1][t] = b.masks]
  BY DEF LoadBatch
<1> DEFINE g == b.gates
           m == b.masks
<1>3. g \in Seq(Positions) /\ m \in Seq(Positions)
      /\ gates' = [gates EXCEPT ![1][t] = g] /\ masks' = [masks EXCEPT ![1][t] = m]
  BY <1>1, <1>2
<1> HIDE DEF g, m
<1>4. /\ gates' \in Grid(Seq(Positions)) /\ gates'[1][t] = g /\ Elsewhere(gates, gates', 1, t)
      /\ masks' \in Grid(Seq(Positions)) /\ masks'[1][t] = m /\ Elsewhere(masks, masks', 1, t)
  BY <1>1, <1>3, BufferTypes DEF Grid, Elsewhere
<1>5. ThOK' /\ Elsewhere(th, th', 1, t) /\ th'[1][t] = [th[1][t] EXCEPT !.at = "exec", !.complexity = 0]
  BY Do_Load DEF LoadBatch
<1>6. BuffersOK'
  BY <1>4 DEF Types, BuffersOK
<1>7. QED
  BY <1>4, <1>5, <1>6 DEF g, m

LEMMA Do_receive ==
  ASSUME Types, NEW t \in Threads, receive(t)
  PROVE  /\ Types'
         /\ chan[1][t] # <<>> /\ chan'[1][t] = Tail(chan[1][t]) /\ Elsewhere(chan, chan', 1, t)
         /\ Head(chan[1][t]).type = "MORE" =>
              /\ th'[1][t] = [th[1][t] EXCEPT !.at = "exec", !.complexity = 0]
              /\ gates'[1][t] = Head(chan[1][t]).gates /\ masks'[1][t] = Head(chan[1][t]).masks
              /\ Elsewhere(th, th', 1, t) /\ Elsewhere(gates, gates', 1, t)
              /\ Elsewhere(masks, masks', 1, t) /\ UNCHANGED failure
<1>1. UNCHANGED <<session, keys, store, ot, queue, stopped, done, master>>
  BY DEF receive, queues
<1>2. 1 \in Parties
  BY DEF Parties
<1>3. /\ ChannelsOK' /\ Head(chan[1][t]) \in Messages[1]
      /\ chan[1][t] # <<>> /\ chan'[1][t] = Tail(chan[1][t]) /\ Elsewhere(chan, chan', 1, t)
  BY <1>1, <1>2, ReceiveUpdate DEF Types, receive, Elsewhere
<1>4. PICK m \in Messages[1] : m = Head(chan[1][t])
  BY <1>3
<1>5. CASE m.type = "MORE"
  <2>1. LoadBatch(t, m) /\ UNCHANGED failure /\ m \in Batches
    BY <1>4, <1>5, MessagesOf DEF receive
  <2>2. store' \in [Threads -> Seq(Batches)]
    BY <1>1 DEF Types, BuffersOK
  <2>3. /\ ThOK' /\ BuffersOK'
        /\ th'[1][t] = [th[1][t] EXCEPT !.at = "exec", !.complexity = 0]
        /\ gates'[1][t] = m.gates /\ masks'[1][t] = m.masks
        /\ Elsewhere(th, th', 1, t) /\ Elsewhere(gates, gates', 1, t) /\ Elsewhere(masks, masks', 1, t)
    BY <1>1, <2>1, <2>2, Do_LoadBatch
  <2>4. Types'
    BY <1>1, <1>3, <2>1, <2>3 DEF Types, QueuesOK
  <2>5. QED
    BY <1>3, <1>4, <2>1, <2>3, <2>4
<1>6. CASE m.type # "MORE"
  <2>1. Fail(1, "misread") /\ UNCHANGED <<gates, masks, th>>
    BY <1>4, <1>6 DEF receive
  <2>2. failure' \in [Parties -> {"none", "overflow", "misread", "branching"}]
    BY <1>2, <2>1, Do_Fail
  <2>3. Types'
    BY <1>1, <1>3, <2>1, <2>2 DEF Types, BuffersOK, QueuesOK, ThOK, ThreadStates
  <2>4. QED
    BY <1>3, <1>4, <1>6, <2>3
<1>7. QED
  BY <1>5, <1>6

LEMMA Do_pop_store ==
  ASSUME Types, NEW t \in Threads, pop_store(t)
  PROVE  /\ Types'
         /\ th'[1][t] = [th[1][t] EXCEPT !.at = "exec", !.complexity = 0]
         /\ Elsewhere(th, th', 1, t)
         /\ store[t] # <<>> =>
              /\ gates'[1][t] = Head(store[t]).gates /\ masks'[1][t] = Head(store[t]).masks
              /\ Elsewhere(gates, gates', 1, t) /\ Elsewhere(masks, masks', 1, t)
              /\ store'[t] = Tail(store[t]) /\ \A u \in Threads : u # t => store'[u] = store[u]
<1>1. UNCHANGED <<session, keys, chan, ot, queue, stopped, done, master, failure>>
  BY DEF pop_store, queues
<1>2. 1 \in Parties
  BY DEF Parties
<1>3. CASE store[t] # <<>>
  <2>1. PICK b \in Batches : b = Head(store[t])
    BY <1>2, <1>3, BufferTypes, TailOK
  <2> DEFINE s == Tail(store[t])
  <2>2. s \in Seq(Batches) /\ store' = [store EXCEPT ![t] = s]
    BY <1>2, <1>3, BufferTypes, TailOK DEF pop_store
  <2> HIDE DEF s
  <2>3. store' \in [Threads -> Seq(Batches)] /\ store'[t] = s /\ \A u \in Threads : u # t => store'[u] = store[u]
    BY <2>2 DEF Types, BuffersOK
  <2>4. LoadBatch(t, b)
    BY <1>3, <2>1 DEF pop_store
  <2>5. /\ ThOK' /\ BuffersOK'
        /\ th'[1][t] = [th[1][t] EXCEPT !.at = "exec", !.complexity = 0]
        /\ gates'[1][t] = b.gates /\ masks'[1][t] = b.masks
        /\ Elsewhere(th, th', 1, t) /\ Elsewhere(gates, gates', 1, t) /\ Elsewhere(masks, masks', 1, t)
    BY <1>1, <2>3, <2>4, Do_LoadBatch
  <2>6. Types'
    BY <1>1, <2>5 DEF Types, QueuesOK, ChannelsOK
  <2>7. QED
    BY <2>1, <2>3, <2>5, <2>6 DEF s
<1>4. CASE store[t] = <<>>
  <2>1. Becomes(1, t, [th[1][t] EXCEPT !.at = "exec", !.complexity = 0]) /\ UNCHANGED <<gates, masks, store>>
    BY <1>4 DEF pop_store
  <2>2. ThOK' /\ Elsewhere(th, th', 1, t) /\ th'[1][t] = [th[1][t] EXCEPT !.at = "exec", !.complexity = 0]
    BY <1>1, <2>1, Do_Load
  <2>3. Types'
    BY <1>1, <2>1, <2>2 DEF Types, BuffersOK, QueuesOK, ChannelsOK
  <2>4. QED
    BY <1>4, <2>2, <2>3
<1>5. QED
  BY <1>3, <1>4

LEMMA Do_Eval_and ==
  ASSUME Types, NEW t \in Threads, Eval_and(t)
  PROVE  /\ Types'
         /\ gates[1][t] # <<>> =>
              /\ th'[1][t] = [th[1][t] EXCEPT !.PC = @ + 1, !.complexity = @ + 1,
                   !.at = IF th[1][t].complexity + 1 >= BatchSize THEN "receive" ELSE "exec",
                   !.last = "time"]
              /\ gates'[1][t] = Tail(gates[1][t])
              /\ Elsewhere(th, th', 1, t) /\ Elsewhere(gates, gates', 1, t) /\ UNCHANGED failure
<1>1. UNCHANGED <<session, masks, keys, store, chan, ot, queue, stopped, done, master>>
  BY DEF Eval_and, queues
<1>2. "receive" \in Places[1] \ {"exec", "keys"} /\ 1 \in Parties
  BY PlacesOf DEF Parties
<1>3. CASE gates[1][t] # <<>>
  <2>1. CountGate(1, t, "receive") /\ th[1][t].at = "exec" /\ UNCHANGED failure
    BY <1>3 DEF Eval_and, Executing, At
  <2>2. /\ ThOK' /\ Elsewhere(th, th', 1, t)
        /\ th'[1][t] = [th[1][t] EXCEPT !.PC = @ + 1, !.complexity = @ + 1,
                   !.at = IF th[1][t].complexity + 1 >= BatchSize THEN "receive" ELSE "exec",
                   !.last = "time"]
    BY <1>1, <1>2, <2>1, Do_CountGate
  <2> DEFINE s == Tail(gates[1][t])
  <2>3. s \in Seq(Positions) /\ gates' = [gates EXCEPT ![1][t] = s]
    BY <1>2, <1>3, BufferTypes, TailOK DEF Eval_and
  <2> HIDE DEF s
  <2>4. gates' \in Grid(Seq(Positions)) /\ gates'[1][t] = s /\ Elsewhere(gates, gates', 1, t)
    BY <1>2, <2>3, BufferTypes DEF Grid, Elsewhere
  <2>5. Types'
    BY <1>1, <2>1, <2>2, <2>4 DEF Types, BuffersOK, ChannelsOK, QueuesOK
  <2>6. QED
    BY <2>1, <2>2, <2>4, <2>5 DEF s
<1>4. CASE gates[1][t] = <<>>
  <2>1. Fail(1, "overflow") /\ UNCHANGED <<gates, th>>
    BY <1>4 DEF Eval_and
  <2>2. failure' \in [Parties -> {"none", "overflow", "misread", "branching"}]
    BY <1>2, <2>1, Do_Fail
  <2>3. Types'
    BY <1>1, <2>1, <2>2 DEF Types, BuffersOK, QueuesOK, ThOK, ThreadStates, ChannelsOK
  <2>4. QED
    BY <1>4, <2>3
<1>5. QED
  BY <1>3, <1>4

LEMMA Do_Eval_inputb ==
  ASSUME Types, NEW t \in Threads, Eval_inputb(t)
  PROVE  /\ Types'
         /\ th'[1][t] = [th[1][t] EXCEPT !.at = "keys"] /\ Elsewhere(th, th', 1, t)
         /\ ot'[0][t] = Append(ot[0][t], Position(1, t)) /\ Elsewhere(ot, ot', 0, t)
<1>1. UNCHANGED <<session, gates, masks, keys, store, chan, queue, stopped, done, master, failure>>
  BY DEF Eval_inputb, queues
<1>2. 0 \in Parties /\ 1 \in Parties /\ "keys" \in Places[1] /\ "keys" \in Places[0] \union Places[1]
  BY PlacesOf DEF Parties
<1>3. PICK y \in ThreadStates : y = th[1][t] /\ y.complexity < BatchSize
  BY <1>2, ThType DEF Eval_inputb, Executing, At
<1> DEFINE x == [y EXCEPT !.at = "keys"]
<1>4. Becomes(1, t, x) /\ x = [th[1][t] EXCEPT !.at = "keys"]
  BY <1>3 DEF Eval_inputb
<1>5. x \in ThreadStates /\ x.at = "keys" /\ x.complexity < BatchSize
  BY <1>2, <1>3 DEF ThreadStates
<1> HIDE DEF x
<1>6. ThOK' /\ th'[1][t] = x /\ Elsewhere(th, th', 1, t)
  <2>1. Becomes(1, t, x)
    BY <1>4
  <2>2. QED
    BY <1>1, <1>2, <1>5, <2>1, Do_Becomes
<1> DEFINE s == Append(ot[0][t], Position(1, t))
<1>7. s \in Seq(Positions) /\ Len(s) = Len(ot[0][t]) + 1 /\ Len(ot[0][t]) \in Nat
  BY <1>2, ThType, BufferTypes, AppendOK
<1>8. Len(s) <= Capacity
  BY <1>7, BoundsOK DEF Eval_inputb
<1>9. ot' = [ot EXCEPT ![0][t] = s]
  BY DEF Eval_inputb
<1> HIDE DEF s
<1>10. ot' \in Grid(Seq(Positions)) /\ ot'[0][t] = s /\ Elsewhere(ot, ot', 0, t)
  BY <1>2, <1>7, <1>9, BufferTypes DEF Grid, Elsewhere
<1>11. ChannelsOK'
  <2>1. ASSUME NEW q \in Parties, NEW u \in Threads PROVE Len(ot'[q][u]) <= Capacity
    BY <1>8, <1>10 DEF Types, ChannelsOK, Elsewhere
  <2>2. QED
    BY <1>1, <1>10, <2>1 DEF Types, ChannelsOK
<1>12. Types'
  BY <1>1, <1>6, <1>11 DEF Types, BuffersOK, QueuesOK
<1>13. QED
  BY <1>4, <1>6, <1>10, <1>12 DEF s

LEMMA Do_Eval_finalize_input ==
  ASSUME Types, NEW t \in Threads, Eval_finalize_input(t)
  PROVE  /\ Types'
         /\ th'[1][t] = [th[1][t] EXCEPT !.PC = @ + 1, !.at = "exec"] /\ Elsewhere(th, th', 1, t)
         /\ ot'[1][t] = Tail(ot[1][t]) /\ Elsewhere(ot, ot', 1, t)
<1>1. UNCHANGED <<session, gates, masks, keys, store, chan, queue, stopped, done, master, failure>>
  BY DEF Eval_finalize_input, queues
<1>2. 1 \in Parties
  BY DEF Parties
<1>3. ThOK' /\ Elsewhere(th, th', 1, t) /\ th'[1][t] = [th[1][t] EXCEPT !.PC = @ + 1, !.at = "exec"]
  BY <1>1, <1>2, Do_Step DEF Eval_finalize_input, At
<1> DEFINE s == Tail(ot[1][t])
<1>4. s \in Seq(Positions) /\ Len(s) = Len(ot[1][t]) - 1 /\ Len(ot[1][t]) \in Nat
  BY <1>2, BufferTypes, TailOK DEF Eval_finalize_input
<1>5. Len(s) <= Capacity
  BY <1>2, <1>4, BufferTypes, BoundsOK
<1>6. ot' = [ot EXCEPT ![1][t] = s]
  BY DEF Eval_finalize_input
<1> HIDE DEF s
<1>7. ot' \in Grid(Seq(Positions)) /\ ot'[1][t] = s /\ Elsewhere(ot, ot', 1, t)
  BY <1>2, <1>4, <1>6, BufferTypes DEF Grid, Elsewhere
<1>8. ChannelsOK'
  <2>1. ASSUME NEW q \in Parties, NEW u \in Threads PROVE Len(ot'[q][u]) <= Capacity
    BY <1>5, <1>7 DEF Types, ChannelsOK, Elsewhere
  <2>2. QED
    BY <1>1, <1>7, <2>1 DEF Types, ChannelsOK
<1>9. Types'
  BY <1>1, <1>3, <1>8 DEF Types, BuffersOK, QueuesOK
<1>10. QED
  BY <1>3, <1>7, <1>9 DEF s

LEMMA Do_Eval_reveal ==
  ASSUME Types, NEW t \in Threads, Eval_reveal(t)
  PROVE  /\ Types'
         /\ masks[1][t] # <<>> =>
              /\ masks'[1][t] = Tail(masks[1][t]) /\ Elsewhere(masks, masks', 1, t)
              /\ Elsewhere(th, th', 1, t) /\ UNCHANGED failure
              /\ \E bit \in BOOLEAN :
                   /\ th'[1][t] = [th[1][t] EXCEPT !.PC = @ + 1, !.tainted = TRUE, !.reg = bit,
                                     !.at = IF session.continuous THEN "receive" ELSE "exec"]
                   /\ IF session.continuous
                      THEN /\ chan'[0][t] = Append(chan[0][t], [type |-> "value", bit |-> bit])
                           /\ Elsewhere(chan, chan', 0, t)
                      ELSE chan' = chan
<1>1. UNCHANGED <<session, gates, keys, store, ot, queue, stopped, done, master>>
  BY DEF Eval_reveal, queues
<1>2. 0 \in Parties /\ 1 \in Parties
  BY DEF Parties
<1>3. CASE masks[1][t] # <<>>
  <2>1. PICK bit \in BOOLEAN :
          /\ masks' = [masks EXCEPT ![1][t] = Tail(@)]
          /\ Becomes(1, t, [th[1][t] EXCEPT !.PC = @ + 1, !.tainted = TRUE, !.reg = bit,
                              !.at = IF session.continuous THEN "receive" ELSE "exec"])
          /\ IF session.continuous THEN Send(0, t, [type |-> "value", bit |-> bit])
                                   ELSE UNCHANGED chan
          /\ UNCHANGED failure
    BY <1>3 DEF Eval_reveal
  <2> DEFINE s == Tail(masks[1][t])
  <2>2. s \in Seq(Positions) /\ masks' = [masks EXCEPT ![1][t] = s]
    BY <1>2, <1>3, <2>1, BufferTypes, TailOK
  <2> HIDE DEF s
  <2>3. masks' \in Grid(Seq(Positions)) /\ masks'[1][t] = s /\ Elsewhere(masks, masks', 1, t)
    BY <1>2, <2>2, BufferTypes DEF Grid, Elsewhere
  <2>4. /\ ChannelsOK'
        /\ IF session.continuous
           THEN /\ chan'[0][t] = Append(chan[0][t], [type |-> "value", bit |-> bit])
                /\ Elsewhere(chan, chan', 0, t)
           ELSE chan' = chan
    <3>1. CASE session.continuous
      <4>1. [type |-> "value", bit |-> bit] \in Messages[0] /\ Send(0, t, [type |-> "value", bit |-> bit])
        BY <2>1, <3>1, MessagesOf
      <4>2. QED
        BY <1>1, <1>2, <3>1, <4>1, SendUpdate DEF Types, Elsewhere
    <3>2. CASE ~session.continuous
      <4>1. chan' = chan
        BY <2>1, <3>2
      <4>2. QED
        BY <1>1, <3>2, <4>1 DEF Types, ChannelsOK
    <3>3. QED
      BY <3>1, <3>2
  <2>5. PICK y \in ThreadStates : y = th[1][t] /\ y.complexity < BatchSize
    BY <1>2, ThType DEF Eval_reveal, Executing, At
  <2> DEFINE a == IF session.continuous THEN "receive" ELSE "exec"
             x == [y EXCEPT !.PC = @ + 1, !.tainted = TRUE, !.reg = bit, !.at = a]
  <2>6. Becomes(1, t, x)
    BY <2>1, <2>5
  <2>7. x = [th[1][t] EXCEPT !.PC = @ + 1, !.tainted = TRUE, !.reg = bit,
                              !.at = IF session.continuous THEN "receive" ELSE "exec"]
    BY <2>5
  <2>8. a \in Places[1] /\ a \in Places[0] \union Places[1] /\ y.PC + 1 \in Nat \ {0}
    BY <2>5, PlacesOf DEF ThreadStates
  <2> HIDE DEF a
  <2>9. x \in ThreadStates /\ x.at = a /\ x.complexity < BatchSize
    BY <2>1, <2>5, <2>8 DEF ThreadStates
  <2> HIDE DEF x
  <2>10. ThOK' /\ th'[1][t] = x /\ Elsewhere(th, th', 1, t)
    <3>1. x.at \in Places[1] /\ (x.at \in {"exec", "keys"} => x.complexity < BatchSize) /\ session' = session
      BY <1>1, <2>8, <2>9
    <3>2. QED
      BY <1>2, <2>6, <2>9, <3>1, Do_Becomes, Zenon
  <2>11. Types'
    BY <1>1, <2>1, <2>3, <2>4, <2>10 DEF Types, BuffersOK, QueuesOK
  <2>12. QED
    BY <2>1, <2>3, <2>4, <2>7, <2>10, <2>11 DEF s
<1>4. CASE masks[1][t] = <<>>
  <2>1. Fail(1, "overflow") /\ UNCHANGED <<masks, th, chan>>
    BY <1>4 DEF Eval_reveal
  <2>2. failure' \in [Parties -> {"none", "overflow", "misread", "branching"}]
    BY <1>2, <2>1, Do_Fail
  <2>3. Types'
    BY <1>1, <2>1, <2>2 DEF Types, BuffersOK, QueuesOK, ThOK, ThreadStates, ChannelsOK
  <2>4. QED
    BY <1>4, <2>3
<1>5. QED
  BY <1>3, <1>4

LEMMA Do_Eval_run_tapes ==
  ASSUME Types, NEW t \in Threads, Eval_run_tapes(t) PROVE Types'
<1>1. UNCHANGED <<session, gates, masks, keys, store, chan, ot, stopped, done, master, failure>>
  BY DEF Eval_run_tapes
<1>2. 1 \in Parties /\ Executing(1, t, "run_tape") /\ Schedule(1, t)
  BY DEF Parties, Eval_run_tapes
<1>3. QueuesOK'
  BY <1>1, <1>2, Do_Schedule
<1>4. PICK y \in ThreadStates : y = th[1][t] /\ y.complexity < BatchSize
  BY <1>2, ThType DEF Executing, At
<1> DEFINE a == IF session.continuous /\ y.tainted THEN "receive" ELSE "exec"
           b == IF session.continuous THEN ~y.tainted ELSE y.tainted
           x == [y EXCEPT !.PC = @ + 1, !.tainted = b, !.at = a]
<1>5. Becomes(1, t, x)
  BY <1>4 DEF Eval_run_tapes
<1>6. a \in Places[1] /\ a \in Places[0] \union Places[1] /\ y.PC + 1 \in Nat \ {0}
  BY <1>4, PlacesOf DEF ThreadStates
<1>7. b \in BOOLEAN
  BY <1>4 DEF ThreadStates
<1> HIDE DEF a, b
<1>8. x \in ThreadStates /\ x.at = a /\ x.complexity < BatchSize
  BY <1>4, <1>6, <1>7 DEF ThreadStates
<1> HIDE DEF x
<1>9. ThOK'
  BY <1>1, <1>2, <1>5, <1>6, <1>8, Do_Becomes
<1>10. QED
  BY <1>1, <1>3, <1>9 DEF Types, BuffersOK, ChannelsOK

LEMMA Do_Evaluator_finish ==
  ASSUME Types, NEW t \in Threads, Evaluator_finish(t)
  PROVE  /\ Types'
         /\ session.continuous /\ session.variant = "init" =>
              chan'[0][t] = Append(chan[0][t], [type |-> "pack"]) /\ Elsewhere(chan, chan', 0, t)
         /\ session.continuous /\ session.variant = "reconstruct" =>
              chan[1][t] # <<>> /\ chan'[1][t] = Tail(chan[1][t]) /\ Elsewhere(chan, chan', 1, t)
         /\ ~session.continuous \/ session.variant \notin {"init", "reconstruct"} => chan' = chan
         /\ (session.continuous /\ session.variant = "reconstruct" => Head(chan[1][t]).type = "pack") =>
              /\ th'[1][t] = [th[1][t] EXCEPT !.at = "schedule"] /\ Elsewhere(th, th', 1, t)
              /\ UNCHANGED failure
<1>1. UNCHANGED <<session, gates, masks, keys, store, ot, queue, stopped, master>>
  BY DEF Evaluator_finish
<1>2. 0 \in Parties /\ 1 \in Parties
  BY DEF Parties
<1>3. /\ ChannelsOK'
      /\ session.continuous /\ session.variant = "init" =>
           chan'[0][t] = Append(chan[0][t], [type |-> "pack"]) /\ Elsewhere(chan, chan', 0, t)
      /\ session.continuous /\ session.variant = "reconstruct" =>
           chan[1][t] # <<>> /\ chan'[1][t] = Tail(chan[1][t]) /\ Elsewhere(chan, chan', 1, t)
      /\ ~session.continuous \/ session.variant \notin {"init", "reconstruct"} => chan' = chan
  <2>1. CASE session.continuous /\ session.variant = "init"
    <3>1. Send(0, t, [type |-> "pack"])
      BY <2>1 DEF Evaluator_finish
    <3>2. QED
      BY <1>1, <1>2, <2>1, <3>1, SendUpdate, MessagesOf DEF Types, Elsewhere
  <2>2. CASE session.continuous /\ session.variant = "reconstruct"
    <3>1. Receive(1, t)
      BY <2>2 DEF Evaluator_finish
    <3>2. QED
      BY <1>1, <1>2, <2>2, <3>1, ReceiveUpdate DEF Types, Elsewhere
  <2>3. CASE ~session.continuous \/ session.variant \notin {"init", "reconstruct"}
    <3>1. chan' = chan
      BY <2>3 DEF Evaluator_finish
    <3>2. QED
      BY <1>1, <2>3, <3>1 DEF Types, ChannelsOK
  <2>4. QED
    BY <2>1, <2>2, <2>3
<1>4. CASE session.continuous /\ session.variant = "reconstruct" => Head(chan[1][t]).type = "pack"
  <2>1. EndTape(1, t) /\ UNCHANGED failure
    BY <1>4 DEF Evaluator_finish
  <2>2. /\ ThOK' /\ QueuesOK' /\ Elsewhere(th, th', 1, t)
        /\ th'[1][t] = [th[1][t] EXCEPT !.at = "schedule"]
    BY <1>1, <1>2, <2>1, Do_EndTape
  <2>3. Types'
    BY <1>1, <1>3, <2>1, <2>2 DEF Types, BuffersOK
  <2>4. QED
    BY <1>3, <2>1, <2>2, <2>3
<1>5. CASE ~(session.continuous /\ session.variant = "reconstruct" => Head(chan[1][t]).type = "pack")
  <2>1. Fail(1, "misread") /\ UNCHANGED <<th, done>>
    BY <1>5 DEF Evaluator_finish
  <2>2. failure' \in [Parties -> {"none", "overflow", "misread", "branching"}]
    BY <1>2, <2>1, Do_Fail
  <2>3. Types'
    BY <1>1, <1>3, <2>1, <2>2 DEF Types, BuffersOK, QueuesOK, ThOK, ThreadStates
  <2>4. QED
    BY <1>3, <1>5, <2>3
<1>6. QED
  BY <1>4, <1>5

LEMMA Do_MasterStart ==
  ASSUME Types, NEW p \in Parties, MasterStart(p)
  PROVE  /\ Types'
         /\ queue'[p][0] = Append(queue[p][0], 0) /\ Elsewhere(queue, queue', p, 0)
         /\ master'[p].at = "stop" /\ master'[p].thread = master[p].thread
         /\ \A q \in Parties : q # p => master'[q] = master[q]
<1>0. 0 \in Threads /\ 0 \in DOMAIN session.tapes
  BY BoundsOK DEF Types, IsSession, Threads
<1>1. UNCHANGED <<session, th, gates, masks, keys, store, chan, ot, stopped, failure>>
  BY DEF MasterStart
<1>2. done' \in Grid(Nat)
  <2>1. \A t \in Threads : done[p][t] \in Nat /\ done[p][t] > 0 /\ done[p][t] - 1 \in Nat
    BY DEF Types, QueuesOK, Grid, MasterStart
  <2> DEFINE d == [t \in Threads |-> done[p][t] - 1]
  <2>2. d \in [Threads -> Nat] /\ done' = [done EXCEPT ![p] = d]
    BY <2>1 DEF MasterStart
  <2> HIDE DEF d
  <2>3. QED
    BY <2>2 DEF Types, QueuesOK, Grid
<1>3. queue' \in Grid(Seq(DOMAIN session.tapes)) /\ queue'[p][0] = Append(queue[p][0], 0)
      /\ Elsewhere(queue, queue', p, 0)
  <2>1. queue \in Grid(Seq(DOMAIN session.tapes)) /\ queue[p][0] \in Seq(DOMAIN session.tapes)
    BY <1>0 DEF Types, QueuesOK, Grid
  <2> DEFINE s == Append(queue[p][0], 0)
  <2>2. s \in Seq(DOMAIN session.tapes) /\ queue' = [queue EXCEPT ![p][0] = s]
    BY <1>0, <2>1, AppendOK DEF MasterStart
  <2> HIDE DEF s
  <2>3. queue' \in Grid(Seq(DOMAIN session.tapes)) /\ queue'[p][0] = s /\ Elsewhere(queue, queue', p, 0)
    BY <1>0, <2>1, <2>2 DEF Grid, Elsewhere
  <2>4. QED
    BY <2>3 DEF s
<1>4. /\ master' \in [Parties -> [at : {"start", "stop", "join", "sync", "exit"}, thread : Threads]]
      /\ master'[p].at = "stop" /\ master'[p].thread = master[p].thread
      /\ \A q \in Parties : q # p => master'[q] = master[q]
  <2>1. master' = [master EXCEPT ![p].at = "stop"]
    BY DEF MasterStart
  <2>2. QED
    BY <2>1 DEF Types, QueuesOK
<1>5. Types'
  BY <1>1, <1>2, <1>3, <1>4 DEF Types, BuffersOK, ChannelsOK, QueuesOK, ThOK, ThreadStates
<1>6. QED
  BY <1>3, <1>4, <1>5

LEMMA Do_MasterStop ==
  ASSUME Types, NEW p \in Parties, MasterStop(p)
  PROVE  /\ Types'
         /\ master'[p].at = "join" /\ master'[p].thread = master[p].thread
         /\ \A q \in Parties : q # p => master'[q] = master[q] /\ stopped'[q] = stopped[q]
<1>1. UNCHANGED <<session, th, gates, masks, keys, store, chan, ot, queue, done, failure>>
  BY DEF MasterStop
<1>2. /\ master' \in [Parties -> [at : {"start", "stop", "join", "sync", "exit"}, thread : Threads]]
      /\ master'[p].at = "join" /\ master'[p].thread = master[p].thread
      /\ \A q \in Parties : q # p => master'[q] = master[q]
  <2>1. master' = [master EXCEPT ![p].at = "join"]
    BY DEF MasterStop
  <2>2. QED
    BY <2>1 DEF Types, QueuesOK
<1>3. stopped' \in Grid(BOOLEAN) /\ \A q \in Parties : q # p => stopped'[q] = stopped[q]
  <2>1. PICK u \in Threads : u = master[p].thread
    BY DEF Types, QueuesOK
  <2>2. stopped' = [stopped EXCEPT ![p][u] = TRUE] /\ stopped \in Grid(BOOLEAN)
    BY <2>1 DEF MasterStop, Types, QueuesOK
  <2>3. QED
    BY <2>1, <2>2 DEF Grid
<1>4. Types'
  BY <1>1, <1>2, <1>3 DEF Types, BuffersOK, ChannelsOK, QueuesOK, ThOK, ThreadStates
<1>5. QED
  BY <1>2, <1>3, <1>4

LEMMA Do_MasterJoin ==
  ASSUME Types, NEW p \in Parties, MasterJoin(p)
  PROVE  /\ Types'
         /\ IF master[p].thread + 1 \in Threads
            THEN master'[p].at = "stop" /\ master'[p].thread = master[p].thread + 1
            ELSE master'[p].at = "sync" /\ master'[p].thread = master[p].thread
         /\ \A q \in Parties : q # p => master'[q] = master[q]
<1>1. UNCHANGED <<session, th, gates, masks, keys, store, chan, ot, queue, stopped, done, failure>>
  BY DEF MasterJoin
<1>2. PICK m \in [at : {"start", "stop", "join", "sync", "exit"}, thread : Threads] : m = master[p]
  BY DEF Types, QueuesOK
<1> DEFINE x == IF m.thread + 1 \in Threads THEN [at |-> "stop", thread |-> m.thread + 1]
                ELSE [m EXCEPT !.at = "sync"]
<1>3. x \in [at : {"start", "stop", "join", "sync", "exit"}, thread : Threads]
  BY <1>2
<1>4. master' = [master EXCEPT ![p] = x]
  BY <1>2 DEF MasterJoin
<1>5. IF m.thread + 1 \in Threads THEN x.at = "stop" /\ x.thread = m.thread + 1
      ELSE x.at = "sync" /\ x.thread = m.thread
  BY <1>2
<1> HIDE DEF x
<1>6. /\ master' \in [Parties -> [at : {"start", "stop", "join", "sync", "exit"}, thread : Threads]]
      /\ master'[p] = x /\ \A q \in Parties : q # p => master'[q] = master[q]
  BY <1>3, <1>4 DEF Types, QueuesOK
<1>7. Types'
  BY <1>1, <1>6 DEF Types, BuffersOK, ChannelsOK, QueuesOK, ThOK, ThreadStates
<1>8. QED
  BY <1>2, <1>5, <1>6, <1>7

LEMMA Do_MasterSync ==
  ASSUME Types, NEW p \in Parties, MasterSync(p)
  PROVE  /\ Types'
         /\ master'[p].at = "exit" /\ master'[p].thread = master[p].thread
         /\ \A q \in Parties : q # p => master'[q] = master[q]
<1>1. UNCHANGED <<session, th, gates, masks, keys, store, chan, ot, queue, stopped, done, failure>>
  BY DEF MasterSync
<1>2. /\ master' \in [Parties -> [at : {"start", "stop", "join", "sync", "exit"}, thread : Threads]]
      /\ master'[p].at = "exit" /\ master'[p].thread = master[p].thread
      /\ \A q \in Parties : q # p => master'[q] = master[q]
  <2>1. master' = [master EXCEPT ![p].at = "exit"]
    BY DEF MasterSync
  <2>2. QED
    BY <2>1 DEF Types, QueuesOK
<1>3. QED
  BY <1>1, <1>2 DEF Types, BuffersOK, ChannelsOK, QueuesOK, ThOK, ThreadStates
-----------------------------------------------------------------------------
(* The garbler is in process_receiver_inputs() only with inputs to process.*)
InputsOK ==
    \A t \in Threads : th[0][t].at \in {"inputs", "post_inputs"} => keys[t] # <<>>

TypeInv == Types /\ InputsOK

(* A step that touches neither the garbler's place nor its keys.           *)
LEMMA InputsFrame ==
  ASSUME InputsOK, NEW t \in Threads, Elsewhere(th, th', 0, t), keys' = keys,
         th'[0][t].at \notin {"inputs", "post_inputs"}
  PROVE  InputsOK'
<1> SUFFICES ASSUME NEW u \in Threads, th'[0][u].at \in {"inputs", "post_inputs"}
             PROVE  keys'[u] # <<>>
  BY DEF InputsOK
<1>1. th'[0][u] = th[0][u]
  BY DEF Elsewhere, Parties
<1>2. QED
  BY <1>1 DEF InputsOK

LEMMA InputsFrameEval ==
  ASSUME InputsOK, NEW t \in Threads, Elsewhere(th, th', 1, t), keys' = keys
  PROVE  InputsOK'
BY DEF InputsOK, Elsewhere, Parties

LEMMA ThreadStepTypes ==
  ASSUME TypeInv, NEW p \in Parties, NEW t \in Threads, ThreadNext(p, t)
  PROVE  TypeInv'
<1>1. keys' = keys
  BY DEF ThreadNext, StartTape, EndThread, join_tape
<1>2. th[p][t] \in ThreadStates
  BY ThType DEF TypeInv
<1>3. Types' /\ Elsewhere(th, th', p, t) /\ th'[p][t].at \notin {"inputs", "post_inputs"}
  <2>1. CASE StartTape(p, t)
    <3> DEFINE h == Head(queue[p][t])
    <3>1. /\ Types' /\ Elsewhere(th, th', p, t)
          /\ th'[p][t] = [th[p][t] EXCEPT !.tape = h, !.run = @ + 1,
                            !.PC = 1, !.complexity = 0, !.last = "time",
                            !.at = IF p = 0 THEN "exec" ELSE "receive"]
      BY <2>1, Do_StartTape DEF TypeInv
    <3> HIDE DEF h
    <3>2. th'[p][t].at = IF p = 0 THEN "exec" ELSE "receive"
      BY <1>2, <3>1 DEF ThreadStates
    <3>3. QED
      BY <3>1, <3>2
  <2>2. CASE EndThread(p, t)
    <3>1. /\ Types' /\ Elsewhere(th, th', p, t)
          /\ th'[p][t] = [th[p][t] EXCEPT !.at =
                            IF p = 0 /\ ~session.continuous THEN "post_run" ELSE "ended"]
      BY <2>2, Do_EndThread DEF TypeInv
    <3>2. th'[p][t].at \in {"post_run", "ended"}
      BY <1>2, <3>1 DEF ThreadStates
    <3>3. QED
      BY <3>1, <3>2
  <2>3. CASE join_tape(p, t)
    <3>1. /\ Types' /\ Elsewhere(th, th', p, t)
          /\ th'[p][t] = [th[p][t] EXCEPT !.PC = @ + 1, !.at = "exec"]
      BY <2>3, Do_join_tape DEF TypeInv
    <3>2. th'[p][t].at = "exec"
      BY <1>2, <3>1 DEF ThreadStates
    <3>3. QED
      BY <3>1, <3>2
  <2>4. QED
    BY <2>1, <2>2, <2>3 DEF ThreadNext
<1>4. CASE p = 0
  BY <1>1, <1>3, <1>4, InputsFrame DEF TypeInv
<1>5. CASE p = 1
  BY <1>1, <1>3, <1>5, InputsFrameEval DEF TypeInv
<1>6. QED
  BY <1>4, <1>5 DEF Parties

LEMMA GarblerStepTypes ==
  ASSUME TypeInv, NEW t \in Threads, GarblerNext(t)
  PROVE  TypeInv'
<1> USE DEF TypeInv
<1>0. 0 \in Parties
  BY DEF Parties
<1>1. th[0][t] \in ThreadStates
  BY <1>0, ThType
<1>2. CASE Garble_and(t)
  <2>1. /\ Types' /\ Elsewhere(th, th', 0, t)
        /\ th'[0][t] = [th[0][t] EXCEPT !.PC = @ + 1, !.complexity = @ + 1,
                          !.at = IF th[0][t].complexity + 1 >= BatchSize THEN "send" ELSE "exec",
                          !.last = "time"]
    BY <1>2, Do_Garble_and
  <2>2. keys' = keys
    BY <1>2 DEF Garble_and
  <2>3. th'[0][t].at \in {"send", "exec"}
    BY <1>1, <2>1 DEF ThreadStates
  <2>4. QED
    BY <2>1, <2>2, <2>3, InputsFrame
<1>3. CASE Garble_inputb(t)
  <2>1. Types' /\ Elsewhere(th, th', 0, t) /\ \A u \in Threads : u # t => keys'[u] = keys[u]
    BY <1>3, Do_Garble_inputb
  <2>2. th'[0][t].at = "exec"
    BY <1>1, <1>3, Do_Garble_inputb, ZenonT(60) DEF ThreadStates
  <2>3. QED
    BY <1>0, <2>1, <2>2 DEF InputsOK, Elsewhere
<1>4. CASE Garble_reveal(t)
  <2>1. keys' = keys /\ th[0][t].at = "exec"
    BY <1>4, SMTT(30) DEF Garble_reveal, Executing, At
  <2>2. th'[0][t].at \notin {"inputs", "post_inputs"}
    BY <1>1, <1>4, <2>1, Do_Garble_reveal, ZenonT(60) DEF ThreadStates
  <2>3. QED
    BY <1>4, <2>1, <2>2, Do_Garble_reveal, InputsFrame
<1>5. CASE Garble_reveal_again(t)
  <2>1. keys' = keys /\ th[0][t].at = "exec"
    BY <1>5 DEF Garble_reveal_again, Executing, At
  <2>2. CASE Head(chan[0][t]).type = "value"
    <3>1. th'[0][t].at \notin {"inputs", "post_inputs"}
      BY <1>1, <1>5, <2>1, <2>2, Do_Garble_reveal_again, ZenonT(60) DEF ThreadStates
    <3>2. QED
      BY <1>5, <2>1, <2>2, <3>1, Do_Garble_reveal_again, InputsFrame
  <2>3. CASE Head(chan[0][t]).type # "value"
    <3>1. th' = th
      BY <1>5, <2>3 DEF Garble_reveal_again
    <3>2. QED
      BY <1>5, <2>1, <3>1, Do_Garble_reveal_again DEF InputsOK
  <2>4. QED
    BY <2>2, <2>3
<1>6. CASE Garble_branch(t)
  <2>1. keys' = keys /\ th[0][t].at = "exec"
    BY <1>6 DEF Garble_branch, Executing, At
  <2>2. /\ Types'
        /\ session.continuous =>
             /\ th'[0][t] = [th[0][t] EXCEPT !.PC = IF th[0][t].reg THEN Instr(0, t).to ELSE @ + 1]
             /\ Elsewhere(th, th', 0, t)
        /\ ~session.continuous => th' = th
    BY <1>0, <1>6, Do_Branch DEF Garble_branch
  <2>3. CASE session.continuous
    <3>1. th'[0][t].at = "exec"
      BY <1>1, <2>1, <2>2, <2>3 DEF ThreadStates
    <3>2. QED
      BY <2>1, <2>2, <2>3, <3>1, InputsFrame
  <2>4. CASE ~session.continuous
    BY <2>1, <2>2, <2>4 DEF InputsOK
  <2>5. QED
    BY <2>3, <2>4
<1>7. CASE Garble_run_tapes(t)
  <2>1. keys' = keys /\ th[0][t].at = "exec" /\ session' = session
    BY <1>7 DEF Garble_run_tapes, Executing, At
  <2>2. th'[0][t].at \notin {"inputs", "post_inputs"} /\ Elsewhere(th, th', 0, t)
    <3>1. CASE session.continuous /\ th[0][t].tainted
      <4>1. Clean(t)
        BY <1>7, <3>1 DEF Garble_run_tapes
      <4>2. QED
        BY <1>1, <2>1, <4>1, Do_Clean, ZenonT(60) DEF ThreadStates
    <3>2. CASE ~(session.continuous /\ th[0][t].tainted)
      <4> DEFINE x == [th[0][t] EXCEPT !.PC = @ + 1, !.tainted = TRUE]
      <4>1. th' = [th EXCEPT ![0][t] = x]
        BY <1>7, <3>2 DEF Garble_run_tapes, Becomes
      <4>2. x.at = "exec"
        BY <1>1, <2>1 DEF ThreadStates
      <4> HIDE DEF x
      <4>3. th \in Grid(ThreadStates)
        BY DEF Types, ThOK
      <4>4. QED
        BY <1>0, <4>1, <4>2, <4>3 DEF Grid, Elsewhere
    <3>3. QED
      BY <3>1, <3>2
  <2>3. QED
    BY <1>7, <2>1, <2>2, Do_Garble_run_tapes, InputsFrame
<1>8. CASE Garble_end(t)
  <2>1. keys' = keys /\ th'[0][t].at = "send"
    BY <1>1, <1>8, Do_Garble_end, ZenonT(60) DEF ThreadStates, Garble_end
  <2>2. QED
    BY <1>8, <2>1, Do_Garble_end, InputsFrame
<1>9. CASE send(t)
  <2>1. keys' = keys /\ Types' /\ Elsewhere(th, th', 0, t)
    BY <1>9, Do_send DEF send
  <2>2. th'[0][t].at \in {"inputs", "post_inputs"} => keys[t] # <<>>
    BY <1>1, <1>9, Do_send, ZenonT(60) DEF ThreadStates
  <2>3. QED
    BY <1>0, <2>1, <2>2 DEF InputsOK, Elsewhere
<1>10. CASE process_receiver_inputs(t)
  <2>1. keys[t] # <<>>
    BY <1>10 DEF InputsOK, process_receiver_inputs, At
  <2>2. Types' /\ Elsewhere(th, th', 0, t) /\ \A u \in Threads : u # t => keys'[u] = keys[u]
    BY <1>10, <2>1, Do_process
  <2>3. th'[0][t].at \in {"inputs", "post_inputs"} => keys'[t] # <<>>
    <3>1. CASE Len(keys[t]) = 1
      <4>1. th'[0][t] = [th[0][t] EXCEPT !.complexity = 0,
                           !.at = IF @ = "post_inputs" THEN "ended"
                                  ELSE IF th[0][t].last = "done" THEN "finish" ELSE "exec"]
        BY <1>10, <2>1, <3>1, Do_process
      <4>2. th'[0][t].at \in {"ended", "finish", "exec"}
        BY <1>1, <4>1 DEF ThreadStates
      <4>3. QED
        BY <4>2
    <3>2. CASE Len(keys[t]) # 1
      <4>1. keys'[t] = Tail(keys[t])
        BY <1>10, <2>1, Do_process
      <4>2. Len(keys[t]) \in Nat \ {0} /\ Len(Tail(keys[t])) = Len(keys[t]) - 1
        BY <1>0, <2>1, BufferTypes, TailOK
      <4>3. PICK s : s = Tail(keys[t]) /\ Len(s) # 0
        <5>1. \A n \in Nat \ {0} : n # 1 => n - 1 # 0
          OBVIOUS
        <5>2. Len(Tail(keys[t])) # 0
          BY <3>2, <4>2, <5>1
        <5>3. QED
          BY <5>2, Zenon
      <4>4. Tail(keys[t]) # <<>>
        <5>1. Len(<<>>) = 0
          OBVIOUS
        <5>2. s # <<>>
          BY <4>3, <5>1
        <5>3. QED
          BY <4>3, <5>2
      <4>5. QED
        BY <4>1, <4>4
    <3>3. QED
      BY <3>1, <3>2
  <2>4. QED
    BY <1>0, <2>2, <2>3 DEF InputsOK, Elsewhere
<1>11. CASE Garbler_finish(t)
  <2>1. keys' = keys /\ th[0][t].at = "finish"
    BY <1>11 DEF Garbler_finish, At
  <2>2. CASE session.variant = "init" => Head(chan[0][t]).type = "pack"
    <3>1. th'[0][t].at = "schedule" /\ Elsewhere(th, th', 0, t)
      BY <1>1, <1>11, <2>2, Do_Garbler_finish, ZenonT(60) DEF ThreadStates
    <3>2. QED
      BY <1>11, <2>1, <3>1, Do_Garbler_finish, InputsFrame
  <2>3. CASE ~(session.variant = "init" => Head(chan[0][t]).type = "pack")
    <3>1. th' = th
      BY <1>11, <2>3 DEF Garbler_finish
    <3>2. QED
      BY <1>11, <2>1, <3>1, Do_Garbler_finish DEF InputsOK
  <2>4. QED
    BY <2>2, <2>3
<1>12. CASE post_run(t)
  <2>1. keys' = keys /\ Types' /\ Elsewhere(th, th', 0, t)
    BY <1>12, Do_post_run DEF post_run
  <2>2. th'[0][t].at \in {"inputs", "post_inputs"} => keys[t] # <<>>
    BY <1>1, <1>12, Do_post_run, ZenonT(60) DEF ThreadStates
  <2>3. QED
    BY <1>0, <2>1, <2>2 DEF InputsOK, Elsewhere
<1>13. QED
  BY <1>2, <1>3, <1>4, <1>5, <1>6, <1>7, <1>8, <1>9, <1>10, <1>11, <1>12 DEF GarblerNext

(* The evaluator leaves the garbler's thread states and keys alone.        *)
LEMMA EvaluatorElsewhere ==
  ASSUME Types, NEW t \in Threads, EvaluatorNext(t)
  PROVE  th'[0] = th[0] /\ keys' = keys
<1>1. keys' = keys
  BY DEF EvaluatorNext, receive_to_store, receive, pop_store, Eval_and, Eval_inputb,
         Eval_finalize_input, Eval_reveal, Eval_branch, Eval_run_tapes, Evaluator_finish
<1>2. \A x : Becomes(1, t, x) => th'[0] = th[0]
  <2> SUFFICES ASSUME NEW x, Becomes(1, t, x) PROVE th'[0] = th[0]
    OBVIOUS
  <2>1. th \in Grid(ThreadStates)
    BY DEF Types, ThOK
  <2>2. QED
    BY <2>1 DEF Becomes, Grid, Parties
<1>3. th' = th \/ (\E x : Becomes(1, t, x))
  <2>1. CASE receive_to_store(t)
    BY <2>1 DEF receive_to_store
  <2>2. CASE receive(t)
    BY <2>2 DEF receive, LoadBatch
  <2>3. CASE pop_store(t)
    BY <2>3 DEF pop_store, LoadBatch
  <2>4. CASE Eval_and(t)
    BY <2>4 DEF Eval_and, CountGate
  <2>5. CASE Eval_inputb(t) \/ Eval_finalize_input(t)
    BY <2>5 DEF Eval_inputb, Eval_finalize_input, Step
  <2>6. CASE Eval_reveal(t)
    BY <2>6 DEF Eval_reveal
  <2>7. CASE Eval_branch(t)
    BY <2>7 DEF Eval_branch, Jump
  <2>8. CASE Eval_run_tapes(t)
    BY <2>8 DEF Eval_run_tapes
  <2>9. CASE Evaluator_finish(t)
    BY <2>9 DEF Evaluator_finish, EndTape
  <2>10. QED
    BY <2>1, <2>2, <2>3, <2>4, <2>5, <2>6, <2>7, <2>8, <2>9 DEF EvaluatorNext
<1>4. QED
  BY <1>1, <1>2, <1>3

LEMMA EvaluatorStepTypes ==
  ASSUME TypeInv, NEW t \in Threads, EvaluatorNext(t)
  PROVE  TypeInv'
<1> USE DEF TypeInv
<1>1. Types'
  <2>1. CASE receive_to_store(t)
    BY <2>1, Do_receive_to_store
  <2>2. CASE receive(t)
    BY <2>2, Do_receive
  <2>3. CASE pop_store(t)
    BY <2>3, Do_pop_store
  <2>4. CASE Eval_and(t)
    BY <2>4, Do_Eval_and
  <2>5. CASE Eval_inputb(t)
    BY <2>5, Do_Eval_inputb
  <2>6. CASE Eval_finalize_input(t)
    BY <2>6, Do_Eval_finalize_input
  <2>7. CASE Eval_reveal(t)
    BY <2>7, Do_Eval_reveal
  <2>8. CASE Eval_branch(t)
    BY <2>8, Do_Branch DEF Eval_branch, Parties
  <2>9. CASE Eval_run_tapes(t)
    BY <2>9, Do_Eval_run_tapes
  <2>10. CASE Evaluator_finish(t)
    BY <2>10, Do_Evaluator_finish
  <2>11. QED
    BY <2>1, <2>2, <2>3, <2>4, <2>5, <2>6, <2>7, <2>8, <2>9, <2>10 DEF EvaluatorNext
<1>2. InputsOK'
  BY EvaluatorElsewhere DEF InputsOK
<1>3. QED
  BY <1>1, <1>2

LEMMA MasterStepTypes ==
  ASSUME TypeInv, NEW p \in Parties, MasterNext(p)
  PROVE  TypeInv'
<1> USE DEF TypeInv
<1>1. Types'
  BY Do_MasterStart, Do_MasterStop, Do_MasterJoin, Do_MasterSync DEF MasterNext
<1>2. th' = th /\ keys' = keys
  BY DEF MasterNext, MasterStart, MasterStop, MasterJoin, MasterSync
<1>3. QED
  BY <1>1, <1>2 DEF InputsOK

LEMMA TypeStep == TypeInv /\ [Next]_vars => TypeInv'
<1> SUFFICES ASSUME TypeInv, [Next]_vars PROVE TypeInv'
  OBVIOUS
<1>1. ASSUME NEW p \in Parties, NEW t \in Threads, ThreadNext(p, t) PROVE TypeInv'
  BY <1>1, ThreadStepTypes
<1>2. ASSUME NEW t \in Threads, GarblerNext(t) PROVE TypeInv'
  BY <1>2, GarblerStepTypes
<1>3. ASSUME NEW t \in Threads, EvaluatorNext(t) PROVE TypeInv'
  BY <1>3, EvaluatorStepTypes
<1>4. ASSUME NEW p \in Parties, MasterNext(p) PROVE TypeInv'
  BY <1>4, MasterStepTypes
<1>5. CASE UNCHANGED vars
  BY <1>5 DEF TypeInv, InputsOK, Types, ThOK, BuffersOK, ChannelsOK, QueuesOK, ThreadStates, vars
<1>6. QED
  BY <1>1, <1>2, <1>3, <1>4, <1>5 DEF Next, Over

LEMMA TypeInit == Init => TypeInv
<1> SUFFICES ASSUME Init PROVE TypeInv
  OBVIOUS
<1>1. InputsOK
  BY DEF Init, InputsOK, Parties
<1>2. QED
  BY <1>1, InitTypes DEF TypeInv

(* In every session, whatever the tapes and however many threads: channels *)
(* never hold more than they can, no thread leaves the places and values   *)
(* of its party, and only the garbler's threads with inputs left wait for  *)
(* correlations.                                                           *)
THEOREM YaoTypes == Spec => []TypeOK
<1>1. Init => TypeInv
  BY TypeInit
<1>2. TypeInv /\ [Next]_vars => TypeInv'
  BY TypeStep
<1>3. TypeInv => TypeOK
  BY TypesGiveTypeOK DEF TypeInv
<1>4. QED
  BY <1>1, <1>2, <1>3, PTL DEF Spec
-----------------------------------------------------------------------------
(***************************************************************************)
(* Sessions of one tape.  The garbler's execution is a path of             *)
(* configurations, which is determined by the tape up to the bits that are *)
(* revealed.  The evaluator follows on the same path.  A configuration     *)
(* counts the instructions executed so far that produce data (cnt), the    *)
(* gates of the batch (cx) and the batches (nb).                           *)
(***************************************************************************)
OneTape(ss) ==
    /\ \A k \in DOMAIN ss.tapes[0] : ss.tapes[0][k].op # "run_tape"
    /\ ss.continuous \/ ss.variant # "reconstruct"

Kinds == {"and", "reveal", "inputb"}
Counts == [Kinds -> Nat]
Configs == [PC : Nat \ {0}, reg : BOOLEAN, cx : Nat, cnt : Counts, nb : Nat, end : BOOLEAN]

IsAt(ss, c, op) == c.PC <= Len(ss.tapes[0]) /\ ss.tapes[0][c.PC].op = op
PastEnd(ss, c) == c.PC > Len(ss.tapes[0])
Pos(c) == <<1, c.PC>>

(* The batch ends with the instruction.                                    *)
Ends(ss, c) ==
    \/ IsAt(ss, c, "and") /\ c.cx + 1 >= BatchSize
    \/ IsAt(ss, c, "reveal") /\ ss.continuous
    \/ PastEnd(ss, c)

Succ(ss, c, d) ==
    /\ ~c.end
    /\ IsAt(ss, c, "branch") => ss.continuous
    /\ d.PC = IF PastEnd(ss, c) THEN c.PC
              ELSE IF IsAt(ss, c, "branch") /\ c.reg THEN ss.tapes[0][c.PC].to
              ELSE c.PC + 1
    /\ IsAt(ss, c, "reveal") \/ d.reg = c.reg
    /\ \A op \in Kinds : d.cnt[op] = IF IsAt(ss, c, op) THEN c.cnt[op] + 1 ELSE c.cnt[op]
    /\ d.nb = IF Ends(ss, c) THEN c.nb + 1 ELSE c.nb
    /\ d.cx = IF Ends(ss, c) THEN 0 ELSE IF IsAt(ss, c, "and") THEN c.cx + 1 ELSE c.cx
    /\ d.end <=> PastEnd(ss, c)

Zero == [op \in Kinds |-> 0]
First == [PC |-> 1, reg |-> FALSE, cx |-> 0, cnt |-> Zero, nb |-> 0, end |-> FALSE]

(* tr[1 .. n] is a path; batch b begins with the counts st[b].             *)
PathOK(ss, tr, n, st) ==
    /\ tr[1].PC = 1 /\ tr[1].cx = 0 /\ ~tr[1].end
    /\ \A k \in 1 .. n - 1 :
         /\ Succ(ss, tr[k], tr[k + 1])
         /\ Ends(ss, tr[k]) => st[tr[k + 1].nb] = tr[k + 1].cnt
    /\ \A k \in 1 .. n :
         /\ tr[k].nb <= tr[n].nb
         /\ \A op \in Kinds : tr[k].cnt[op] <= tr[n].cnt[op]
         /\ tr[k].nb < tr[n].nb =>
              \A op \in Kinds : tr[k].cnt[op] <= st[tr[k].nb + 1][op]
    /\ \A b \in 0 .. tr[n].nb : \A op \in Kinds : st[b][op] <= tr[n].cnt[op]
    /\ tr[n].end => \A k \in 1 .. n - 1 : tr[k].nb < tr[n].nb

(* s holds what the instructions op numbered a + 1 .. b produced.          *)
Holds(ss, op, s, a, b, tr, n) ==
    /\ s \in Seq(Positions)
    /\ a <= b /\ Len(s) = b - a
    /\ \A k \in 1 .. n - 1 :
         IsAt(ss, tr[k], op) /\ a <= tr[k].cnt[op] /\ tr[k].cnt[op] < b =>
           s[tr[k].cnt[op] - a + 1] = Pos(tr[k])

HoldsBatch(ss, m, b, tr, n, st) ==
    /\ m.type = "MORE"
    /\ Holds(ss, "and", m.gates, st[b]["and"], st[b + 1]["and"], tr, n)
    /\ Holds(ss, "reveal", m.masks, st[b]["reveal"], st[b + 1]["reveal"], tr, n)

(* The number of batches the garbler has sent.                             *)
Sent(g, c) == IF g.at = "send" THEN c.nb - 1 ELSE c.nb

(* The garbler is at the last configuration of the path.  In continuous    *)
(* mode that is after a reveal whose bit it is still waiting for while its *)
(* taint flag is down.                                                     *)
GarblerOn(ss, g, tr, n, st) ==
    /\ g.tape = 0 /\ g.run \in {0, 1}
    /\ g.run = 0 => g.at = "schedule" /\ n = 1 /\ g.tainted
    /\ tr[n].end <=> g.last = "done"
    /\ g.at \in {"exec", "inputs"} => ss.continuous \/ g.at = "exec"
    /\ g.at \in {"post_run", "post_inputs"} => ~ss.continuous
    /\ g.at = "exec" => g.complexity = tr[n].cx /\ ~tr[n].end
    /\ g.at \in {"send", "inputs"} => tr[n].cx = 0
    /\ g.at = "send" => tr[n].nb > 0 /\ st[tr[n].nb] = tr[n].cnt
    /\ g.run = 1 /\ g.at \in {"finish", "schedule", "post_run", "post_inputs", "ended"} => tr[n].end
    /\ g.tainted => g.PC = tr[n].PC
    /\ ~g.tainted => /\ ss.continuous /\ n > 1 /\ g.PC = tr[n - 1].PC /\ IsAt(ss, tr[n - 1], "reveal")
                     /\ g.at \in {"send", "inputs", "exec"}

(* What it has made and not yet sent.                                      *)
Unsent(ss, g, gb, mb, tr, n, st) ==
    /\ Holds(ss, "and", gb, st[Sent(g, tr[n])]["and"], tr[n].cnt["and"], tr, n)
    /\ Holds(ss, "reveal", mb, st[Sent(g, tr[n])]["reveal"], tr[n].cnt["reveal"], tr, n)

InBatch(v) == v.at \in {"exec", "keys"}

(* The evaluator is at configuration i; S batches have been sent.          *)
EvaluatorOn(ss, v, S, tr, n, i, st) ==
    /\ i \in 1 .. n
    /\ v.tape = 0 /\ v.run \in {0, 1}
    /\ v.run = 0 => v.at \in {"store", "schedule"} /\ i = 1
    /\ v.at = "store" => ~ss.continuous /\ v.run = 0
    /\ v.PC = tr[i].PC
    /\ ss.continuous => v.reg = tr[i].reg
    /\ InBatch(v) => v.complexity = tr[i].cx /\ tr[i].nb < S /\ ~tr[i].end
    /\ v.at = "keys" => IsAt(ss, tr[i], "inputb")
    /\ v.at = "receive" => ~tr[i].end
    /\ ~InBatch(v) /\ ~tr[i].end => tr[i].cx = 0 /\ tr[i].cnt = st[tr[i].nb]
    /\ v.run = 1 /\ v.at \in {"schedule", "ended"} => tr[i].end

(* What is left of the batch.                                              *)
Unused(ss, v, gb, mb, tr, n, i, st) ==
    IF InBatch(v)
    THEN /\ Holds(ss, "and", gb, tr[i].cnt["and"], st[tr[i].nb + 1]["and"], tr, n)
         /\ Holds(ss, "reveal", mb, tr[i].cnt["reveal"], st[tr[i].nb + 1]["reveal"], tr, n)
    ELSE gb = <<>> /\ mb = <<>>

(* The batches under way: in the store, then in the connection, where a    *)
(* message of the given kind follows if kind is not "none".                *)
Loaded(v, c) == IF InBatch(v) THEN c.nb + 1 ELSE c.nb

UnderWay(ss, v, S, kind, sto, ch, tr, n, i, st) ==
    /\ sto \in Seq(Batches) /\ ch \in Seq(Messages[1])
    /\ IF ss.continuous THEN sto = <<>> ELSE v.at = "store" \/ ch = <<>>
    /\ LET D == Loaded(v, tr[i])
           rest == S - D - Len(sto) IN
       /\ rest \in Nat
       /\ \A j \in 1 .. Len(sto) : HoldsBatch(ss, sto[j], D + j - 1, tr, n, st)
       /\ \A j \in 1 .. rest : HoldsBatch(ss, ch[j], D + Len(sto) + j - 1, tr, n, st)
       /\ IF kind = "none" THEN Len(ch) = rest
          ELSE Len(ch) = rest + 1 /\ ch[rest + 1].type = kind

Over0(g) == g.run = 1 /\ g.at \in {"schedule", "ended"}

Trailer(ss, g, v, c) ==
    IF ss.continuous
    THEN IF ss.variant = "reconstruct" /\ Over0(g) /\ ~c.end THEN "pack" ELSE "none"
    ELSE IF g.at \in {"post_inputs", "ended"} /\ v.at = "store" THEN "DONE" ELSE "none"

(* The messages to the garbler.                                            *)
Answers(ss, g, ch, tr, n, i) ==
    ch = IF ~g.tainted /\ i = n THEN <<[type |-> "value", bit |-> tr[n].reg]>>
         ELSE IF ss.continuous /\ ss.variant = "init" /\ tr[i].end /\ ~Over0(g)
         THEN <<[type |-> "pack"]>>
         ELSE <<>>

(* The oblivious transfers.                                                *)
TransfersOn(ss, v, o0, o1, ky, tr, n, i) ==
    /\ v.at = "keys" => \/ o0 = <<Pos(tr[i])>> /\ o1 = <<>>
                        \/ o0 = <<>> /\ o1 = <<Pos(tr[i])>>
    /\ v.at # "keys" => o0 = <<>> /\ o1 = <<>>
    /\ Holds(ss, "inputb", ky, tr[i].cnt["inputb"] + Len(o1), tr[n].cnt["inputb"], tr, n)

(* Between the parties there is no revealed bit but the one the garbler is *)
(* waiting for.                                                            *)
RevealsOn(ss, g, tr, n, i) ==
    ss.continuous =>
      /\ \A k \in i .. n - 1 : IsAt(ss, tr[k], "reveal") => k = n - 1 /\ ~g.tainted
      /\ \A k \in i .. n : (k < n \/ g.tainted) => tr[k].reg = g.reg

(* In one-shot mode the evaluator starts when the garbler has finished; in *)
(* continuous mode one of them waits for the other one's last message.     *)
ModeOn(ss, g, v) == ~ss.continuous /\ v.at # "store" => g.at \in {"post_inputs", "ended"}

FinishOn(ss, g, c) ==
    ss.continuous => /\ ss.variant = "reconstruct" /\ c.end => Over0(g)
                     /\ ss.variant = "init" /\ Over0(g) => c.end

Linked(ss, g, v, gb0, mb0, gb1, mb1, ky, sto, ch0, ch1, o0, o1, tr, n, st, i) ==
    /\ PathOK(ss, tr, n, st)
    /\ GarblerOn(ss, g, tr, n, st)
    /\ Unsent(ss, g, gb0, mb0, tr, n, st)
    /\ EvaluatorOn(ss, v, Sent(g, tr[n]), tr, n, i, st)
    /\ Unused(ss, v, gb1, mb1, tr, n, i, st)
    /\ UnderWay(ss, v, Sent(g, tr[n]), Trailer(ss, g, v, tr[i]), sto, ch1, tr, n, i, st)
    /\ Answers(ss, g, ch0, tr, n, i)
    /\ TransfersOn(ss, v, o0, o1, ky, tr, n, i)
    /\ RevealsOn(ss, g, tr, n, i)
    /\ ModeOn(ss, g, v) /\ FinishOn(ss, g, tr[i])

(* The other threads have nothing to do.                                   *)
Idle(t) ==
    /\ \A p \in Parties :
         /\ th[p][t].run = 0
         /\ th[p][t].at \in {"store", "schedule", "post_run", "ended"}
         /\ gates[p][t] = <<>> /\ masks[p][t] = <<>> /\ ot[p][t] = <<>> /\ queue[p][t] = <<>>
    /\ th[0][t].at = "post_run" => ~session.continuous
    /\ th[1][t].at = "store" => ~session.continuous
    /\ session.continuous \/ th[0][t].at = "ended" \/ th[1][t].at = "store"
    /\ keys[t] = <<>> /\ store[t] = <<>> /\ chan[0][t] = <<>>
    /\ chan[1][t] = IF ~session.continuous /\ th[0][t].at = "ended" /\ th[1][t].at = "store"
                    THEN <<[type |-> "DONE"]>> ELSE <<>>

(* The main tape is given to the first thread once, and the master joins   *)
(* only threads that have ended.                                           *)
Scheduled(p) ==
    /\ th[p][0].run = 1 => master[p].at # "start"
    /\ queue[p][0] = IF master[p].at # "start" /\ th[p][0].run = 0 THEN <<0>> ELSE <<>>
    /\ \A t \in Threads : stopped[p][t] => master[p].at # "start"
    /\ \A t \in Threads : t < master[p].thread \/ master[p].at \in {"sync", "exit"} => th[p][t].at = "ended"

(* What an instruction appends to a buffer of the garbler and takes from   *)
(* one of the evaluator.                                                   *)
Grows(ss, c, op, s, s2) == s2 = IF IsAt(ss, c, op) THEN Append(s, Pos(c)) ELSE s
Shrinks(ss, c, op, s, s2) == s2 = IF IsAt(ss, c, op) THEN Tail(s) ELSE s
KeysCame(ss, c, o) == IF IsAt(ss, c, "inputb") THEN Len(o) = 1 ELSE Len(o) = 0

(* There is a path that links the two parties.                             *)
InLink(ss, g, v, gb0, mb0, gb1, mb1, ky, sto, ch0, ch1, o0, o1) ==
    \E tr, n, st, i :
       /\ n \in Nat \ {0} /\ tr \in [Nat -> Configs] /\ st \in [Nat -> Counts]
       /\ Linked(ss, g, v, gb0, mb0, gb1, mb1, ky, sto, ch0, ch1, o0, o1, tr, n, st, i)

(* What the parties do with the connections at the end of the tape.        *)
GarblerLast(ss, ch0, ch1, ch2, ch3) ==
    CASE ss.variant = "init" -> ch0 # <<>> /\ ch2 = Tail(ch0) /\ ch3 = ch1
      [] ss.variant = "reconstruct" -> ch2 = ch0 /\ ch3 = Append(ch1, [type |-> "pack"])
      [] OTHER -> ch2 = ch0 /\ ch3 = ch1

EvaluatorLast(ss, ch0, ch1, ch2, ch3) ==
    CASE ss.continuous /\ ss.variant = "init" -> ch2 = Append(ch0, [type |-> "pack"]) /\ ch3 = ch1
      [] ss.continuous /\ ss.variant = "reconstruct" -> ch1 # <<>> /\ ch2 = ch0 /\ ch3 = Tail(ch1)
      [] OTHER -> ch2 = ch0 /\ ch3 = ch1

-----------------------------------------------------------------------------
(* Paths and what the buffers hold of them.                                *)
History(tr, n, st) ==
    n \in Nat \ {0} /\ tr \in [Nat -> Configs] /\ st \in [Nat -> Counts]

LEMMA HistoryTypes ==
  ASSUME NEW tr, NEW n, NEW st, History(tr, n, st)
  PROVE  /\ n \in Nat \ {0}
         /\ \A k \in Nat : /\ tr[k] \in Configs /\ tr[k].nb \in Nat /\ tr[k].PC \in Nat \ {0}
                           /\ tr[k].cx \in Nat /\ tr[k].cnt \in Counts
                           /\ \A op \in Kinds : tr[k].cnt[op] \in Nat
         /\ \A b \in Nat : st[b] \in Counts /\ \A op \in Kinds : st[b][op] \in Nat
<1>1. n \in Nat \ {0} /\ tr \in [Nat -> Configs] /\ st \in [Nat -> Counts]
  BY DEF History
<1>2. ASSUME NEW c \in Configs
      PROVE  c.nb \in Nat /\ c.PC \in Nat \ {0} /\ c.cx \in Nat /\ c.cnt \in Counts
  BY DEF Configs
<1>3. ASSUME NEW c \in Counts, NEW op \in Kinds
      PROVE  c[op] \in Nat
  BY DEF Counts
<1>4. ASSUME NEW k \in Nat
      PROVE  /\ tr[k] \in Configs /\ tr[k].nb \in Nat /\ tr[k].PC \in Nat \ {0}
             /\ tr[k].cx \in Nat /\ tr[k].cnt \in Counts
             /\ \A op \in Kinds : tr[k].cnt[op] \in Nat
  BY <1>1, <1>2, <1>3
<1>5. ASSUME NEW b \in Nat
      PROVE  st[b] \in Counts /\ \A op \in Kinds : st[b][op] \in Nat
  BY <1>1, <1>3
<1>6. QED
  BY <1>1, <1>4, <1>5

LEMMA PosOK == ASSUME NEW c \in Configs PROVE Pos(c) \in Positions
BY DEF Pos, Positions, Configs

LEMMA HoldsEmpty ==
  ASSUME NEW ss, NEW op, NEW a \in Nat, NEW tr, NEW n \in Nat, \A k \in 1 .. n - 1 : tr[k].cnt[op] \in Nat
  PROVE  Holds(ss, op, <<>>, a, a, tr, n)
BY DEF Holds

LEMMA HoldsTail ==
  ASSUME NEW ss, NEW op \in Kinds, NEW s, NEW a \in Nat, NEW b \in Nat,
         NEW tr, NEW n, NEW st, History(tr, n, st), Holds(ss, op, s, a, b, tr, n), a < b
  PROVE  s # <<>> /\ Holds(ss, op, Tail(s), a + 1, b, tr, n)
<1>1. s \in Seq(Positions) /\ Len(s) = b - a
  BY DEF Holds
<1>2. s # <<>>
  <2>1. Len(s) # 0
    BY <1>1
  <2>2. QED
    BY <2>1
<1>3. Tail(s) \in Seq(Positions) /\ Len(Tail(s)) = b - (a + 1)
      /\ \A j \in 1 .. Len(s) - 1 : Tail(s)[j] = s[j + 1]
  BY <1>1, <1>2, TailOK
<1>4. ASSUME NEW k \in 1 .. n - 1, IsAt(ss, tr[k], op), a + 1 <= tr[k].cnt[op], tr[k].cnt[op] < b
      PROVE  Tail(s)[tr[k].cnt[op] - (a + 1) + 1] = Pos(tr[k])
  <2>0. k \in Nat
    BY HistoryTypes
  <2>1. PICK c \in Nat : c = tr[k].cnt[op] /\ a + 1 <= c /\ c < b
    BY <1>4, <2>0, HistoryTypes
  <2>2. s[c - a + 1] = Pos(tr[k])
    BY <1>4, <2>1 DEF Holds
  <2>3. c - a \in 1 .. (b - a) - 1 /\ c - (a + 1) + 1 = c - a
    BY <2>1
  <2>6. c - a \in 1 .. Len(s) - 1
    BY <1>1, <2>3
  <2>4. Tail(s)[c - a] = s[c - a + 1]
    BY <1>3, <2>6
  <2>5. QED
    BY <2>1, <2>2, <2>3, <2>4
<1>5. a + 1 <= b
  OBVIOUS
<1>6. Holds(ss, op, Tail(s), a + 1, b, tr, n)
  BY <1>3, <1>4, <1>5 DEF Holds
<1>7. QED
  BY <1>2, <1>6

LEMMA HoldsHead ==
  ASSUME NEW ss, NEW op \in Kinds, NEW s, NEW a \in Nat, NEW b \in Nat,
         NEW tr, NEW n, NEW st, History(tr, n, st), Holds(ss, op, s, a, b, tr, n), a < b,
         NEW k \in 1 .. n - 1, IsAt(ss, tr[k], op), tr[k].cnt[op] = a
  PROVE  s # <<>> /\ Head(s) = Pos(tr[k])
<1>1. s # <<>>
  BY HoldsTail
<1>2. s \in Seq(Positions)
  BY DEF Holds
<1>3. Head(s) = s[1]
  BY <1>1, <1>2, TailOK
<1>4. s[a - a + 1] = Pos(tr[k])
  BY DEF Holds
<1>5. a - a + 1 = 1
  OBVIOUS
<1>6. QED
  BY <1>1, <1>3, <1>4, <1>5

(* A path that agrees with the first one up to the last configuration.     *)
LEMMA HoldsAgree ==
  ASSUME NEW ss, NEW op, NEW s, NEW a, NEW b, NEW tr, NEW n, NEW tr2,
         \A k \in 1 .. n - 1 : tr2[k] = tr[k], Holds(ss, op, s, a, b, tr, n)
  PROVE  Holds(ss, op, s, a, b, tr2, n)
BY DEF Holds

LEMMA HoldsLonger ==
  ASSUME NEW ss, NEW op \in Kinds, NEW s, NEW a \in Nat, NEW b \in Nat,
         NEW tr, NEW n, NEW st, History(tr, n, st), NEW tr2,
         \A k \in 1 .. n : tr2[k] = tr[k], Holds(ss, op, s, a, b, tr, n), b <= tr[n].cnt[op]
  PROVE  Holds(ss, op, s, a, b, tr2, n + 1)
<1>1. ASSUME NEW k \in 1 .. n, IsAt(ss, tr2[k], op), a <= tr2[k].cnt[op], tr2[k].cnt[op] < b
      PROVE  s[tr2[k].cnt[op] - a + 1] = Pos(tr2[k])
  <2>1. tr2[k] = tr[k] /\ n \in Nat \ {0} /\ tr[n].cnt[op] \in Nat /\ tr[k].cnt[op] \in Nat
    BY HistoryTypes
  <2>2. k # n
    BY <1>1, <2>1
  <2>3. k \in 1 .. n - 1
    BY <2>1, <2>2
  <2>4. QED
    BY <1>1, <2>1, <2>3 DEF Holds
<1>2. (n + 1) - 1 = n
  BY HistoryTypes
<1>3. QED
  BY <1>1, <1>2 DEF Holds

(* The last configuration of a path executes an instruction.               *)
LEMMA CountsBefore ==
  ASSUME NEW ss, NEW op \in Kinds, NEW tr, NEW n, NEW st, History(tr, n, st),
         PathOK(ss, tr, n, st), NEW k \in 1 .. n - 1, IsAt(ss, tr[k], op)
  PROVE  tr[k].cnt[op] < tr[n].cnt[op]
<1>1. n \in Nat /\ k \in Nat /\ k + 1 \in 1 .. n
  BY HistoryTypes
<1>2. tr[k].cnt[op] \in Nat /\ tr[n].cnt[op] \in Nat /\ tr[k + 1].cnt[op] \in Nat
  BY <1>1, HistoryTypes
<1>3. tr[k + 1].cnt[op] = tr[k].cnt[op] + 1
  BY DEF PathOK, Succ
<1>4. tr[k + 1].cnt[op] <= tr[n].cnt[op]
  BY <1>1 DEF PathOK
<1>5. QED
  BY <1>2, <1>3, <1>4

LEMMA HoldsMore ==
  ASSUME NEW ss, NEW op \in Kinds, NEW s, NEW a \in Nat,
         NEW tr, NEW n, NEW st, History(tr, n, st), PathOK(ss, tr, n, st),
         Holds(ss, op, s, a, tr[n].cnt[op], tr, n),
         NEW d \in Configs, Succ(ss, tr[n], d),
         NEW tr2, \A k \in 1 .. n : tr2[k] = tr[k],
         NEW s2, Grows(ss, tr[n], op, s, s2)
  PROVE  Holds(ss, op, s2, a, d.cnt[op], tr2, n + 1)
<1>1. PICK c \in Nat : c = tr[n].cnt[op]
  BY HistoryTypes
<1>2. CASE ~IsAt(ss, tr[n], op)
  <2>1. d.cnt[op] = c /\ s2 = s
    BY <1>1, <1>2 DEF Succ, Grows
  <2>2. ASSUME NEW k \in 1 .. n, IsAt(ss, tr2[k], op), a <= tr2[k].cnt[op], tr2[k].cnt[op] < c
        PROVE  s[tr2[k].cnt[op] - a + 1] = Pos(tr2[k])
    <3>1. tr2[k] = tr[k] /\ k # n /\ n \in Nat
      BY <1>2, <2>2, HistoryTypes
    <3>2. k \in 1 .. n - 1
      BY <3>1
    <3>3. QED
      BY <1>1, <2>2, <3>1, <3>2 DEF Holds
  <2>3. (n + 1) - 1 = n
    BY HistoryTypes
  <2>4. QED
    BY <1>1, <2>1, <2>2, <2>3 DEF Holds
<1>3. CASE IsAt(ss, tr[n], op)
  <2>1. d.cnt[op] = c + 1 /\ s2 = Append(s, Pos(tr[n]))
    BY <1>1, <1>3 DEF Succ, Grows
  <2>2. s \in Seq(Positions) /\ a <= c /\ Len(s) = c - a
    BY <1>1 DEF Holds
  <2>3. Pos(tr[n]) \in Positions
    BY PosOK, HistoryTypes
  <2>4. /\ s2 \in Seq(Positions) /\ Len(s2) = Len(s) + 1
        /\ \A j \in 1 .. Len(s) : s2[j] = s[j]
        /\ s2[Len(s) + 1] = Pos(tr[n])
    BY <2>1, <2>2, <2>3, AppendOK
  <2>5. ASSUME NEW k \in 1 .. n, IsAt(ss, tr2[k], op), a <= tr2[k].cnt[op], tr2[k].cnt[op] < c + 1
        PROVE  s2[tr2[k].cnt[op] - a + 1] = Pos(tr2[k])
    <3>1. tr2[k] = tr[k]
      OBVIOUS
    <3>2. CASE k = n
      BY <1>1, <2>2, <2>4, <3>1, <3>2
    <3>3. CASE k # n
      <4>0. n \in Nat
        BY HistoryTypes
      <4>1. k \in 1 .. n - 1
        BY <3>3, <4>0
      <4>8. k \in Nat
        BY <4>1, HistoryTypes
      <4>2. PICK j \in Nat : j = tr[k].cnt[op] /\ a <= j
        BY <2>5, <3>1, <4>8, HistoryTypes
      <4>3. j < c
        BY <1>1, <2>5, <3>1, <4>1, <4>2, CountsBefore
      <4>4. s[j - a + 1] = Pos(tr[k])
        BY <1>1, <2>5, <3>1, <4>1, <4>2, <4>3 DEF Holds
      <4>9. j - a + 1 \in 1 .. c - a
        BY <4>2, <4>3
      <4>5. j - a + 1 \in 1 .. Len(s)
        BY <2>2, <4>9
      <4>6. s2[j - a + 1] = s[j - a + 1]
        BY <2>4, <4>5
      <4>7. QED
        BY <3>1, <4>2, <4>4, <4>6
    <3>4. QED
      BY <3>2, <3>3
  <2>6. (n + 1) - 1 = n
    BY HistoryTypes
  <2>7. a <= c + 1 /\ Len(s2) = (c + 1) - a
    BY <2>2, <2>4
  <2>8. QED
    BY <2>1, <2>4, <2>5, <2>6, <2>7 DEF Holds
<1>4. QED
  BY <1>2, <1>3

LEMMA SuccTypes ==
  ASSUME NEW ss, NEW c \in Configs, NEW d \in Configs, Succ(ss, c, d)
  PROVE  /\ c.nb \in Nat /\ d.nb \in Nat /\ c.nb <= d.nb
         /\ d.nb = c.nb \/ d.nb = c.nb + 1
         /\ PastEnd(ss, c) => d.nb = c.nb + 1
         /\ \A op \in Kinds : c.cnt[op] \in Nat /\ d.cnt[op] \in Nat /\ c.cnt[op] <= d.cnt[op]
BY DEF Succ, Configs, Counts, Ends

(* The garbler's step makes the path longer.                               *)
LEMMA PathGrow ==
  ASSUME NEW ss, NEW tr, NEW n, NEW st, History(tr, n, st), PathOK(ss, tr, n, st),
         NEW d \in Configs, Succ(ss, tr[n], d)
  PROVE  \E tr2, st2 :
           /\ History(tr2, n + 1, st2) /\ PathOK(ss, tr2, n + 1, st2)
           /\ \A k \in 1 .. n : tr2[k] = tr[k]
           /\ tr2[n + 1] = d
           /\ \A b \in 0 .. tr[n].nb : st2[b] = st[b]
           /\ st2[tr[n].nb + 1] = d.cnt
<1> DEFINE tr2 == [tr EXCEPT ![n + 1] = d]
           st2 == [st EXCEPT ![tr[n].nb + 1] = d.cnt]
<1>1. n \in Nat \ {0} /\ tr[n] \in Configs /\ tr[n].nb \in Nat /\ d.cnt \in Counts
  BY HistoryTypes DEF Configs
<1>2. History(tr2, n + 1, st2)
  BY <1>1 DEF History
<1>3. /\ \A k \in 1 .. n : tr2[k] = tr[k]
      /\ tr2[n + 1] = d
      /\ \A b \in 0 .. tr[n].nb : st2[b] = st[b]
      /\ st2[tr[n].nb + 1] = d.cnt
  BY <1>1 DEF History
<1> HIDE DEF tr2, st2
<1>4. PICK B \in Nat : B = tr[n].nb
  BY <1>1
<1>5. /\ d.nb \in Nat /\ B <= d.nb /\ (d.nb = B \/ d.nb = B + 1)
      /\ PastEnd(ss, tr[n]) => d.nb = B + 1
      /\ \A op \in Kinds : tr[n].cnt[op] \in Nat /\ d.cnt[op] \in Nat /\ tr[n].cnt[op] <= d.cnt[op]
  BY <1>1, <1>4, SuccTypes
<1>6. (n + 1) - 1 = n
  BY <1>1
<1>7. ASSUME NEW k \in 1 .. n
      PROVE  /\ Succ(ss, tr2[k], tr2[k + 1])
             /\ Ends(ss, tr2[k]) => st2[tr2[k + 1].nb] = tr2[k + 1].cnt
  <2>1. CASE k = n
    <3>1. tr2[k] = tr[n] /\ tr2[k + 1] = d
      BY <1>1, <1>3, <2>1
    <3>2. Ends(ss, tr[n]) => d.nb = B + 1
      BY <1>4 DEF Succ
    <3>3. QED
      BY <1>3, <1>4, <3>1, <3>2
  <2>2. CASE k # n
    <3>1. k \in 1 .. n - 1 /\ k + 1 \in 1 .. n /\ k + 1 \in Nat
      BY <1>1, <2>2
    <3>2. tr2[k] = tr[k] /\ tr2[k + 1] = tr[k + 1]
      BY <1>3, <3>1
    <3>3. Succ(ss, tr[k], tr[k + 1]) /\ (Ends(ss, tr[k]) => st[tr[k + 1].nb] = tr[k + 1].cnt)
          /\ tr[k + 1].nb <= tr[n].nb
      BY <3>1 DEF PathOK
    <3>4. tr[k + 1].nb \in 0 .. tr[n].nb
      BY <1>1, <3>1, <3>3, HistoryTypes
    <3>5. QED
      BY <1>3, <3>2, <3>3, <3>4
  <2>3. QED
    BY <2>1, <2>2
<1>8. ASSUME NEW k \in 1 .. n
      PROVE  /\ tr[k].nb \in Nat /\ tr[k].nb <= B /\ tr[k].nb <= d.nb
             /\ \A op \in Kinds : tr[k].cnt[op] \in Nat /\ tr[k].cnt[op] <= d.cnt[op]
             /\ tr[k].nb < d.nb => \A op \in Kinds : tr[k].cnt[op] <= st2[tr[k].nb + 1][op]
  <2>1. PICK b \in Nat : b = tr[k].nb
    BY HistoryTypes
  <2>2. b <= B /\ (b < B => \A op \in Kinds : tr[k].cnt[op] <= st[b + 1][op])
    BY <1>4, <2>1 DEF PathOK
  <2>3. \A op \in Kinds : tr[k].cnt[op] \in Nat /\ tr[k].cnt[op] <= tr[n].cnt[op]
    BY HistoryTypes DEF PathOK
  <2>4. \A op \in Kinds : tr[k].cnt[op] <= d.cnt[op]
    BY <1>5, <2>3
  <2>5. CASE b < B
    <3>1. st2[b + 1] = st[b + 1]
      BY <1>3, <1>4, <2>5
    <3>2. b <= d.nb
      BY <1>4, <1>5, <2>2
    <3>3. QED
      BY <2>1, <2>2, <2>3, <2>4, <2>5, <3>1, <3>2
  <2>6. CASE ~(b < B)
    <3>1. b = B
      BY <2>2, <2>6
    <3>2. st2[b + 1] = d.cnt
      BY <1>3, <1>4, <3>1
    <3>3. QED
      BY <1>5, <2>1, <2>3, <2>4, <3>1, <3>2
  <2>7. QED
    BY <2>5, <2>6
<1>9. ASSUME NEW k \in 1 .. n + 1
      PROVE  /\ tr2[k].nb <= tr2[n + 1].nb
             /\ \A op \in Kinds : tr2[k].cnt[op] <= tr2[n + 1].cnt[op]
             /\ tr2[k].nb < tr2[n + 1].nb =>
                  \A op \in Kinds : tr2[k].cnt[op] <= st2[tr2[k].nb + 1][op]
  <2>1. CASE k = n + 1
    BY <1>3, <1>5, <2>1
  <2>2. CASE k # n + 1
    <3>1. k \in 1 .. n
      BY <1>1, <2>2
    <3>2. QED
      BY <1>3, <1>8, <3>1
  <2>3. QED
    BY <2>1, <2>2
<1>10. ASSUME NEW b \in 0 .. tr2[n + 1].nb, NEW op \in Kinds
       PROVE  st2[b][op] <= tr2[n + 1].cnt[op]
  <2>1. CASE b <= B
    <3>1. b \in 0 .. tr[n].nb
      BY <1>3, <1>4, <1>5, <2>1
    <3>2. st2[b] = st[b] /\ st[b][op] <= tr[n].cnt[op] /\ st[b][op] \in Nat
      BY <1>3, <3>1, HistoryTypes DEF PathOK
    <3>3. QED
      BY <1>3, <1>5, <3>2
  <2>2. CASE ~(b <= B)
    <3>1. b = B + 1
      BY <1>3, <1>5, <2>2
    <3>2. QED
      BY <1>3, <1>4, <1>5, <3>1
  <2>3. QED
    BY <2>1, <2>2
<1>11. ASSUME tr2[n + 1].end, NEW k \in 1 .. n PROVE tr2[k].nb < tr2[n + 1].nb
  <2>1. PastEnd(ss, tr[n])
    BY <1>3, <1>11 DEF Succ
  <2>2. QED
    BY <1>3, <1>5, <1>8, <2>1
<1>14. tr2[1] = tr[1]
  BY <1>1, <1>3
<1>12. PathOK(ss, tr2, n + 1, st2)
  BY <1>6, <1>7, <1>9, <1>10, <1>11, <1>14 DEF PathOK
<1>13. QED
  BY <1>2, <1>3, <1>12

(* The bit of the reveal that ends a path is decided.                      *)
LEMMA PathBit ==
  ASSUME NEW ss, NEW tr, NEW n, NEW st, History(tr, n, st), PathOK(ss, tr, n, st),
         n > 1, IsAt(ss, tr[n - 1], "reveal"), NEW bit \in BOOLEAN
  PROVE  \E tr2 :
           /\ History(tr2, n, st) /\ PathOK(ss, tr2, n, st)
           /\ \A k \in 1 .. n - 1 : tr2[k] = tr[k]
           /\ tr2[n].reg = bit /\ tr2[n].PC = tr[n].PC /\ tr2[n].cx = tr[n].cx
           /\ tr2[n].cnt = tr[n].cnt /\ tr2[n].nb = tr[n].nb /\ tr2[n].end = tr[n].end
<1> DEFINE d == [tr[n] EXCEPT !.reg = bit]
           tr2 == [tr EXCEPT ![n] = d]
<1>1. n \in Nat \ {0} /\ tr[n] \in Configs /\ tr \in [Nat -> Configs] /\ n - 1 \in Nat \ {0}
  BY HistoryTypes DEF History
<1>2. /\ d \in Configs /\ d.reg = bit /\ d.PC = tr[n].PC /\ d.cx = tr[n].cx
      /\ d.cnt = tr[n].cnt /\ d.nb = tr[n].nb /\ d.end = tr[n].end
  BY <1>1 DEF Configs
<1> HIDE DEF d
<1>3. History(tr2, n, st)
  BY <1>1, <1>2 DEF History
<1>4. (\A k \in 1 .. n - 1 : tr2[k] = tr[k]) /\ tr2[n] = d
  BY <1>1
<1> HIDE DEF tr2
<1>5. ASSUME NEW k \in 1 .. n
      PROVE  tr2[k].nb = tr[k].nb /\ tr2[k].cnt = tr[k].cnt /\ tr2[k].end = tr[k].end
  <2>1. CASE k = n
    BY <1>2, <1>4, <2>1
  <2>2. CASE k # n
    BY <1>1, <1>4, <2>2
  <2>3. QED
    BY <2>1, <2>2
<1>6. ASSUME NEW k \in 1 .. n - 1
      PROVE  /\ Succ(ss, tr2[k], tr2[k + 1])
             /\ Ends(ss, tr2[k]) => st[tr2[k + 1].nb] = tr2[k + 1].cnt
  <2>1. Succ(ss, tr[k], tr[k + 1]) /\ (Ends(ss, tr[k]) => st[tr[k + 1].nb] = tr[k + 1].cnt)
    BY DEF PathOK
  <2>2. CASE k = n - 1
    <3>1. k + 1 = n /\ tr2[k] = tr[k] /\ IsAt(ss, tr[k], "reveal")
      BY <1>1, <1>4, <2>2
    <3>2. Succ(ss, tr[k], d)
      BY <1>2, <2>1, <3>1 DEF Succ
    <3>3. QED
      BY <1>2, <1>4, <2>1, <3>1, <3>2
  <2>3. CASE k # n - 1
    <3>1. k + 1 \in 1 .. n - 1
      BY <1>1, <2>3
    <3>2. QED
      BY <1>4, <2>1, <3>1
  <2>4. QED
    BY <2>2, <2>3
<1>7. n \in 1 .. n /\ \A k \in 1 .. n - 1 : k \in 1 .. n
  BY <1>1
<1>8. PathOK(ss, tr2, n, st)
  <2>1. tr2[n].nb = tr[n].nb /\ tr2[n].cnt = tr[n].cnt /\ tr2[n].end = tr[n].end
    BY <1>5, <1>7
  <2>2. \A k \in 1 .. n :
          /\ tr2[k].nb <= tr2[n].nb
          /\ \A op \in Kinds : tr2[k].cnt[op] <= tr2[n].cnt[op]
          /\ tr2[k].nb < tr2[n].nb => \A op \in Kinds : tr2[k].cnt[op] <= st[tr2[k].nb + 1][op]
    BY <1>5, <2>1 DEF PathOK
  <2>3. \A b \in 0 .. tr2[n].nb : \A op \in Kinds : st[b][op] <= tr2[n].cnt[op]
    BY <2>1 DEF PathOK
  <2>4. tr2[n].end => \A k \in 1 .. n - 1 : tr2[k].nb < tr2[n].nb
    BY <1>5, <1>7, <2>1 DEF PathOK
  <2>5. tr2[1] = tr[1]
    BY <1>1, <1>4
  <2>6. QED
    BY <1>6, <2>2, <2>3, <2>4, <2>5 DEF PathOK
<1>9. QED
  BY <1>2, <1>3, <1>4, <1>8

(* The evaluator is behind: what its next step takes is there.             *)
LEMMA PathAhead ==
  ASSUME NEW ss, NEW tr, NEW n, NEW st, History(tr, n, st), PathOK(ss, tr, n, st),
         NEW i \in 1 .. n, tr[i].nb < tr[n].nb
  PROVE  /\ i \in 1 .. n - 1 /\ i + 1 \in 1 .. n /\ i + 1 \in Nat
         /\ Succ(ss, tr[i], tr[i + 1])
         /\ \A op \in Kinds : /\ tr[i].cnt[op] <= st[tr[i].nb + 1][op]
                              /\ tr[i + 1].cnt[op] <= st[tr[i].nb + 1][op]
         /\ Ends(ss, tr[i]) => tr[i + 1].cnt = st[tr[i].nb + 1] /\ tr[i + 1].cnt = st[tr[i + 1].nb]
<1>1. n \in Nat /\ tr[i].nb \in Nat /\ tr[n].nb \in Nat
  BY HistoryTypes
<1>2. i \in 1 .. n - 1 /\ i + 1 \in 1 .. n /\ i + 1 \in Nat
  BY <1>1
<1>3. /\ Succ(ss, tr[i], tr[i + 1])
      /\ Ends(ss, tr[i]) => st[tr[i + 1].nb] = tr[i + 1].cnt
      /\ \A op \in Kinds : tr[i].cnt[op] <= st[tr[i].nb + 1][op]
      /\ tr[i + 1].nb < tr[n].nb => \A op \in Kinds : tr[i + 1].cnt[op] <= st[tr[i + 1].nb + 1][op]
  BY <1>2 DEF PathOK
<1>4. tr[i + 1].nb = IF Ends(ss, tr[i]) THEN tr[i].nb + 1 ELSE tr[i].nb
  BY <1>3 DEF Succ
<1>5. \A op \in Kinds : tr[i + 1].cnt[op] \in Nat
  BY <1>2, HistoryTypes
<1>6. CASE Ends(ss, tr[i])
  BY <1>2, <1>3, <1>4, <1>5, <1>6
<1>7. CASE ~Ends(ss, tr[i])
  BY <1>2, <1>3, <1>4, <1>7
<1>8. QED
  BY <1>6, <1>7
-----------------------------------------------------------------------------
(* The steps of the two parties, seen from the path.                       *)
LEMMA BatchLonger ==
  ASSUME NEW ss, NEW m, NEW b \in Nat, NEW tr, NEW n, NEW st, History(tr, n, st), PathOK(ss, tr, n, st),
         NEW tr2, NEW st2, \A k \in 1 .. n : tr2[k] = tr[k],
         \A c \in 0 .. tr[n].nb : st2[c] = st[c], b + 1 <= tr[n].nb,
         HoldsBatch(ss, m, b, tr, n, st)
  PROVE  HoldsBatch(ss, m, b, tr2, n + 1, st2)
<1>1. b \in 0 .. tr[n].nb /\ b + 1 \in 0 .. tr[n].nb
  BY HistoryTypes
<1>2. st2[b] = st[b] /\ st2[b + 1] = st[b + 1]
  BY <1>1
<1>3. ASSUME NEW op \in Kinds, NEW s, Holds(ss, op, s, st[b][op], st[b + 1][op], tr, n)
      PROVE  Holds(ss, op, s, st2[b][op], st2[b + 1][op], tr2, n + 1)
  <2>1. st[b][op] \in Nat /\ st[b + 1][op] \in Nat /\ st[b + 1][op] <= tr[n].cnt[op]
    BY <1>1, HistoryTypes DEF PathOK
  <2>2. QED
    BY <1>2, <1>3, <2>1, HoldsLonger
<1>4. "and" \in Kinds /\ "reveal" \in Kinds
  BY DEF Kinds
<1>5. QED
  BY <1>3, <1>4 DEF HoldsBatch

LEMMA EvaluatorNotEnded ==
  ASSUME NEW ss, NEW tr, NEW n, NEW st, History(tr, n, st), PathOK(ss, tr, n, st),
         NEW i \in 1 .. n
  PROVE  i # n => ~tr[i].end
<1>1. i # n => i \in 1 .. n - 1
  <2>1. n \in Nat \ {0}
    BY HistoryTypes
  <2>2. QED
    BY <2>1
<1>2. QED
  BY <1>1 DEF PathOK, Succ

LEMMA OtLen ==
  ASSUME NEW ss, NEW v, NEW o0, NEW o1, NEW ky, NEW tr, NEW n, NEW i,
         TransfersOn(ss, v, o0, o1, ky, tr, n, i)
  PROVE  Len(o1) \in Nat
<1>1. o1 = <<>> \/ o1 = <<Pos(tr[i])>>
  BY DEF TransfersOn
<1>2. QED
  BY <1>1

(* An instruction, or the end of the tape, leads to the next               *)
(* configuration.                                                          *)
Proceeds(ss, g, c) ==
    IF PastEnd(ss, c) THEN g.PC
    ELSE IF IsAt(ss, c, "branch") /\ g.reg THEN ss.tapes[0][c.PC].to
    ELSE g.PC + 1

CountsTo(ss, c) == IF IsAt(ss, c, "and") THEN c.cx + 1 ELSE c.cx

LEMMA SuccExists ==
  ASSUME NEW ss, IsSession(ss), NEW c \in Configs, ~c.end, IsAt(ss, c, "branch") => ss.continuous
  PROVE  \E d \in Configs : Succ(ss, c, d) /\ d.reg = c.reg
<1> DEFINE pc == IF PastEnd(ss, c) THEN c.PC
                 ELSE IF IsAt(ss, c, "branch") /\ c.reg THEN ss.tapes[0][c.PC].to
                 ELSE c.PC + 1
           cn == [op \in Kinds |-> IF IsAt(ss, c, op) THEN c.cnt[op] + 1 ELSE c.cnt[op]]
           b == IF Ends(ss, c) THEN c.nb + 1 ELSE c.nb
           x == IF Ends(ss, c) THEN 0 ELSE IF IsAt(ss, c, "and") THEN c.cx + 1 ELSE c.cx
           e == PastEnd(ss, c)
           d == [PC |-> pc, reg |-> c.reg, cx |-> x, cnt |-> cn, nb |-> b, end |-> e]
<1>1. /\ c.PC \in Nat \ {0} /\ c.reg \in BOOLEAN /\ c.cx \in Nat /\ c.cnt \in Counts /\ c.nb \in Nat
      /\ \A op \in Kinds : c.cnt[op] \in Nat
  BY DEF Configs, Counts
<1>2. pc \in Nat \ {0}
  <2>1. CASE IsAt(ss, c, "branch")
    <3>1. ss.tapes[0] \in Seq(Instructions) /\ c.PC \in 1 .. Len(ss.tapes[0])
      BY <1>1, <2>1 DEF IsSession, IsAt
    <3>2. ss.tapes[0][c.PC] \in Instructions
      BY <3>1
    <3>3. ss.tapes[0][c.PC].op = "branch"
      BY <2>1 DEF IsAt
    <3>4. ss.tapes[0][c.PC].to \in Nat \ {0}
      BY <3>2, <3>3 DEF Instructions
    <3>5. QED
      BY <1>1, <3>4
  <2>2. CASE ~IsAt(ss, c, "branch")
    BY <1>1, <2>2
  <2>3. QED
    BY <2>1, <2>2
<1>3. cn \in Counts
  BY <1>1 DEF Counts
<1>4. b \in Nat /\ x \in Nat /\ e \in BOOLEAN
  BY <1>1 DEF PastEnd
<1>5. \A op \in Kinds : cn[op] = IF IsAt(ss, c, op) THEN c.cnt[op] + 1 ELSE c.cnt[op]
  OBVIOUS
<1> HIDE DEF cn, pc, b, x, e
<1>6. d \in Configs
  BY <1>1, <1>2, <1>3, <1>4 DEF Configs
<1>7. d.PC = pc /\ d.reg = c.reg /\ d.cx = x /\ d.cnt = cn /\ d.nb = b /\ d.end = e
  OBVIOUS
<1> HIDE DEF d
<1>8. Succ(ss, c, d)
  BY <1>5, <1>7 DEF Succ, pc, b, x, e
<1>9. QED
  BY <1>6, <1>7, <1>8

(* What execute() does in the garbler's thread.                            *)
GarblerDoes(ss, g, c, g2) ==
    /\ g2.tape = g.tape /\ g2.run = g.run
    /\ g2.at = IF Ends(ss, c) THEN "send" ELSE "exec"
    /\ g2.tainted <=> ~(IsAt(ss, c, "reveal") /\ ss.continuous)
    /\ g2.PC = IF g2.tainted THEN Proceeds(ss, g, c) ELSE g.PC
    /\ g2.last = "done" <=> PastEnd(ss, c)
    /\ g2.at = "exec" => g2.complexity = CountsTo(ss, c)
    /\ ss.continuous => g2.reg = g.reg

Executes(ss, g, c, g2, d) ==
    /\ g2.tape = 0 /\ g2.run = 1
    /\ g2.at = IF Ends(ss, c) THEN "send" ELSE "exec"
    /\ g2.tainted <=> ~(IsAt(ss, c, "reveal") /\ ss.continuous)
    /\ g2.PC = IF g2.tainted THEN d.PC ELSE g.PC
    /\ d.end <=> g2.last = "done"
    /\ g2.at = "exec" => g2.complexity = d.cx
    /\ ss.continuous => g2.reg = g.reg
    /\ d.reg = c.reg

LEMMA GarblerExecutes ==
  ASSUME NEW ss, NEW g, NEW v, NEW gb0, NEW mb0, NEW gb1, NEW mb1, NEW ky, NEW sto,
         NEW ch0, NEW ch1, NEW o0, NEW o1, NEW tr, NEW n, NEW st, NEW i,
         History(tr, n, st), IsSession(ss),
         Linked(ss, g, v, gb0, mb0, gb1, mb1, ky, sto, ch0, ch1, o0, o1, tr, n, st, i),
         g.at = "exec", g.tainted, IsAt(ss, tr[n], "branch") => ss.continuous,
         NEW g2, g2.tainted \in BOOLEAN, GarblerDoes(ss, g, tr[n], g2),
         NEW gb2, Grows(ss, tr[n], "and", gb0, gb2),
         NEW mb2, Grows(ss, tr[n], "reveal", mb0, mb2),
         NEW ky2, Grows(ss, tr[n], "inputb", ky, ky2)
  PROVE  InLink(ss, g2, v, gb2, mb2, gb1, mb1, ky2, sto, ch0, ch1, o0, o1)
<1>17. PICK d \in Configs : Succ(ss, tr[n], d) /\ Executes(ss, g, tr[n], g2, d)
  <2>1. PathOK(ss, tr, n, st) /\ GarblerOn(ss, g, tr, n, st) /\ RevealsOn(ss, g, tr, n, i)
        /\ EvaluatorOn(ss, v, Sent(g, tr[n]), tr, n, i, st)
    BY DEF Linked
  <2>2. n \in Nat \ {0} /\ tr[n] \in Configs /\ i \in 1 .. n
    BY <2>1, HistoryTypes DEF EvaluatorOn
  <2>3. g.tape = 0 /\ g.run = 1 /\ ~tr[n].end /\ g.PC = tr[n].PC
    BY <2>1 DEF GarblerOn
  <2>4. PICK d \in Configs : Succ(ss, tr[n], d) /\ d.reg = tr[n].reg
    BY <2>2, <2>3, SuccExists
  <2>5. ss.continuous => tr[n].reg = g.reg
    <3>1. n \in i .. n
      BY <2>2
    <3>2. QED
      BY <2>1, <3>1 DEF RevealsOn
  <2>6. g2.at = "exec" => ~Ends(ss, tr[n])
    BY DEF GarblerDoes
  <2>7. d.PC = Proceeds(ss, g, tr[n])
    BY <2>3, <2>4, <2>5 DEF Succ, Proceeds
  <2>8. g2.at = "exec" => g2.complexity = d.cx
    BY <2>4, <2>6 DEF Succ, GarblerDoes, CountsTo
  <2>9. d.end <=> g2.last = "done"
    BY <2>4 DEF Succ, GarblerDoes
  <2>10. Executes(ss, g, tr[n], g2, d)
    BY <2>3, <2>4, <2>7, <2>8, <2>9 DEF Executes, GarblerDoes
  <2>11. QED
    BY <2>4, <2>10
<1>18. ss.continuous \in BOOLEAN
  BY DEF IsSession
<1>1. /\ PathOK(ss, tr, n, st) /\ GarblerOn(ss, g, tr, n, st) /\ Unsent(ss, g, gb0, mb0, tr, n, st)
      /\ EvaluatorOn(ss, v, Sent(g, tr[n]), tr, n, i, st)
      /\ Unused(ss, v, gb1, mb1, tr, n, i, st)
      /\ UnderWay(ss, v, Sent(g, tr[n]), Trailer(ss, g, v, tr[i]), sto, ch1, tr, n, i, st)
      /\ Answers(ss, g, ch0, tr, n, i) /\ TransfersOn(ss, v, o0, o1, ky, tr, n, i)
      /\ RevealsOn(ss, g, tr, n, i) /\ ModeOn(ss, g, v)
  BY DEF Linked
<1>2. PICK tr2, st2 :
           /\ History(tr2, n + 1, st2) /\ PathOK(ss, tr2, n + 1, st2)
           /\ \A k \in 1 .. n : tr2[k] = tr[k]
           /\ tr2[n + 1] = d
           /\ \A b \in 0 .. tr[n].nb : st2[b] = st[b]
           /\ st2[tr[n].nb + 1] = d.cnt
  BY <1>1, <1>17, PathGrow
<1>3. /\ n \in Nat \ {0} /\ i \in 1 .. n /\ i \in Nat /\ tr[n].nb \in Nat /\ tr[i].nb \in Nat
      /\ tr2[i] = tr[i] /\ tr2[n] = tr[n] /\ tr[i].nb <= tr[n].nb /\ (n + 1) - 1 = n
  <2>1. n \in Nat \ {0} /\ i \in 1 .. n
    BY <1>1, HistoryTypes DEF EvaluatorOn
  <2>2. i \in Nat /\ n \in 1 .. n /\ (n + 1) - 1 = n
    BY <2>1
  <2>3. tr[n].nb \in Nat /\ tr[i].nb \in Nat
    BY <2>1, <2>2, HistoryTypes
  <2>4. tr[i].nb <= tr[n].nb
    BY <1>1, <2>1 DEF PathOK
  <2>5. QED
    BY <1>2, <2>1, <2>2, <2>3, <2>4
<1>4. PICK S \in Nat : S = tr[n].nb /\ S = Sent(g, tr[n]) /\ S = Sent(g2, d)
  <2>1. d.nb = IF Ends(ss, tr[n]) THEN tr[n].nb + 1 ELSE tr[n].nb
    BY <1>17 DEF Succ
  <2>2. QED
    BY <1>3, <1>17, <2>1 DEF Sent, Executes
<1>5. GarblerOn(ss, g2, tr2, n + 1, st2)
  <2>1. g.run = 1 /\ g.PC = tr[n].PC
    BY <1>1 DEF GarblerOn
  <2>2. Ends(ss, tr[n]) => d.nb = tr[n].nb + 1 /\ d.cx = 0
    BY <1>17 DEF Succ
  <2>3. ~Ends(ss, tr[n]) => ~d.end
    BY <1>17 DEF Succ, Ends
  <2>4. QED
    BY <1>2, <1>3, <1>17, <1>18, <2>1, <2>2, <2>3 DEF GarblerOn, Executes
<1>6. Unsent(ss, g2, gb2, mb2, tr2, n + 1, st2)
  <2>1. st2[S] = st[S] /\ \A op \in Kinds : st[S][op] \in Nat
    BY <1>2, <1>4, HistoryTypes
  <2>2. "and" \in Kinds /\ "reveal" \in Kinds
    BY DEF Kinds
  <2>3. Holds(ss, "and", gb0, st[S]["and"], tr[n].cnt["and"], tr, n)
        /\ Holds(ss, "reveal", mb0, st[S]["reveal"], tr[n].cnt["reveal"], tr, n)
    BY <1>1, <1>4 DEF Unsent
  <2>4. Holds(ss, "and", gb2, st[S]["and"], d.cnt["and"], tr2, n + 1)
    BY <1>1, <1>2, <1>17, <2>1, <2>2, <2>3, HoldsMore DEF Grows
  <2>5. Holds(ss, "reveal", mb2, st[S]["reveal"], d.cnt["reveal"], tr2, n + 1)
    BY <1>1, <1>2, <1>17, <2>1, <2>2, <2>3, HoldsMore DEF Grows
  <2>6. QED
    BY <1>2, <1>4, <2>1, <2>4, <2>5 DEF Unsent
<1>7. EvaluatorOn(ss, v, S, tr2, n + 1, i, st2)
  <2>1. tr[i].nb \in 0 .. tr[n].nb
    BY <1>3
  <2>4. i \in 1 .. n + 1
    BY <1>3
  <2>2. st2[tr[i].nb] = st[tr[i].nb] /\ i \in 1 .. n + 1
    BY <1>2, <2>1, <2>4
  <2>3. QED
    BY <1>1, <1>3, <1>4, <2>2 DEF EvaluatorOn
<1>8. Unused(ss, v, gb1, mb1, tr2, n + 1, i, st2)
  <2>1. CASE InBatch(v)
    <3>1. tr[i].nb + 1 \in 0 .. tr[n].nb
      BY <1>1, <1>3, <1>4, <2>1 DEF EvaluatorOn
    <3>2. st2[tr[i].nb + 1] = st[tr[i].nb + 1]
      BY <1>2, <3>1
    <3>3. ASSUME NEW op \in Kinds, NEW s, Holds(ss, op, s, tr[i].cnt[op], st[tr[i].nb + 1][op], tr, n)
          PROVE  Holds(ss, op, s, tr2[i].cnt[op], st2[tr2[i].nb + 1][op], tr2, n + 1)
      <4>1. st[tr[i].nb + 1][op] \in Nat /\ st[tr[i].nb + 1][op] <= tr[n].cnt[op] /\ tr[i].cnt[op] \in Nat
        <5>1. tr[i].nb + 1 \in Nat
          BY <1>3
        <5>2. st[tr[i].nb + 1][op] <= tr[n].cnt[op]
          BY <1>1, <3>1 DEF PathOK
        <5>3. QED
          BY <1>3, <5>1, <5>2, HistoryTypes
      <4>2. Holds(ss, op, s, tr[i].cnt[op], st[tr[i].nb + 1][op], tr2, n + 1)
        BY <1>2, <3>3, <4>1, HoldsLonger
      <4>3. QED
        BY <1>3, <3>2, <4>2
    <3>4. "and" \in Kinds /\ "reveal" \in Kinds
      BY DEF Kinds
    <3>5. QED
      BY <1>1, <2>1, <3>3, <3>4 DEF Unused
  <2>2. CASE ~InBatch(v)
    BY <1>1, <2>2 DEF Unused
  <2>3. QED
    BY <2>1, <2>2
<1>9. Trailer(ss, g2, v, tr2[i]) = Trailer(ss, g, v, tr[i])
  BY <1>3, <1>17 DEF Trailer, Over0, Executes
<1>10. UnderWay(ss, v, S, Trailer(ss, g, v, tr[i]), sto, ch1, tr2, n + 1, i, st2)
  <2> DEFINE D == Loaded(v, tr[i])
             rest == S - D - Len(sto)
  <2>1. /\ rest \in Nat
        /\ \A j \in 1 .. Len(sto) : HoldsBatch(ss, sto[j], D + j - 1, tr, n, st)
        /\ \A j \in 1 .. rest : HoldsBatch(ss, ch1[j], D + Len(sto) + j - 1, tr, n, st)
        /\ IF Trailer(ss, g, v, tr[i]) = "none" THEN Len(ch1) = rest
           ELSE Len(ch1) = rest + 1 /\ ch1[rest + 1].type = Trailer(ss, g, v, tr[i])
    BY <1>1, <1>4 DEF UnderWay
  <2>2. D \in Nat /\ Loaded(v, tr2[i]) = D
    BY <1>3 DEF Loaded
  <2>3. Len(sto) \in Nat
    BY <1>1 DEF UnderWay
  <2> HIDE DEF D
  <2>4. ASSUME NEW j \in 1 .. Len(sto) PROVE HoldsBatch(ss, sto[j], D + j - 1, tr2, n + 1, st2)
    <3>1. D + j - 1 \in Nat /\ D + j - 1 + 1 <= tr[n].nb
      BY <1>4, <2>1, <2>2, <2>3
    <3>2. QED
      BY <1>1, <1>2, <2>1, <3>1, BatchLonger
  <2>5. ASSUME NEW j \in 1 .. rest PROVE HoldsBatch(ss, ch1[j], D + Len(sto) + j - 1, tr2, n + 1, st2)
    <3>1. D + Len(sto) + j - 1 \in Nat /\ D + Len(sto) + j - 1 + 1 <= tr[n].nb
      BY <1>4, <2>1, <2>2, <2>3
    <3>2. PICK b \in Nat : b = D + Len(sto) + j - 1 /\ b + 1 <= tr[n].nb
      BY <3>1
    <3>3. HoldsBatch(ss, ch1[j], b, tr, n, st)
      BY <2>1, <3>2
    <3>4. HoldsBatch(ss, ch1[j], b, tr2, n + 1, st2)
      BY <1>1, <1>2, <3>2, <3>3, BatchLonger
    <3>5. QED
      BY <3>2, <3>4
  <2>6. QED
    BY <2>1, <2>2, <2>4, <2>5, <1>1 DEF UnderWay
<1>11. Answers(ss, g2, ch0, tr2, n + 1, i)
  <2>1. ~tr[i].end
    BY <1>1, <1>3, EvaluatorNotEnded DEF GarblerOn
  <2>2. ch0 = <<>>
    BY <1>1, <2>1 DEF Answers
  <2>3. i # n + 1
    BY <1>3
  <2>4. QED
    BY <1>3, <2>1, <2>2, <2>3 DEF Answers
<1>12. TransfersOn(ss, v, o0, o1, ky2, tr2, n + 1, i)
  <2>1. "inputb" \in Kinds
    BY DEF Kinds
  <2>2. PICK a \in Nat : a = tr[i].cnt["inputb"] + Len(o1)
    <3>1. tr[i].cnt["inputb"] \in Nat
      BY <1>3, <2>1, HistoryTypes
    <3>2. Len(o1) \in Nat
      BY <1>1, OtLen
    <3>3. QED
      BY <3>1, <3>2
  <2>3. Holds(ss, "inputb", ky, a, tr[n].cnt["inputb"], tr, n)
    BY <1>1, <2>2 DEF TransfersOn
  <2>4. Holds(ss, "inputb", ky2, a, d.cnt["inputb"], tr2, n + 1)
    BY <1>1, <1>2, <1>17, <2>1, <2>3, HoldsMore DEF Grows
  <2>5. QED
    BY <1>1, <1>2, <1>3, <2>2, <2>4 DEF TransfersOn
<1>13. RevealsOn(ss, g2, tr2, n + 1, i)
  <2> SUFFICES ASSUME ss.continuous
               PROVE  /\ \A k \in i .. n : IsAt(ss, tr2[k], "reveal") => k = n /\ ~g2.tainted
                      /\ \A k \in i .. n + 1 : (k < n + 1 \/ g2.tainted) => tr2[k].reg = g2.reg
    BY <1>3 DEF RevealsOn
  <2>1. /\ \A k \in i .. n - 1 : IsAt(ss, tr[k], "reveal") => k = n - 1 /\ ~g.tainted
        /\ \A k \in i .. n : tr[k].reg = g.reg
    BY <1>1 DEF RevealsOn
  <2>2. ASSUME NEW k \in i .. n, IsAt(ss, tr2[k], "reveal") PROVE k = n /\ ~g2.tainted
    <3>1. tr2[k] = tr[k]
      BY <1>2, <1>3
    <3>2. k = n
      BY <1>3, <2>1, <2>2, <3>1
    <3>3. QED
      BY <1>17, <2>2, <3>1, <3>2 DEF Executes
  <2>3. ASSUME NEW k \in i .. n + 1, k < n + 1 \/ g2.tainted PROVE tr2[k].reg = g2.reg
    <3>1. CASE k = n + 1
      <4>1. tr2[k] = d /\ d.reg = tr[n].reg /\ tr[n].reg = g.reg
        BY <1>2, <1>3, <1>17, <2>1, <3>1 DEF Executes
      <4>2. QED
        BY <1>17, <4>1 DEF Executes
    <3>2. CASE k # n + 1
      <4>1. k \in i .. n /\ k \in 1 .. n
        BY <1>3, <3>2
      <4>2. QED
        BY <1>2, <1>17, <2>1, <4>1 DEF Executes
    <3>3. QED
      BY <3>1, <3>2
  <2>4. QED
    BY <2>2, <2>3
<1>14. ModeOn(ss, g2, v) /\ FinishOn(ss, g2, tr2[i])
  <2>1. ~tr[i].end
    BY <1>1, <1>3, EvaluatorNotEnded DEF GarblerOn
  <2>2. QED
    BY <1>1, <1>3, <1>17, <1>18, <2>1 DEF ModeOn, FinishOn, Over0, Executes
<1>15. Linked(ss, g2, v, gb2, mb2, gb1, mb1, ky2, sto, ch0, ch1, o0, o1, tr2, n + 1, st2, i)
  BY <1>2, <1>4, <1>5, <1>6, <1>7, <1>8, <1>9, <1>10, <1>11, <1>12, <1>13, <1>14 DEF Linked
<1>16. QED
  BY <1>2, <1>15 DEF InLink, History

LEMMA HoldsNext ==
  ASSUME NEW ss, NEW op \in Kinds, NEW s, NEW tr, NEW n, NEW st, History(tr, n, st),
         PathOK(ss, tr, n, st), NEW i \in 1 .. n, tr[i].nb < tr[n].nb,
         Holds(ss, op, s, tr[i].cnt[op], st[tr[i].nb + 1][op], tr, n), IsAt(ss, tr[i], op)
  PROVE  /\ s # <<>> /\ Head(s) = Pos(tr[i])
         /\ Holds(ss, op, Tail(s), tr[i + 1].cnt[op], st[tr[i].nb + 1][op], tr, n)
<1>1. /\ i \in 1 .. n - 1 /\ Succ(ss, tr[i], tr[i + 1])
      /\ tr[i + 1].cnt[op] <= st[tr[i].nb + 1][op]
  BY PathAhead
<1>2. PICK a \in Nat, b \in Nat : a = tr[i].cnt[op] /\ b = st[tr[i].nb + 1][op]
  <2>1. i \in Nat /\ tr[i].nb + 1 \in Nat
    BY HistoryTypes
  <2>2. QED
    BY <2>1, HistoryTypes
<1>3. tr[i + 1].cnt[op] = a + 1 /\ a < b
  BY <1>1, <1>2 DEF Succ
<1>4. Holds(ss, op, s, a, b, tr, n)
  BY <1>2
<1>5. s # <<>> /\ Holds(ss, op, Tail(s), a + 1, b, tr, n)
  BY <1>3, <1>4, HoldsTail
<1>6. Head(s) = Pos(tr[i])
  <2>1. i \in 1 .. n - 1 /\ tr[i].cnt[op] = a /\ a < b
    BY <1>1, <1>2, <1>3
  <2>2. QED
    BY <1>4, <2>1, HoldsHead
<1>7. QED
  BY <1>2, <1>3, <1>5, <1>6

LEMMA HoldsStep ==
  ASSUME NEW ss, NEW op \in Kinds, NEW s, NEW tr, NEW n, NEW st, History(tr, n, st),
         PathOK(ss, tr, n, st), NEW i \in 1 .. n, tr[i].nb < tr[n].nb,
         Holds(ss, op, s, tr[i].cnt[op], st[tr[i].nb + 1][op], tr, n),
         NEW s2, Shrinks(ss, tr[i], op, s, s2)
  PROVE  Holds(ss, op, s2, tr[i + 1].cnt[op], st[tr[i].nb + 1][op], tr, n)
<1>1. CASE IsAt(ss, tr[i], op)
  <2>1. s2 = Tail(s)
    BY <1>1 DEF Shrinks
  <2>2. QED
    BY <1>1, <2>1, HoldsNext
<1>2. CASE ~IsAt(ss, tr[i], op)
  <2>1. Succ(ss, tr[i], tr[i + 1])
    BY PathAhead
  <2>2. QED
    BY <1>2, <2>1 DEF Succ, Shrinks
<1>3. QED
  BY <1>1, <1>2

(* What execute() does in the evaluator's thread, from c to f.             *)
Follows(ss, v2, c, f) ==
    /\ v2.tape = 0 /\ v2.run = 1
    /\ v2.PC = f.PC
    /\ ss.continuous => v2.reg = f.reg
    /\ v2.at = IF PastEnd(ss, c) THEN "schedule" ELSE IF Ends(ss, c) THEN "receive" ELSE "exec"
    /\ v2.at = "exec" => v2.complexity = f.cx

LEMMA EvaluatorRuns ==
  ASSUME NEW ss, NEW g, NEW v, NEW gb0, NEW mb0, NEW gb1, NEW mb1, NEW ky, NEW sto,
         NEW ch0, NEW ch1, NEW o0, NEW o1, NEW tr, NEW n, NEW st, NEW i,
         History(tr, n, st), g.tainted \in BOOLEAN,
         Linked(ss, g, v, gb0, mb0, gb1, mb1, ky, sto, ch0, ch1, o0, o1, tr, n, st, i),
         InBatch(v), KeysCame(ss, tr[i], o1),
         NEW v2, Follows(ss, v2, tr[i], tr[i + 1]),
         NEW gb2, Shrinks(ss, tr[i], "and", gb1, gb2),
         NEW mb2, Shrinks(ss, tr[i], "reveal", mb1, mb2)
  PROVE  /\ i \in 1 .. n - 1 /\ i + 1 \in 1 .. n /\ Succ(ss, tr[i], tr[i + 1])
         /\ EvaluatorOn(ss, v2, Sent(g, tr[n]), tr, n, i + 1, st)
         /\ Unused(ss, v2, gb2, mb2, tr, n, i + 1, st)
         /\ UnderWay(ss, v2, Sent(g, tr[n]), Trailer(ss, g, v, tr[i]), sto, ch1, tr, n, i + 1, st)
         /\ TransfersOn(ss, v2, <<>>, <<>>, ky, tr, n, i + 1)
         /\ RevealsOn(ss, g, tr, n, i + 1)
         /\ ModeOn(ss, g, v2)
<1>1. /\ PathOK(ss, tr, n, st) /\ GarblerOn(ss, g, tr, n, st)
      /\ EvaluatorOn(ss, v, Sent(g, tr[n]), tr, n, i, st)
      /\ Unused(ss, v, gb1, mb1, tr, n, i, st)
      /\ UnderWay(ss, v, Sent(g, tr[n]), Trailer(ss, g, v, tr[i]), sto, ch1, tr, n, i, st)
      /\ TransfersOn(ss, v, o0, o1, ky, tr, n, i)
      /\ RevealsOn(ss, g, tr, n, i) /\ ModeOn(ss, g, v)
  BY DEF Linked
<1>2. /\ n \in Nat \ {0} /\ i \in 1 .. n /\ i \in Nat /\ i + 1 \in Nat
      /\ tr[n].nb \in Nat /\ tr[i].nb \in Nat /\ tr[i + 1].nb \in Nat
  <2>1. n \in Nat \ {0} /\ i \in 1 .. n
    BY <1>1, HistoryTypes DEF EvaluatorOn
  <2>2. i \in Nat /\ i + 1 \in Nat
    BY <2>1
  <2>3. QED
    BY <2>1, <2>2, HistoryTypes
<1>3. PICK S \in Nat : S = Sent(g, tr[n]) /\ tr[i].nb < S /\ S <= tr[n].nb
  BY <1>1, <1>2 DEF Sent, GarblerOn, EvaluatorOn
<1>4. tr[i].nb < tr[n].nb
  BY <1>2, <1>3
<1>5. /\ i \in 1 .. n - 1 /\ i + 1 \in 1 .. n /\ Succ(ss, tr[i], tr[i + 1])
      /\ Ends(ss, tr[i]) => tr[i + 1].cnt = st[tr[i].nb + 1] /\ tr[i + 1].cnt = st[tr[i + 1].nb]
  BY <1>1, <1>2, <1>4, PathAhead
<1>6. /\ tr[i + 1].nb = IF Ends(ss, tr[i]) THEN tr[i].nb + 1 ELSE tr[i].nb
      /\ Ends(ss, tr[i]) => tr[i + 1].cx = 0
      /\ tr[i + 1].end <=> PastEnd(ss, tr[i])
      /\ PastEnd(ss, tr[i]) => Ends(ss, tr[i])
  BY <1>5 DEF Succ, Ends
<1>7. InBatch(v2) <=> ~Ends(ss, tr[i])
  BY <1>6 DEF InBatch, Follows
<1>8. EvaluatorOn(ss, v2, S, tr, n, i + 1, st)
  BY <1>3, <1>5, <1>6, <1>7 DEF EvaluatorOn, Follows, InBatch
<1>9. Unused(ss, v2, gb2, mb2, tr, n, i + 1, st)
  <2>1. "and" \in Kinds /\ "reveal" \in Kinds
    BY DEF Kinds
  <2>2. Holds(ss, "and", gb1, tr[i].cnt["and"], st[tr[i].nb + 1]["and"], tr, n)
        /\ Holds(ss, "reveal", mb1, tr[i].cnt["reveal"], st[tr[i].nb + 1]["reveal"], tr, n)
    BY <1>1 DEF Unused
  <2>3. Holds(ss, "and", gb2, tr[i + 1].cnt["and"], st[tr[i].nb + 1]["and"], tr, n)
    BY <1>1, <1>2, <1>4, <2>1, <2>2, HoldsStep
  <2>4. Holds(ss, "reveal", mb2, tr[i + 1].cnt["reveal"], st[tr[i].nb + 1]["reveal"], tr, n)
    BY <1>1, <1>2, <1>4, <2>1, <2>2, HoldsStep
  <2>5. CASE ~Ends(ss, tr[i])
    BY <1>6, <1>7, <2>3, <2>4, <2>5 DEF Unused
  <2>6. CASE Ends(ss, tr[i])
    <3>1. ASSUME NEW op \in Kinds, NEW s, Holds(ss, op, s, tr[i + 1].cnt[op], st[tr[i].nb + 1][op], tr, n)
          PROVE  s = <<>>
      <4>1. tr[i + 1].cnt[op] = st[tr[i].nb + 1][op] /\ tr[i + 1].cnt[op] \in Nat
        BY <1>2, <1>5, <2>6, HistoryTypes
      <4>2. s \in Seq(Positions) /\ Len(s) = 0
        BY <3>1, <4>1 DEF Holds
      <4>3. QED
        BY <4>2
    <3>2. gb2 = <<>> /\ mb2 = <<>>
      BY <2>1, <2>3, <2>4, <3>1
    <3>3. QED
      BY <1>7, <2>6, <3>2 DEF Unused
  <2>7. QED
    BY <2>5, <2>6
<1>10. UnderWay(ss, v2, S, Trailer(ss, g, v, tr[i]), sto, ch1, tr, n, i + 1, st)
  <2>1. Loaded(v2, tr[i + 1]) = Loaded(v, tr[i])
    BY <1>6, <1>7 DEF Loaded
  <2>2. QED
    BY <1>1, <1>3, <2>1 DEF UnderWay, InBatch, Follows
<1>11. TransfersOn(ss, v2, <<>>, <<>>, ky, tr, n, i + 1)
  <2>1. "inputb" \in Kinds
    BY DEF Kinds
  <2>2. PICK a \in Nat : a = tr[i].cnt["inputb"]
    BY <1>2, <2>1, HistoryTypes
  <2>3. tr[i + 1].cnt["inputb"] = a + Len(o1)
    <3>1. tr[i + 1].cnt["inputb"] = IF IsAt(ss, tr[i], "inputb") THEN a + 1 ELSE a
      BY <1>5, <2>1, <2>2 DEF Succ
    <3>2. CASE IsAt(ss, tr[i], "inputb")
      <4>1. Len(o1) = 1 /\ tr[i + 1].cnt["inputb"] = a + 1
        BY <3>1, <3>2 DEF KeysCame
      <4>2. QED
        BY <4>1
    <3>3. CASE ~IsAt(ss, tr[i], "inputb")
      <4>1. Len(o1) = 0 /\ tr[i + 1].cnt["inputb"] = a /\ a + 0 = a
        BY <2>2, <3>1, <3>3 DEF KeysCame
      <4>2. QED
        BY <4>1
    <3>4. QED
      BY <3>2, <3>3
  <2>4. Holds(ss, "inputb", ky, a + Len(o1), tr[n].cnt["inputb"], tr, n)
    BY <1>1, <2>2 DEF TransfersOn
  <2>5. Len(<<>>) = 0 /\ tr[i + 1].cnt["inputb"] + 0 = tr[i + 1].cnt["inputb"]
    BY <1>2, <2>1, HistoryTypes
  <2>6. v2.at # "keys"
    BY DEF Follows
  <2>7. Holds(ss, "inputb", ky, tr[i + 1].cnt["inputb"] + Len(<<>>), tr[n].cnt["inputb"], tr, n)
    BY <2>3, <2>4, <2>5
  <2>8. QED
    BY <2>6, <2>7 DEF TransfersOn
<1>12. RevealsOn(ss, g, tr, n, i + 1)
  <2>1. \A k \in i + 1 .. n : k \in i .. n
    BY <1>2
  <2>2. \A k \in i + 1 .. n - 1 : k \in i .. n - 1
    BY <1>2
  <2>3. QED
    BY <1>1, <2>1, <2>2 DEF RevealsOn
<1>13. ModeOn(ss, g, v2)
  BY <1>1 DEF ModeOn, InBatch
<1>14. QED
  BY <1>3, <1>5, <1>8, <1>9, <1>10, <1>11, <1>12, <1>13

(* A step that neither reveals a bit to the garbler nor ends the tape.     *)
LEMMA EvaluatorStep ==
  ASSUME NEW ss, NEW g, NEW v, NEW gb0, NEW mb0, NEW gb1, NEW mb1, NEW ky, NEW sto,
         NEW ch0, NEW ch1, NEW o0, NEW o1, NEW tr, NEW n, NEW st, NEW i,
         History(tr, n, st), g.tainted \in BOOLEAN,
         Linked(ss, g, v, gb0, mb0, gb1, mb1, ky, sto, ch0, ch1, o0, o1, tr, n, st, i),
         InBatch(v), KeysCame(ss, tr[i], o1),
         ~PastEnd(ss, tr[i]), ~(ss.continuous /\ IsAt(ss, tr[i], "reveal")),
         NEW v2, Follows(ss, v2, tr[i], tr[i + 1]),
         NEW gb2, Shrinks(ss, tr[i], "and", gb1, gb2),
         NEW mb2, Shrinks(ss, tr[i], "reveal", mb1, mb2)
  PROVE  Linked(ss, g, v2, gb0, mb0, gb2, mb2, ky, sto, ch0, ch1, <<>>, <<>>, tr, n, st, i + 1)
<1>1. /\ i \in 1 .. n - 1 /\ i + 1 \in 1 .. n /\ Succ(ss, tr[i], tr[i + 1])
      /\ EvaluatorOn(ss, v2, Sent(g, tr[n]), tr, n, i + 1, st)
      /\ Unused(ss, v2, gb2, mb2, tr, n, i + 1, st)
      /\ UnderWay(ss, v2, Sent(g, tr[n]), Trailer(ss, g, v, tr[i]), sto, ch1, tr, n, i + 1, st)
      /\ TransfersOn(ss, v2, <<>>, <<>>, ky, tr, n, i + 1)
      /\ RevealsOn(ss, g, tr, n, i + 1)
      /\ ModeOn(ss, g, v2)
  BY EvaluatorRuns
<1>2. /\ PathOK(ss, tr, n, st) /\ GarblerOn(ss, g, tr, n, st) /\ Unsent(ss, g, gb0, mb0, tr, n, st)
      /\ Answers(ss, g, ch0, tr, n, i) /\ RevealsOn(ss, g, tr, n, i) /\ FinishOn(ss, g, tr[i])
  BY DEF Linked
<1>3. ~tr[i].end /\ ~tr[i + 1].end
  BY <1>1 DEF Succ
<1>4. Trailer(ss, g, v2, tr[i + 1]) = Trailer(ss, g, v, tr[i])
  BY <1>3 DEF Trailer, Follows, InBatch
<1>5. Answers(ss, g, ch0, tr, n, i + 1)
  <2>1. n \in Nat /\ i # n
    BY <1>1, HistoryTypes
  <2>2. ch0 = <<>>
    BY <1>2, <1>3, <2>1 DEF Answers
  <2>3. ~g.tainted => i + 1 # n
    <3> SUFFICES ASSUME ~g.tainted, i + 1 = n PROVE FALSE
      OBVIOUS
    <3>1. n - 1 = i /\ ss.continuous /\ IsAt(ss, tr[n - 1], "reveal")
      BY <1>1, <1>2, <2>1 DEF GarblerOn
    <3>2. QED
      BY <3>1
  <2>4. QED
    BY <1>3, <2>2, <2>3 DEF Answers
<1>6. FinishOn(ss, g, tr[i + 1])
  BY <1>2, <1>3 DEF FinishOn
<1>7. QED
  BY <1>1, <1>2, <1>4, <1>5, <1>6 DEF Linked

(* A party's thread goes somewhere else and neither executes nor sends.    *)
LEMMA GarblerMoves ==
  ASSUME NEW ss, NEW g, NEW v, NEW gb0, NEW mb0, NEW gb1, NEW mb1, NEW ky, NEW sto,
         NEW ch0, NEW ch1, NEW o0, NEW o1, NEW tr, NEW n, NEW st, NEW i,
         Linked(ss, g, v, gb0, mb0, gb1, mb1, ky, sto, ch0, ch1, o0, o1, tr, n, st, i),
         NEW g2, GarblerOn(ss, g2, tr, n, st), Sent(g2, tr[n]) = Sent(g, tr[n]),
         g2.tainted = g.tainted, g2.reg = g.reg,
         IF ss.continuous THEN Over0(g2) <=> Over0(g)
         ELSE g2.at \in {"post_inputs", "ended"} <=> g.at \in {"post_inputs", "ended"},
         NEW o2, NEW o3, NEW ky2, TransfersOn(ss, v, o2, o3, ky2, tr, n, i)
  PROVE  Linked(ss, g2, v, gb0, mb0, gb1, mb1, ky2, sto, ch0, ch1, o2, o3, tr, n, st, i)
<1>1. /\ PathOK(ss, tr, n, st) /\ Unsent(ss, g, gb0, mb0, tr, n, st)
      /\ EvaluatorOn(ss, v, Sent(g, tr[n]), tr, n, i, st)
      /\ Unused(ss, v, gb1, mb1, tr, n, i, st)
      /\ UnderWay(ss, v, Sent(g, tr[n]), Trailer(ss, g, v, tr[i]), sto, ch1, tr, n, i, st)
      /\ Answers(ss, g, ch0, tr, n, i)
      /\ RevealsOn(ss, g, tr, n, i) /\ ModeOn(ss, g, v) /\ FinishOn(ss, g, tr[i])
  BY DEF Linked
<1>2. Trailer(ss, g2, v, tr[i]) = Trailer(ss, g, v, tr[i])
  BY DEF Trailer
<1>3. Unsent(ss, g2, gb0, mb0, tr, n, st)
  BY <1>1 DEF Unsent
<1>4. Answers(ss, g2, ch0, tr, n, i)
  BY <1>1 DEF Answers
<1>5. RevealsOn(ss, g2, tr, n, i) /\ ModeOn(ss, g2, v) /\ FinishOn(ss, g2, tr[i])
  BY <1>1 DEF RevealsOn, ModeOn, FinishOn
<1>6. QED
  BY <1>1, <1>2, <1>3, <1>4, <1>5 DEF Linked

LEMMA EvaluatorMoves ==
  ASSUME NEW ss, NEW g, NEW v, NEW gb0, NEW mb0, NEW gb1, NEW mb1, NEW ky, NEW sto,
         NEW ch0, NEW ch1, NEW o0, NEW o1, NEW tr, NEW n, NEW st, NEW i,
         Linked(ss, g, v, gb0, mb0, gb1, mb1, ky, sto, ch0, ch1, o0, o1, tr, n, st, i),
         NEW v2, EvaluatorOn(ss, v2, Sent(g, tr[n]), tr, n, i, st),
         InBatch(v2) <=> InBatch(v), v.at # "store", v2.at # "store",
         NEW o2, NEW o3, TransfersOn(ss, v2, o2, o3, ky, tr, n, i)
  PROVE  Linked(ss, g, v2, gb0, mb0, gb1, mb1, ky, sto, ch0, ch1, o2, o3, tr, n, st, i)
<1>1. /\ PathOK(ss, tr, n, st) /\ GarblerOn(ss, g, tr, n, st) /\ Unsent(ss, g, gb0, mb0, tr, n, st)
      /\ Unused(ss, v, gb1, mb1, tr, n, i, st)
      /\ UnderWay(ss, v, Sent(g, tr[n]), Trailer(ss, g, v, tr[i]), sto, ch1, tr, n, i, st)
      /\ Answers(ss, g, ch0, tr, n, i)
      /\ RevealsOn(ss, g, tr, n, i) /\ ModeOn(ss, g, v) /\ FinishOn(ss, g, tr[i])
  BY DEF Linked
<1>2. Trailer(ss, g, v2, tr[i]) = Trailer(ss, g, v, tr[i])
  BY DEF Trailer
<1>3. Unused(ss, v2, gb1, mb1, tr, n, i, st)
  BY <1>1 DEF Unused
<1>4. UnderWay(ss, v2, Sent(g, tr[n]), Trailer(ss, g, v, tr[i]), sto, ch1, tr, n, i, st)
  <2>1. Loaded(v2, tr[i]) = Loaded(v, tr[i])
    BY DEF Loaded
  <2>2. QED
    BY <1>1, <2>1 DEF UnderWay
<1>5. ModeOn(ss, g, v2)
  BY <1>1 DEF ModeOn
<1>6. QED
  BY <1>1, <1>2, <1>3, <1>4, <1>5 DEF Linked

(* The garbler sends a batch.                                              *)
LEMMA GarblerSends ==
  ASSUME NEW ss, NEW g, NEW v, NEW gb0, NEW mb0, NEW gb1, NEW mb1, NEW ky, NEW sto,
         NEW ch0, NEW ch1, NEW o0, NEW o1, NEW tr, NEW n, NEW st, NEW i, History(tr, n, st),
         Linked(ss, g, v, gb0, mb0, gb1, mb1, ky, sto, ch0, ch1, o0, o1, tr, n, st, i),
         g.at = "send", NEW g2, GarblerOn(ss, g2, tr, n, st),
         g2.tainted = g.tainted, g2.reg = g.reg, g2.at \in {"inputs", "finish", "exec"},
         NEW m \in Batches, m.gates = gb0, m.masks = mb0
  PROVE  Linked(ss, g2, v, <<>>, <<>>, gb1, mb1, ky, sto, ch0, Append(ch1, m), o0, o1, tr, n, st, i)
<1>1. /\ PathOK(ss, tr, n, st) /\ GarblerOn(ss, g, tr, n, st) /\ Unsent(ss, g, gb0, mb0, tr, n, st)
      /\ EvaluatorOn(ss, v, Sent(g, tr[n]), tr, n, i, st)
      /\ Unused(ss, v, gb1, mb1, tr, n, i, st)
      /\ UnderWay(ss, v, Sent(g, tr[n]), Trailer(ss, g, v, tr[i]), sto, ch1, tr, n, i, st)
      /\ Answers(ss, g, ch0, tr, n, i) /\ TransfersOn(ss, v, o0, o1, ky, tr, n, i)
      /\ RevealsOn(ss, g, tr, n, i) /\ ModeOn(ss, g, v) /\ FinishOn(ss, g, tr[i])
  BY DEF Linked
<1>2. PICK S \in Nat : S = Sent(g, tr[n]) /\ tr[n].nb = S + 1 /\ Sent(g2, tr[n]) = S + 1
  <2>1. tr[n].nb \in Nat /\ tr[n].nb > 0
    BY <1>1, HistoryTypes DEF GarblerOn
  <2>2. QED
    BY <2>1 DEF Sent
<1>3. st[S + 1] = tr[n].cnt
  BY <1>1, <1>2 DEF GarblerOn
<1>4. "and" \in Kinds /\ "reveal" \in Kinds
  BY DEF Kinds
<1>5. Unsent(ss, g2, <<>>, <<>>, tr, n, st)
  <2>1. n \in Nat /\ \A k \in 1 .. n - 1 : k \in Nat
    BY HistoryTypes
  <2>2. \A op \in Kinds : st[S + 1][op] \in Nat /\ \A k \in 1 .. n - 1 : tr[k].cnt[op] \in Nat
    BY <2>1, HistoryTypes
  <2>3. \A op \in Kinds : Holds(ss, op, <<>>, st[S + 1][op], st[S + 1][op], tr, n)
    BY <2>1, <2>2, HoldsEmpty
  <2>4. QED
    BY <1>2, <1>3, <1>4, <2>3 DEF Unsent
<1>6. EvaluatorOn(ss, v, S + 1, tr, n, i, st)
  <2>1. i \in Nat
    BY <1>1, HistoryTypes DEF EvaluatorOn
  <2>2. tr[i].nb \in Nat
    BY <2>1, HistoryTypes
  <2>3. tr[i].nb < S => tr[i].nb < S + 1
    BY <2>2
  <2>4. QED
    BY <1>1, <1>2, <2>3 DEF EvaluatorOn
<1>7. Trailer(ss, g, v, tr[i]) = "none" /\ Trailer(ss, g2, v, tr[i]) = "none"
  BY DEF Trailer, Over0
<1>8. UnderWay(ss, v, S + 1, "none", sto, Append(ch1, m), tr, n, i, st)
  <2> DEFINE D == Loaded(v, tr[i])
             rest == S - D - Len(sto)
  <2>1. /\ rest \in Nat /\ Len(ch1) = rest
        /\ sto \in Seq(Batches) /\ ch1 \in Seq(Messages[1])
        /\ IF ss.continuous THEN sto = <<>> ELSE v.at = "store" \/ ch1 = <<>>
        /\ \A j \in 1 .. Len(sto) : HoldsBatch(ss, sto[j], D + j - 1, tr, n, st)
        /\ \A j \in 1 .. rest : HoldsBatch(ss, ch1[j], D + Len(sto) + j - 1, tr, n, st)
    BY <1>1, <1>2, <1>7 DEF UnderWay
  <2>2. D \in Nat /\ Len(sto) \in Nat
    <3>1. i \in Nat
      BY <1>1, HistoryTypes DEF EvaluatorOn
    <3>2. tr[i].nb \in Nat
      BY <3>1, HistoryTypes
    <3>3. QED
      BY <2>1, <3>2 DEF Loaded
  <2> HIDE DEF D
  <2>3. /\ Append(ch1, m) \in Seq(Messages[1]) /\ Len(Append(ch1, m)) = rest + 1
        /\ \A j \in 1 .. rest : Append(ch1, m)[j] = ch1[j]
        /\ Append(ch1, m)[rest + 1] = m
    <3>1. m \in Messages[1]
      BY DEF Messages, Parties
    <3>2. QED
      BY <2>1, <3>1, AppendOK
  <2>4. HoldsBatch(ss, m, S, tr, n, st)
    <3>1. m.type = "MORE"
      BY DEF Batches
    <3>2. QED
      BY <1>1, <1>2, <1>3, <3>1 DEF HoldsBatch, Unsent
  <2>5. v.at = "store" \/ ss.continuous
    BY <1>1 DEF ModeOn
  <2>6. (S + 1) - D - Len(sto) = rest + 1 /\ D + Len(sto) + (rest + 1) - 1 = S
    BY <2>1, <2>2
  <2>7. ASSUME NEW j \in 1 .. rest + 1
        PROVE  HoldsBatch(ss, Append(ch1, m)[j], D + Len(sto) + j - 1, tr, n, st)
    <3>1. CASE j = rest + 1
      BY <2>3, <2>4, <2>6, <3>1
    <3>2. CASE j # rest + 1
      <4>1. j \in 1 .. rest
        BY <2>1, <3>2
      <4>2. QED
        BY <2>1, <2>3, <4>1
    <3>3. QED
      BY <3>1, <3>2
  <2>8. rest + 1 \in Nat
    BY <2>1
  <2> HIDE DEF rest
  <2>9. QED
    BY <2>1, <2>3, <2>5, <2>6, <2>7, <2>8 DEF UnderWay, D
<1>9. Answers(ss, g2, ch0, tr, n, i)
  BY <1>1 DEF Answers, Over0
<1>10. RevealsOn(ss, g2, tr, n, i) /\ ModeOn(ss, g2, v) /\ FinishOn(ss, g2, tr[i])
  BY <1>1 DEF RevealsOn, ModeOn, FinishOn, Over0
<1>11. QED
  BY <1>1, <1>2, <1>5, <1>6, <1>7, <1>8, <1>9, <1>10 DEF Linked

(* The evaluator decides the bit that the garbler is waiting for.          *)
LEMMA BitDecided ==
  ASSUME NEW ss, NEW g, NEW v, NEW gb0, NEW mb0, NEW gb1, NEW mb1, NEW ky, NEW sto,
         NEW ch0, NEW ch1, NEW o0, NEW o1, NEW tr, NEW n, NEW st, NEW i, History(tr, n, st),
         Linked(ss, g, v, gb0, mb0, gb1, mb1, ky, sto, ch0, ch1, o0, o1, tr, n, st, i),
         ~g.tainted, i \in 1 .. n - 1,
         NEW tr2, PathOK(ss, tr2, n, st), \A k \in 1 .. n - 1 : tr2[k] = tr[k],
         tr2[n].PC = tr[n].PC, tr2[n].cx = tr[n].cx, tr2[n].cnt = tr[n].cnt,
         tr2[n].nb = tr[n].nb, tr2[n].end = tr[n].end
  PROVE  Linked(ss, g, v, gb0, mb0, gb1, mb1, ky, sto, ch0, ch1, o0, o1, tr2, n, st, i)
<1>1. /\ GarblerOn(ss, g, tr, n, st) /\ Unsent(ss, g, gb0, mb0, tr, n, st)
      /\ EvaluatorOn(ss, v, Sent(g, tr[n]), tr, n, i, st)
      /\ Unused(ss, v, gb1, mb1, tr, n, i, st)
      /\ UnderWay(ss, v, Sent(g, tr[n]), Trailer(ss, g, v, tr[i]), sto, ch1, tr, n, i, st)
      /\ Answers(ss, g, ch0, tr, n, i) /\ TransfersOn(ss, v, o0, o1, ky, tr, n, i)
      /\ RevealsOn(ss, g, tr, n, i) /\ ModeOn(ss, g, v) /\ FinishOn(ss, g, tr[i])
  BY DEF Linked
<1>2. n \in Nat /\ n - 1 \in 1 .. n - 1 /\ i # n
  BY HistoryTypes
<1>3. tr2[n - 1] = tr[n - 1] /\ tr2[i] = tr[i] /\ Sent(g, tr2[n]) = Sent(g, tr[n])
  BY <1>2 DEF Sent
<1>4. GarblerOn(ss, g, tr2, n, st)
  BY <1>1, <1>3 DEF GarblerOn
<1>5. \A op, s, a, b : Holds(ss, op, s, a, b, tr, n) => Holds(ss, op, s, a, b, tr2, n)
  BY HoldsAgree
<1>6. \A m, b : HoldsBatch(ss, m, b, tr, n, st) => HoldsBatch(ss, m, b, tr2, n, st)
  BY <1>5 DEF HoldsBatch
<1>7. Unsent(ss, g, gb0, mb0, tr2, n, st)
  BY <1>1, <1>3, <1>5 DEF Unsent
<1>8. EvaluatorOn(ss, v, Sent(g, tr[n]), tr2, n, i, st)
  BY <1>1, <1>3 DEF EvaluatorOn
<1>9. Unused(ss, v, gb1, mb1, tr2, n, i, st)
  BY <1>1, <1>3, <1>5 DEF Unused
<1>10. UnderWay(ss, v, Sent(g, tr[n]), Trailer(ss, g, v, tr[i]), sto, ch1, tr2, n, i, st)
  BY <1>1, <1>3, <1>6 DEF UnderWay
<1>11. Answers(ss, g, ch0, tr2, n, i)
  BY <1>1, <1>2, <1>3 DEF Answers
<1>12. TransfersOn(ss, v, o0, o1, ky, tr2, n, i)
  BY <1>1, <1>3, <1>5 DEF TransfersOn
<1>13. RevealsOn(ss, g, tr2, n, i)
  <2>1. \A k \in i .. n : k < n => k \in i .. n - 1
    BY <1>2
  <2>2. \A k \in i .. n - 1 : tr2[k] = tr[k] /\ k \in i .. n /\ k < n
    BY <1>2
  <2>3. QED
    BY <1>1, <2>1, <2>2 DEF RevealsOn
<1>14. QED
  BY <1>1, <1>3, <1>4, <1>7, <1>8, <1>9, <1>10, <1>11, <1>12, <1>13 DEF Linked

(* In continuous mode the evaluator reveals a bit and sends it.            *)
LEMMA EvaluatorReveals ==
  ASSUME NEW ss, NEW g, NEW v, NEW gb0, NEW mb0, NEW gb1, NEW mb1, NEW ky, NEW sto,
         NEW ch0, NEW ch1, NEW o0, NEW o1, NEW tr, NEW n, NEW st, NEW i, History(tr, n, st),
         g.tainted \in BOOLEAN, ss.continuous,
         Linked(ss, g, v, gb0, mb0, gb1, mb1, ky, sto, ch0, ch1, o0, o1, tr, n, st, i),
         v.at = "exec", IsAt(ss, tr[i], "reveal"), NEW bit \in BOOLEAN,
         NEW v2, v2.tape = 0, v2.run = 1, v2.PC = v.PC + 1, v2.reg = bit, v2.at = "receive"
  PROVE  InLink(ss, g, v2, gb0, mb0, gb1, Tail(mb1), ky, sto,
                Append(ch0, [type |-> "value", bit |-> bit]), ch1, <<>>, <<>>)
<1>1. /\ PathOK(ss, tr, n, st) /\ GarblerOn(ss, g, tr, n, st) /\ Unsent(ss, g, gb0, mb0, tr, n, st)
      /\ EvaluatorOn(ss, v, Sent(g, tr[n]), tr, n, i, st)
      /\ Answers(ss, g, ch0, tr, n, i) /\ TransfersOn(ss, v, o0, o1, ky, tr, n, i)
      /\ RevealsOn(ss, g, tr, n, i) /\ FinishOn(ss, g, tr[i])
  BY DEF Linked
<1>2. n \in Nat \ {0} /\ i \in 1 .. n
  BY <1>1, HistoryTypes DEF EvaluatorOn
<1>3. tr[i].nb < tr[n].nb
  <2>1. i \in Nat
    BY <1>2
  <2>2. tr[i].nb \in Nat /\ tr[n].nb \in Nat
    BY <1>2, <2>1, HistoryTypes
  <2>3. InBatch(v)
    BY DEF InBatch
  <2>4. QED
    BY <1>1, <2>2, <2>3 DEF Sent, GarblerOn, EvaluatorOn
<1>4. i \in 1 .. n - 1 /\ Succ(ss, tr[i], tr[i + 1])
  BY <1>1, <1>2, <1>3, PathAhead
<1>5. i = n - 1 /\ ~g.tainted
  <2>1. i \in i .. n - 1
    BY <1>2, <1>4
  <2>2. QED
    BY <1>1, <2>1 DEF RevealsOn
<1>6. n > 1 /\ i + 1 = n
  BY <1>2, <1>5
<1>7. PICK tr2 : /\ History(tr2, n, st) /\ PathOK(ss, tr2, n, st)
                 /\ \A k \in 1 .. n - 1 : tr2[k] = tr[k]
                 /\ tr2[n].reg = bit /\ tr2[n].PC = tr[n].PC /\ tr2[n].cx = tr[n].cx
                 /\ tr2[n].cnt = tr[n].cnt /\ tr2[n].nb = tr[n].nb /\ tr2[n].end = tr[n].end
  <2>1. IsAt(ss, tr[n - 1], "reveal")
    BY <1>5
  <2>2. QED
    BY <1>1, <1>6, <2>1, PathBit
<1>8. Linked(ss, g, v, gb0, mb0, gb1, mb1, ky, sto, ch0, ch1, o0, o1, tr2, n, st, i)
  BY <1>4, <1>5, <1>7, BitDecided
<1>9. tr2[i] = tr[i] /\ tr2[i + 1] = tr2[n] /\ IsAt(ss, tr2[i], "reveal")
  BY <1>4, <1>6, <1>7
<1>10. /\ Ends(ss, tr2[i]) /\ ~PastEnd(ss, tr2[i])
       /\ ~IsAt(ss, tr2[i], "and") /\ ~IsAt(ss, tr2[i], "inputb")
  <2>1. IsAt(ss, tr2[i], "reveal")
    BY <1>9
  <2>2. ~IsAt(ss, tr2[i], "and") /\ ~IsAt(ss, tr2[i], "inputb")
    BY <2>1 DEF IsAt
  <2>3. ~PastEnd(ss, tr2[i])
    <3>1. tr2[i].PC \in Nat
      BY <1>2, <1>7, HistoryTypes
    <3>2. QED
      BY <2>1, <3>1 DEF IsAt, PastEnd
  <2>4. QED
    BY <2>1, <2>2, <2>3 DEF Ends
<1>11. Follows(ss, v2, tr2[i], tr2[i + 1])
  <2>1. Succ(ss, tr2[i], tr2[i + 1])
    BY <1>4, <1>7 DEF PathOK
  <2>2. ~IsAt(ss, tr2[i], "branch")
    BY <1>9 DEF IsAt
  <2>3. tr2[i + 1].PC = tr2[i].PC + 1
    BY <1>10, <2>1, <2>2 DEF Succ
  <2>4. v.PC = tr[i].PC
    BY <1>1 DEF EvaluatorOn
  <2>5. QED
    BY <1>7, <1>9, <1>10, <2>3, <2>4 DEF Follows
<1>12. Len(o1) = 0
  <2>1. o1 = <<>>
    BY <1>1 DEF TransfersOn
  <2>2. QED
    BY <2>1
<1>13. InBatch(v)
  BY DEF InBatch
<1>14. /\ i + 1 \in 1 .. n /\ Succ(ss, tr2[i], tr2[i + 1])
       /\ EvaluatorOn(ss, v2, Sent(g, tr2[n]), tr2, n, i + 1, st)
       /\ Unused(ss, v2, gb1, Tail(mb1), tr2, n, i + 1, st)
       /\ UnderWay(ss, v2, Sent(g, tr2[n]), Trailer(ss, g, v, tr2[i]), sto, ch1, tr2, n, i + 1, st)
       /\ TransfersOn(ss, v2, <<>>, <<>>, ky, tr2, n, i + 1)
       /\ RevealsOn(ss, g, tr2, n, i + 1)
       /\ ModeOn(ss, g, v2)
  <2>1. /\ Shrinks(ss, tr2[i], "and", gb1, gb1)
        /\ Shrinks(ss, tr2[i], "reveal", mb1, Tail(mb1))
        /\ KeysCame(ss, tr2[i], o1)
    BY <1>9, <1>10, <1>12 DEF Shrinks, KeysCame
  <2>2. History(tr2, n, st)
    BY <1>7
  <2>3. QED
    BY <1>8, <1>11, <1>13, <2>1, <2>2, EvaluatorRuns, ZenonT(60)
<1>15. ~tr2[i].end /\ ~tr2[i + 1].end
  BY <1>10, <1>14 DEF Succ
<1>16. Trailer(ss, g, v2, tr2[i + 1]) = Trailer(ss, g, v, tr2[i])
  BY <1>15 DEF Trailer
<1>17. Answers(ss, g, Append(ch0, [type |-> "value", bit |-> bit]), tr2, n, i + 1)
  <2>1. i # n /\ ~tr[i].end
    BY <1>2, <1>5, <1>9, <1>15
  <2>2. ch0 = <<>>
    BY <1>1, <2>1 DEF Answers
  <2>3. Append(<<>>, [type |-> "value", bit |-> bit]) = <<[type |-> "value", bit |-> bit]>>
    OBVIOUS
  <2>4. QED
    BY <1>5, <1>6, <1>7, <2>2, <2>3 DEF Answers
<1>18. FinishOn(ss, g, tr2[i + 1])
  BY <1>1, <1>9, <1>15 DEF FinishOn
<1>19. /\ PathOK(ss, tr2, n, st) /\ GarblerOn(ss, g, tr2, n, st) /\ Unsent(ss, g, gb0, mb0, tr2, n, st)
  BY <1>8 DEF Linked
<1>20. Linked(ss, g, v2, gb0, mb0, gb1, Tail(mb1), ky, sto,
              Append(ch0, [type |-> "value", bit |-> bit]), ch1, <<>>, <<>>, tr2, n, st, i + 1)
  BY <1>14, <1>16, <1>17, <1>18, <1>19 DEF Linked
<1>21. QED
  BY <1>7, <1>20 DEF InLink, History

(* The garbler receives it.                                                *)
LEMMA GarblerLearns ==
  ASSUME NEW ss, NEW g, NEW v, NEW gb0, NEW mb0, NEW gb1, NEW mb1, NEW ky, NEW sto,
         NEW ch0, NEW ch1, NEW o0, NEW o1, NEW tr, NEW n, NEW st, NEW i, History(tr, n, st),
         Linked(ss, g, v, gb0, mb0, gb1, mb1, ky, sto, ch0, ch1, o0, o1, tr, n, st, i),
         g.at = "exec", ~g.tainted, ch0 # <<>>
  PROVE  /\ Head(ch0).type = "value"
         /\ \A g2 : /\ g2.tape = 0 /\ g2.run = 1 /\ g2.PC = g.PC + 1 /\ g2.tainted
                    /\ g2.reg = Head(ch0).bit /\ g2.at = "exec"
                    /\ g2.complexity = g.complexity /\ g2.last = g.last
                    => Linked(ss, g2, v, gb0, mb0, gb1, mb1, ky, sto, Tail(ch0), ch1, o0, o1, tr, n, st, i)
<1>1. /\ PathOK(ss, tr, n, st) /\ GarblerOn(ss, g, tr, n, st) /\ Unsent(ss, g, gb0, mb0, tr, n, st)
      /\ EvaluatorOn(ss, v, Sent(g, tr[n]), tr, n, i, st)
      /\ Unused(ss, v, gb1, mb1, tr, n, i, st)
      /\ UnderWay(ss, v, Sent(g, tr[n]), Trailer(ss, g, v, tr[i]), sto, ch1, tr, n, i, st)
      /\ Answers(ss, g, ch0, tr, n, i) /\ TransfersOn(ss, v, o0, o1, ky, tr, n, i)
      /\ RevealsOn(ss, g, tr, n, i) /\ ModeOn(ss, g, v) /\ FinishOn(ss, g, tr[i])
  BY DEF Linked
<1>2. n \in Nat \ {0} /\ i \in 1 .. n
  BY <1>1, HistoryTypes DEF EvaluatorOn
<1>3. i = n
  <2>1. i # n => ~tr[i].end
    BY <1>1, <1>2, EvaluatorNotEnded
  <2>2. QED
    BY <1>1, <2>1 DEF Answers
<1>4. ch0 = <<[type |-> "value", bit |-> tr[n].reg]>>
  BY <1>1, <1>3 DEF Answers
<1>5. Head(ch0) = [type |-> "value", bit |-> tr[n].reg] /\ Tail(ch0) = <<>>
  BY <1>4
<1>6. Head(ch0).type = "value" /\ Head(ch0).bit = tr[n].reg
  BY <1>5
<1>7. n > 1 /\ g.PC = tr[n - 1].PC /\ IsAt(ss, tr[n - 1], "reveal") /\ ~tr[n].end /\ ss.continuous
      /\ g.complexity = tr[n].cx /\ g.last # "done"
  BY <1>1 DEF GarblerOn
<1>8. tr[n].PC = g.PC + 1
  <2>1. n - 1 \in 1 .. n - 1 /\ n - 1 + 1 = n /\ n - 1 \in Nat
    BY <1>2, <1>7
  <2>2. Succ(ss, tr[n - 1], tr[n])
    BY <1>1, <2>1 DEF PathOK
  <2>3. tr[n - 1].PC \in Nat
    BY <2>1, HistoryTypes
  <2>4. ~PastEnd(ss, tr[n - 1]) /\ ~IsAt(ss, tr[n - 1], "branch")
    BY <1>7, <2>3 DEF IsAt, PastEnd
  <2>5. QED
    BY <1>7, <2>2, <2>4 DEF Succ
<1>9. ASSUME NEW g2, g2.tape = 0, g2.run = 1, g2.PC = g.PC + 1, g2.tainted,
             g2.reg = Head(ch0).bit, g2.at = "exec", g2.complexity = g.complexity, g2.last = g.last
      PROVE  Linked(ss, g2, v, gb0, mb0, gb1, mb1, ky, sto, Tail(ch0), ch1, o0, o1, tr, n, st, i)
  <2>1. GarblerOn(ss, g2, tr, n, st)
    BY <1>7, <1>8, <1>9 DEF GarblerOn
  <2>2. Sent(g2, tr[n]) = Sent(g, tr[n])
    BY <1>9 DEF Sent
  <2>3. Unsent(ss, g2, gb0, mb0, tr, n, st)
    BY <1>1, <2>2 DEF Unsent
  <2>4. ~Over0(g) /\ ~Over0(g2)
    BY <1>9 DEF Over0
  <2>5. Trailer(ss, g2, v, tr[i]) = Trailer(ss, g, v, tr[i])
    BY <1>9, <2>4 DEF Trailer
  <2>6. Answers(ss, g2, Tail(ch0), tr, n, i)
    BY <1>3, <1>5, <1>7, <1>9 DEF Answers
  <2>7. RevealsOn(ss, g2, tr, n, i)
    <3>1. \A k \in i .. n : k = n
      BY <1>2, <1>3
    <3>2. \A k \in i .. n - 1 : FALSE
      BY <1>2, <1>3
    <3>3. QED
      BY <1>6, <1>9, <3>1, <3>2 DEF RevealsOn
  <2>8. ModeOn(ss, g2, v) /\ FinishOn(ss, g2, tr[i])
    BY <1>1, <1>3, <1>7, <2>4 DEF ModeOn, FinishOn
  <2>9. QED
    BY <1>1, <2>1, <2>2, <2>3, <2>5, <2>6, <2>7, <2>8 DEF Linked
<1>10. QED
  BY <1>6, <1>9

(* The garbler answers a transfer with the keys that were asked for.       *)
LEMMA GarblerAnswers ==
  ASSUME NEW ss, NEW g, NEW v, NEW gb0, NEW mb0, NEW gb1, NEW mb1, NEW ky, NEW sto,
         NEW ch0, NEW ch1, NEW o0, NEW o1, NEW tr, NEW n, NEW st, NEW i, History(tr, n, st),
         Linked(ss, g, v, gb0, mb0, gb1, mb1, ky, sto, ch0, ch1, o0, o1, tr, n, st, i),
         o0 # <<>>
  PROVE  /\ Head(o0) = Head(ky) /\ Head(ky) = Pos(tr[i]) /\ v.at = "keys"
         /\ TransfersOn(ss, v, Tail(o0), Append(o1, Head(ky)), Tail(ky), tr, n, i)
<1>1. /\ PathOK(ss, tr, n, st) /\ GarblerOn(ss, g, tr, n, st)
      /\ EvaluatorOn(ss, v, Sent(g, tr[n]), tr, n, i, st)
      /\ TransfersOn(ss, v, o0, o1, ky, tr, n, i)
  BY DEF Linked
<1>2. v.at = "keys" /\ o0 = <<Pos(tr[i])>> /\ o1 = <<>> /\ IsAt(ss, tr[i], "inputb")
  BY <1>1 DEF TransfersOn, EvaluatorOn
<1>3. n \in Nat \ {0} /\ i \in 1 .. n /\ i \in Nat
  BY <1>1, HistoryTypes DEF EvaluatorOn
<1>4. tr[i].nb < tr[n].nb
  <2>1. tr[i].nb \in Nat /\ tr[n].nb \in Nat
    BY <1>3, HistoryTypes
  <2>2. InBatch(v)
    BY <1>2 DEF InBatch
  <2>3. QED
    BY <1>1, <2>1, <2>2 DEF Sent, GarblerOn, EvaluatorOn
<1>5. i \in 1 .. n - 1 /\ "inputb" \in Kinds
  BY <1>1, <1>3, <1>4, PathAhead DEF Kinds
<1>6. PICK a \in Nat, b \in Nat : a = tr[i].cnt["inputb"] /\ b = tr[n].cnt["inputb"]
  BY <1>3, <1>5, HistoryTypes
<1>7. a < b
  BY <1>1, <1>2, <1>5, <1>6, CountsBefore
<1>8. Len(o1) = 0 /\ a + 0 = a
  BY <1>2
<1>9. Holds(ss, "inputb", ky, a, b, tr, n)
  BY <1>1, <1>6, <1>8 DEF TransfersOn
<1>10. ky # <<>> /\ Holds(ss, "inputb", Tail(ky), a + 1, b, tr, n)
  BY <1>5, <1>7, <1>9, HoldsTail
<1>11. Head(ky) = Pos(tr[i])
  <2>1. tr[i].cnt["inputb"] = a
    BY <1>6
  <2>2. QED
    BY <1>2, <1>5, <1>7, <1>9, <2>1, HoldsHead
<1>12. Tail(o0) = <<>> /\ Head(o0) = Pos(tr[i]) /\ Append(o1, Head(ky)) = <<Pos(tr[i])>>
       /\ Len(<<Pos(tr[i])>>) = 1
  BY <1>2, <1>11
<1>13. TransfersOn(ss, v, Tail(o0), Append(o1, Head(ky)), Tail(ky), tr, n, i)
  BY <1>2, <1>6, <1>10, <1>12 DEF TransfersOn
<1>14. QED
  BY <1>2, <1>11, <1>12, <1>13

(* The garbler goes on after its last message to the evaluator or the one  *)
(* from it.                                                                *)
LEMMA GarblerGoesOn ==
  ASSUME NEW ss, NEW g, NEW v, NEW gb0, NEW mb0, NEW gb1, NEW mb1, NEW ky, NEW sto,
         NEW ch0, NEW ch1, NEW o0, NEW o1, NEW tr, NEW n, NEW st, NEW i,
         Linked(ss, g, v, gb0, mb0, gb1, mb1, ky, sto, ch0, ch1, o0, o1, tr, n, st, i),
         NEW g2, GarblerOn(ss, g2, tr, n, st), Sent(g2, tr[n]) = Sent(g, tr[n]),
         g2.tainted = g.tainted, g2.reg = g.reg,
         NEW ch2, Answers(ss, g2, ch2, tr, n, i),
         NEW ch3, UnderWay(ss, v, Sent(g, tr[n]), Trailer(ss, g2, v, tr[i]), sto, ch3, tr, n, i, st),
         ModeOn(ss, g2, v), FinishOn(ss, g2, tr[i])
  PROVE  Linked(ss, g2, v, gb0, mb0, gb1, mb1, ky, sto, ch2, ch3, o0, o1, tr, n, st, i)
<1>1. /\ PathOK(ss, tr, n, st) /\ Unsent(ss, g, gb0, mb0, tr, n, st)
      /\ EvaluatorOn(ss, v, Sent(g, tr[n]), tr, n, i, st)
      /\ Unused(ss, v, gb1, mb1, tr, n, i, st) /\ TransfersOn(ss, v, o0, o1, ky, tr, n, i)
      /\ RevealsOn(ss, g, tr, n, i)
  BY DEF Linked
<1>2. Unsent(ss, g2, gb0, mb0, tr, n, st)
  BY <1>1 DEF Unsent
<1>3. RevealsOn(ss, g2, tr, n, i)
  BY <1>1 DEF RevealsOn
<1>4. QED
  BY <1>1, <1>2, <1>3 DEF Linked

LEMMA ZeroLen == ASSUME NEW S, NEW s \in Seq(S), Len(s) = 0 PROVE s = <<>>
OBVIOUS

LEMMA TrailerSent ==
  ASSUME NEW ss, NEW v, NEW S \in Nat, NEW sto, NEW ch, NEW tr, NEW n, NEW st, NEW i,
         UnderWay(ss, v, S, "none", sto, ch, tr, n, i, st), ss.continuous \/ v.at = "store",
         NEW m \in Messages[1], m.type # "none"
  PROVE  UnderWay(ss, v, S, m.type, sto, Append(ch, m), tr, n, i, st)
<1> DEFINE D == Loaded(v, tr[i])
           rest == S - D - Len(sto)
<1>1. /\ rest \in Nat /\ Len(ch) = rest
      /\ sto \in Seq(Batches) /\ ch \in Seq(Messages[1])
      /\ IF ss.continuous THEN sto = <<>> ELSE v.at = "store" \/ ch = <<>>
      /\ \A j \in 1 .. Len(sto) : HoldsBatch(ss, sto[j], D + j - 1, tr, n, st)
      /\ \A j \in 1 .. rest : HoldsBatch(ss, ch[j], D + Len(sto) + j - 1, tr, n, st)
  BY DEF UnderWay
<1>2. /\ Append(ch, m) \in Seq(Messages[1]) /\ Len(Append(ch, m)) = rest + 1
      /\ \A j \in 1 .. rest : Append(ch, m)[j] = ch[j]
      /\ Append(ch, m)[rest + 1] = m
  BY <1>1, AppendOK
<1>3. QED
  BY <1>1, <1>2 DEF UnderWay

LEMMA GarblerFinishes ==
  ASSUME NEW ss, NEW g, NEW v, NEW gb0, NEW mb0, NEW gb1, NEW mb1, NEW ky, NEW sto,
         NEW ch0, NEW ch1, NEW o0, NEW o1, NEW tr, NEW n, NEW st, NEW i, History(tr, n, st),
         Linked(ss, g, v, gb0, mb0, gb1, mb1, ky, sto, ch0, ch1, o0, o1, tr, n, st, i),
         OneTape(ss), ss.continuous \in BOOLEAN, g.at = "finish",
         NEW ch2, NEW ch3,
         GarblerLast(ss, ch0, ch1, ch2, ch3)
  PROVE  /\ ss.variant = "init" => Head(ch0).type = "pack"
         /\ \A g2 : /\ g2.tape = g.tape /\ g2.run = g.run /\ g2.PC = g.PC
                    /\ g2.tainted = g.tainted /\ g2.reg = g.reg /\ g2.at = "schedule"
                    /\ g2.last = g.last
                    => Linked(ss, g2, v, gb0, mb0, gb1, mb1, ky, sto, ch2, ch3, o0, o1, tr, n, st, i)
<1> USE DEF GarblerLast
<1>1. /\ PathOK(ss, tr, n, st) /\ GarblerOn(ss, g, tr, n, st)
      /\ EvaluatorOn(ss, v, Sent(g, tr[n]), tr, n, i, st)
      /\ UnderWay(ss, v, Sent(g, tr[n]), Trailer(ss, g, v, tr[i]), sto, ch1, tr, n, i, st)
      /\ Answers(ss, g, ch0, tr, n, i)
      /\ ModeOn(ss, g, v) /\ FinishOn(ss, g, tr[i])
  BY DEF Linked
<1>2. g.run = 1 /\ tr[n].end /\ g.tainted /\ ~Over0(g)
  BY <1>1 DEF GarblerOn, Over0
<1>3. ss.variant = "init" => /\ ss.continuous /\ tr[i].end /\ ch0 = <<[type |-> "pack"]>>
                             /\ ch2 = Tail(ch0) /\ ch3 = ch1
  BY <1>1, <1>2 DEF Answers
<1>4. ss.variant = "init" => Head(ch0).type = "pack" /\ ch2 = <<>>
  <2>1. Head(<<[type |-> "pack"]>>).type = "pack" /\ Tail(<<[type |-> "pack"]>>) = <<>>
    OBVIOUS
  <2>2. QED
    BY <1>3, <2>1
<1>5. ASSUME NEW g2, g2.tape = g.tape, g2.run = g.run, g2.PC = g.PC, g2.tainted = g.tainted,
             g2.reg = g.reg, g2.at = "schedule", g2.last = g.last
      PROVE  Linked(ss, g2, v, gb0, mb0, gb1, mb1, ky, sto, ch2, ch3, o0, o1, tr, n, st, i)
  <2>1. GarblerOn(ss, g2, tr, n, st)
    BY <1>1, <1>2, <1>5 DEF GarblerOn
  <2>2. Sent(g2, tr[n]) = Sent(g, tr[n]) /\ Over0(g2)
    BY <1>2, <1>5 DEF Sent, Over0
  <2>3. Trailer(ss, g, v, tr[i]) = "none"
    BY <1>2 DEF Trailer
  <2>4. ModeOn(ss, g2, v)
    BY <1>1, <1>5 DEF ModeOn
  <2>5. CASE ss.variant = "init"
    <3>1. Trailer(ss, g2, v, tr[i]) = "none" /\ FinishOn(ss, g2, tr[i])
      BY <1>3, <2>2, <2>5 DEF Trailer, FinishOn
    <3>2. Answers(ss, g2, ch2, tr, n, i)
      BY <1>2, <1>4, <1>5, <2>2, <2>5 DEF Answers
    <3>3. UnderWay(ss, v, Sent(g, tr[n]), Trailer(ss, g2, v, tr[i]), sto, ch3, tr, n, i, st)
      BY <1>1, <1>3, <2>3, <2>5, <3>1
    <3>4. QED
      BY <1>5, <2>1, <2>2, <2>4, <3>1, <3>2, <3>3, GarblerGoesOn
  <2>6. CASE ss.variant # "init"
    <3>1. ch2 = ch0
      BY <2>6
    <3>2. Answers(ss, g2, ch2, tr, n, i)
      BY <1>1, <1>2, <1>5, <2>6, <3>1 DEF Answers
    <3>3. FinishOn(ss, g2, tr[i])
      BY <2>2, <2>6 DEF FinishOn
    <3>4. UnderWay(ss, v, Sent(g, tr[n]), Trailer(ss, g2, v, tr[i]), sto, ch3, tr, n, i, st)
      <4>1. CASE ss.variant = "reconstruct"
        <5>1. ss.continuous /\ ~tr[i].end
          BY <1>1, <1>2, <4>1 DEF OneTape, FinishOn
        <5>2. Trailer(ss, g2, v, tr[i]) = "pack" /\ ch3 = Append(ch1, [type |-> "pack"])
          BY <2>2, <2>6, <4>1, <5>1 DEF Trailer
        <5>3. PICK m \in Messages[1] : m = [type |-> "pack"] /\ m.type = "pack" /\ m.type # "none"
          BY DEF Messages, Parties
        <5>4. PICK S \in Nat : S = Sent(g, tr[n])
          BY HistoryTypes DEF Sent
        <5>5. UnderWay(ss, v, S, "none", sto, ch1, tr, n, i, st)
          BY <1>1, <2>3, <5>4
        <5>6. UnderWay(ss, v, S, m.type, sto, Append(ch1, m), tr, n, i, st)
          BY <5>1, <5>3, <5>5, TrailerSent
        <5>7. QED
          BY <5>2, <5>3, <5>4, <5>6
      <4>2. CASE ss.variant # "reconstruct"
        <5>1. Trailer(ss, g2, v, tr[i]) = "none" /\ ch3 = ch1
          BY <1>5, <2>6, <4>2 DEF Trailer
        <5>2. QED
          BY <1>1, <2>3, <5>1
      <4>3. QED
        BY <4>1, <4>2
    <3>5. QED
      BY <1>5, <2>1, <2>2, <2>4, <3>2, <3>3, <3>4, GarblerGoesOn
  <2>7. QED
    BY <2>5, <2>6
<1>6. QED
  BY <1>4, <1>5

(* The end of one-shot mode.                                               *)
LEMMA GarblerTellsEnd ==
  ASSUME NEW ss, NEW g, NEW v, NEW gb0, NEW mb0, NEW gb1, NEW mb1, NEW ky, NEW sto,
         NEW ch0, NEW ch1, NEW o0, NEW o1, NEW tr, NEW n, NEW st, NEW i, History(tr, n, st),
         Linked(ss, g, v, gb0, mb0, gb1, mb1, ky, sto, ch0, ch1, o0, o1, tr, n, st, i),
         g.at = "post_run",
         NEW g2, g2.tape = g.tape, g2.run = g.run, g2.PC = g.PC, g2.tainted = g.tainted,
         g2.reg = g.reg, g2.at \in {"post_inputs", "ended"}, g2.last = g.last
  PROVE  Linked(ss, g2, v, gb0, mb0, gb1, mb1, ky, sto, ch0, Append(ch1, [type |-> "DONE"]),
                o0, o1, tr, n, st, i)
<1>1. /\ PathOK(ss, tr, n, st) /\ GarblerOn(ss, g, tr, n, st)
      /\ UnderWay(ss, v, Sent(g, tr[n]), Trailer(ss, g, v, tr[i]), sto, ch1, tr, n, i, st)
      /\ Answers(ss, g, ch0, tr, n, i)
      /\ ModeOn(ss, g, v) /\ FinishOn(ss, g, tr[i])
  BY DEF Linked
<1>2. ~ss.continuous /\ v.at = "store" /\ g.run = 1 /\ tr[n].end /\ g.tainted
  BY <1>1 DEF GarblerOn, ModeOn
<1>3. GarblerOn(ss, g2, tr, n, st)
  BY <1>1, <1>2 DEF GarblerOn
<1>4. Sent(g2, tr[n]) = Sent(g, tr[n])
  BY DEF Sent
<1>5. Trailer(ss, g, v, tr[i]) = "none" /\ Trailer(ss, g2, v, tr[i]) = "DONE"
  BY <1>2 DEF Trailer
<1>6. Answers(ss, g2, ch0, tr, n, i) /\ ModeOn(ss, g2, v) /\ FinishOn(ss, g2, tr[i])
  BY <1>1, <1>2 DEF Answers, ModeOn, FinishOn
<1>7. UnderWay(ss, v, Sent(g, tr[n]), Trailer(ss, g2, v, tr[i]), sto,
               Append(ch1, [type |-> "DONE"]), tr, n, i, st)
  <2>0. [type |-> "DONE"] \in [type : {"pack", "DONE"}]
    OBVIOUS
  <2>5. [type |-> "DONE"] \in Messages[1]
    BY <2>0 DEF Messages, Parties
  <2>6. [type |-> "DONE"].type = "DONE" /\ [type |-> "DONE"].type # "none"
    OBVIOUS
  <2>1. PICK m \in Messages[1] : m = [type |-> "DONE"] /\ m.type = "DONE" /\ m.type # "none"
    BY <2>5, <2>6, Zenon
  <2>2. PICK S \in Nat : S = Sent(g, tr[n])
    BY HistoryTypes DEF Sent
  <2>3. UnderWay(ss, v, S, m.type, sto, Append(ch1, m), tr, n, i, st)
    BY <1>1, <1>2, <1>5, <2>1, <2>2, TrailerSent
  <2>4. QED
    BY <1>5, <2>1, <2>2, <2>3
<1>8. QED
  BY <1>3, <1>4, <1>6, <1>7, GarblerGoesOn

(* What the evaluator finds in the connection: a batch or the last message. *)
BatchComes(ss, v, S, sto, ch, tr, n, st, i) ==
    /\ Loaded(v, tr[i]) + Len(sto) < S
    /\ Head(ch) \in Batches
    /\ HoldsBatch(ss, Head(ch), Loaded(v, tr[i]) + Len(sto), tr, n, st)

LastComes(v, S, kind, sto, ch, tr, i) ==
    /\ Loaded(v, tr[i]) + Len(sto) = S
    /\ kind # "none" /\ Head(ch).type = kind /\ Tail(ch) = <<>>

LEMMA NextMessage ==
  ASSUME NEW ss, NEW v, NEW S \in Nat, NEW kind, NEW sto, NEW ch, NEW tr, NEW n, NEW st, NEW i,
         Loaded(v, tr[i]) \in Nat,
         UnderWay(ss, v, S, kind, sto, ch, tr, n, i, st), ch # <<>>
  PROVE  \/ BatchComes(ss, v, S, sto, ch, tr, n, st, i)
         \/ LastComes(v, S, kind, sto, ch, tr, i)
<1> DEFINE D == Loaded(v, tr[i])
           rest == S - D - Len(sto)
<1>1. /\ rest \in Nat /\ Len(sto) \in Nat
      /\ ch \in Seq(Messages[1])
      /\ \A j \in 1 .. rest : HoldsBatch(ss, ch[j], D + Len(sto) + j - 1, tr, n, st)
      /\ IF kind = "none" THEN Len(ch) = rest
         ELSE Len(ch) = rest + 1 /\ ch[rest + 1].type = kind
  <2>1. sto \in Seq(Batches) => Len(sto) \in Nat
    OBVIOUS
  <2>2. QED
    BY <2>1, Zenon DEF UnderWay
<1> HIDE DEF D
<1>2. /\ Head(ch) \in Messages[1] /\ Head(ch) = ch[1] /\ Tail(ch) \in Seq(Messages[1])
      /\ Len(ch) \in Nat \ {0} /\ Len(Tail(ch)) = Len(ch) - 1
  BY <1>1, TailOK
<1>3. CASE rest = 0
  <2>1. kind # "none" /\ Len(ch) = 1 /\ ch[1].type = kind
    BY <1>1, <1>2, <1>3
  <2>2. Len(Tail(ch)) = 0
    BY <1>2, <2>1
  <2>3. Tail(ch) = <<>>
    BY <1>2, <2>2, ZeroLen
  <2>6. D \in Nat
    BY DEF D
  <2>4. D + Len(sto) = S
    BY <1>1, <1>3, <2>6
  <2>5. QED
    BY <1>1, <1>2, <2>1, <2>3, <2>4 DEF D, LastComes
<1>4. CASE rest # 0
  <2>1. 1 \in 1 .. rest /\ D + Len(sto) < S
    BY <1>1, <1>4 DEF D
  <2>2. HoldsBatch(ss, ch[1], D + Len(sto) + 1 - 1, tr, n, st)
    BY <1>1, <2>1
  <2>3. D + Len(sto) + 1 - 1 = D + Len(sto)
    BY <1>1 DEF D
  <2>4. Head(ch) \in Batches
    <3>1. ch[1].type = "MORE"
      BY <2>2 DEF HoldsBatch
    <3>2. Messages[1] = [type : {"pack", "DONE"}] \union Batches
      BY DEF Messages, Parties
    <3>3. ch[1] \in [type : {"pack", "DONE"}] => ch[1].type # "MORE"
      OBVIOUS
    <3>4. QED
      BY <1>2, <3>1, <3>2, <3>3
  <2>5. QED
    BY <1>1, <1>2, <2>1, <2>2, <2>3, <2>4 DEF D, BatchComes
<1>5. QED
  BY <1>3, <1>4

LEMMA EvaluatorGoesOn ==
  ASSUME NEW ss, NEW g, NEW v, NEW gb0, NEW mb0, NEW gb1, NEW mb1, NEW ky, NEW sto,
         NEW ch0, NEW ch1, NEW o0, NEW o1, NEW tr, NEW n, NEW st, NEW i,
         Linked(ss, g, v, gb0, mb0, gb1, mb1, ky, sto, ch0, ch1, o0, o1, tr, n, st, i),
         NEW v2, EvaluatorOn(ss, v2, Sent(g, tr[n]), tr, n, i, st), v.at # "keys", v2.at # "keys",
         NEW gb2, NEW mb2, Unused(ss, v2, gb2, mb2, tr, n, i, st),
         NEW sto2, NEW ch2,
         UnderWay(ss, v2, Sent(g, tr[n]), Trailer(ss, g, v2, tr[i]), sto2, ch2, tr, n, i, st),
         ModeOn(ss, g, v2)
  PROVE  Linked(ss, g, v2, gb0, mb0, gb2, mb2, ky, sto2, ch0, ch2, o0, o1, tr, n, st, i)
<1>1. /\ PathOK(ss, tr, n, st) /\ GarblerOn(ss, g, tr, n, st) /\ Unsent(ss, g, gb0, mb0, tr, n, st)
      /\ Answers(ss, g, ch0, tr, n, i) /\ TransfersOn(ss, v, o0, o1, ky, tr, n, i)
      /\ RevealsOn(ss, g, tr, n, i) /\ FinishOn(ss, g, tr[i])
  BY DEF Linked
<1>2. TransfersOn(ss, v2, o0, o1, ky, tr, n, i)
  BY <1>1 DEF TransfersOn
<1>3. QED
  BY <1>1, <1>2 DEF Linked

(* A batch is taken from the connection.                                   *)
LEMMA BatchTaken ==
  ASSUME NEW ss, NEW v, NEW S \in Nat, NEW kind, NEW sto, NEW ch, NEW tr, NEW n, NEW st, NEW i,
         Loaded(v, tr[i]) \in Nat,
         UnderWay(ss, v, S, kind, sto, ch, tr, n, i, st), ch # <<>>, Loaded(v, tr[i]) + Len(sto) < S,
         NEW v2, NEW sto2 \in Seq(Batches), Loaded(v2, tr[i]) \in Nat,
         Loaded(v2, tr[i]) + Len(sto2) = Loaded(v, tr[i]) + Len(sto) + 1,
         \A j \in 1 .. Len(sto2) : HoldsBatch(ss, sto2[j], Loaded(v2, tr[i]) + j - 1, tr, n, st),
         IF ss.continuous THEN sto2 = <<>> ELSE v2.at = "store"
  PROVE  UnderWay(ss, v2, S, kind, sto2, Tail(ch), tr, n, i, st)
<1>1. PICK D \in Nat, E \in Nat : D = Loaded(v, tr[i]) /\ E = Loaded(v2, tr[i])
  OBVIOUS
<1>2. PICK L \in Nat, M \in Nat : L = Len(sto) /\ M = Len(sto2)
  BY DEF UnderWay
<1>3. PICK r \in Nat : /\ r = S - D - L /\ ch \in Seq(Messages[1])
                       /\ \A j \in 1 .. r : HoldsBatch(ss, ch[j], D + L + j - 1, tr, n, st)
                       /\ IF kind = "none" THEN Len(ch) = r
                          ELSE Len(ch) = r + 1 /\ ch[r + 1].type = kind
  BY <1>1, <1>2 DEF UnderWay
<1>4. E + M = D + L + 1 /\ D + L < S
  BY <1>1, <1>2
<1>5. PICK q \in Nat : r = q + 1 /\ q = S - E - M
  BY <1>3, <1>4
<1>6. /\ Tail(ch) \in Seq(Messages[1]) /\ Len(ch) \in Nat \ {0} /\ Len(Tail(ch)) = Len(ch) - 1
      /\ \A j \in 1 .. Len(ch) - 1 : Tail(ch)[j] = ch[j + 1]
  BY <1>3, TailOK
<1>7. ASSUME NEW j \in 1 .. q PROVE HoldsBatch(ss, Tail(ch)[j], E + M + j - 1, tr, n, st)
  <2>1. j \in 1 .. Len(ch) - 1
    <3>1. Len(ch) = r \/ Len(ch) = r + 1
      BY <1>3
    <3>2. QED
      BY <1>5, <3>1
  <2>2. j + 1 \in 1 .. r /\ D + L + (j + 1) - 1 = E + M + j - 1
    BY <1>4, <1>5
  <2>3. HoldsBatch(ss, ch[j + 1], D + L + (j + 1) - 1, tr, n, st)
    BY <1>3, <2>2
  <2>4. QED
    BY <1>6, <2>1, <2>2, <2>3
<1>8. IF kind = "none" THEN Len(Tail(ch)) = q
      ELSE Len(Tail(ch)) = q + 1 /\ Tail(ch)[q + 1].type = kind
  <2>1. CASE kind = "none"
    <3>1. Len(ch) = r
      BY <1>3, <2>1
    <3>2. Len(Tail(ch)) = q
      BY <1>5, <1>6, <3>1
    <3>3. QED
      BY <2>1, <3>2
  <2>2. CASE kind # "none"
    <3>1. Len(ch) = r + 1 /\ ch[r + 1].type = kind
      BY <1>3, <2>2
    <3>2. Len(Tail(ch)) = q + 1 /\ q + 1 \in 1 .. Len(ch) - 1 /\ (q + 1) + 1 = r + 1
      BY <1>5, <1>6, <3>1
    <3>3. Tail(ch)[q + 1] = ch[r + 1]
      BY <1>6, <3>2
    <3>4. QED
      BY <2>2, <3>1, <3>2, <3>3
  <2>3. QED
    BY <2>1, <2>2
<1>9. \A j \in 1 .. M : HoldsBatch(ss, sto2[j], E + j - 1, tr, n, st)
  BY <1>1, <1>2
<1>10. QED
  BY <1>1, <1>2, <1>5, <1>6, <1>7, <1>8, <1>9 DEF UnderWay

(* One round of the loop of pre_run().                                     *)
LEMMA EvaluatorStores ==
  ASSUME NEW ss, NEW g, NEW v, NEW gb0, NEW mb0, NEW gb1, NEW mb1, NEW ky, NEW sto,
         NEW ch0, NEW ch1, NEW o0, NEW o1, NEW tr, NEW n, NEW st, NEW i, History(tr, n, st),
         Linked(ss, g, v, gb0, mb0, gb1, mb1, ky, sto, ch0, ch1, o0, o1, tr, n, st, i),
         v.at = "store", ch1 # <<>>
  PROVE  \/ /\ Head(ch1).type = "MORE"
            /\ Linked(ss, g, v, gb0, mb0, gb1, mb1, ky, Append(sto, Head(ch1)), ch0, Tail(ch1),
                      o0, o1, tr, n, st, i)
         \/ /\ Head(ch1).type = "DONE"
            /\ \A v2 : /\ v2.tape = v.tape /\ v2.run = v.run /\ v2.PC = v.PC /\ v2.at = "schedule"
                       => Linked(ss, g, v2, gb0, mb0, gb1, mb1, ky, sto, ch0, Tail(ch1),
                                 o0, o1, tr, n, st, i)
<1>1. /\ PathOK(ss, tr, n, st) /\ GarblerOn(ss, g, tr, n, st)
      /\ EvaluatorOn(ss, v, Sent(g, tr[n]), tr, n, i, st)
      /\ Unused(ss, v, gb1, mb1, tr, n, i, st)
      /\ UnderWay(ss, v, Sent(g, tr[n]), Trailer(ss, g, v, tr[i]), sto, ch1, tr, n, i, st)
      /\ ModeOn(ss, g, v)
  BY DEF Linked
<1>2. n \in Nat \ {0} /\ i \in 1 .. n /\ i \in Nat /\ ~ss.continuous /\ v.run = 0
  BY <1>1, HistoryTypes DEF EvaluatorOn
<1>3. tr[i].nb \in Nat /\ tr[n].nb \in Nat /\ Loaded(v, tr[i]) = tr[i].nb
  BY <1>2, HistoryTypes DEF Loaded, InBatch
<1>4. PICK S \in Nat : S = Sent(g, tr[n])
  BY <1>1, <1>3 DEF Sent, GarblerOn
<1>5. PICK kind : kind = Trailer(ss, g, v, tr[i]) /\ kind \in {"none", "DONE"}
  BY <1>2 DEF Trailer
<1>6. UnderWay(ss, v, S, kind, sto, ch1, tr, n, i, st) /\ Loaded(v, tr[i]) \in Nat
  BY <1>1, <1>3, <1>4, <1>5
<1>7. \/ BatchComes(ss, v, S, sto, ch1, tr, n, st, i)
      \/ LastComes(v, S, kind, sto, ch1, tr, i)
  BY <1>4, <1>6, NextMessage
<1>11. Len(sto) \in Nat
  BY <1>1 DEF UnderWay
<1>8. CASE BatchComes(ss, v, S, sto, ch1, tr, n, st, i)
  <2>0. /\ Loaded(v, tr[i]) + Len(sto) < S /\ Head(ch1) \in Batches
        /\ HoldsBatch(ss, Head(ch1), Loaded(v, tr[i]) + Len(sto), tr, n, st)
    BY <1>8 DEF BatchComes
  <2>1. PICK m \in Batches : m = Head(ch1)
    BY <2>0
  <2>2. PICK D \in Nat, L \in Nat : D = Loaded(v, tr[i]) /\ L = Len(sto)
    BY <1>6, <1>11
  <2>3. sto \in Seq(Batches) /\ \A j \in 1 .. L : HoldsBatch(ss, sto[j], D + j - 1, tr, n, st)
    BY <1>6, <2>2 DEF UnderWay
  <2>4. PICK sto2 \in Seq(Batches) :
          /\ sto2 = Append(sto, m) /\ Len(sto2) = L + 1
          /\ \A j \in 1 .. L : sto2[j] = sto[j]
          /\ sto2[L + 1] = m
    BY <2>2, <2>3, AppendOK, ZenonT(60)
  <2>5. ASSUME NEW j \in 1 .. L + 1 PROVE HoldsBatch(ss, sto2[j], D + j - 1, tr, n, st)
    <3>1. CASE j = L + 1
      <4>1. D + j - 1 = D + L
        BY <3>1
      <4>2. QED
        BY <2>0, <2>1, <2>2, <2>4, <3>1, <4>1
    <3>2. CASE j # L + 1
      <4>1. j \in 1 .. L
        BY <3>2
      <4>2. QED
        BY <2>3, <2>4, <4>1
    <3>3. QED
      BY <3>1, <3>2
  <2>6. D + Len(sto2) = D + L + 1 /\ D + L < S
    BY <2>0, <2>2, <2>4
  <2>7. UnderWay(ss, v, S, kind, sto2, Tail(ch1), tr, n, i, st)
    <3>1. \A j \in 1 .. Len(sto2) : HoldsBatch(ss, sto2[j], Loaded(v, tr[i]) + j - 1, tr, n, st)
      BY <2>2, <2>4, <2>5
    <3>2. Loaded(v, tr[i]) + Len(sto2) = Loaded(v, tr[i]) + Len(sto) + 1
          /\ Loaded(v, tr[i]) + Len(sto) < S /\ Loaded(v, tr[i]) \in Nat
      BY <2>2, <2>6
    <3>3. IF ss.continuous THEN sto2 = <<>> ELSE v.at = "store"
      BY <1>2
    <3>4. QED
      BY <1>4, <1>6, <2>4, <3>1, <3>2, <3>3, BatchTaken
  <2>8. UnderWay(ss, v, Sent(g, tr[n]), Trailer(ss, g, v, tr[i]), sto2, Tail(ch1), tr, n, i, st)
    BY <1>4, <1>5, <2>7
  <2>9. Linked(ss, g, v, gb0, mb0, gb1, mb1, ky, sto2, ch0, Tail(ch1), o0, o1, tr, n, st, i)
    BY <2>8 DEF Linked
  <2>10. m.type = "MORE"
    BY DEF Batches
  <2>11. QED
    BY <2>1, <2>4, <2>9, <2>10
<1>9. CASE LastComes(v, S, kind, sto, ch1, tr, i)
  <2>0. /\ Loaded(v, tr[i]) + Len(sto) = S
        /\ kind # "none" /\ Head(ch1).type = kind /\ Tail(ch1) = <<>>
    BY <1>9 DEF LastComes
  <2>1. kind = "DONE" /\ g.at \in {"post_inputs", "ended"}
    BY <1>2, <1>5, <2>0 DEF Trailer
  <2>2. ASSUME NEW v2, v2.tape = v.tape, v2.run = v.run, v2.PC = v.PC, v2.at = "schedule"
        PROVE  Linked(ss, g, v2, gb0, mb0, gb1, mb1, ky, sto, ch0, Tail(ch1), o0, o1, tr, n, st, i)
    <3>1. ~InBatch(v) /\ ~InBatch(v2)
      BY <2>2 DEF InBatch
    <3>2. EvaluatorOn(ss, v2, Sent(g, tr[n]), tr, n, i, st)
      BY <1>1, <1>2, <2>2, <3>1 DEF EvaluatorOn
    <3>3. Unused(ss, v2, gb1, mb1, tr, n, i, st)
      BY <1>1, <3>1 DEF Unused
    <3>4. Trailer(ss, g, v2, tr[i]) = "none" /\ ModeOn(ss, g, v2)
      BY <1>2, <2>1, <2>2 DEF Trailer, ModeOn
    <3>5. UnderWay(ss, v2, S, "none", sto, <<>>, tr, n, i, st)
      <4>1. PICK D \in Nat, L \in Nat : D = Loaded(v, tr[i]) /\ L = Len(sto) /\ D = Loaded(v2, tr[i])
        BY <1>6, <1>11, <3>1 DEF Loaded
      <4>2. S - D - L = 0 /\ \A j \in 1 .. S - D - L : FALSE
        BY <2>0, <4>1
      <4>3. Len(<<>>) = 0 /\ <<>> \in Seq(Messages[1])
        OBVIOUS
      <4>4. sto \in Seq(Batches) /\ \A j \in 1 .. L : HoldsBatch(ss, sto[j], D + j - 1, tr, n, st)
        BY <1>6, <4>1 DEF UnderWay
      <4>5. QED
        BY <1>2, <4>1, <4>2, <4>3, <4>4 DEF UnderWay
    <3>6. UnderWay(ss, v2, Sent(g, tr[n]), Trailer(ss, g, v2, tr[i]), sto, Tail(ch1), tr, n, i, st)
      BY <1>4, <2>0, <3>4, <3>5
    <3>7. v.at # "keys" /\ v2.at # "keys"
      BY <2>2
    <3>8. QED
      BY <3>2, <3>3, <3>4, <3>6, <3>7, EvaluatorGoesOn
  <2>3. QED
    BY <2>0, <2>1, <2>2
<1>10. QED
  BY <1>7, <1>8, <1>9

(* A batch is loaded.                                                      *)
LEMMA BatchLoaded ==
  ASSUME NEW ss, NEW g, NEW v, NEW gb0, NEW mb0, NEW gb1, NEW mb1, NEW ky, NEW sto,
         NEW ch0, NEW ch1, NEW o0, NEW o1, NEW tr, NEW n, NEW st, NEW i,
         Linked(ss, g, v, gb0, mb0, gb1, mb1, ky, sto, ch0, ch1, o0, o1, tr, n, st, i),
         v.at = "receive", tr[i].nb < Sent(g, tr[n]),
         NEW m, HoldsBatch(ss, m, tr[i].nb, tr, n, st),
         NEW v2, v2.tape = v.tape, v2.run = v.run, v2.PC = v.PC, v2.reg = v.reg,
         v2.at = "exec", v2.complexity = 0,
         NEW sto2, NEW ch2,
         UnderWay(ss, v2, Sent(g, tr[n]), Trailer(ss, g, v, tr[i]), sto2, ch2, tr, n, i, st)
  PROVE  Linked(ss, g, v2, gb0, mb0, m.gates, m.masks, ky, sto2, ch0, ch2, o0, o1, tr, n, st, i)
<1>1. /\ EvaluatorOn(ss, v, Sent(g, tr[n]), tr, n, i, st) /\ ModeOn(ss, g, v)
  BY DEF Linked
<1>2. ~InBatch(v) /\ InBatch(v2)
  BY DEF InBatch
<1>3. ~tr[i].end /\ tr[i].cx = 0 /\ tr[i].cnt = st[tr[i].nb] /\ v.run = 1
  BY <1>1, <1>2 DEF EvaluatorOn
<1>4. EvaluatorOn(ss, v2, Sent(g, tr[n]), tr, n, i, st)
  BY <1>1, <1>2, <1>3 DEF EvaluatorOn
<1>5. Unused(ss, v2, m.gates, m.masks, tr, n, i, st)
  BY <1>2, <1>3 DEF Unused, HoldsBatch
<1>6. ModeOn(ss, g, v2)
  BY <1>1 DEF ModeOn
<1>7. Trailer(ss, g, v2, tr[i]) = Trailer(ss, g, v, tr[i])
  BY DEF Trailer
<1>8. v.at # "keys" /\ v2.at # "keys"
  OBVIOUS
<1>9. QED
  BY <1>4, <1>5, <1>6, <1>7, <1>8, EvaluatorGoesOn

(* A garbler that has ended has sent all that the evaluator still needs.   *)
LEMMA AllSent ==
  ASSUME NEW ss, NEW g, NEW tr, NEW n, NEW st, History(tr, n, st), PathOK(ss, tr, n, st),
         GarblerOn(ss, g, tr, n, st), g.run = 1,
         g.at \in {"finish", "schedule", "post_run", "post_inputs", "ended"},
         NEW i \in 1 .. n, ~tr[i].end
  PROVE  tr[i].nb < Sent(g, tr[n])
<1>1. tr[n].end /\ Sent(g, tr[n]) = tr[n].nb
  BY DEF GarblerOn, Sent
<1>2. i # n
  BY <1>1
<1>3. i \in 1 .. n - 1
  BY <1>2, HistoryTypes
<1>4. QED
  BY <1>1, <1>3 DEF PathOK

(* Continuous mode: the batch is received.                                 *)
LEMMA EvaluatorReceives ==
  ASSUME NEW ss, NEW g, NEW v, NEW gb0, NEW mb0, NEW gb1, NEW mb1, NEW ky, NEW sto,
         NEW ch0, NEW ch1, NEW o0, NEW o1, NEW tr, NEW n, NEW st, NEW i, History(tr, n, st),
         Linked(ss, g, v, gb0, mb0, gb1, mb1, ky, sto, ch0, ch1, o0, o1, tr, n, st, i),
         v.at = "receive", ss.continuous, ch1 # <<>>
  PROVE  /\ Head(ch1).type = "MORE"
         /\ \A v2 : /\ v2.tape = v.tape /\ v2.run = v.run /\ v2.PC = v.PC /\ v2.reg = v.reg
                    /\ v2.at = "exec" /\ v2.complexity = 0
                    => Linked(ss, g, v2, gb0, mb0, Head(ch1).gates, Head(ch1).masks, ky, sto,
                              ch0, Tail(ch1), o0, o1, tr, n, st, i)
<1>1. /\ PathOK(ss, tr, n, st) /\ GarblerOn(ss, g, tr, n, st)
      /\ EvaluatorOn(ss, v, Sent(g, tr[n]), tr, n, i, st)
      /\ UnderWay(ss, v, Sent(g, tr[n]), Trailer(ss, g, v, tr[i]), sto, ch1, tr, n, i, st)
  BY DEF Linked
<1>2. n \in Nat \ {0} /\ i \in 1 .. n /\ i \in Nat /\ ~tr[i].end
  BY <1>1, HistoryTypes DEF EvaluatorOn
<1>3. tr[i].nb \in Nat /\ tr[n].nb \in Nat /\ Loaded(v, tr[i]) = tr[i].nb
  BY <1>2, HistoryTypes DEF Loaded, InBatch
<1>4. PICK S \in Nat : S = Sent(g, tr[n])
  BY <1>1, <1>3 DEF Sent, GarblerOn
<1>5. PICK kind : kind = Trailer(ss, g, v, tr[i])
  OBVIOUS
<1>6. UnderWay(ss, v, S, kind, sto, ch1, tr, n, i, st) /\ Loaded(v, tr[i]) \in Nat
  BY <1>1, <1>3, <1>4, <1>5
<1>7. \/ BatchComes(ss, v, S, sto, ch1, tr, n, st, i)
      \/ LastComes(v, S, kind, sto, ch1, tr, i)
  BY <1>4, <1>6, NextMessage
<1>8. sto = <<>> /\ Len(sto) = 0 /\ Loaded(v, tr[i]) + Len(sto) = tr[i].nb
  <2>1. sto = <<>>
    BY <1>1 DEF UnderWay
  <2>2. Len(<<>>) = 0 /\ tr[i].nb + 0 = tr[i].nb
    BY <1>3
  <2>3. QED
    BY <1>3, <2>1, <2>2
<1>9. ~LastComes(v, S, kind, sto, ch1, tr, i)
  <2> SUFFICES ASSUME LastComes(v, S, kind, sto, ch1, tr, i) PROVE FALSE
    OBVIOUS
  <2>1. tr[i].nb = S /\ kind # "none"
    BY <1>8 DEF LastComes
  <2>2. Over0(g)
    BY <1>5, <2>1 DEF Trailer
  <2>3. tr[i].nb < Sent(g, tr[n])
    BY <1>1, <1>2, <2>2, AllSent DEF Over0
  <2>4. QED
    BY <1>4, <2>1, <2>3
<1>10. /\ tr[i].nb < S /\ Head(ch1) \in Batches
       /\ HoldsBatch(ss, Head(ch1), tr[i].nb, tr, n, st)
  BY <1>7, <1>8, <1>9 DEF BatchComes
<1>11. Head(ch1).type = "MORE"
  BY <1>10 DEF HoldsBatch
<1>12. ASSUME NEW v2, v2.tape = v.tape, v2.run = v.run, v2.PC = v.PC, v2.reg = v.reg,
              v2.at = "exec", v2.complexity = 0
       PROVE  Linked(ss, g, v2, gb0, mb0, Head(ch1).gates, Head(ch1).masks, ky, sto,
                     ch0, Tail(ch1), o0, o1, tr, n, st, i)
  <2>1. Loaded(v2, tr[i]) = tr[i].nb + 1
    BY <1>12 DEF Loaded, InBatch
  <2>2. /\ Loaded(v2, tr[i]) \in Nat
        /\ Loaded(v2, tr[i]) + Len(sto) = Loaded(v, tr[i]) + Len(sto) + 1
        /\ Loaded(v, tr[i]) + Len(sto) < S
    BY <1>3, <1>8, <1>10, <2>1
  <2>3. sto \in Seq(Batches) /\ \A j \in 1 .. Len(sto) : FALSE
    BY <1>1, <1>8 DEF UnderWay
  <2>4. IF ss.continuous THEN sto = <<>> ELSE v2.at = "store"
    BY <1>8
  <2>5. \A j \in 1 .. Len(sto) : HoldsBatch(ss, sto[j], Loaded(v2, tr[i]) + j - 1, tr, n, st)
    BY <2>3
  <2>6. UnderWay(ss, v2, S, kind, sto, Tail(ch1), tr, n, i, st)
    BY <1>4, <1>6, <2>2, <2>3, <2>4, <2>5, BatchTaken
  <2>7. UnderWay(ss, v2, Sent(g, tr[n]), Trailer(ss, g, v, tr[i]), sto, Tail(ch1), tr, n, i, st)
        /\ tr[i].nb < Sent(g, tr[n])
    BY <1>4, <1>5, <1>10, <2>6
  <2>8. QED
    BY <1>10, <1>12, <2>7, BatchLoaded
<1>13. QED
  BY <1>11, <1>12

(* One-shot mode: the batch is taken from the store.                       *)
LEMMA EvaluatorPops ==
  ASSUME NEW ss, NEW g, NEW v, NEW gb0, NEW mb0, NEW gb1, NEW mb1, NEW ky, NEW sto,
         NEW ch0, NEW ch1, NEW o0, NEW o1, NEW tr, NEW n, NEW st, NEW i, History(tr, n, st),
         Linked(ss, g, v, gb0, mb0, gb1, mb1, ky, sto, ch0, ch1, o0, o1, tr, n, st, i),
         v.at = "receive", ~ss.continuous
  PROVE  /\ sto # <<>>
         /\ \A v2 : /\ v2.tape = v.tape /\ v2.run = v.run /\ v2.PC = v.PC /\ v2.reg = v.reg
                    /\ v2.at = "exec" /\ v2.complexity = 0
                    => Linked(ss, g, v2, gb0, mb0, Head(sto).gates, Head(sto).masks, ky, Tail(sto),
                              ch0, ch1, o0, o1, tr, n, st, i)
<1>1. /\ PathOK(ss, tr, n, st) /\ GarblerOn(ss, g, tr, n, st)
      /\ EvaluatorOn(ss, v, Sent(g, tr[n]), tr, n, i, st)
      /\ UnderWay(ss, v, Sent(g, tr[n]), Trailer(ss, g, v, tr[i]), sto, ch1, tr, n, i, st)
      /\ ModeOn(ss, g, v)
  BY DEF Linked
<1>2. n \in Nat \ {0} /\ i \in 1 .. n /\ i \in Nat /\ ~tr[i].end
  BY <1>1, HistoryTypes DEF EvaluatorOn
<1>3. PICK D \in Nat : D = tr[i].nb /\ D = Loaded(v, tr[i])
  BY <1>2, HistoryTypes DEF Loaded, InBatch
<1>4. tr[i].nb < Sent(g, tr[n])
  <2>1. g.at \in {"post_inputs", "ended"}
    BY <1>1 DEF ModeOn
  <2>2. g.run = 1
    BY <1>1, <2>1 DEF GarblerOn
  <2>3. QED
    BY <1>1, <1>2, <2>1, <2>2, AllSent
<1>5. PICK S \in Nat : S = Sent(g, tr[n])
  BY <1>1, <1>2, HistoryTypes DEF Sent, GarblerOn
<1>6. Trailer(ss, g, v, tr[i]) = "none" /\ ch1 = <<>>
  BY <1>1 DEF Trailer, UnderWay
<1>7. Len(ch1) = 0
  BY <1>6
<1>8. PICK L \in Nat : /\ L = Len(sto) /\ sto \in Seq(Batches) /\ ch1 \in Seq(Messages[1])
                       /\ S - D - L = 0
                       /\ \A j \in 1 .. L : HoldsBatch(ss, sto[j], D + j - 1, tr, n, st)
  BY <1>1, <1>3, <1>5, <1>6, <1>7 DEF UnderWay
<1>9. L > 0
  BY <1>3, <1>4, <1>5, <1>8
<1>10. sto # <<>>
  BY <1>8, <1>9
<1>11. /\ Head(sto) = sto[1] /\ Tail(sto) \in Seq(Batches) /\ Len(Tail(sto)) = L - 1
       /\ \A j \in 1 .. L - 1 : Tail(sto)[j] = sto[j + 1]
  BY <1>8, <1>10, TailOK
<1>12. HoldsBatch(ss, Head(sto), tr[i].nb, tr, n, st)
  <2>1. 1 \in 1 .. L /\ D + 1 - 1 = D
    BY <1>9
  <2>2. HoldsBatch(ss, sto[1], D + 1 - 1, tr, n, st)
    BY <1>8, <2>1
  <2>3. QED
    BY <1>3, <1>11, <2>1, <2>2
<1>13. ASSUME NEW v2, v2.tape = v.tape, v2.run = v.run, v2.PC = v.PC, v2.reg = v.reg,
              v2.at = "exec", v2.complexity = 0
       PROVE  Linked(ss, g, v2, gb0, mb0, Head(sto).gates, Head(sto).masks, ky, Tail(sto),
                     ch0, ch1, o0, o1, tr, n, st, i)
  <2>1. Loaded(v2, tr[i]) = D + 1
    BY <1>3, <1>13 DEF Loaded, InBatch
  <2>2. S - (D + 1) - (L - 1) = 0 /\ \A j \in 1 .. 0 : FALSE
    BY <1>8
  <2>3. ASSUME NEW j \in 1 .. L - 1 PROVE HoldsBatch(ss, Tail(sto)[j], (D + 1) + j - 1, tr, n, st)
    <3>1. j + 1 \in 1 .. L /\ (D + 1) + j - 1 = D + (j + 1) - 1
      BY <1>8
    <3>2. HoldsBatch(ss, sto[j + 1], D + (j + 1) - 1, tr, n, st)
      BY <1>8, <3>1
    <3>3. QED
      BY <1>11, <3>1, <3>2
  <2>4. UnderWay(ss, v2, S, "none", Tail(sto), ch1, tr, n, i, st)
    BY <1>6, <1>7, <1>8, <1>11, <2>1, <2>2, <2>3 DEF UnderWay
  <2>5. UnderWay(ss, v2, Sent(g, tr[n]), Trailer(ss, g, v, tr[i]), Tail(sto), ch1, tr, n, i, st)
    BY <1>5, <1>6, <2>4
  <2>6. QED
    BY <1>4, <1>12, <1>13, <2>5, BatchLoaded
<1>14. QED
  BY <1>10, <1>13

(* The evaluator is at the end of the tape.                                *)
LEMMA EvaluatorFinishes ==
  ASSUME NEW ss, NEW g, NEW v, NEW gb0, NEW mb0, NEW gb1, NEW mb1, NEW ky, NEW sto,
         NEW ch0, NEW ch1, NEW o0, NEW o1, NEW tr, NEW n, NEW st, NEW i, History(tr, n, st),
         Linked(ss, g, v, gb0, mb0, gb1, mb1, ky, sto, ch0, ch1, o0, o1, tr, n, st, i),
         g.tainted \in BOOLEAN, ss.continuous \in BOOLEAN, v.at = "exec", PastEnd(ss, tr[i]),
         NEW ch2, NEW ch3,
         EvaluatorLast(ss, ch0, ch1, ch2, ch3)
  PROVE  /\ ss.continuous /\ ss.variant = "reconstruct" => Head(ch1).type = "pack"
         /\ \A v2 : /\ v2.tape = 0 /\ v2.run = 1 /\ v2.PC = v.PC /\ v2.reg = v.reg
                    /\ v2.at = "schedule"
                    => Linked(ss, g, v2, gb0, mb0, gb1, mb1, ky, sto, ch2, ch3, <<>>, <<>>, tr, n, st, i + 1)
<1> USE DEF EvaluatorLast
<1>1. /\ PathOK(ss, tr, n, st) /\ GarblerOn(ss, g, tr, n, st) /\ Unsent(ss, g, gb0, mb0, tr, n, st)
      /\ EvaluatorOn(ss, v, Sent(g, tr[n]), tr, n, i, st)
      /\ UnderWay(ss, v, Sent(g, tr[n]), Trailer(ss, g, v, tr[i]), sto, ch1, tr, n, i, st)
      /\ Answers(ss, g, ch0, tr, n, i) /\ TransfersOn(ss, v, o0, o1, ky, tr, n, i)
      /\ FinishOn(ss, g, tr[i])
  BY DEF Linked
<1>2. n \in Nat \ {0} /\ i \in 1 .. n /\ i \in Nat /\ i + 1 \in Nat
  BY <1>1, HistoryTypes DEF EvaluatorOn
<1>3. tr[i].nb \in Nat /\ tr[n].nb \in Nat /\ tr[i].PC \in Nat /\ InBatch(v)
  BY <1>2, HistoryTypes DEF InBatch
<1>4. PICK S \in Nat : S = Sent(g, tr[n]) /\ tr[i].nb < S /\ S <= tr[n].nb
  BY <1>1, <1>3 DEF Sent, GarblerOn, EvaluatorOn
<1>5. tr[i].nb < tr[n].nb
  BY <1>3, <1>4
<1>6. i \in 1 .. n - 1 /\ i + 1 \in 1 .. n /\ Succ(ss, tr[i], tr[i + 1])
  BY <1>1, <1>2, <1>5, PathAhead
<1>7. /\ ~tr[i].end /\ tr[i + 1].end /\ tr[i + 1].nb = tr[i].nb + 1 /\ tr[i + 1].PC = tr[i].PC
      /\ \A op \in {"and", "reveal", "inputb"} : ~IsAt(ss, tr[i], op)
  <2>1. \A op \in {"and", "reveal", "inputb"} : ~IsAt(ss, tr[i], op)
    BY <1>3 DEF IsAt, PastEnd
  <2>2. Ends(ss, tr[i])
    BY DEF Ends
  <2>3. QED
    BY <1>6, <2>1, <2>2 DEF Succ
<1>8. i + 1 = n
  BY <1>1, <1>6, <1>7, EvaluatorNotEnded
<1>9. i # n /\ n - 1 = i
  BY <1>2, <1>8
<1>10. g.tainted /\ ch0 = <<>>
  <2>1. g.tainted
    BY <1>1, <1>7, <1>9 DEF GarblerOn
  <2>2. QED
    BY <1>1, <1>7, <1>9, <2>1 DEF Answers
<1>11. S = tr[i].nb + 1 /\ Loaded(v, tr[i]) = S
  <2>1. tr[n].nb = tr[i].nb + 1
    BY <1>7, <1>8
  <2>2. S = tr[i].nb + 1
    BY <1>3, <1>4, <2>1
  <2>3. QED
    BY <1>3, <2>2 DEF Loaded
<1>12. ss.continuous /\ ss.variant = "reconstruct" =>
         /\ Over0(g) /\ Head(ch1).type = "pack" /\ ch3 = <<>>
         /\ Trailer(ss, g, v, tr[i]) = "pack"
  <2> SUFFICES ASSUME ss.continuous, ss.variant = "reconstruct"
               PROVE  /\ Over0(g) /\ Head(ch1).type = "pack" /\ ch3 = <<>>
                      /\ Trailer(ss, g, v, tr[i]) = "pack"
    OBVIOUS
  <2>1. ch1 # <<>> /\ ch3 = Tail(ch1)
    OBVIOUS
  <2>2. PICK kind : kind = Trailer(ss, g, v, tr[i])
    OBVIOUS
  <2>3. UnderWay(ss, v, S, kind, sto, ch1, tr, n, i, st) /\ Loaded(v, tr[i]) \in Nat
    BY <1>1, <1>4, <1>11, <2>2
  <2>4. \/ BatchComes(ss, v, S, sto, ch1, tr, n, st, i)
        \/ LastComes(v, S, kind, sto, ch1, tr, i)
    BY <1>4, <2>1, <2>3, NextMessage
  <2>5. ~BatchComes(ss, v, S, sto, ch1, tr, n, st, i)
    <3>1. Len(sto) \in Nat
      BY <2>3 DEF UnderWay
    <3>2. QED
      BY <1>11, <3>1 DEF BatchComes
  <2>6. kind # "none" /\ Head(ch1).type = kind /\ Tail(ch1) = <<>>
    BY <2>4, <2>5 DEF LastComes
  <2>7. QED
    BY <2>1, <2>2, <2>6 DEF Trailer
<1>13. ASSUME NEW v2, v2.tape = 0, v2.run = 1, v2.PC = v.PC, v2.reg = v.reg, v2.at = "schedule"
       PROVE  Linked(ss, g, v2, gb0, mb0, gb1, mb1, ky, sto, ch2, ch3, <<>>, <<>>, tr, n, st, i + 1)
  <2>1. Follows(ss, v2, tr[i], tr[i + 1])
    <3>1. v.PC = tr[i].PC /\ (ss.continuous => v.reg = tr[i].reg)
      BY <1>1 DEF EvaluatorOn
    <3>2. tr[i + 1].reg = tr[i].reg
      BY <1>6, <1>7 DEF Succ
    <3>3. QED
      BY <1>7, <1>13, <3>1, <3>2 DEF Follows
  <2>2. /\ Shrinks(ss, tr[i], "and", gb1, gb1)
        /\ Shrinks(ss, tr[i], "reveal", mb1, mb1)
        /\ KeysCame(ss, tr[i], o1)
    <3>1. o1 = <<>>
      BY <1>1 DEF TransfersOn
    <3>2. Len(<<>>) = 0
      OBVIOUS
    <3>3. QED
      BY <1>7, <3>1, <3>2 DEF Shrinks, KeysCame
  <2>3. /\ EvaluatorOn(ss, v2, Sent(g, tr[n]), tr, n, i + 1, st)
        /\ Unused(ss, v2, gb1, mb1, tr, n, i + 1, st)
        /\ UnderWay(ss, v2, Sent(g, tr[n]), Trailer(ss, g, v, tr[i]), sto, ch1, tr, n, i + 1, st)
        /\ TransfersOn(ss, v2, <<>>, <<>>, ky, tr, n, i + 1)
        /\ RevealsOn(ss, g, tr, n, i + 1)
        /\ ModeOn(ss, g, v2)
    BY <1>3, <2>1, <2>2, EvaluatorRuns, ZenonT(60)
  <2>4. Trailer(ss, g, v2, tr[i + 1]) = "none"
    BY <1>7, <1>13 DEF Trailer
  <2>5. CASE ss.continuous /\ ss.variant = "reconstruct"
    <3>1. UnderWay(ss, v2, S, "none", sto, <<>>, tr, n, i + 1, st)
      <4>1. Loaded(v2, tr[i + 1]) = S
        BY <1>7, <1>11, <1>13 DEF Loaded, InBatch
      <4>2. sto = <<>> /\ sto \in Seq(Batches)
        BY <1>1, <2>5 DEF UnderWay
      <4>3. Len(<<>>) = 0 /\ <<>> \in Seq(Messages[1]) /\ S - S - 0 = 0
            /\ \A j \in 1 .. 0 : FALSE
        OBVIOUS
      <4>4. QED
        BY <2>5, <4>1, <4>2, <4>3 DEF UnderWay
    <3>2. ch2 = ch0 /\ ch3 = <<>> /\ Over0(g)
      BY <1>12, <2>5
    <3>3. UnderWay(ss, v2, Sent(g, tr[n]), Trailer(ss, g, v2, tr[i + 1]), sto, ch3, tr, n, i + 1, st)
      BY <1>4, <2>4, <3>1, <3>2
    <3>4. Answers(ss, g, ch2, tr, n, i + 1) /\ FinishOn(ss, g, tr[i + 1])
      BY <1>7, <1>10, <2>5, <3>2 DEF Answers, FinishOn
    <3>5. QED
      BY <1>1, <2>3, <3>3, <3>4 DEF Linked
  <2>6. CASE ss.continuous /\ ss.variant = "init"
    <3>1. Trailer(ss, g, v, tr[i]) = "none"
      BY <2>6 DEF Trailer
    <3>2. ch3 = ch1 /\ ch2 = <<[type |-> "pack"]>>
      <4>1. Append(<<>>, [type |-> "pack"]) = <<[type |-> "pack"]>>
        OBVIOUS
      <4>2. QED
        BY <1>10, <2>6, <4>1
    <3>3. Answers(ss, g, ch2, tr, n, i + 1) /\ FinishOn(ss, g, tr[i + 1])
      BY <1>1, <1>7, <1>10, <2>6, <3>2 DEF Answers, FinishOn
    <3>4. QED
      BY <1>1, <2>3, <2>4, <3>1, <3>2, <3>3 DEF Linked
  <2>7. CASE ~(ss.continuous /\ ss.variant = "reconstruct") /\ ~(ss.continuous /\ ss.variant = "init")
    <3>1. Trailer(ss, g, v, tr[i]) = "none" /\ ch3 = ch1 /\ ch2 = ch0
      BY <2>7 DEF Trailer
    <3>2. Answers(ss, g, ch2, tr, n, i + 1) /\ FinishOn(ss, g, tr[i + 1])
      BY <1>7, <1>10, <2>7, <3>1 DEF Answers, FinishOn
    <3>3. QED
      BY <1>1, <2>3, <2>4, <3>1, <3>2 DEF Linked
  <2>8. QED
    BY <2>5, <2>6, <2>7
<1>14. QED
  BY <1>12, <1>13

(* What the link says of the next instruction of the evaluator ...         *)
LEMMA EvaluatorHas ==
  ASSUME NEW ss, NEW g, NEW v, NEW gb0, NEW mb0, NEW gb1, NEW mb1, NEW ky, NEW sto,
         NEW ch0, NEW ch1, NEW o0, NEW o1, NEW tr, NEW n, NEW st, NEW i, History(tr, n, st),
         Linked(ss, g, v, gb0, mb0, gb1, mb1, ky, sto, ch0, ch1, o0, o1, tr, n, st, i)
  PROVE  /\ v.at = "exec" /\ IsAt(ss, tr[i], "and") => gb1 # <<>> /\ Head(gb1) = Pos(tr[i])
         /\ v.at = "exec" /\ IsAt(ss, tr[i], "reveal") => mb1 # <<>> /\ Head(mb1) = Pos(tr[i])
         /\ v.at = "keys" /\ o1 # <<>> => Head(o1) = Pos(tr[i])
         /\ InBatch(v) => v.run = 1 /\ i # n
<1>1. /\ PathOK(ss, tr, n, st) /\ GarblerOn(ss, g, tr, n, st)
      /\ EvaluatorOn(ss, v, Sent(g, tr[n]), tr, n, i, st)
      /\ Unused(ss, v, gb1, mb1, tr, n, i, st) /\ TransfersOn(ss, v, o0, o1, ky, tr, n, i)
  BY DEF Linked
<1>2. n \in Nat \ {0} /\ i \in 1 .. n /\ i \in Nat
  BY <1>1, HistoryTypes DEF EvaluatorOn
<1>3. tr[i].nb \in Nat /\ tr[n].nb \in Nat
  BY <1>2, HistoryTypes
<1>4. v.at = "keys" /\ o1 # <<>> => Head(o1) = Pos(tr[i])
  <2>1. v.at = "keys" /\ o1 # <<>> => o1 = <<Pos(tr[i])>>
    BY <1>1 DEF TransfersOn
  <2>2. Head(<<Pos(tr[i])>>) = Pos(tr[i])
    OBVIOUS
  <2>3. QED
    BY <2>1, <2>2
<1>5. CASE InBatch(v)
  <2>0. PathOK(ss, tr, n, st)
    BY <1>1
  <2>1. tr[i].nb < tr[n].nb
    BY <1>1, <1>3, <1>5 DEF Sent, GarblerOn, EvaluatorOn
  <2>2. v.run = 1
    BY <1>1, <1>5 DEF EvaluatorOn, InBatch
  <2>3. "and" \in Kinds /\ "reveal" \in Kinds
    BY DEF Kinds
  <2>4. Holds(ss, "and", gb1, tr[i].cnt["and"], st[tr[i].nb + 1]["and"], tr, n)
        /\ Holds(ss, "reveal", mb1, tr[i].cnt["reveal"], st[tr[i].nb + 1]["reveal"], tr, n)
    BY <1>1, <1>5 DEF Unused
  <2>5. IsAt(ss, tr[i], "and") => gb1 # <<>> /\ Head(gb1) = Pos(tr[i])
    <3>1. ASSUME IsAt(ss, tr[i], "and") PROVE gb1 # <<>> /\ Head(gb1) = Pos(tr[i])
      BY <1>2, <2>0, <2>1, <2>3, <2>4, <3>1, HoldsNext
    <3>2. QED
      BY <3>1
  <2>6. IsAt(ss, tr[i], "reveal") => mb1 # <<>> /\ Head(mb1) = Pos(tr[i])
    <3>1. ASSUME IsAt(ss, tr[i], "reveal") PROVE mb1 # <<>> /\ Head(mb1) = Pos(tr[i])
      BY <1>2, <2>0, <2>1, <2>3, <2>4, <3>1, HoldsNext
    <3>2. QED
      BY <3>1
  <2>7. i # n
    BY <1>3, <2>1
  <2>8. QED
    BY <1>4, <2>2, <2>5, <2>6, <2>7
<1>6. CASE ~InBatch(v)
  BY <1>4, <1>6 DEF InBatch
<1>7. QED
  BY <1>5, <1>6

(* ... and when both parties have ended.                                   *)
LEMMA AllUsed ==
  ASSUME NEW ss, NEW g, NEW v, NEW gb0, NEW mb0, NEW gb1, NEW mb1, NEW ky, NEW sto,
         NEW ch0, NEW ch1, NEW o0, NEW o1, NEW tr, NEW n, NEW st, NEW i, History(tr, n, st),
         Linked(ss, g, v, gb0, mb0, gb1, mb1, ky, sto, ch0, ch1, o0, o1, tr, n, st, i),
         g.at = "ended", v.at = "ended"
  PROVE  /\ g.run = 1 /\ v.run = 1
         /\ gb0 = <<>> /\ mb0 = <<>> /\ gb1 = <<>> /\ mb1 = <<>>
         /\ ky = <<>> /\ sto = <<>> /\ ch0 = <<>> /\ ch1 = <<>> /\ o0 = <<>> /\ o1 = <<>>
<1>1. /\ PathOK(ss, tr, n, st) /\ GarblerOn(ss, g, tr, n, st) /\ Unsent(ss, g, gb0, mb0, tr, n, st)
      /\ EvaluatorOn(ss, v, Sent(g, tr[n]), tr, n, i, st)
      /\ Unused(ss, v, gb1, mb1, tr, n, i, st)
      /\ UnderWay(ss, v, Sent(g, tr[n]), Trailer(ss, g, v, tr[i]), sto, ch1, tr, n, i, st)
      /\ Answers(ss, g, ch0, tr, n, i) /\ TransfersOn(ss, v, o0, o1, ky, tr, n, i)
  BY DEF Linked
<1>2. g.run = 1 /\ v.run = 1 /\ tr[n].end /\ tr[i].end /\ g.tainted
  BY <1>1 DEF GarblerOn, EvaluatorOn
<1>3. n \in Nat \ {0} /\ i = n
  <2>1. n \in Nat \ {0} /\ i \in 1 .. n
    BY <1>1, HistoryTypes DEF EvaluatorOn
  <2>2. QED
    BY <1>1, <1>2, <2>1, EvaluatorNotEnded
<1>4. PICK S \in Nat : S = tr[n].nb /\ Sent(g, tr[n]) = S
  BY <1>3, HistoryTypes DEF Sent
<1>5. st[S] = tr[n].cnt
  <2>1. n # 1
    BY <1>1, <1>2 DEF PathOK
  <2>2. n - 1 \in 1 .. n - 1 /\ n - 1 + 1 = n
    BY <1>3, <2>1
  <2>3. Succ(ss, tr[n - 1], tr[n]) /\ (Ends(ss, tr[n - 1]) => st[tr[n].nb] = tr[n].cnt)
    BY <1>1, <2>2 DEF PathOK
  <2>4. Ends(ss, tr[n - 1])
    BY <1>2, <2>3 DEF Succ, Ends
  <2>5. QED
    BY <1>4, <2>3, <2>4
<1>6. ASSUME NEW op \in Kinds, NEW s, Holds(ss, op, s, tr[n].cnt[op], tr[n].cnt[op], tr, n)
      PROVE  s = <<>>
  <2>1. PICK a \in Nat : a = tr[n].cnt[op]
    BY <1>3, HistoryTypes
  <2>2. s \in Seq(Positions) /\ Len(s) = a - a
    BY <1>6, <2>1 DEF Holds
  <2>3. Len(s) = 0
    BY <2>1, <2>2
  <2>4. QED
    BY <2>2, <2>3, ZeroLen
<1>7. "and" \in Kinds /\ "reveal" \in Kinds /\ "inputb" \in Kinds
  BY DEF Kinds
<1>8. gb0 = <<>> /\ mb0 = <<>>
  BY <1>1, <1>4, <1>5, <1>6, <1>7 DEF Unsent
<1>9. gb1 = <<>> /\ mb1 = <<>> /\ o0 = <<>> /\ o1 = <<>>
  BY <1>1 DEF Unused, TransfersOn, InBatch
<1>10. ky = <<>>
  <2>1. Len(o1) = 0 /\ tr[n].cnt["inputb"] + 0 = tr[n].cnt["inputb"]
    BY <1>3, <1>7, <1>9, HistoryTypes
  <2>2. Holds(ss, "inputb", ky, tr[n].cnt["inputb"], tr[n].cnt["inputb"], tr, n)
    BY <1>1, <1>3, <2>1 DEF TransfersOn
  <2>3. QED
    BY <1>6, <1>7, <2>2
<1>11. ch0 = <<>>
  BY <1>1, <1>2 DEF Answers, Over0
<1>12. sto = <<>> /\ ch1 = <<>>
  <2>1. Trailer(ss, g, v, tr[i]) = "none"
    BY <1>2 DEF Trailer
  <2>2. Loaded(v, tr[i]) = S
    BY <1>3, <1>4 DEF Loaded, InBatch
  <2>3. PICK L \in Nat : /\ L = Len(sto) /\ S - S - L \in Nat /\ Len(ch1) = S - S - L
                         /\ sto \in Seq(Batches) /\ ch1 \in Seq(Messages[1])
    BY <1>1, <1>4, <2>1, <2>2 DEF UnderWay
  <2>4. Len(sto) = 0 /\ Len(ch1) = 0
    BY <2>3
  <2>5. QED
    BY <2>3, <2>4, ZeroLen
<1>13. QED
  BY <1>2, <1>8, <1>9, <1>10, <1>11, <1>12

(* ... and in the evaluator's.                                             *)
EvaluatorDoes(ss, v, c, v2) ==
    /\ v2.tape = v.tape /\ v2.run = v.run
    /\ v2.at = IF Ends(ss, c) THEN "receive" ELSE "exec"
    /\ v2.PC = Proceeds(ss, v, c)
    /\ v2.at = "exec" => v2.complexity = CountsTo(ss, c)
    /\ ss.continuous => v2.reg = v.reg

LEMMA EvaluatorExecutes ==
  ASSUME NEW ss, NEW g, NEW v, NEW gb0, NEW mb0, NEW gb1, NEW mb1, NEW ky, NEW sto,
         NEW ch0, NEW ch1, NEW o0, NEW o1, NEW tr, NEW n, NEW st, NEW i,
         History(tr, n, st), g.tainted \in BOOLEAN,
         Linked(ss, g, v, gb0, mb0, gb1, mb1, ky, sto, ch0, ch1, o0, o1, tr, n, st, i),
         InBatch(v), KeysCame(ss, tr[i], o1),
         ~PastEnd(ss, tr[i]), ~(ss.continuous /\ IsAt(ss, tr[i], "reveal")),
         NEW v2, EvaluatorDoes(ss, v, tr[i], v2),
         NEW gb2, Shrinks(ss, tr[i], "and", gb1, gb2),
         NEW mb2, Shrinks(ss, tr[i], "reveal", mb1, mb2)
  PROVE  /\ Linked(ss, g, v2, gb0, mb0, gb2, mb2, ky, sto, ch0, ch1, <<>>, <<>>, tr, n, st, i + 1)
         /\ IsAt(ss, tr[i], "branch") => ss.continuous
<1>1. /\ PathOK(ss, tr, n, st) /\ GarblerOn(ss, g, tr, n, st)
      /\ EvaluatorOn(ss, v, Sent(g, tr[n]), tr, n, i, st)
  BY DEF Linked
<1>2. n \in Nat \ {0} /\ i \in 1 .. n /\ i \in Nat
  BY <1>1, HistoryTypes DEF EvaluatorOn
<1>3. tr[i].nb < tr[n].nb
  <2>1. tr[i].nb \in Nat /\ tr[n].nb \in Nat
    BY <1>2, HistoryTypes
  <2>2. QED
    BY <1>1, <2>1 DEF Sent, GarblerOn, EvaluatorOn
<1>4. Succ(ss, tr[i], tr[i + 1])
  BY <1>1, <1>2, <1>3, PathAhead
<1>5. v.tape = 0 /\ v.run = 1 /\ v.PC = tr[i].PC /\ (ss.continuous => v.reg = tr[i].reg)
  BY <1>1 DEF EvaluatorOn, InBatch
<1>6. Follows(ss, v2, tr[i], tr[i + 1])
  <2>1. v2.at = "exec" => ~Ends(ss, tr[i])
    BY DEF EvaluatorDoes
  <2>2. tr[i + 1].PC = Proceeds(ss, v, tr[i])
    BY <1>4, <1>5 DEF Succ, Proceeds
  <2>3. v2.at = "exec" => v2.complexity = tr[i + 1].cx
    BY <1>4, <2>1 DEF Succ, EvaluatorDoes, CountsTo
  <2>4. ss.continuous => tr[i + 1].reg = tr[i].reg
    BY <1>4 DEF Succ
  <2>5. QED
    BY <1>5, <2>2, <2>3, <2>4 DEF Follows, EvaluatorDoes
<1>7. QED
  <2>1. Linked(ss, g, v2, gb0, mb0, gb2, mb2, ky, sto, ch0, ch1, <<>>, <<>>, tr, n, st, i + 1)
    BY <1>6, EvaluatorStep, ZenonT(60)
  <2>2. QED
    BY <1>4, <2>1 DEF Succ
-----------------------------------------------------------------------------
(***************************************************************************)
(* The link in a state of the two parties, on their first threads.         *)
(***************************************************************************)
Link == InLink(session, th[0][0], th[1][0], gates[0][0], masks[0][0], gates[1][0], masks[1][0],
               keys[0], store[0], chan[0][0], chan[1][0], ot[0][0], ot[1][0])

LinkedBy(tr, n, st, i) ==
    Linked(session, th[0][0], th[1][0], gates[0][0], masks[0][0], gates[1][0], masks[1][0],
           keys[0], store[0], chan[0][0], chan[1][0], ot[0][0], ot[1][0], tr, n, st, i)

LEMMA LinkPaths == Link <=> \E tr, n, st, i : History(tr, n, st) /\ LinkedBy(tr, n, st, i)
BY DEF Link, InLink, History, LinkedBy

LEMMA LinkStays ==
  ASSUME Link, session' = session, \A p \in Parties : th'[p][0] = th[p][0],
         \A p \in Parties : gates'[p][0] = gates[p][0] /\ masks'[p][0] = masks[p][0],
         keys'[0] = keys[0], store'[0] = store[0],
         \A p \in Parties : chan'[p][0] = chan[p][0] /\ ot'[p][0] = ot[p][0]
  PROVE  Link'
BY DEF Link, Parties

(* Both are in Threads and of their types.                                 *)
LEMMA ZeroOK ==
  ASSUME Types
  PROVE  /\ 0 \in Threads /\ 0 \in Parties /\ 1 \in Parties /\ IsSession(session)
         /\ session.continuous \in BOOLEAN
         /\ \A p \in Parties : /\ th[p][0] \in ThreadStates /\ th[p][0].at \in Places[p]
                               /\ th[p][0].tainted \in BOOLEAN /\ th[p][0].PC \in Nat \ {0}
                               /\ th[p][0].complexity \in Nat /\ th[p][0].reg \in BOOLEAN
<1>1. 0 \in Threads /\ 0 \in Parties /\ 1 \in Parties /\ IsSession(session)
  BY BoundsOK DEF Types, Threads, Parties
<1>2. session.continuous \in BOOLEAN
  BY <1>1 DEF IsSession
<1>3. ASSUME NEW p \in Parties
      PROVE  /\ th[p][0] \in ThreadStates /\ th[p][0].at \in Places[p]
             /\ th[p][0].tainted \in BOOLEAN /\ th[p][0].PC \in Nat \ {0}
             /\ th[p][0].complexity \in Nat /\ th[p][0].reg \in BOOLEAN
  <2>1. th[p][0] \in ThreadStates /\ th[p][0].at \in Places[p]
    BY <1>1, ThType
  <2>2. QED
    BY <2>1, BoundsOK DEF ThreadStates
<1>4. QED
  BY <1>1, <1>2, <1>3

(* A configuration with the garbler's PC and count.                        *)
LEMMA GarblerDoesSame ==
  ASSUME NEW ss, NEW g, NEW g2, NEW c, NEW d, c.PC = d.PC, c.cx = d.cx
  PROVE  /\ GarblerDoes(ss, g, c, g2) => GarblerDoes(ss, g, d, g2)
         /\ \A op, s, s2 : /\ Grows(ss, c, op, s, s2) => Grows(ss, d, op, s, s2)
                           /\ Shrinks(ss, c, op, s, s2) => Shrinks(ss, d, op, s, s2)
         /\ \A op : IsAt(ss, c, op) <=> IsAt(ss, d, op)
         /\ PastEnd(ss, c) <=> PastEnd(ss, d)
         /\ \A o : KeysCame(ss, c, o) => KeysCame(ss, d, o)
<1>1. /\ \A op : IsAt(ss, c, op) <=> IsAt(ss, d, op)
      /\ PastEnd(ss, c) <=> PastEnd(ss, d)
      /\ Pos(c) = Pos(d)
  BY DEF IsAt, PastEnd, Pos
<1>2. Ends(ss, c) <=> Ends(ss, d)
  BY <1>1 DEF Ends
<1>3. CountsTo(ss, c) = CountsTo(ss, d)
  BY <1>1 DEF CountsTo
<1>4. Proceeds(ss, g, c) = Proceeds(ss, g, d)
  BY <1>1 DEF Proceeds
<1>5. GarblerDoes(ss, g, c, g2) => GarblerDoes(ss, g, d, g2)
  BY <1>1, <1>2, <1>3, <1>4 DEF GarblerDoes
<1>7. \A op, s, s2 : /\ Grows(ss, c, op, s, s2) => Grows(ss, d, op, s, s2)
                     /\ Shrinks(ss, c, op, s, s2) => Shrinks(ss, d, op, s, s2)
  BY <1>1 DEF Grows, Shrinks
<1>8. \A o : KeysCame(ss, c, o) => KeysCame(ss, d, o)
  BY <1>1 DEF KeysCame
<1>9. QED
  BY <1>1, <1>5, <1>7, <1>8

LEMMA EvaluatorDoesSame ==
  ASSUME NEW ss, NEW v, NEW v2, NEW c, NEW d, c.PC = d.PC, c.cx = d.cx, EvaluatorDoes(ss, v, c, v2)
  PROVE  EvaluatorDoes(ss, v, d, v2)
<1>1. /\ \A op : IsAt(ss, c, op) <=> IsAt(ss, d, op)
      /\ PastEnd(ss, c) <=> PastEnd(ss, d)
  BY DEF IsAt, PastEnd
<1>2. Ends(ss, c) <=> Ends(ss, d)
  BY <1>1 DEF Ends
<1>3. CountsTo(ss, c) = CountsTo(ss, d)
  BY <1>1 DEF CountsTo
<1>4. Proceeds(ss, v, c) = Proceeds(ss, v, d)
  BY <1>1 DEF Proceeds
<1>5. QED
  BY <1>1, <1>2, <1>3, <1>4 DEF EvaluatorDoes

(* Where execute() is on the path.                                         *)
LEMMA GarblerAt ==
  ASSUME Types, NEW tr, NEW n, NEW st, NEW i, History(tr, n, st), LinkedBy(tr, n, st, i),
         th[0][0].at = "exec", th[0][0].tainted
  PROVE  /\ th[0][0].tape = 0 /\ th[0][0].run = 1 /\ th[0][0].last # "done"
         /\ th[0][0].PC = tr[n].PC /\ th[0][0].complexity = tr[n].cx
BY DEF LinkedBy, Linked, GarblerOn

LEMMA EvaluatorAt ==
  ASSUME Types, NEW tr, NEW n, NEW st, NEW i, History(tr, n, st), LinkedBy(tr, n, st, i),
         InBatch(th[1][0])
  PROVE  /\ th[1][0].tape = 0 /\ th[1][0].run = 1
         /\ th[1][0].PC = tr[i].PC /\ th[1][0].complexity = tr[i].cx
BY DEF LinkedBy, Linked, EvaluatorOn, InBatch

(* The garbler executes: everything else stays.                            *)
LEMMA LinkGarbles ==
  ASSUME Types, Link, th[0][0].at = "exec", th[0][0].tainted,
         NEW c, c.PC = th[0][0].PC, c.cx = th[0][0].complexity,
         IsAt(session, c, "branch") => session.continuous,
         th'[0][0].tainted \in BOOLEAN, GarblerDoes(session, th[0][0], c, th'[0][0]),
         Grows(session, c, "and", gates[0][0], gates'[0][0]),
         Grows(session, c, "reveal", masks[0][0], masks'[0][0]),
         Grows(session, c, "inputb", keys[0], keys'[0]),
         UNCHANGED <<session, store, chan, ot>>,
         th'[1][0] = th[1][0], gates'[1][0] = gates[1][0], masks'[1][0] = masks[1][0]
  PROVE  Link'
<1>1. PICK tr, n, st, i : History(tr, n, st) /\ LinkedBy(tr, n, st, i)
  BY LinkPaths
<1>2. tr[n].PC = c.PC /\ tr[n].cx = c.cx
  BY <1>1, GarblerAt
<1>3. /\ GarblerDoes(session, th[0][0], tr[n], th'[0][0])
      /\ Grows(session, tr[n], "and", gates[0][0], gates'[0][0])
      /\ Grows(session, tr[n], "reveal", masks[0][0], masks'[0][0])
      /\ Grows(session, tr[n], "inputb", keys[0], keys'[0])
  BY <1>2, GarblerDoesSame
<1>8. IsAt(session, tr[n], "branch") => session.continuous
  BY <1>2, GarblerDoesSame
<1>4. IsSession(session)
  BY ZeroOK
<1>5. Linked(session, th[0][0], th[1][0], gates[0][0], masks[0][0], gates[1][0], masks[1][0],
             keys[0], store[0], chan[0][0], chan[1][0], ot[0][0], ot[1][0], tr, n, st, i)
  BY <1>1 DEF LinkedBy
<1>6. InLink(session, th'[0][0], th[1][0], gates'[0][0], masks'[0][0], gates[1][0], masks[1][0],
             keys'[0], store[0], chan[0][0], chan[1][0], ot[0][0], ot[1][0])
  BY <1>1, <1>3, <1>4, <1>5, <1>8, GarblerExecutes, SMTT(60)
<1>7. QED
  BY <1>6 DEF Link

(* The evaluator executes and sends the garbler nothing.                   *)
LEMMA LinkEvaluates ==
  ASSUME Types, Link, InBatch(th[1][0]),
         NEW c, c.PC = th[1][0].PC, c.cx = th[1][0].complexity, KeysCame(session, c, ot[1][0]),
         ~PastEnd(session, c), ~(session.continuous /\ IsAt(session, c, "reveal")),
         EvaluatorDoes(session, th[1][0], c, th'[1][0]),
         Shrinks(session, c, "and", gates[1][0], gates'[1][0]),
         Shrinks(session, c, "reveal", masks[1][0], masks'[1][0]),
         UNCHANGED <<session, keys, store, chan>>,
         th'[0][0] = th[0][0], gates'[0][0] = gates[0][0], masks'[0][0] = masks[0][0],
         ot'[0][0] = <<>>, ot'[1][0] = <<>>
  PROVE  Link'
<1>1. PICK tr, n, st, i : History(tr, n, st) /\ LinkedBy(tr, n, st, i)
  BY LinkPaths
<1>2. tr[i].PC = c.PC /\ tr[i].cx = c.cx
  BY <1>1, EvaluatorAt
<1>3. /\ EvaluatorDoes(session, th[1][0], tr[i], th'[1][0])
      /\ Shrinks(session, tr[i], "and", gates[1][0], gates'[1][0])
      /\ Shrinks(session, tr[i], "reveal", masks[1][0], masks'[1][0])
  <2>1. EvaluatorDoes(session, th[1][0], tr[i], th'[1][0])
    BY <1>2, EvaluatorDoesSame
  <2>2. \A op, s, s2 : Shrinks(session, c, op, s, s2) => Shrinks(session, tr[i], op, s, s2)
    BY <1>2, GarblerDoesSame
  <2>3. QED
    BY <2>1, <2>2
<1>8. /\ KeysCame(session, tr[i], ot[1][0]) /\ ~PastEnd(session, tr[i])
      /\ ~(session.continuous /\ IsAt(session, tr[i], "reveal"))
  BY <1>2, GarblerDoesSame
<1>4. th[0][0].tainted \in BOOLEAN
  BY ZeroOK
<1>5. Linked(session, th[0][0], th'[1][0], gates[0][0], masks[0][0], gates'[1][0], masks'[1][0],
             keys[0], store[0], chan[0][0], chan[1][0], <<>>, <<>>, tr, n, st, i + 1)
  <2>1. Linked(session, th[0][0], th[1][0], gates[0][0], masks[0][0], gates[1][0], masks[1][0],
           keys[0], store[0], chan[0][0], chan[1][0], ot[0][0], ot[1][0], tr, n, st, i)
    BY <1>1 DEF LinkedBy
  <2>2. QED
    BY <1>1, <1>3, <1>4, <1>8, <2>1, EvaluatorExecutes, ZenonT(60)
<1>6. LinkedBy(tr, n, st, i + 1)'
  BY <1>5 DEF LinkedBy
<1>7. QED
  BY <1>1, <1>6 DEF Link, InLink, History, LinkedBy

(* The place of a party's first thread in its tape, as a configuration.    *)
Place(p) == [PC |-> th[p][0].PC, cx |-> th[p][0].complexity]

LEMMA OnPath ==
  ASSUME Types, Link
  PROVE  /\ th[0][0].tape = 0 /\ th[1][0].tape = 0
         /\ th[0][0].at = "exec" => th[0][0].run = 1 /\ th[0][0].last # "done"
         /\ th[1][0].at \in {"exec", "keys"} => th[1][0].run = 1
         /\ th[0][0].at = "exec" /\ ~th[0][0].tainted =>
              session.continuous /\ IsAt(session, Place(0), "reveal")
         /\ th[1][0].at = "keys" => IsAt(session, Place(1), "inputb")
<1>1. PICK tr, n, st, i : History(tr, n, st) /\ LinkedBy(tr, n, st, i)
  BY LinkPaths
<1>2. GarblerOn(session, th[0][0], tr, n, st) /\ EvaluatorOn(session, th[1][0], Sent(th[0][0], tr[n]), tr, n, i, st)
  BY <1>1 DEF LinkedBy, Linked
<1>3. /\ th[0][0].tape = 0 /\ th[1][0].tape = 0
      /\ th[0][0].at = "exec" => th[0][0].run = 1 /\ th[0][0].last # "done"
      /\ th[1][0].at \in {"exec", "keys"} => th[1][0].run = 1
  BY <1>2 DEF GarblerOn, EvaluatorOn
<1>4. ASSUME th[0][0].at = "exec", ~th[0][0].tainted
      PROVE  session.continuous /\ IsAt(session, Place(0), "reveal")
  BY <1>2, <1>4 DEF GarblerOn, Place, IsAt
<1>5. ASSUME th[1][0].at = "keys" PROVE IsAt(session, Place(1), "inputb")
  BY <1>2, <1>5 DEF EvaluatorOn, Place, IsAt
<1>6. QED
  BY <1>3, <1>4, <1>5

LEMMA ExecutingAt ==
  ASSUME Types, Link, NEW p \in Parties, NEW op, Executing(p, 0, op)
  PROVE  /\ th[p][0].at = "exec" /\ th[p][0].run = 1 /\ th[p][0].tape = 0
         /\ \A o : IsAt(session, Place(p), o) <=> o = op
         /\ ~PastEnd(session, Place(p)) /\ Position(p, 0) = Pos(Place(p))
         /\ p = 0 => th[0][0].last # "done"
         /\ p = 0 /\ op # "reveal" => th[0][0].tainted
<1>1. th[p][0].at = "exec" /\ th[p][0].tape = 0 /\ th[p][0].run = 1 /\ (p = 0 => th[0][0].last # "done")
  BY OnPath DEF Executing, At, Parties
<1>2. (\A o : IsAt(session, Place(p), o) <=> o = op) /\ ~PastEnd(session, Place(p))
  <2>1. th[p][0].PC <= Len(session.tapes[0]) /\ session.tapes[0][th[p][0].PC].op = op
    BY <1>1 DEF Executing, Tape, Instr
  <2>2. Place(p).PC = th[p][0].PC
    BY DEF Place
  <2>3. IsSession(session) /\ th[p][0].PC \in Nat
    BY ZeroOK
  <2>4. Len(session.tapes[0]) \in Nat
    BY <2>3 DEF IsSession
  <2>5. QED
    BY <2>1, <2>2, <2>3, <2>4 DEF IsAt, PastEnd
<1>3. Position(p, 0) = Pos(Place(p))
  BY <1>1 DEF Position, Pos, Place
<1>4. p = 0 /\ op # "reveal" => th[0][0].tainted
  BY <1>1, <1>2, OnPath
<1>5. QED
  BY <1>1, <1>2, <1>3, <1>4

LEMMA AtEndAt ==
  ASSUME Types, Link, NEW p \in Parties, AtEnd(p, 0)
  PROVE  /\ th[p][0].at = "exec" /\ th[p][0].run = 1
         /\ \A o : ~IsAt(session, Place(p), o)
         /\ PastEnd(session, Place(p)) /\ (p = 0 => th[0][0].tainted)
<1>1. th[p][0].at = "exec" /\ th[p][0].tape = 0 /\ th[p][0].run = 1
  BY OnPath DEF AtEnd, At, Parties
<1>2. (\A o : ~IsAt(session, Place(p), o)) /\ PastEnd(session, Place(p))
  <2>1. th[p][0].PC > Len(session.tapes[0])
    BY <1>1 DEF AtEnd, Tape
  <2>2. Place(p).PC = th[p][0].PC
    BY DEF Place
  <2>3. IsSession(session) /\ th[p][0].PC \in Nat
    BY ZeroOK
  <2>4. Len(session.tapes[0]) \in Nat
    BY <2>3 DEF IsSession
  <2>5. QED
    BY <2>1, <2>2, <2>3, <2>4 DEF IsAt, PastEnd
<1>3. p = 0 => th[0][0].tainted
  BY <1>1, <1>2, OnPath
<1>4. QED
  BY <1>1, <1>2, <1>3

LEMMA NoFailure == ASSUME OnlyBranchingFails, session' = session, failure' = failure PROVE OnlyBranchingFails'
BY DEF OnlyBranchingFails

(* The garbler's instructions.                                             *)
LEMMA Link_Garble_and ==
  ASSUME Types, Link, OnlyBranchingFails, Garble_and(0)
  PROVE  Link' /\ OnlyBranchingFails'
<1>1. /\ Executing(0, 0, "and")
      /\ UNCHANGED <<session, masks, keys, store, chan, ot, failure>>
  BY DEF Garble_and
<1>2. 0 \in Threads /\ 0 \in Parties /\ 1 \in Parties /\ th[0][0] \in ThreadStates
  BY ZeroOK, SMTT(30)
<1>3. /\ th'[0][0] = [th[0][0] EXCEPT !.PC = @ + 1, !.complexity = @ + 1,
                       !.at = IF th[0][0].complexity + 1 >= BatchSize THEN "send" ELSE "exec",
                       !.last = "time"]
      /\ gates'[0][0] = Append(gates[0][0], Position(0, 0))
      /\ Elsewhere(th, th', 0, 0) /\ Elsewhere(gates, gates', 0, 0)
  BY <1>2, Do_Garble_and
<1>4. /\ th'[0][0].tape = th[0][0].tape /\ th'[0][0].run = th[0][0].run
      /\ th'[0][0].PC = th[0][0].PC + 1 /\ th'[0][0].complexity = th[0][0].complexity + 1
      /\ th'[0][0].at = IF th[0][0].complexity + 1 >= BatchSize THEN "send" ELSE "exec"
      /\ th'[0][0].last = "time" /\ th'[0][0].tainted = th[0][0].tainted
      /\ th'[0][0].reg = th[0][0].reg
  BY <1>2, <1>3 DEF ThreadStates
<1>5. th'[1][0] = th[1][0] /\ gates'[1][0] = gates[1][0]
  BY <1>2, <1>3 DEF Elsewhere
<1>6. /\ th[0][0].at = "exec" /\ th[0][0].tainted
      /\ \A o : IsAt(session, Place(0), o) <=> o = "and"
      /\ ~PastEnd(session, Place(0)) /\ Position(0, 0) = Pos(Place(0))
  BY <1>1, <1>2, ExecutingAt
<1>7. Place(0).PC = th[0][0].PC /\ Place(0).cx = th[0][0].complexity
  BY DEF Place
<1>8. GarblerDoes(session, th[0][0], Place(0), th'[0][0])
  <2>1. Ends(session, Place(0)) <=> th[0][0].complexity + 1 >= BatchSize
    BY <1>6, <1>7 DEF Ends
  <2>2. Proceeds(session, th[0][0], Place(0)) = th[0][0].PC + 1
    BY <1>6 DEF Proceeds
  <2>3. CountsTo(session, Place(0)) = th[0][0].complexity + 1
    BY <1>6, <1>7 DEF CountsTo
  <2>4. QED
    BY <1>4, <1>6, <2>1, <2>2, <2>3 DEF GarblerDoes
<1>9. /\ Grows(session, Place(0), "and", gates[0][0], gates'[0][0])
      /\ Grows(session, Place(0), "reveal", masks[0][0], masks'[0][0])
      /\ Grows(session, Place(0), "inputb", keys[0], keys'[0])
  BY <1>1, <1>3, <1>6 DEF Grows
<1>10. th'[0][0].tainted \in BOOLEAN
  BY <1>4, ZeroOK
<1>11. Link'
  BY <1>1, <1>5, <1>6, <1>7, <1>8, <1>9, <1>10, LinkGarbles
<1>12. QED
  BY <1>1, <1>11, NoFailure

(* An instruction that has no gate and does not end the batch.             *)
LEMMA GarblerGoes ==
  ASSUME Types, Link, NEW op, Executing(0, 0, op), op \notin {"and", "branch"},
         op = "reveal" => ~session.continuous /\ th[0][0].tainted, th'[0][0].tainted \in BOOLEAN,
         th'[0][0].tape = th[0][0].tape, th'[0][0].run = th[0][0].run,
         th'[0][0].PC = th[0][0].PC + 1, th'[0][0].complexity = th[0][0].complexity,
         th'[0][0].at = "exec", th'[0][0].last = th[0][0].last, th'[0][0].tainted,
         op # "reveal" => th'[0][0].reg = th[0][0].reg,
         Elsewhere(th, th', 0, 0), UNCHANGED <<session, gates, store, chan, ot>>,
         masks'[0][0] = IF op = "reveal" THEN Append(masks[0][0], Position(0, 0)) ELSE masks[0][0],
         masks'[1][0] = masks[1][0],
         keys'[0] = IF op = "inputb" THEN Append(keys[0], Position(0, 0)) ELSE keys[0]
  PROVE  Link'
<1>2. 0 \in Threads /\ 0 \in Parties /\ 1 \in Parties
  BY ZeroOK
<1>5. th'[1][0] = th[1][0]
  BY <1>2 DEF Elsewhere
<1>6. /\ th[0][0].at = "exec" /\ th[0][0].tainted /\ th[0][0].last # "done"
      /\ \A o : IsAt(session, Place(0), o) <=> o = op
      /\ ~PastEnd(session, Place(0)) /\ Position(0, 0) = Pos(Place(0))
  BY <1>2, ExecutingAt
<1>7. Place(0).PC = th[0][0].PC /\ Place(0).cx = th[0][0].complexity
  BY DEF Place
<1>8. GarblerDoes(session, th[0][0], Place(0), th'[0][0])
  <2>1. ~Ends(session, Place(0))
    BY <1>6, <1>7 DEF Ends
  <2>2. Proceeds(session, th[0][0], Place(0)) = th[0][0].PC + 1
    BY <1>6 DEF Proceeds
  <2>3. CountsTo(session, Place(0)) = th[0][0].complexity
    BY <1>6, <1>7 DEF CountsTo
  <2>4. QED
    BY <1>6, <2>1, <2>2, <2>3 DEF GarblerDoes
<1>9. /\ Grows(session, Place(0), "and", gates[0][0], gates'[0][0])
      /\ Grows(session, Place(0), "reveal", masks[0][0], masks'[0][0])
      /\ Grows(session, Place(0), "inputb", keys[0], keys'[0])
  BY <1>6 DEF Grows
<1>12. IsAt(session, Place(0), "branch") => session.continuous
  BY <1>6
<1>13. gates'[1][0] = gates[1][0]
  OBVIOUS
<1>11. QED
  BY <1>5, <1>6, <1>7, <1>8, <1>9, <1>12, <1>13, LinkGarbles

LEMMA Link_Garble_inputb ==
  ASSUME Types, Link, OnlyBranchingFails, Garble_inputb(0)
  PROVE  Link' /\ OnlyBranchingFails'
<1>1. /\ Executing(0, 0, "inputb")
      /\ UNCHANGED <<session, gates, masks, store, chan, ot, failure>>
  BY DEF Garble_inputb
<1>2. 0 \in Threads /\ 0 \in Parties /\ 1 \in Parties /\ th[0][0] \in ThreadStates
  BY ZeroOK
<1>3. /\ th'[0][0] = [th[0][0] EXCEPT !.PC = @ + 1, !.at = "exec"]
      /\ keys'[0] = Append(keys[0], Position(0, 0)) /\ Elsewhere(th, th', 0, 0)
  BY <1>2, Do_Garble_inputb
<1>6. th[0][0].at = "exec" /\ th[0][0].tainted
  BY <1>1, <1>2, ExecutingAt
<1>4. /\ th'[0][0].tape = th[0][0].tape /\ th'[0][0].run = th[0][0].run
      /\ th'[0][0].PC = th[0][0].PC + 1 /\ th'[0][0].complexity = th[0][0].complexity
      /\ th'[0][0].at = "exec" /\ th'[0][0].last = th[0][0].last
      /\ th'[0][0].tainted = th[0][0].tainted /\ th'[0][0].reg = th[0][0].reg
  BY <1>2, <1>3 DEF ThreadStates
<1>5. th'[0][0].tainted /\ th'[0][0].tainted \in BOOLEAN
  BY <1>4, <1>6, ZeroOK
<1>7. Link'
  BY <1>1, <1>3, <1>4, <1>5, GarblerGoes
<1>8. QED
  BY <1>1, <1>7, NoFailure

LEMMA Link_garbler_join_tape ==
  ASSUME Types, Link, OnlyBranchingFails, join_tape(0, 0)
  PROVE  Link' /\ OnlyBranchingFails'
<1>1. /\ Executing(0, 0, "join_tape")
      /\ UNCHANGED <<session, gates, masks, keys, store, chan, ot, failure>>
  BY DEF join_tape
<1>2. 0 \in Threads /\ 0 \in Parties /\ 1 \in Parties /\ th[0][0] \in ThreadStates
  BY ZeroOK
<1>3. /\ th'[0][0] = [th[0][0] EXCEPT !.PC = @ + 1, !.at = "exec"]
      /\ Elsewhere(th, th', 0, 0)
  BY <1>2, Do_join_tape
<1>6. th[0][0].at = "exec" /\ th[0][0].tainted
  BY <1>1, <1>2, ExecutingAt
<1>4. /\ th'[0][0].tape = th[0][0].tape /\ th'[0][0].run = th[0][0].run
      /\ th'[0][0].PC = th[0][0].PC + 1 /\ th'[0][0].complexity = th[0][0].complexity
      /\ th'[0][0].at = "exec" /\ th'[0][0].last = th[0][0].last
      /\ th'[0][0].tainted = th[0][0].tainted /\ th'[0][0].reg = th[0][0].reg
  BY <1>2, <1>3 DEF ThreadStates
<1>5. th'[0][0].tainted /\ th'[0][0].tainted \in BOOLEAN
  BY <1>4, <1>6, ZeroOK
<1>7. Link'
  BY <1>1, <1>3, <1>4, <1>5, GarblerGoes
<1>8. QED
  BY <1>1, <1>7, NoFailure

LEMMA Link_Garble_reveal ==
  ASSUME Types, Link, OnlyBranchingFails, Garble_reveal(0)
  PROVE  Link' /\ OnlyBranchingFails'
<1>1. /\ Executing(0, 0, "reveal") /\ (~session.continuous \/ th[0][0].tainted)
      /\ UNCHANGED <<session, gates, keys, store, chan, ot, failure>>
  BY DEF Garble_reveal
<1>2. /\ 0 \in Threads /\ 0 \in Parties /\ 1 \in Parties /\ th[0][0] \in ThreadStates
      /\ session.continuous \in BOOLEAN
  BY ZeroOK, SMTT(30)
<1>3. /\ th'[0][0] = IF session.continuous
                     THEN [th[0][0] EXCEPT !.tainted = FALSE, !.at = "send", !.last = "time"]
                     ELSE [th[0][0] EXCEPT !.PC = @ + 1, !.reg = FALSE, !.tainted = TRUE]
      /\ masks'[0][0] = Append(masks[0][0], Position(0, 0))
      /\ Elsewhere(th, th', 0, 0) /\ Elsewhere(masks, masks', 0, 0)
  BY <1>2, Do_Garble_reveal
<1>5. th'[1][0] = th[1][0] /\ masks'[1][0] = masks[1][0] /\ gates'[1][0] = gates[1][0]
  BY <1>1, <1>2, <1>3 DEF Elsewhere
<1>6. /\ th[0][0].at = "exec" /\ th[0][0].last # "done"
      /\ \A o : IsAt(session, Place(0), o) <=> o = "reveal"
      /\ ~PastEnd(session, Place(0)) /\ Position(0, 0) = Pos(Place(0))
  BY <1>1, <1>2, ExecutingAt
<1>11. th[0][0].tainted
  BY <1>1, <1>2, <1>6, OnPath
<1>7. ASSUME session.continuous PROVE Link'
  <2>1. /\ th'[0][0].tape = th[0][0].tape /\ th'[0][0].run = th[0][0].run
        /\ th'[0][0].PC = th[0][0].PC /\ th'[0][0].complexity = th[0][0].complexity
        /\ th'[0][0].at = "send" /\ th'[0][0].last = "time" /\ th'[0][0].tainted = FALSE
        /\ th'[0][0].reg = th[0][0].reg
    BY <1>2, <1>3, <1>7 DEF ThreadStates
  <2>2. Place(0).PC = th[0][0].PC /\ Place(0).cx = th[0][0].complexity
    BY DEF Place
  <2>3. GarblerDoes(session, th[0][0], Place(0), th'[0][0])
    <3>1. Ends(session, Place(0))
      BY <1>6, <1>7 DEF Ends
    <3>2. QED
      BY <1>6, <1>7, <2>1, <3>1 DEF GarblerDoes
  <2>4. /\ Grows(session, Place(0), "and", gates[0][0], gates'[0][0])
        /\ Grows(session, Place(0), "reveal", masks[0][0], masks'[0][0])
        /\ Grows(session, Place(0), "inputb", keys[0], keys'[0])
    BY <1>1, <1>3, <1>6 DEF Grows
  <2>5. th'[0][0].tainted \in BOOLEAN
    BY <2>1
  <2>6. QED
    BY <1>1, <1>5, <1>6, <1>7, <1>11, <2>2, <2>3, <2>4, <2>5, LinkGarbles
<1>8. ASSUME ~session.continuous PROVE Link'
  <2>1. /\ th'[0][0].tape = th[0][0].tape /\ th'[0][0].run = th[0][0].run
        /\ th'[0][0].PC = th[0][0].PC + 1 /\ th'[0][0].complexity = th[0][0].complexity
        /\ th'[0][0].at = "exec" /\ th'[0][0].last = th[0][0].last /\ th'[0][0].tainted = TRUE
    BY <1>2, <1>3, <1>6, <1>8 DEF ThreadStates
  <2>3. th'[0][0].tainted /\ th'[0][0].tainted \in BOOLEAN
    BY <2>1
  <2>2. QED
    BY <1>1, <1>3, <1>5, <1>8, <1>11, <2>1, <2>3, GarblerGoes
<1>9. Link'
  BY <1>2, <1>7, <1>8
<1>10. QED
  BY <1>1, <1>9, NoFailure

LEMMA Link_Garble_branch ==
  ASSUME Types, Link, OnlyBranchingFails, Garble_branch(0)
  PROVE  Link' /\ OnlyBranchingFails'
<1>1. /\ Executing(0, 0, "branch")
      /\ UNCHANGED <<session, gates, masks, keys, store, chan, ot>>
  BY DEF Garble_branch
<1>2. /\ 0 \in Threads /\ 0 \in Parties /\ 1 \in Parties /\ th[0][0] \in ThreadStates
      /\ session.continuous \in BOOLEAN
  BY ZeroOK
<1>3. /\ session.continuous =>
           /\ th'[0][0] = [th[0][0] EXCEPT !.PC = IF th[0][0].reg THEN Instr(0, 0).to ELSE @ + 1]
           /\ Elsewhere(th, th', 0, 0) /\ UNCHANGED failure
      /\ ~session.continuous =>
           UNCHANGED th /\ failure'[0] = "branching" /\ \A q \in Parties : q # 0 => failure'[q] = failure[q]
  BY <1>2, Do_Branch DEF Garble_branch
<1>6. /\ th[0][0].at = "exec" /\ th[0][0].last # "done" /\ th[0][0].tainted /\ th[0][0].tape = 0
      /\ \A o : IsAt(session, Place(0), o) <=> o = "branch"
      /\ ~PastEnd(session, Place(0))
  BY <1>1, <1>2, ExecutingAt
<1>7. CASE session.continuous
  <2>0. /\ th'[0][0] = [th[0][0] EXCEPT !.PC = IF th[0][0].reg THEN Instr(0, 0).to ELSE @ + 1]
        /\ Elsewhere(th, th', 0, 0) /\ UNCHANGED failure
    BY <1>3, <1>7
  <2>1. /\ th'[0][0].tape = th[0][0].tape /\ th'[0][0].run = th[0][0].run
        /\ th'[0][0].PC = IF th[0][0].reg THEN Instr(0, 0).to ELSE th[0][0].PC + 1
        /\ th'[0][0].complexity = th[0][0].complexity
        /\ th'[0][0].at = "exec" /\ th'[0][0].last = th[0][0].last /\ th'[0][0].tainted = th[0][0].tainted
        /\ th'[0][0].reg = th[0][0].reg
    <3>1. PICK pc : pc = IF th[0][0].reg THEN Instr(0, 0).to ELSE th[0][0].PC + 1
      OBVIOUS
    <3>2. th'[0][0] = [th[0][0] EXCEPT !.PC = pc]
      BY <2>0, <3>1
    <3>3. /\ th'[0][0].tape = th[0][0].tape /\ th'[0][0].run = th[0][0].run
          /\ th'[0][0].PC = pc /\ th'[0][0].complexity = th[0][0].complexity
          /\ th'[0][0].at = th[0][0].at /\ th'[0][0].last = th[0][0].last
          /\ th'[0][0].tainted = th[0][0].tainted /\ th'[0][0].reg = th[0][0].reg
      BY <1>2, <3>2 DEF ThreadStates
    <3>4. QED
      BY <1>6, <3>1, <3>3
  <2>2. Place(0).PC = th[0][0].PC /\ Place(0).cx = th[0][0].complexity
    BY DEF Place
  <2>3. GarblerDoes(session, th[0][0], Place(0), th'[0][0])
    <3>1. ~Ends(session, Place(0))
      BY <1>6, <1>7 DEF Ends
    <3>2. Proceeds(session, th[0][0], Place(0)) = IF th[0][0].reg THEN Instr(0, 0).to ELSE th[0][0].PC + 1
      BY <1>6, <2>2 DEF Proceeds, Instr, Tape
    <3>3. CountsTo(session, Place(0)) = th[0][0].complexity
      BY <1>6, <2>2 DEF CountsTo
    <3>4. QED
      BY <1>6, <1>7, <2>1, <3>1, <3>2, <3>3 DEF GarblerDoes
  <2>4. /\ Grows(session, Place(0), "and", gates[0][0], gates'[0][0])
        /\ Grows(session, Place(0), "reveal", masks[0][0], masks'[0][0])
        /\ Grows(session, Place(0), "inputb", keys[0], keys'[0])
    BY <1>1, <1>6 DEF Grows
  <2>5. th'[0][0].tainted \in BOOLEAN
    BY <2>1, ZeroOK
  <2>7. th'[1][0] = th[1][0] /\ gates'[1][0] = gates[1][0] /\ masks'[1][0] = masks[1][0]
    BY <1>1, <1>2, <2>0 DEF Elsewhere
  <2>6. Link'
    BY <1>1, <1>6, <1>7, <2>2, <2>3, <2>4, <2>5, <2>7, LinkGarbles
  <2>8. QED
    BY <1>1, <2>0, <2>6, NoFailure
<1>8. CASE ~session.continuous
  <2>1. UNCHANGED th /\ failure'[0] = "branching" /\ failure'[1] = failure[1]
    BY <1>2, <1>3, <1>8
  <2>2. Link'
    BY <1>1, <2>1, LinkStays
  <2>3. QED
    BY <1>1, <1>8, <2>1, <2>2 DEF OnlyBranchingFails, Parties
<1>10. QED
  BY <1>2, <1>7, <1>8

LEMMA Link_Garble_end ==
  ASSUME Types, Link, OnlyBranchingFails, Garble_end(0)
  PROVE  Link' /\ OnlyBranchingFails'
<1>1. /\ AtEnd(0, 0)
      /\ UNCHANGED <<session, gates, masks, keys, store, chan, ot, failure>>
  BY DEF Garble_end
<1>2. /\ 0 \in Threads /\ 0 \in Parties /\ 1 \in Parties /\ th[0][0] \in ThreadStates
  BY ZeroOK
<1>3. /\ th'[0][0] = [th[0][0] EXCEPT !.at = "send", !.last = "done"]
      /\ Elsewhere(th, th', 0, 0)
  BY <1>2, Do_Garble_end
<1>4. /\ th'[0][0].tape = th[0][0].tape /\ th'[0][0].run = th[0][0].run
      /\ th'[0][0].PC = th[0][0].PC /\ th'[0][0].complexity = th[0][0].complexity
      /\ th'[0][0].at = "send" /\ th'[0][0].last = "done" /\ th'[0][0].tainted = th[0][0].tainted
      /\ th'[0][0].reg = th[0][0].reg
  BY <1>2, <1>3 DEF ThreadStates
<1>6. /\ th[0][0].at = "exec" /\ th[0][0].tainted
      /\ \A o : ~IsAt(session, Place(0), o)
      /\ PastEnd(session, Place(0))
  BY <1>1, <1>2, AtEndAt
<1>7. Place(0).PC = th[0][0].PC /\ Place(0).cx = th[0][0].complexity
  BY DEF Place
<1>8. GarblerDoes(session, th[0][0], Place(0), th'[0][0])
  <2>1. Ends(session, Place(0))
    BY <1>6, <1>7 DEF Ends
  <2>2. Proceeds(session, th[0][0], Place(0)) = th[0][0].PC
    BY <1>6 DEF Proceeds
  <2>4. QED
    BY <1>4, <1>6, <2>1, <2>2 DEF GarblerDoes
<1>9. /\ Grows(session, Place(0), "and", gates[0][0], gates'[0][0])
      /\ Grows(session, Place(0), "reveal", masks[0][0], masks'[0][0])
      /\ Grows(session, Place(0), "inputb", keys[0], keys'[0])
  BY <1>1, <1>6 DEF Grows
<1>10. th'[0][0].tainted \in BOOLEAN
  BY <1>4, ZeroOK
<1>5. th'[1][0] = th[1][0] /\ gates'[1][0] = gates[1][0] /\ masks'[1][0] = masks[1][0]
  BY <1>1, <1>2, <1>3 DEF Elsewhere
<1>11. Link'
  BY <1>1, <1>5, <1>6, <1>7, <1>8, <1>9, <1>10, LinkGarbles
<1>12. QED
  BY <1>1, <1>11, NoFailure

LEMMA Link_Garble_reveal_again ==
  ASSUME Types, Link, OnlyBranchingFails, Garble_reveal_again(0)
  PROVE  Link' /\ OnlyBranchingFails'
<1>1. /\ Executing(0, 0, "reveal") /\ ~th[0][0].tainted
      /\ UNCHANGED <<session, gates, masks, keys, store, ot>>
  BY DEF Garble_reveal_again
<1>2. /\ 0 \in Threads /\ 0 \in Parties /\ 1 \in Parties /\ th[0][0] \in ThreadStates
  BY ZeroOK
<1>3. /\ chan[0][0] # <<>> /\ chan'[0][0] = Tail(chan[0][0]) /\ Elsewhere(chan, chan', 0, 0)
      /\ Head(chan[0][0]).type = "value" =>
           /\ th'[0][0] = [th[0][0] EXCEPT !.PC = @ + 1, !.reg = Head(chan[0][0]).bit, !.tainted = TRUE]
           /\ Elsewhere(th, th', 0, 0) /\ UNCHANGED failure
  BY <1>2, Do_Garble_reveal_again
<1>4. th[0][0].at = "exec" /\ th[0][0].run = 1 /\ th[0][0].tape = 0
  BY <1>1, <1>2, ExecutingAt
<1>5. PICK tr, n, st, i : History(tr, n, st) /\ LinkedBy(tr, n, st, i)
  BY LinkPaths
<1>6. /\ Head(chan[0][0]).type = "value"
      /\ \A g2 : /\ g2.tape = 0 /\ g2.run = 1 /\ g2.PC = th[0][0].PC + 1 /\ g2.tainted
                 /\ g2.reg = Head(chan[0][0]).bit /\ g2.at = "exec"
                 /\ g2.complexity = th[0][0].complexity /\ g2.last = th[0][0].last
                 => Linked(session, g2, th[1][0], gates[0][0], masks[0][0], gates[1][0], masks[1][0],
                           keys[0], store[0], Tail(chan[0][0]), chan[1][0], ot[0][0], ot[1][0],
                           tr, n, st, i)
  <2>1. Linked(session, th[0][0], th[1][0], gates[0][0], masks[0][0], gates[1][0], masks[1][0],
           keys[0], store[0], chan[0][0], chan[1][0], ot[0][0], ot[1][0], tr, n, st, i)
    BY <1>5 DEF LinkedBy
  <2>2. ~th[0][0].tainted /\ chan[0][0] # <<>> /\ th[0][0].at = "exec"
    BY <1>1, <1>3, <1>4
  <2>3. QED
    BY <1>5, <2>1, <2>2, GarblerLearns, SMTT(60)
<1>7. /\ th'[0][0] = [th[0][0] EXCEPT !.PC = @ + 1, !.reg = Head(chan[0][0]).bit, !.tainted = TRUE]
      /\ Elsewhere(th, th', 0, 0) /\ UNCHANGED failure
  BY <1>3, <1>6
<1>8. /\ th'[0][0].tape = 0 /\ th'[0][0].run = 1 /\ th'[0][0].PC = th[0][0].PC + 1
      /\ th'[0][0].tainted /\ th'[0][0].reg = Head(chan[0][0]).bit /\ th'[0][0].at = "exec"
      /\ th'[0][0].complexity = th[0][0].complexity /\ th'[0][0].last = th[0][0].last
  BY <1>2, <1>4, <1>7 DEF ThreadStates
<1>9. Linked(session, th'[0][0], th[1][0], gates[0][0], masks[0][0], gates[1][0], masks[1][0],
             keys[0], store[0], Tail(chan[0][0]), chan[1][0], ot[0][0], ot[1][0], tr, n, st, i)
  BY <1>6, <1>8
<1>10. th'[1][0] = th[1][0] /\ chan'[1][0] = chan[1][0]
  BY <1>2, <1>3, <1>7 DEF Elsewhere
<1>11. LinkedBy(tr, n, st, i)'
  BY <1>1, <1>3, <1>9, <1>10 DEF LinkedBy
<1>12. Link'
  BY <1>5, <1>11 DEF Link, InLink, History, LinkedBy
<1>13. QED
  BY <1>1, <1>7, <1>12, NoFailure

(* Nothing starts a second tape.                                           *)
LEMMA NoOtherTape ==
  ASSUME Types, Link, OneTape(session), NEW p \in Parties
  PROVE  ~Executing(p, 0, "run_tape")
<1> SUFFICES ASSUME Executing(p, 0, "run_tape") PROVE FALSE
  OBVIOUS
<1>1. IsAt(session, Place(p), "run_tape") /\ th[p][0].PC \in Nat \ {0}
  BY ExecutingAt, ZeroOK
<1>2. session.tapes[0] \in Seq(Instructions)
  BY ZeroOK DEF IsSession
<1>3. th[p][0].PC \in DOMAIN session.tapes[0] /\ session.tapes[0][th[p][0].PC].op = "run_tape"
  BY <1>1, <1>2 DEF IsAt, Place
<1>4. QED
  BY <1>3 DEF OneTape

(* At the end of the tape no bit is awaited.                               *)
LEMMA DoneTainted ==
  ASSUME Types, NEW tr, NEW n, NEW st, NEW i, History(tr, n, st), LinkedBy(tr, n, st, i),
         th[0][0].last = "done"
  PROVE  th[0][0].tainted
<1> SUFFICES ASSUME ~th[0][0].tainted PROVE FALSE
  OBVIOUS
<1>1. GarblerOn(session, th[0][0], tr, n, st) /\ PathOK(session, tr, n, st)
  BY DEF LinkedBy, Linked
<1>2. n \in Nat \ {0} /\ n > 1 /\ IsAt(session, tr[n - 1], "reveal") /\ tr[n].end
  BY <1>1, HistoryTypes DEF GarblerOn
<1>3. n - 1 \in 1 .. n - 1 /\ n - 1 \in Nat /\ (n - 1) + 1 = n
  BY <1>2
<1>4. Succ(session, tr[n - 1], tr[n])
  BY <1>1, <1>3 DEF PathOK
<1>5. tr[n - 1].PC \in Nat /\ Len(session.tapes[0]) \in Nat
  BY <1>3, ZeroOK, HistoryTypes DEF IsSession
<1>6. QED
  BY <1>2, <1>4, <1>5 DEF Succ, IsAt, PastEnd

(* The garbler sends its batch.                                            *)
LEMMA Link_send ==
  ASSUME Types, Link, OnlyBranchingFails, send(0)
  PROVE  Link' /\ OnlyBranchingFails'
<1>1. th[0][0].at = "send" /\ UNCHANGED <<session, keys, store, ot, failure>>
  BY DEF send, At
<1>2. /\ 0 \in Threads /\ 0 \in Parties /\ 1 \in Parties /\ th[0][0] \in ThreadStates
      /\ session.continuous \in BOOLEAN
  BY ZeroOK
<1> DEFINE m == [type |-> "MORE", gates |-> gates[0][0], masks |-> masks[0][0]]
<1>3. /\ chan'[1][0] = Append(chan[1][0], m)
      /\ gates'[0][0] = <<>> /\ masks'[0][0] = <<>>
      /\ Elsewhere(chan, chan', 1, 0) /\ Elsewhere(gates, gates', 0, 0)
      /\ Elsewhere(masks, masks', 0, 0) /\ Elsewhere(th, th', 0, 0)
      /\ th'[0][0] = IF session.continuous /\ keys[0] # <<>>
                     THEN [th[0][0] EXCEPT !.at = "inputs"]
                     ELSE [th[0][0] EXCEPT !.complexity = 0,
                             !.at = IF @ = "post_inputs" THEN "ended"
                                    ELSE IF th[0][0].last = "done" THEN "finish" ELSE "exec"]
  BY <1>2, Do_send
<1>4. m \in Batches /\ m.gates = gates[0][0] /\ m.masks = masks[0][0]
  BY <1>2, BufferTypes DEF Batches
<1> HIDE DEF m
<1>5. /\ th'[0][0].tape = th[0][0].tape /\ th'[0][0].run = th[0][0].run
      /\ th'[0][0].PC = th[0][0].PC /\ th'[0][0].last = th[0][0].last
      /\ th'[0][0].tainted = th[0][0].tainted /\ th'[0][0].reg = th[0][0].reg
      /\ \/ th'[0][0].at = "inputs" /\ session.continuous
         \/ th'[0][0].at = "finish" /\ th[0][0].last = "done"
         \/ th'[0][0].at = "exec" /\ th[0][0].last # "done" /\ th'[0][0].complexity = 0
  <2>1. CASE session.continuous /\ keys[0] # <<>>
    <3>1. th'[0][0] = [th[0][0] EXCEPT !.at = "inputs"]
      BY <1>3, <2>1
    <3>2. QED
      BY <1>2, <2>1, <3>1 DEF ThreadStates
  <2>2. CASE ~(session.continuous /\ keys[0] # <<>>)
    <3>1. PICK at : at = IF th[0][0].last = "done" THEN "finish" ELSE "exec"
      OBVIOUS
    <3>2. th'[0][0] = [th[0][0] EXCEPT !.complexity = 0, !.at = at]
      BY <1>1, <1>3, <2>2, <3>1
    <3>3. /\ th'[0][0].tape = th[0][0].tape /\ th'[0][0].run = th[0][0].run
          /\ th'[0][0].PC = th[0][0].PC /\ th'[0][0].last = th[0][0].last
          /\ th'[0][0].tainted = th[0][0].tainted /\ th'[0][0].reg = th[0][0].reg
          /\ th'[0][0].at = at /\ th'[0][0].complexity = 0
      BY <1>2, <3>2 DEF ThreadStates
    <3>4. QED
      BY <3>1, <3>3
  <2>3. QED
    BY <2>1, <2>2
<1>6. PICK tr, n, st, i : History(tr, n, st) /\ LinkedBy(tr, n, st, i)
  BY LinkPaths
<1>7. GarblerOn(session, th'[0][0], tr, n, st)
  <2>1. GarblerOn(session, th[0][0], tr, n, st)
    BY <1>6 DEF LinkedBy, Linked
  <2>2. th[0][0].run = 1 /\ tr[n].cx = 0
    BY <1>1, <2>1 DEF GarblerOn
  <2>3. CASE th'[0][0].at = "inputs" /\ session.continuous
    BY <1>1, <1>5, <2>1, <2>2, <2>3 DEF GarblerOn
  <2>4. CASE th'[0][0].at = "finish" /\ th[0][0].last = "done"
    <3>1. th[0][0].tainted
      BY <1>6, <2>4, DoneTainted
    <3>2. QED
      BY <1>1, <1>5, <2>1, <2>2, <2>4, <3>1 DEF GarblerOn
  <2>5. CASE th'[0][0].at = "exec" /\ th[0][0].last # "done" /\ th'[0][0].complexity = 0
    BY <1>1, <1>5, <2>1, <2>2, <2>5 DEF GarblerOn
  <2>6. QED
    BY <1>5, <2>3, <2>4, <2>5
<1>8. th'[0][0].at \in {"inputs", "finish", "exec"}
  BY <1>5
<1>9. Linked(session, th'[0][0], th[1][0], <<>>, <<>>, gates[1][0], masks[1][0],
             keys[0], store[0], chan[0][0], Append(chan[1][0], m), ot[0][0], ot[1][0], tr, n, st, i)
  <2>1. Linked(session, th[0][0], th[1][0], gates[0][0], masks[0][0], gates[1][0], masks[1][0],
           keys[0], store[0], chan[0][0], chan[1][0], ot[0][0], ot[1][0], tr, n, st, i)
    BY <1>6 DEF LinkedBy
  <2>2. th'[0][0].tainted = th[0][0].tainted /\ th'[0][0].reg = th[0][0].reg
    BY <1>5
  <2>3. QED
    BY <1>1, <1>4, <1>6, <1>7, <1>8, <2>1, <2>2, GarblerSends, ZenonT(60)
<1>10. th'[1][0] = th[1][0] /\ chan'[0][0] = chan[0][0] /\ gates'[1][0] = gates[1][0] /\ masks'[1][0] = masks[1][0]
  BY <1>2, <1>3 DEF Elsewhere
<1>11. LinkedBy(tr, n, st, i)'
  BY <1>1, <1>3, <1>9, <1>10 DEF LinkedBy
<1>12. Link'
  BY <1>6, <1>11 DEF Link, InLink, History, LinkedBy
<1>13. QED
  BY <1>1, <1>12, NoFailure

(* The garbler's thread goes somewhere else.                               *)
LEMMA LinkGarblerMoves ==
  ASSUME Types, NEW tr, NEW n, NEW st, NEW i, History(tr, n, st), LinkedBy(tr, n, st, i),
         GarblerOn(session, th'[0][0], tr, n, st),
         Sent(th'[0][0], tr[n]) = Sent(th[0][0], tr[n]),
         th'[0][0].tainted = th[0][0].tainted, th'[0][0].reg = th[0][0].reg,
         IF session.continuous THEN Over0(th'[0][0]) <=> Over0(th[0][0])
         ELSE th'[0][0].at \in {"post_inputs", "ended"} <=> th[0][0].at \in {"post_inputs", "ended"},
         TransfersOn(session, th[1][0], ot'[0][0], ot'[1][0], keys'[0], tr, n, i),
         UNCHANGED <<session, gates, masks, store, chan>>, th'[1][0] = th[1][0]
  PROVE  Link'
<1>1. Linked(session, th[0][0], th[1][0], gates[0][0], masks[0][0], gates[1][0], masks[1][0],
           keys[0], store[0], chan[0][0], chan[1][0], ot[0][0], ot[1][0], tr, n, st, i)
  BY DEF LinkedBy
<1>2. Linked(session, th'[0][0], th[1][0], gates[0][0], masks[0][0], gates[1][0], masks[1][0],
             keys'[0], store[0], chan[0][0], chan[1][0], ot'[0][0], ot'[1][0], tr, n, st, i)
  BY <1>1, GarblerMoves, SMTT(60)
<1>3. LinkedBy(tr, n, st, i)'
  BY <1>2 DEF LinkedBy
<1>4. QED
  BY <1>3 DEF Link, InLink, History, LinkedBy

LEMMA LinkTransfers ==
  ASSUME NEW tr, NEW n, NEW st, NEW i, LinkedBy(tr, n, st, i)
  PROVE  /\ TransfersOn(session, th[1][0], ot[0][0], ot[1][0], keys[0], tr, n, i)
         /\ GarblerOn(session, th[0][0], tr, n, st) /\ PathOK(session, tr, n, st)
         /\ EvaluatorOn(session, th[1][0], Sent(th[0][0], tr[n]), tr, n, i, st)
BY DEF LinkedBy, Linked

LEMMA Link_garbler_StartTape ==
  ASSUME Types, Link, OnlyBranchingFails, StartTape(0, 0), Scheduled(0)
  PROVE  Link' /\ OnlyBranchingFails' /\ th'[0][0].run = 1
<1>0. queue[0][0] = <<0>> /\ th[0][0].run = 0
  BY DEF StartTape, Scheduled
<1> USE <1>0
<1>1. /\ th[0][0].at = "schedule"
      /\ UNCHANGED <<session, gates, masks, keys, store, chan, ot, failure>>
  BY DEF StartTape, At
<1>2. /\ 0 \in Threads /\ 0 \in Parties /\ 1 \in Parties /\ th[0][0] \in ThreadStates
      /\ session.continuous \in BOOLEAN
  BY ZeroOK
<1>3. /\ th'[0][0] = [th[0][0] EXCEPT !.tape = Head(queue[0][0]), !.run = @ + 1,
                       !.PC = 1, !.complexity = 0, !.last = "time",
                       !.at = IF 0 = 0 THEN "exec" ELSE "receive"]
      /\ Elsewhere(th, th', 0, 0)
  BY <1>2, Do_StartTape
<1>4. Head(queue[0][0]) = 0
  OBVIOUS
<1>5. th'[0][0] = [th[0][0] EXCEPT !.tape = 0, !.run = @ + 1,
                       !.PC = 1, !.complexity = 0, !.last = "time", !.at = "exec"]
  BY <1>3, <1>4
<1>6. /\ th'[0][0].tape = 0 /\ th'[0][0].run = 1 /\ th'[0][0].PC = 1 /\ th'[0][0].complexity = 0
      /\ th'[0][0].last = "time" /\ th'[0][0].at = "exec"
      /\ th'[0][0].tainted = th[0][0].tainted /\ th'[0][0].reg = th[0][0].reg
  BY <1>2, <1>5 DEF ThreadStates
<1>7. PICK tr, n, st, i : History(tr, n, st) /\ LinkedBy(tr, n, st, i)
  BY LinkPaths
<1>8. /\ TransfersOn(session, th[1][0], ot[0][0], ot[1][0], keys[0], tr, n, i)
      /\ GarblerOn(session, th[0][0], tr, n, st) /\ PathOK(session, tr, n, st)
  BY <1>7, LinkTransfers
<1>9. GarblerOn(session, th'[0][0], tr, n, st)
  <2>1. n = 1 /\ th[0][0].tainted
    BY <1>8 DEF GarblerOn
  <2>2. tr[1].PC = 1 /\ tr[1].cx = 0 /\ ~tr[1].end
    BY <1>8 DEF PathOK
  <2>3. QED
    BY <1>6, <2>1, <2>2 DEF GarblerOn
<1>10. /\ Sent(th'[0][0], tr[n]) = Sent(th[0][0], tr[n])
       /\ IF session.continuous THEN Over0(th'[0][0]) <=> Over0(th[0][0])
          ELSE th'[0][0].at \in {"post_inputs", "ended"} <=> th[0][0].at \in {"post_inputs", "ended"}
  BY <1>1, <1>6 DEF Sent, Over0
<1>11. th'[1][0] = th[1][0]
  BY <1>2, <1>3 DEF Elsewhere
<1>12. TransfersOn(session, th[1][0], ot'[0][0], ot'[1][0], keys'[0], tr, n, i)
  BY <1>1, <1>8
<1>13. Link'
  BY <1>1, <1>6, <1>7, <1>9, <1>10, <1>11, <1>12, LinkGarblerMoves
<1>14. QED
  BY <1>1, <1>6, <1>13, NoFailure

LEMMA Link_garbler_EndThread ==
  ASSUME Types, Link, OnlyBranchingFails, EndThread(0, 0), th[0][0].run = 1
  PROVE  Link' /\ OnlyBranchingFails'
<1>1. /\ th[0][0].at = "schedule"
      /\ UNCHANGED <<session, gates, masks, keys, store, chan, ot, failure>>
  BY DEF EndThread, At
<1>2. /\ 0 \in Threads /\ 0 \in Parties /\ 1 \in Parties /\ th[0][0] \in ThreadStates
      /\ session.continuous \in BOOLEAN
  BY ZeroOK
<1>3. /\ th'[0][0] = [th[0][0] EXCEPT !.at =
                        IF 0 = 0 /\ ~session.continuous THEN "post_run" ELSE "ended"]
      /\ Elsewhere(th, th', 0, 0)
  BY <1>2, Do_EndThread
<1>4. PICK at : at = IF ~session.continuous THEN "post_run" ELSE "ended"
  OBVIOUS
<1>5. th'[0][0] = [th[0][0] EXCEPT !.at = at]
  BY <1>3, <1>4
<1>6. /\ th'[0][0].tape = th[0][0].tape /\ th'[0][0].run = th[0][0].run /\ th'[0][0].PC = th[0][0].PC
      /\ th'[0][0].last = th[0][0].last /\ th'[0][0].at = at
      /\ th'[0][0].tainted = th[0][0].tainted /\ th'[0][0].reg = th[0][0].reg
  BY <1>2, <1>5 DEF ThreadStates
<1>7. PICK tr, n, st, i : History(tr, n, st) /\ LinkedBy(tr, n, st, i)
  BY LinkPaths
<1>8. /\ TransfersOn(session, th[1][0], ot[0][0], ot[1][0], keys[0], tr, n, i)
      /\ GarblerOn(session, th[0][0], tr, n, st) /\ PathOK(session, tr, n, st)
  BY <1>7, LinkTransfers
<1>9. GarblerOn(session, th'[0][0], tr, n, st)
  <2>1. th[0][0].tainted /\ tr[n].end
    BY <1>1, <1>8 DEF GarblerOn
  <2>2. (at = "post_run" /\ ~session.continuous) \/ (at = "ended" /\ session.continuous)
    BY <1>4
  <2>3. QED
    BY <1>1, <1>6, <1>8, <2>1, <2>2 DEF GarblerOn
<1>10. /\ Sent(th'[0][0], tr[n]) = Sent(th[0][0], tr[n])
       /\ IF session.continuous THEN Over0(th'[0][0]) <=> Over0(th[0][0])
          ELSE th'[0][0].at \in {"post_inputs", "ended"} <=> th[0][0].at \in {"post_inputs", "ended"}
  <2>1. th'[0][0].at = at /\ th'[0][0].run = 1 /\ at # "send" /\ (session.continuous => at = "ended")
        /\ (~session.continuous => at = "post_run")
    BY <1>4, <1>6
  <2>2. QED
    BY <1>1, <2>1 DEF Sent, Over0
<1>11. th'[1][0] = th[1][0]
  BY <1>2, <1>3 DEF Elsewhere
<1>12. TransfersOn(session, th[1][0], ot'[0][0], ot'[1][0], keys'[0], tr, n, i)
  BY <1>1, <1>8
<1>13. Link'
  BY <1>1, <1>6, <1>7, <1>9, <1>10, <1>11, <1>12, LinkGarblerMoves
<1>14. QED
  BY <1>1, <1>13, NoFailure

LEMMA Link_process_receiver_inputs ==
  ASSUME Types, Link, OnlyBranchingFails, process_receiver_inputs(0), keys[0] # <<>>
  PROVE  Link' /\ OnlyBranchingFails'
<1>1. /\ th[0][0].at \in {"inputs", "post_inputs"} /\ ot[0][0] # <<>>
      /\ UNCHANGED <<session, gates, masks, store, chan, failure>>
  BY DEF process_receiver_inputs, At
<1>2. /\ 0 \in Threads /\ 0 \in Parties /\ 1 \in Parties /\ th[0][0] \in ThreadStates
      /\ session.continuous \in BOOLEAN
  BY ZeroOK
<1>3. /\ ot'[0][0] = Tail(ot[0][0]) /\ ot'[1][0] = Append(ot[1][0], Head(keys[0]))
      /\ keys'[0] = Tail(keys[0])
      /\ Elsewhere(th, th', 0, 0)
      /\ Len(keys[0]) = 1 =>
           th'[0][0] = [th[0][0] EXCEPT !.complexity = 0,
                          !.at = IF @ = "post_inputs" THEN "ended"
                                 ELSE IF th[0][0].last = "done" THEN "finish" ELSE "exec"]
      /\ Len(keys[0]) # 1 => th' = th
  BY <1>2, Do_process
<1>4. PICK tr, n, st, i : History(tr, n, st) /\ LinkedBy(tr, n, st, i)
  BY LinkPaths
<1>5. GarblerOn(session, th[0][0], tr, n, st)
  BY <1>4, LinkTransfers
<1>6. TransfersOn(session, th[1][0], ot'[0][0], ot'[1][0], keys'[0], tr, n, i)
  <2>1. Linked(session, th[0][0], th[1][0], gates[0][0], masks[0][0], gates[1][0], masks[1][0],
             keys[0], store[0], chan[0][0], chan[1][0], ot[0][0], ot[1][0], tr, n, st, i)
    BY <1>4 DEF LinkedBy
  <2>2. TransfersOn(session, th[1][0], Tail(ot[0][0]), Append(ot[1][0], Head(keys[0])), Tail(keys[0]), tr, n, i)
    BY <1>1, <1>4, <2>1, GarblerAnswers, SMTT(60)
  <2>3. QED
    BY <1>3, <2>2
<1>7. /\ th'[0][0].tape = th[0][0].tape /\ th'[0][0].run = th[0][0].run /\ th'[0][0].PC = th[0][0].PC
      /\ th'[0][0].last = th[0][0].last
      /\ th'[0][0].tainted = th[0][0].tainted /\ th'[0][0].reg = th[0][0].reg
      /\ \/ th'[0][0].at = th[0][0].at
         \/ th[0][0].at = "post_inputs" /\ th'[0][0].at = "ended"
         \/ th[0][0].at = "inputs" /\ th[0][0].last = "done" /\ th'[0][0].at = "finish"
         \/ th[0][0].at = "inputs" /\ th[0][0].last # "done" /\ th'[0][0].at = "exec" /\ th'[0][0].complexity = 0
  <2>1. CASE Len(keys[0]) = 1
    <3>1. PICK at : at = IF th[0][0].at = "post_inputs" THEN "ended"
                         ELSE IF th[0][0].last = "done" THEN "finish" ELSE "exec"
      OBVIOUS
    <3>2. th'[0][0] = [th[0][0] EXCEPT !.complexity = 0, !.at = at]
      BY <1>3, <2>1, <3>1
    <3>3. /\ th'[0][0].tape = th[0][0].tape /\ th'[0][0].run = th[0][0].run
          /\ th'[0][0].PC = th[0][0].PC /\ th'[0][0].last = th[0][0].last
          /\ th'[0][0].tainted = th[0][0].tainted /\ th'[0][0].reg = th[0][0].reg
          /\ th'[0][0].at = at /\ th'[0][0].complexity = 0
      BY <1>2, <3>2 DEF ThreadStates
    <3>4. QED
      BY <1>1, <3>1, <3>3
  <2>2. CASE Len(keys[0]) # 1
    BY <1>3, <2>2
  <2>3. QED
    BY <2>1, <2>2
<1>8. GarblerOn(session, th'[0][0], tr, n, st)
  <2>1. th[0][0].run = 1
    BY <1>1, <1>5 DEF GarblerOn
  <2>2. CASE th'[0][0].at = th[0][0].at
    BY <1>1, <1>5, <1>7, <2>1, <2>2 DEF GarblerOn
  <2>3. CASE th[0][0].at = "post_inputs" /\ th'[0][0].at = "ended"
    BY <1>1, <1>5, <1>7, <2>1, <2>3 DEF GarblerOn
  <2>4. CASE th[0][0].at = "inputs" /\ th[0][0].last = "done" /\ th'[0][0].at = "finish"
    <3>1. th[0][0].tainted
      BY <1>4, <2>4, DoneTainted
    <3>2. QED
      BY <1>1, <1>5, <1>7, <2>1, <2>4, <3>1 DEF GarblerOn
  <2>5. CASE th[0][0].at = "inputs" /\ th[0][0].last # "done" /\ th'[0][0].at = "exec" /\ th'[0][0].complexity = 0
    BY <1>1, <1>5, <1>7, <2>1, <2>5 DEF GarblerOn
  <2>6. QED
    BY <1>7, <2>2, <2>3, <2>4, <2>5
<1>9. /\ Sent(th'[0][0], tr[n]) = Sent(th[0][0], tr[n])
      /\ IF session.continuous THEN Over0(th'[0][0]) <=> Over0(th[0][0])
         ELSE th'[0][0].at \in {"post_inputs", "ended"} <=> th[0][0].at \in {"post_inputs", "ended"}
  <2>1. /\ th[0][0].at = "post_inputs" => ~session.continuous
        /\ th[0][0].at = "inputs" => session.continuous
    BY <1>5 DEF GarblerOn
  <2>2. QED
    BY <1>1, <1>2, <1>7, <2>1 DEF Sent, Over0
<1>10. th'[1][0] = th[1][0]
  BY <1>2, <1>3 DEF Elsewhere
<1>11. Link'
  BY <1>1, <1>4, <1>6, <1>7, <1>8, <1>9, <1>10, LinkGarblerMoves
<1>12. QED
  BY <1>1, <1>11, NoFailure

LEMMA Link_Garbler_finish ==
  ASSUME Types, Link, OneTape(session), OnlyBranchingFails, Garbler_finish(0)
  PROVE  Link' /\ OnlyBranchingFails'
<1>1. /\ th[0][0].at = "finish"
      /\ UNCHANGED <<session, gates, masks, keys, store, ot>>
  BY DEF Garbler_finish, At
<1>2. /\ 0 \in Threads /\ 0 \in Parties /\ 1 \in Parties /\ th[0][0] \in ThreadStates
      /\ session.continuous \in BOOLEAN
  BY ZeroOK
<1>3. /\ session.variant = "init" =>
           chan[0][0] # <<>> /\ chan'[0][0] = Tail(chan[0][0]) /\ Elsewhere(chan, chan', 0, 0)
      /\ session.variant = "reconstruct" =>
           chan'[1][0] = Append(chan[1][0], [type |-> "pack"]) /\ Elsewhere(chan, chan', 1, 0)
      /\ session.variant \notin {"init", "reconstruct"} => chan' = chan
  BY <1>2, Do_Garbler_finish
<1>4. (session.variant = "init" => Head(chan[0][0]).type = "pack") =>
           /\ th'[0][0] = [th[0][0] EXCEPT !.at = "schedule"] /\ Elsewhere(th, th', 0, 0)
           /\ UNCHANGED failure
  BY <1>2, Do_Garbler_finish
<1>5. GarblerLast(session, chan[0][0], chan[1][0], chan'[0][0], chan'[1][0])
  <2>1. CASE session.variant = "init"
    BY <1>2, <1>3, <2>1 DEF Elsewhere, GarblerLast
  <2>2. CASE session.variant = "reconstruct"
    BY <1>2, <1>3, <2>2 DEF Elsewhere, GarblerLast
  <2>3. CASE session.variant \notin {"init", "reconstruct"}
    BY <1>3, <2>3 DEF GarblerLast
  <2>4. QED
    BY <2>1, <2>2, <2>3
<1>6. PICK tr, n, st, i : History(tr, n, st) /\ LinkedBy(tr, n, st, i)
  BY LinkPaths
<1>7. /\ session.variant = "init" => Head(chan[0][0]).type = "pack"
      /\ \A g2 : /\ g2.tape = th[0][0].tape /\ g2.run = th[0][0].run /\ g2.PC = th[0][0].PC
                 /\ g2.tainted = th[0][0].tainted /\ g2.reg = th[0][0].reg /\ g2.at = "schedule"
                 /\ g2.last = th[0][0].last
                 => Linked(session, g2, th[1][0], gates[0][0], masks[0][0], gates[1][0], masks[1][0],
                           keys[0], store[0], chan'[0][0], chan'[1][0], ot[0][0], ot[1][0], tr, n, st, i)
  <2>1. Linked(session, th[0][0], th[1][0], gates[0][0], masks[0][0], gates[1][0], masks[1][0],
             keys[0], store[0], chan[0][0], chan[1][0], ot[0][0], ot[1][0], tr, n, st, i)
    BY <1>6 DEF LinkedBy
  <2>2. th[0][0].at = "finish" /\ session.continuous \in BOOLEAN
    BY <1>1, <1>2
  <2>3. QED
    BY <1>5, <1>6, <2>1, <2>2, GarblerFinishes, SMTT(60)
<1>8. /\ th'[0][0] = [th[0][0] EXCEPT !.at = "schedule"] /\ Elsewhere(th, th', 0, 0)
      /\ UNCHANGED failure
  BY <1>4, <1>7
<1>9. /\ th'[0][0].tape = th[0][0].tape /\ th'[0][0].run = th[0][0].run /\ th'[0][0].PC = th[0][0].PC
      /\ th'[0][0].tainted = th[0][0].tainted /\ th'[0][0].reg = th[0][0].reg
      /\ th'[0][0].at = "schedule" /\ th'[0][0].last = th[0][0].last
  BY <1>2, <1>8 DEF ThreadStates
<1>10. Linked(session, th'[0][0], th[1][0], gates[0][0], masks[0][0], gates[1][0], masks[1][0],
              keys[0], store[0], chan'[0][0], chan'[1][0], ot[0][0], ot[1][0], tr, n, st, i)
  BY <1>7, <1>9
<1>11. th'[1][0] = th[1][0]
  BY <1>2, <1>8 DEF Elsewhere
<1>12. LinkedBy(tr, n, st, i)'
  BY <1>1, <1>10, <1>11 DEF LinkedBy
<1>13. Link'
  BY <1>6, <1>12 DEF Link, InLink, History, LinkedBy
<1>14. QED
  BY <1>1, <1>8, <1>13, NoFailure

LEMMA Link_post_run ==
  ASSUME Types, Link, OnlyBranchingFails, post_run(0)
  PROVE  Link' /\ OnlyBranchingFails'
<1>1. /\ th[0][0].at = "post_run"
      /\ UNCHANGED <<session, gates, masks, keys, store, ot, failure>>
  BY DEF post_run, At
<1>2. /\ 0 \in Threads /\ 0 \in Parties /\ 1 \in Parties /\ th[0][0] \in ThreadStates
  BY ZeroOK
<1>3. /\ chan'[1][0] = Append(chan[1][0], [type |-> "DONE"]) /\ Elsewhere(chan, chan', 1, 0)
      /\ th'[0][0] = [th[0][0] EXCEPT !.at = IF keys[0] # <<>> THEN "post_inputs" ELSE "ended"]
      /\ Elsewhere(th, th', 0, 0)
  BY <1>2, Do_post_run
<1>4. PICK at \in {"post_inputs", "ended"} : th'[0][0] = [th[0][0] EXCEPT !.at = at]
  BY <1>3
<1>5. /\ th'[0][0].tape = th[0][0].tape /\ th'[0][0].run = th[0][0].run /\ th'[0][0].PC = th[0][0].PC
      /\ th'[0][0].tainted = th[0][0].tainted /\ th'[0][0].reg = th[0][0].reg
      /\ th'[0][0].at \in {"post_inputs", "ended"} /\ th'[0][0].last = th[0][0].last
  BY <1>2, <1>4 DEF ThreadStates
<1>6. PICK tr, n, st, i : History(tr, n, st) /\ LinkedBy(tr, n, st, i)
  BY LinkPaths
<1>7. Linked(session, th'[0][0], th[1][0], gates[0][0], masks[0][0], gates[1][0], masks[1][0],
             keys[0], store[0], chan[0][0], Append(chan[1][0], [type |-> "DONE"]),
             ot[0][0], ot[1][0], tr, n, st, i)
  <2>1. Linked(session, th[0][0], th[1][0], gates[0][0], masks[0][0], gates[1][0], masks[1][0],
             keys[0], store[0], chan[0][0], chan[1][0], ot[0][0], ot[1][0], tr, n, st, i)
    BY <1>6 DEF LinkedBy
  <2>2. th[0][0].at = "post_run"
    BY <1>1
  <2>3. QED
    BY <1>5, <1>6, <2>1, <2>2, GarblerTellsEnd, SMTT(60)
<1>8. th'[1][0] = th[1][0] /\ chan'[0][0] = chan[0][0]
  BY <1>2, <1>3 DEF Elsewhere
<1>9. LinkedBy(tr, n, st, i)'
  BY <1>1, <1>3, <1>7, <1>8 DEF LinkedBy
<1>10. Link'
  BY <1>6, <1>9 DEF Link, InLink, History, LinkedBy
<1>11. QED
  BY <1>1, <1>10, NoFailure

(* The evaluator's transfers and buffers, from the link.                   *)
LEMMA EvaluatorData ==
  ASSUME Types, Link
  PROVE  /\ th[1][0].at # "keys" => ot[0][0] = <<>> /\ ot[1][0] = <<>>
         /\ th[1][0].at = "keys" /\ ot[1][0] # <<>> =>
              /\ ot[0][0] = <<>> /\ Len(ot[1][0]) = 1 /\ Tail(ot[1][0]) = <<>>
              /\ Head(ot[1][0]) = Pos(Place(1))
         /\ th[1][0].at = "exec" /\ IsAt(session, Place(1), "and") =>
              gates[1][0] # <<>> /\ Head(gates[1][0]) = Pos(Place(1))
         /\ th[1][0].at = "exec" /\ IsAt(session, Place(1), "reveal") =>
              masks[1][0] # <<>> /\ Head(masks[1][0]) = Pos(Place(1))
<1>1. PICK tr, n, st, i : History(tr, n, st) /\ LinkedBy(tr, n, st, i)
  BY LinkPaths
<1>2. TransfersOn(session, th[1][0], ot[0][0], ot[1][0], keys[0], tr, n, i)
  BY <1>1, LinkTransfers
<1>3. th[1][0].at # "keys" => ot[0][0] = <<>> /\ ot[1][0] = <<>>
  BY <1>2 DEF TransfersOn
<1>4. ASSUME InBatch(th[1][0]) PROVE Pos(tr[i]) = Pos(Place(1)) /\ \A op : IsAt(session, tr[i], op) <=> IsAt(session, Place(1), op)
  <2>1. th[1][0].PC = tr[i].PC
    BY <1>1, <1>4, EvaluatorAt
  <2>2. QED
    BY <2>1 DEF Pos, Place, IsAt
<1>5. ASSUME th[1][0].at = "keys", ot[1][0] # <<>>
      PROVE  /\ ot[0][0] = <<>> /\ Len(ot[1][0]) = 1 /\ Tail(ot[1][0]) = <<>>
             /\ Head(ot[1][0]) = Pos(Place(1))
  <2>1. ot[0][0] = <<>> /\ ot[1][0] = <<Pos(tr[i])>>
    BY <1>2, <1>5 DEF TransfersOn
  <2>2. Pos(tr[i]) = Pos(Place(1))
    BY <1>4, <1>5 DEF InBatch
  <2>3. PICK x : x = Pos(tr[i])
    OBVIOUS
  <2>4. ot[1][0] = <<x>> /\ x = Pos(Place(1))
    BY <2>1, <2>2, <2>3
  <2>5. QED
    BY <2>1, <2>4
<1>6. ASSUME th[1][0].at = "exec"
      PROVE  /\ IsAt(session, Place(1), "and") => gates[1][0] # <<>> /\ Head(gates[1][0]) = Pos(Place(1))
             /\ IsAt(session, Place(1), "reveal") => masks[1][0] # <<>> /\ Head(masks[1][0]) = Pos(Place(1))
  <2>1. Linked(session, th[0][0], th[1][0], gates[0][0], masks[0][0], gates[1][0], masks[1][0],
             keys[0], store[0], chan[0][0], chan[1][0], ot[0][0], ot[1][0], tr, n, st, i)
    BY <1>1 DEF LinkedBy
  <2>2. /\ th[1][0].at = "exec" /\ IsAt(session, tr[i], "and") => gates[1][0] # <<>> /\ Head(gates[1][0]) = Pos(tr[i])
        /\ th[1][0].at = "exec" /\ IsAt(session, tr[i], "reveal") => masks[1][0] # <<>> /\ Head(masks[1][0]) = Pos(tr[i])
    BY <1>1, <2>1, EvaluatorHas, SMTT(60)
  <2>3. QED
    BY <1>4, <1>6, <2>2 DEF InBatch
<1>7. QED
  BY <1>3, <1>5, <1>6

(* An instruction without a gate, which does not end the batch.            *)
LEMMA EvaluatorGoes ==
  ASSUME Types, Link, NEW op, Executing(1, 0, op), op \notin {"and", "branch", "inputb"},
         op = "reveal" => ~session.continuous,
         th'[1][0].tape = th[1][0].tape, th'[1][0].run = th[1][0].run,
         th'[1][0].PC = th[1][0].PC + 1, th'[1][0].complexity = th[1][0].complexity,
         th'[1][0].at = "exec", op # "reveal" => th'[1][0].reg = th[1][0].reg,
         Elsewhere(th, th', 1, 0), UNCHANGED <<session, gates, keys, store, chan, ot>>,
         masks'[1][0] = IF op = "reveal" THEN Tail(masks[1][0]) ELSE masks[1][0],
         masks'[0][0] = masks[0][0]
  PROVE  Link'
<1>2. 0 \in Threads /\ 0 \in Parties /\ 1 \in Parties
  BY ZeroOK
<1>5. th'[0][0] = th[0][0] /\ gates'[0][0] = gates[0][0]
  BY <1>2 DEF Elsewhere
<1>6. /\ th[1][0].at = "exec"
      /\ \A o : IsAt(session, Place(1), o) <=> o = op
      /\ ~PastEnd(session, Place(1))
  BY <1>2, ExecutingAt
<1>7. Place(1).PC = th[1][0].PC /\ Place(1).cx = th[1][0].complexity
  BY DEF Place
<1>8. EvaluatorDoes(session, th[1][0], Place(1), th'[1][0])
  <2>1. ~Ends(session, Place(1))
    BY <1>6, <1>7 DEF Ends
  <2>2. Proceeds(session, th[1][0], Place(1)) = th[1][0].PC + 1
    BY <1>6 DEF Proceeds
  <2>3. CountsTo(session, Place(1)) = th[1][0].complexity
    BY <1>6, <1>7 DEF CountsTo
  <2>4. QED
    BY <1>6, <2>1, <2>2, <2>3 DEF EvaluatorDoes
<1>9. /\ Shrinks(session, Place(1), "and", gates[1][0], gates'[1][0])
      /\ Shrinks(session, Place(1), "reveal", masks[1][0], masks'[1][0])
  BY <1>6 DEF Shrinks
<1>10. ot'[0][0] = <<>> /\ ot'[1][0] = <<>> /\ ot[1][0] = <<>>
  BY <1>6, EvaluatorData
<1>11. KeysCame(session, Place(1), ot[1][0])
  BY <1>6, <1>10 DEF KeysCame
<1>12. InBatch(th[1][0]) /\ ~(session.continuous /\ IsAt(session, Place(1), "reveal"))
  BY <1>6 DEF InBatch
<1>13. QED
  BY <1>5, <1>6, <1>7, <1>8, <1>9, <1>10, <1>11, <1>12, LinkEvaluates

LEMMA Link_evaluator_join_tape ==
  ASSUME Types, Link, OnlyBranchingFails, join_tape(1, 0)
  PROVE  Link' /\ OnlyBranchingFails'
<1>1. /\ Executing(1, 0, "join_tape")
      /\ UNCHANGED <<session, gates, masks, keys, store, chan, ot, failure>>
  BY DEF join_tape
<1>2. 0 \in Threads /\ 0 \in Parties /\ 1 \in Parties /\ th[1][0] \in ThreadStates
  BY ZeroOK
<1>3. /\ th'[1][0] = [th[1][0] EXCEPT !.PC = @ + 1, !.at = "exec"]
      /\ Elsewhere(th, th', 1, 0)
  BY <1>2, Do_join_tape
<1>4. /\ th'[1][0].tape = th[1][0].tape /\ th'[1][0].run = th[1][0].run
      /\ th'[1][0].PC = th[1][0].PC + 1 /\ th'[1][0].complexity = th[1][0].complexity
      /\ th'[1][0].at = "exec" /\ th'[1][0].reg = th[1][0].reg
  BY <1>2, <1>3 DEF ThreadStates
<1>7. Link'
  BY <1>1, <1>3, <1>4, EvaluatorGoes
<1>8. QED
  BY <1>1, <1>7, NoFailure

LEMMA Link_Eval_and ==
  ASSUME Types, Link, OnlyBranchingFails, Eval_and(0)
  PROVE  Link' /\ OnlyBranchingFails'
<1>1. /\ Executing(1, 0, "and")
      /\ UNCHANGED <<session, masks, keys, store, chan, ot>>
  BY DEF Eval_and
<1>2. 0 \in Threads /\ 0 \in Parties /\ 1 \in Parties /\ th[1][0] \in ThreadStates
  BY ZeroOK
<1>6. /\ th[1][0].at = "exec"
      /\ \A o : IsAt(session, Place(1), o) <=> o = "and"
      /\ ~PastEnd(session, Place(1))
  BY <1>1, <1>2, ExecutingAt
<1>0. gates[1][0] # <<>>
  BY <1>6, EvaluatorData
<1>3. /\ th'[1][0] = [th[1][0] EXCEPT !.PC = @ + 1, !.complexity = @ + 1,
                   !.at = IF th[1][0].complexity + 1 >= BatchSize THEN "receive" ELSE "exec",
                   !.last = "time"]
      /\ gates'[1][0] = Tail(gates[1][0])
      /\ Elsewhere(th, th', 1, 0) /\ Elsewhere(gates, gates', 1, 0) /\ UNCHANGED failure
  BY <1>0, <1>2, Do_Eval_and
<1>4. /\ th'[1][0].tape = th[1][0].tape /\ th'[1][0].run = th[1][0].run
      /\ th'[1][0].PC = th[1][0].PC + 1 /\ th'[1][0].complexity = th[1][0].complexity + 1
      /\ th'[1][0].at = IF th[1][0].complexity + 1 >= BatchSize THEN "receive" ELSE "exec"
      /\ th'[1][0].reg = th[1][0].reg
  BY <1>2, <1>3 DEF ThreadStates
<1>5. th'[0][0] = th[0][0] /\ gates'[0][0] = gates[0][0] /\ masks'[0][0] = masks[0][0]
  BY <1>1, <1>2, <1>3 DEF Elsewhere
<1>7. Place(1).PC = th[1][0].PC /\ Place(1).cx = th[1][0].complexity
  BY DEF Place
<1>8. EvaluatorDoes(session, th[1][0], Place(1), th'[1][0])
  <2>1. Ends(session, Place(1)) <=> th[1][0].complexity + 1 >= BatchSize
    BY <1>6, <1>7 DEF Ends
  <2>2. Proceeds(session, th[1][0], Place(1)) = th[1][0].PC + 1
    BY <1>6 DEF Proceeds
  <2>3. CountsTo(session, Place(1)) = th[1][0].complexity + 1
    BY <1>6, <1>7 DEF CountsTo
  <2>4. QED
    BY <1>4, <1>6, <2>1, <2>2, <2>3 DEF EvaluatorDoes
<1>9. /\ Shrinks(session, Place(1), "and", gates[1][0], gates'[1][0])
      /\ Shrinks(session, Place(1), "reveal", masks[1][0], masks'[1][0])
  BY <1>1, <1>3, <1>6 DEF Shrinks
<1>10. ot'[0][0] = <<>> /\ ot'[1][0] = <<>> /\ ot[1][0] = <<>>
  BY <1>1, <1>6, EvaluatorData
<1>11. KeysCame(session, Place(1), ot[1][0])
  BY <1>6, <1>10 DEF KeysCame
<1>12. InBatch(th[1][0]) /\ ~(session.continuous /\ IsAt(session, Place(1), "reveal"))
  BY <1>6 DEF InBatch
<1>13. Link'
  BY <1>1, <1>5, <1>6, <1>7, <1>8, <1>9, <1>10, <1>11, <1>12, LinkEvaluates
<1>14. QED
  BY <1>1, <1>3, <1>13, NoFailure

LEMMA Link_Eval_finalize_input ==
  ASSUME Types, Link, OnlyBranchingFails, Eval_finalize_input(0)
  PROVE  Link' /\ OnlyBranchingFails'
<1>1. /\ th[1][0].at = "keys" /\ ot[1][0] # <<>>
      /\ UNCHANGED <<session, gates, masks, keys, store, chan, failure>>
  BY DEF Eval_finalize_input, At
<1>2. /\ 0 \in Threads /\ 0 \in Parties /\ 1 \in Parties /\ th[1][0] \in ThreadStates
      /\ IsSession(session)
  BY ZeroOK
<1>3. /\ th'[1][0] = [th[1][0] EXCEPT !.PC = @ + 1, !.at = "exec"] /\ Elsewhere(th, th', 1, 0)
      /\ ot'[1][0] = Tail(ot[1][0]) /\ Elsewhere(ot, ot', 1, 0)
  BY <1>2, Do_Eval_finalize_input
<1>4. /\ th'[1][0].tape = th[1][0].tape /\ th'[1][0].run = th[1][0].run
      /\ th'[1][0].PC = th[1][0].PC + 1 /\ th'[1][0].complexity = th[1][0].complexity
      /\ th'[1][0].at = "exec" /\ th'[1][0].reg = th[1][0].reg
  BY <1>2, <1>3 DEF ThreadStates
<1>5. th'[0][0] = th[0][0] /\ gates'[0][0] = gates[0][0] /\ masks'[0][0] = masks[0][0]
      /\ ot'[0][0] = ot[0][0]
  BY <1>1, <1>2, <1>3 DEF Elsewhere
<1>7. Place(1).PC = th[1][0].PC /\ Place(1).cx = th[1][0].complexity
  BY DEF Place
<1>6. (\A o : IsAt(session, Place(1), o) <=> o = "inputb") /\ ~PastEnd(session, Place(1))
  <2>1. IsAt(session, Place(1), "inputb")
    BY <1>1, OnPath
  <2>2. Len(session.tapes[0]) \in Nat /\ Place(1).PC \in Nat
    BY <1>2, <1>7, ZeroOK DEF IsSession
  <2>3. QED
    BY <2>1, <2>2 DEF IsAt, PastEnd
<1>8. EvaluatorDoes(session, th[1][0], Place(1), th'[1][0])
  <2>1. ~Ends(session, Place(1))
    BY <1>6, <1>7 DEF Ends
  <2>2. Proceeds(session, th[1][0], Place(1)) = th[1][0].PC + 1
    BY <1>6 DEF Proceeds
  <2>3. CountsTo(session, Place(1)) = th[1][0].complexity
    BY <1>6, <1>7 DEF CountsTo
  <2>4. QED
    BY <1>4, <1>6, <2>1, <2>2, <2>3 DEF EvaluatorDoes
<1>9. /\ Shrinks(session, Place(1), "and", gates[1][0], gates'[1][0])
      /\ Shrinks(session, Place(1), "reveal", masks[1][0], masks'[1][0])
  BY <1>1, <1>6 DEF Shrinks
<1>10. ot'[0][0] = <<>> /\ ot'[1][0] = <<>> /\ Len(ot[1][0]) = 1
  BY <1>1, <1>3, <1>5, EvaluatorData
<1>11. KeysCame(session, Place(1), ot[1][0])
  BY <1>6, <1>10 DEF KeysCame
<1>12. InBatch(th[1][0]) /\ ~(session.continuous /\ IsAt(session, Place(1), "reveal"))
  BY <1>1, <1>6 DEF InBatch
<1>13. Link'
  BY <1>1, <1>5, <1>6, <1>7, <1>8, <1>9, <1>10, <1>11, <1>12, LinkEvaluates
<1>14. QED
  BY <1>1, <1>13, NoFailure

LEMMA Link_Eval_branch ==
  ASSUME Types, Link, OnlyBranchingFails, Eval_branch(0)
  PROVE  Link' /\ OnlyBranchingFails'
<1>1. /\ Executing(1, 0, "branch")
      /\ UNCHANGED <<session, gates, masks, keys, store, chan, ot>>
  BY DEF Eval_branch
<1>2. /\ 0 \in Threads /\ 0 \in Parties /\ 1 \in Parties /\ th[1][0] \in ThreadStates
      /\ session.continuous \in BOOLEAN
  BY ZeroOK
<1>3. /\ session.continuous =>
           /\ th'[1][0] = [th[1][0] EXCEPT !.PC = IF th[1][0].reg THEN Instr(1, 0).to ELSE @ + 1]
           /\ Elsewhere(th, th', 1, 0) /\ UNCHANGED failure
      /\ ~session.continuous =>
           UNCHANGED th /\ failure'[1] = "branching" /\ \A q \in Parties : q # 1 => failure'[q] = failure[q]
  BY <1>2, Do_Branch DEF Eval_branch
<1>6. /\ th[1][0].at = "exec" /\ th[1][0].tape = 0
      /\ \A o : IsAt(session, Place(1), o) <=> o = "branch"
      /\ ~PastEnd(session, Place(1))
  BY <1>1, <1>2, ExecutingAt
<1>7. CASE session.continuous
  <2>0. /\ th'[1][0] = [th[1][0] EXCEPT !.PC = IF th[1][0].reg THEN Instr(1, 0).to ELSE @ + 1]
        /\ Elsewhere(th, th', 1, 0) /\ UNCHANGED failure
    BY <1>3, <1>7
  <2>1. /\ th'[1][0].tape = th[1][0].tape /\ th'[1][0].run = th[1][0].run
        /\ th'[1][0].PC = IF th[1][0].reg THEN Instr(1, 0).to ELSE th[1][0].PC + 1
        /\ th'[1][0].complexity = th[1][0].complexity
        /\ th'[1][0].at = "exec" /\ th'[1][0].reg = th[1][0].reg
    <3>1. PICK pc : pc = IF th[1][0].reg THEN Instr(1, 0).to ELSE th[1][0].PC + 1
      OBVIOUS
    <3>2. th'[1][0] = [th[1][0] EXCEPT !.PC = pc]
      BY <2>0, <3>1
    <3>3. /\ th'[1][0].tape = th[1][0].tape /\ th'[1][0].run = th[1][0].run
          /\ th'[1][0].PC = pc /\ th'[1][0].complexity = th[1][0].complexity
          /\ th'[1][0].at = th[1][0].at /\ th'[1][0].reg = th[1][0].reg
      BY <1>2, <3>2 DEF ThreadStates
    <3>4. QED
      BY <1>6, <3>1, <3>3
  <2>2. Place(1).PC = th[1][0].PC /\ Place(1).cx = th[1][0].complexity
    BY DEF Place
  <2>3. EvaluatorDoes(session, th[1][0], Place(1), th'[1][0])
    <3>1. ~Ends(session, Place(1))
      BY <1>6, <1>7 DEF Ends
    <3>2. Proceeds(session, th[1][0], Place(1)) = IF th[1][0].reg THEN Instr(1, 0).to ELSE th[1][0].PC + 1
      BY <1>6, <2>2 DEF Proceeds, Instr, Tape
    <3>3. CountsTo(session, Place(1)) = th[1][0].complexity
      BY <1>6, <2>2 DEF CountsTo
    <3>4. QED
      BY <1>6, <1>7, <2>1, <3>1, <3>2, <3>3 DEF EvaluatorDoes
  <2>4. /\ Shrinks(session, Place(1), "and", gates[1][0], gates'[1][0])
        /\ Shrinks(session, Place(1), "reveal", masks[1][0], masks'[1][0])
    BY <1>1, <1>6 DEF Shrinks
  <2>5. ot'[0][0] = <<>> /\ ot'[1][0] = <<>> /\ ot[1][0] = <<>>
    BY <1>1, <1>6, EvaluatorData
  <2>6. KeysCame(session, Place(1), ot[1][0])
    BY <1>6, <2>5 DEF KeysCame
  <2>7. InBatch(th[1][0]) /\ ~(session.continuous /\ IsAt(session, Place(1), "reveal"))
    BY <1>6 DEF InBatch
  <2>8. th'[0][0] = th[0][0] /\ gates'[0][0] = gates[0][0] /\ masks'[0][0] = masks[0][0]
    BY <1>1, <1>2, <2>0 DEF Elsewhere
  <2>9. Link'
    BY <1>1, <1>6, <2>2, <2>3, <2>4, <2>5, <2>6, <2>7, <2>8, LinkEvaluates
  <2>10. QED
    BY <1>1, <2>0, <2>9, NoFailure
<1>8. CASE ~session.continuous
  <2>1. UNCHANGED th /\ failure'[1] = "branching" /\ failure'[0] = failure[0]
    BY <1>2, <1>3, <1>8
  <2>2. Link'
    BY <1>1, <2>1, LinkStays
  <2>3. QED
    BY <1>1, <1>8, <2>1, <2>2 DEF OnlyBranchingFails, Parties
<1>10. QED
  BY <1>2, <1>7, <1>8

LEMMA Link_Eval_reveal ==
  ASSUME Types, Link, OnlyBranchingFails, Eval_reveal(0)
  PROVE  Link' /\ OnlyBranchingFails'
<1>1. /\ Executing(1, 0, "reveal")
      /\ UNCHANGED <<session, gates, keys, store, ot>>
  BY DEF Eval_reveal
<1>2. /\ 0 \in Threads /\ 0 \in Parties /\ 1 \in Parties /\ th[1][0] \in ThreadStates
      /\ session.continuous \in BOOLEAN /\ th[0][0].tainted \in BOOLEAN
  BY ZeroOK
<1>3. /\ th[1][0].at = "exec" /\ th[1][0].tape = 0 /\ th[1][0].run = 1
      /\ \A o : IsAt(session, Place(1), o) <=> o = "reveal"
      /\ ~PastEnd(session, Place(1))
  BY <1>1, <1>2, ExecutingAt
<1>4. masks[1][0] # <<>> /\ ot[0][0] = <<>> /\ ot[1][0] = <<>>
  BY <1>3, EvaluatorData
<1>5. /\ masks'[1][0] = Tail(masks[1][0]) /\ Elsewhere(masks, masks', 1, 0)
      /\ Elsewhere(th, th', 1, 0) /\ UNCHANGED failure
  BY <1>2, <1>4, Do_Eval_reveal
<1>6. PICK bit \in BOOLEAN :
           /\ th'[1][0] = [th[1][0] EXCEPT !.PC = @ + 1, !.tainted = TRUE, !.reg = bit,
                             !.at = IF session.continuous THEN "receive" ELSE "exec"]
           /\ IF session.continuous
              THEN /\ chan'[0][0] = Append(chan[0][0], [type |-> "value", bit |-> bit])
                   /\ Elsewhere(chan, chan', 0, 0)
              ELSE chan' = chan
  BY <1>2, <1>4, Do_Eval_reveal
<1>7. PICK at : at = IF session.continuous THEN "receive" ELSE "exec"
  OBVIOUS
<1>8. /\ th'[1][0].tape = th[1][0].tape /\ th'[1][0].run = th[1][0].run
      /\ th'[1][0].PC = th[1][0].PC + 1 /\ th'[1][0].complexity = th[1][0].complexity
      /\ th'[1][0].reg = bit /\ th'[1][0].at = at
  <2>1. th'[1][0] = [th[1][0] EXCEPT !.PC = @ + 1, !.tainted = TRUE, !.reg = bit, !.at = at]
    BY <1>6, <1>7
  <2>2. QED
    BY <1>2, <2>1 DEF ThreadStates
<1>9. th'[0][0] = th[0][0] /\ masks'[0][0] = masks[0][0]
  BY <1>2, <1>5 DEF Elsewhere
<1>10. ASSUME session.continuous PROVE Link'
  <2>1. PICK tr, n, st, i : History(tr, n, st) /\ LinkedBy(tr, n, st, i)
    BY LinkPaths
  <2>2. Linked(session, th[0][0], th[1][0], gates[0][0], masks[0][0], gates[1][0], masks[1][0],
             keys[0], store[0], chan[0][0], chan[1][0], ot[0][0], ot[1][0], tr, n, st, i)
    BY <2>1 DEF LinkedBy
  <2>3. IsAt(session, tr[i], "reveal")
    <3>1. th[1][0].PC = tr[i].PC
      BY <1>3, <2>1, EvaluatorAt DEF InBatch
    <3>2. QED
      BY <1>3, <3>1 DEF IsAt, Place
  <2>4. /\ th'[1][0].tape = 0 /\ th'[1][0].run = 1 /\ th'[1][0].PC = th[1][0].PC + 1
        /\ th'[1][0].reg = bit /\ th'[1][0].at = "receive" /\ th[1][0].at = "exec"
    BY <1>3, <1>7, <1>8, <1>10
  <2>5. InLink(session, th[0][0], th'[1][0], gates[0][0], masks[0][0], gates[1][0], Tail(masks[1][0]),
               keys[0], store[0], Append(chan[0][0], [type |-> "value", bit |-> bit]), chan[1][0],
               <<>>, <<>>)
    <3>1. bit \in BOOLEAN /\ th[0][0].tainted \in BOOLEAN /\ session.continuous
      BY <1>2, <1>6, <1>10
    <3>2. QED
      BY <2>1, <2>2, <2>3, <2>4, <3>1, EvaluatorReveals, SMTT(60)
  <2>6. chan'[0][0] = Append(chan[0][0], [type |-> "value", bit |-> bit]) /\ chan'[1][0] = chan[1][0]
    BY <1>2, <1>6, <1>10 DEF Elsewhere
  <2>7. QED
    BY <1>1, <1>4, <1>5, <1>9, <2>5, <2>6 DEF Link
<1>11. ASSUME ~session.continuous PROVE Link'
  <2>1. chan' = chan /\ th'[1][0].at = "exec"
    BY <1>6, <1>7, <1>8, <1>11
  <2>2. QED
    BY <1>1, <1>5, <1>8, <1>9, <1>11, <2>1, EvaluatorGoes
<1>12. Link'
  BY <1>2, <1>10, <1>11
<1>13. QED
  BY <1>1, <1>5, <1>12, NoFailure

LEMMA Link_Eval_inputb ==
  ASSUME Types, Link, OnlyBranchingFails, Eval_inputb(0)
  PROVE  Link' /\ OnlyBranchingFails'
<1>1. /\ Executing(1, 0, "inputb")
      /\ UNCHANGED <<session, gates, masks, keys, store, chan, failure>>
  BY DEF Eval_inputb
<1>2. /\ 0 \in Threads /\ 0 \in Parties /\ 1 \in Parties /\ th[1][0] \in ThreadStates
  BY ZeroOK
<1>3. /\ th[1][0].at = "exec" /\ Position(1, 0) = Pos(Place(1))
      /\ IsAt(session, Place(1), "inputb")
  BY <1>1, <1>2, ExecutingAt
<1>4. ot[0][0] = <<>> /\ ot[1][0] = <<>>
  BY <1>3, EvaluatorData
<1>5. /\ th'[1][0] = [th[1][0] EXCEPT !.at = "keys"] /\ Elsewhere(th, th', 1, 0)
      /\ ot'[0][0] = Append(ot[0][0], Position(1, 0)) /\ Elsewhere(ot, ot', 0, 0)
  BY <1>2, Do_Eval_inputb
<1>6. /\ th'[1][0].tape = th[1][0].tape /\ th'[1][0].run = th[1][0].run
      /\ th'[1][0].PC = th[1][0].PC /\ th'[1][0].complexity = th[1][0].complexity
      /\ th'[1][0].at = "keys" /\ th'[1][0].reg = th[1][0].reg
  BY <1>2, <1>5 DEF ThreadStates
<1>7. th'[0][0] = th[0][0] /\ ot'[1][0] = <<>>
  BY <1>2, <1>4, <1>5 DEF Elsewhere
<1>8. PICK tr, n, st, i : History(tr, n, st) /\ LinkedBy(tr, n, st, i)
  BY LinkPaths
<1>9. /\ TransfersOn(session, th[1][0], ot[0][0], ot[1][0], keys[0], tr, n, i)
      /\ EvaluatorOn(session, th[1][0], Sent(th[0][0], tr[n]), tr, n, i, st)
  BY <1>8, LinkTransfers
<1>10. Pos(Place(1)) = Pos(tr[i]) /\ IsAt(session, tr[i], "inputb")
  <2>1. th[1][0].PC = tr[i].PC
    BY <1>3, <1>8, EvaluatorAt DEF InBatch
  <2>2. QED
    BY <1>3, <2>1 DEF IsAt, Place, Pos
<1>11. EvaluatorOn(session, th'[1][0], Sent(th[0][0], tr[n]), tr, n, i, st)
  BY <1>3, <1>6, <1>9, <1>10 DEF EvaluatorOn, InBatch
<1>12. ot'[0][0] = <<Pos(tr[i])>>
  <2>1. PICK x : x = Pos(tr[i])
    OBVIOUS
  <2>2. ot'[0][0] = Append(<<>>, x)
    BY <1>3, <1>4, <1>5, <1>10, <2>1
  <2>3. QED
    BY <2>1, <2>2
<1>13. TransfersOn(session, th'[1][0], ot'[0][0], ot'[1][0], keys[0], tr, n, i)
  BY <1>4, <1>6, <1>7, <1>9, <1>12 DEF TransfersOn
<1>14. (InBatch(th'[1][0]) <=> InBatch(th[1][0])) /\ th[1][0].at # "store" /\ th'[1][0].at # "store"
  BY <1>3, <1>6 DEF InBatch
<1>15. Linked(session, th[0][0], th'[1][0], gates[0][0], masks[0][0], gates[1][0], masks[1][0],
             keys[0], store[0], chan[0][0], chan[1][0], ot'[0][0], ot'[1][0], tr, n, st, i)
  <2>1. Linked(session, th[0][0], th[1][0], gates[0][0], masks[0][0], gates[1][0], masks[1][0],
             keys[0], store[0], chan[0][0], chan[1][0], ot[0][0], ot[1][0], tr, n, st, i)
    BY <1>8 DEF LinkedBy
  <2>2. QED
    BY <1>11, <1>13, <1>14, <2>1, EvaluatorMoves, SMTT(60)
<1>16. LinkedBy(tr, n, st, i)'
  BY <1>1, <1>7, <1>15 DEF LinkedBy
<1>17. Link'
  BY <1>8, <1>16 DEF Link, InLink, History, LinkedBy
<1>18. QED
  BY <1>1, <1>17, NoFailure

LEMMA Link_Evaluator_finish ==
  ASSUME Types, Link, OnlyBranchingFails, Evaluator_finish(0)
  PROVE  Link' /\ OnlyBranchingFails'
<1>1. AtEnd(1, 0) /\ UNCHANGED <<session, gates, masks, keys, store, ot>>
  BY DEF Evaluator_finish
<1>2. /\ 0 \in Threads /\ 0 \in Parties /\ 1 \in Parties /\ th[1][0] \in ThreadStates
      /\ session.continuous \in BOOLEAN /\ th[0][0].tainted \in BOOLEAN
  BY ZeroOK
<1>3. /\ session.continuous /\ session.variant = "init" =>
           chan'[0][0] = Append(chan[0][0], [type |-> "pack"]) /\ Elsewhere(chan, chan', 0, 0)
      /\ session.continuous /\ session.variant = "reconstruct" =>
           chan[1][0] # <<>> /\ chan'[1][0] = Tail(chan[1][0]) /\ Elsewhere(chan, chan', 1, 0)
      /\ ~session.continuous \/ session.variant \notin {"init", "reconstruct"} => chan' = chan
  BY <1>2, Do_Evaluator_finish
<1>4. (session.continuous /\ session.variant = "reconstruct" => Head(chan[1][0]).type = "pack") =>
           /\ th'[1][0] = [th[1][0] EXCEPT !.at = "schedule"] /\ Elsewhere(th, th', 1, 0)
           /\ UNCHANGED failure
  BY <1>2, Do_Evaluator_finish
<1>5. EvaluatorLast(session, chan[0][0], chan[1][0], chan'[0][0], chan'[1][0])
  <2>1. CASE session.continuous /\ session.variant = "init"
    BY <1>2, <1>3, <2>1 DEF Elsewhere, EvaluatorLast
  <2>2. CASE session.continuous /\ session.variant = "reconstruct"
    BY <1>2, <1>3, <2>2 DEF Elsewhere, EvaluatorLast
  <2>3. CASE ~session.continuous \/ session.variant \notin {"init", "reconstruct"}
    BY <1>3, <2>3 DEF EvaluatorLast
  <2>4. QED
    BY <2>1, <2>2, <2>3
<1>6. PICK tr, n, st, i : History(tr, n, st) /\ LinkedBy(tr, n, st, i)
  BY LinkPaths
<1>7. th[1][0].at = "exec" /\ th[1][0].run = 1 /\ th[1][0].tape = 0 /\ PastEnd(session, tr[i])
  <2>1. th[1][0].at = "exec" /\ PastEnd(session, Place(1))
    BY <1>1, <1>2, AtEndAt
  <2>2. th[1][0].PC = tr[i].PC /\ th[1][0].run = 1 /\ th[1][0].tape = 0
    BY <1>6, <2>1, EvaluatorAt DEF InBatch
  <2>3. QED
    BY <2>1, <2>2 DEF PastEnd, Place
<1>8. /\ session.continuous /\ session.variant = "reconstruct" => Head(chan[1][0]).type = "pack"
      /\ \A v2 : /\ v2.tape = 0 /\ v2.run = 1 /\ v2.PC = th[1][0].PC /\ v2.reg = th[1][0].reg
                 /\ v2.at = "schedule"
                 => Linked(session, th[0][0], v2, gates[0][0], masks[0][0], gates[1][0], masks[1][0],
                           keys[0], store[0], chan'[0][0], chan'[1][0], <<>>, <<>>, tr, n, st, i + 1)
  <2>1. Linked(session, th[0][0], th[1][0], gates[0][0], masks[0][0], gates[1][0], masks[1][0],
             keys[0], store[0], chan[0][0], chan[1][0], ot[0][0], ot[1][0], tr, n, st, i)
    BY <1>6 DEF LinkedBy
  <2>2. QED
    BY <1>2, <1>5, <1>6, <1>7, <2>1, EvaluatorFinishes, SMTT(60)
<1>9. /\ th'[1][0] = [th[1][0] EXCEPT !.at = "schedule"] /\ Elsewhere(th, th', 1, 0)
      /\ UNCHANGED failure
  BY <1>4, <1>8
<1>10. /\ th'[1][0].tape = 0 /\ th'[1][0].run = 1 /\ th'[1][0].PC = th[1][0].PC
       /\ th'[1][0].reg = th[1][0].reg /\ th'[1][0].at = "schedule"
  BY <1>2, <1>7, <1>9 DEF ThreadStates
<1>11. Linked(session, th[0][0], th'[1][0], gates[0][0], masks[0][0], gates[1][0], masks[1][0],
              keys[0], store[0], chan'[0][0], chan'[1][0], <<>>, <<>>, tr, n, st, i + 1)
  BY <1>8, <1>10
<1>12. th'[0][0] = th[0][0] /\ ot[0][0] = <<>> /\ ot[1][0] = <<>>
  BY <1>2, <1>7, <1>9, EvaluatorData DEF Elsewhere
<1>13. LinkedBy(tr, n, st, i + 1)'
  BY <1>1, <1>11, <1>12 DEF LinkedBy
<1>14. Link'
  BY <1>6, <1>13 DEF Link, InLink, History, LinkedBy
<1>15. QED
  BY <1>1, <1>9, <1>14, NoFailure

LEMMA Link_receive_to_store ==
  ASSUME Types, Link, OnlyBranchingFails, receive_to_store(0)
  PROVE  Link' /\ OnlyBranchingFails'
<1>1. th[1][0].at = "store" /\ UNCHANGED <<session, gates, masks, keys, ot>>
  BY DEF receive_to_store, At
<1>2. 0 \in Threads /\ 0 \in Parties /\ 1 \in Parties /\ th[1][0] \in ThreadStates
  BY ZeroOK
<1>3. chan[1][0] # <<>> /\ chan'[1][0] = Tail(chan[1][0]) /\ Elsewhere(chan, chan', 1, 0)
  BY <1>2, Do_receive_to_store
<1>4. Head(chan[1][0]).type = "MORE" =>
           store'[0] = Append(store[0], Head(chan[1][0])) /\ UNCHANGED <<th, failure>>
  BY <1>2, Do_receive_to_store
<1>5. Head(chan[1][0]).type = "DONE" =>
           /\ th'[1][0] = [th[1][0] EXCEPT !.at = "schedule"] /\ Elsewhere(th, th', 1, 0)
           /\ UNCHANGED <<store, failure>>
  BY <1>2, Do_receive_to_store
<1>6. PICK tr, n, st, i : History(tr, n, st) /\ LinkedBy(tr, n, st, i)
  BY LinkPaths
<1>7. \/ /\ Head(chan[1][0]).type = "MORE"
         /\ Linked(session, th[0][0], th[1][0], gates[0][0], masks[0][0], gates[1][0], masks[1][0], keys[0],
                   Append(store[0], Head(chan[1][0])), chan[0][0], Tail(chan[1][0]),
                   ot[0][0], ot[1][0], tr, n, st, i)
      \/ /\ Head(chan[1][0]).type = "DONE"
         /\ \A v2 : /\ v2.tape = th[1][0].tape /\ v2.run = th[1][0].run /\ v2.PC = th[1][0].PC /\ v2.at = "schedule"
                    => Linked(session, th[0][0], v2, gates[0][0], masks[0][0], gates[1][0], masks[1][0],
                              keys[0], store[0], chan[0][0], Tail(chan[1][0]),
                              ot[0][0], ot[1][0], tr, n, st, i)
  <2>1. Linked(session, th[0][0], th[1][0], gates[0][0], masks[0][0], gates[1][0], masks[1][0],
             keys[0], store[0], chan[0][0], chan[1][0], ot[0][0], ot[1][0], tr, n, st, i)
    BY <1>6 DEF LinkedBy
  <2>2. th[1][0].at = "store" /\ chan[1][0] # <<>>
    BY <1>1, <1>3
  <2>3. QED
    BY <1>6, <2>1, <2>2, EvaluatorStores, SMTT(60)
<1>8. chan'[0][0] = chan[0][0]
  BY <1>2, <1>3 DEF Elsewhere
<1>9. CASE Head(chan[1][0]).type = "MORE"
  <2>1. LinkedBy(tr, n, st, i)'
    BY <1>1, <1>3, <1>4, <1>7, <1>8, <1>9 DEF LinkedBy
  <2>2. Link'
    BY <1>6, <2>1 DEF Link, InLink, History, LinkedBy
  <2>3. QED
    BY <1>1, <1>4, <1>9, <2>2, NoFailure
<1>10. CASE Head(chan[1][0]).type = "DONE"
  <2>1. /\ th'[1][0].tape = th[1][0].tape /\ th'[1][0].run = th[1][0].run
        /\ th'[1][0].PC = th[1][0].PC /\ th'[1][0].at = "schedule"
    <3>1. th'[1][0] = [th[1][0] EXCEPT !.at = "schedule"]
      BY <1>5, <1>10
    <3>2. QED
      BY <1>2, <3>1 DEF ThreadStates
  <2>2. Linked(session, th[0][0], th'[1][0], gates[0][0], masks[0][0], gates[1][0], masks[1][0],
               keys[0], store[0], chan[0][0], Tail(chan[1][0]), ot[0][0], ot[1][0], tr, n, st, i)
    BY <1>7, <1>10, <2>1
  <2>3. th'[0][0] = th[0][0] /\ UNCHANGED <<store, failure>>
    BY <1>2, <1>5, <1>10 DEF Elsewhere
  <2>4. LinkedBy(tr, n, st, i)'
    BY <1>1, <1>3, <1>8, <2>2, <2>3 DEF LinkedBy
  <2>5. Link'
    BY <1>6, <2>4 DEF Link, InLink, History, LinkedBy
  <2>6. QED
    BY <1>1, <2>3, <2>5, NoFailure
<1>11. QED
  BY <1>7, <1>9, <1>10

LEMMA Link_receive ==
  ASSUME Types, Link, OnlyBranchingFails, receive(0)
  PROVE  Link' /\ OnlyBranchingFails'
<1>1. th[1][0].at = "receive" /\ session.continuous /\ UNCHANGED <<session, keys, store, ot>>
  BY SMTT(30) DEF receive, At
<1>2. 0 \in Threads /\ 0 \in Parties /\ 1 \in Parties /\ th[1][0] \in ThreadStates
  BY ZeroOK
<1>3. chan[1][0] # <<>> /\ chan'[1][0] = Tail(chan[1][0]) /\ Elsewhere(chan, chan', 1, 0)
  BY <1>2, Do_receive, ZenonT(60)
<1>4. Head(chan[1][0]).type = "MORE" =>
              /\ th'[1][0] = [th[1][0] EXCEPT !.at = "exec", !.complexity = 0]
              /\ gates'[1][0] = Head(chan[1][0]).gates /\ masks'[1][0] = Head(chan[1][0]).masks
              /\ Elsewhere(th, th', 1, 0) /\ Elsewhere(gates, gates', 1, 0)
              /\ Elsewhere(masks, masks', 1, 0) /\ UNCHANGED failure
  BY <1>2, Do_receive
<1>5. PICK tr, n, st, i : History(tr, n, st) /\ LinkedBy(tr, n, st, i)
  BY LinkPaths
<1>6. /\ Head(chan[1][0]).type = "MORE"
      /\ \A v2 : /\ v2.tape = th[1][0].tape /\ v2.run = th[1][0].run /\ v2.PC = th[1][0].PC
                 /\ v2.reg = th[1][0].reg /\ v2.at = "exec" /\ v2.complexity = 0
                 => Linked(session, th[0][0], v2, gates[0][0], masks[0][0], Head(chan[1][0]).gates,
                           Head(chan[1][0]).masks, keys[0], store[0],
                           chan[0][0], Tail(chan[1][0]), ot[0][0], ot[1][0], tr, n, st, i)
  <2>1. Linked(session, th[0][0], th[1][0], gates[0][0], masks[0][0], gates[1][0], masks[1][0],
             keys[0], store[0], chan[0][0], chan[1][0], ot[0][0], ot[1][0], tr, n, st, i)
    BY <1>5 DEF LinkedBy
  <2>2. th[1][0].at = "receive" /\ session.continuous /\ chan[1][0] # <<>>
    BY <1>1, <1>3
  <2>3. QED
    BY <1>5, <2>1, <2>2, EvaluatorReceives, SMTT(60)
<1>7. /\ th'[1][0] = [th[1][0] EXCEPT !.at = "exec", !.complexity = 0]
      /\ gates'[1][0] = Head(chan[1][0]).gates /\ masks'[1][0] = Head(chan[1][0]).masks
      /\ Elsewhere(th, th', 1, 0) /\ Elsewhere(gates, gates', 1, 0)
      /\ Elsewhere(masks, masks', 1, 0) /\ UNCHANGED failure
  BY <1>4, <1>6
<1>8. /\ th'[1][0].tape = th[1][0].tape /\ th'[1][0].run = th[1][0].run /\ th'[1][0].PC = th[1][0].PC
      /\ th'[1][0].reg = th[1][0].reg /\ th'[1][0].at = "exec" /\ th'[1][0].complexity = 0
  BY <1>2, <1>7 DEF ThreadStates
<1>9. Linked(session, th[0][0], th'[1][0], gates[0][0], masks[0][0], Head(chan[1][0]).gates,
             Head(chan[1][0]).masks, keys[0], store[0],
             chan[0][0], Tail(chan[1][0]), ot[0][0], ot[1][0], tr, n, st, i)
  BY <1>6, <1>8
<1>10. th'[0][0] = th[0][0] /\ gates'[0][0] = gates[0][0] /\ masks'[0][0] = masks[0][0]
       /\ chan'[0][0] = chan[0][0]
  BY <1>2, <1>3, <1>7 DEF Elsewhere
<1>11. LinkedBy(tr, n, st, i)'
  BY <1>1, <1>3, <1>7, <1>9, <1>10 DEF LinkedBy
<1>12. Link'
  BY <1>5, <1>11 DEF Link, InLink, History, LinkedBy
<1>13. QED
  BY <1>1, <1>7, <1>12, NoFailure

LEMMA Link_pop_store ==
  ASSUME Types, Link, OnlyBranchingFails, pop_store(0)
  PROVE  Link' /\ OnlyBranchingFails'
<1>1. th[1][0].at = "receive" /\ ~session.continuous /\ UNCHANGED <<session, keys, chan, ot, failure>>
  BY DEF pop_store, At
<1>2. 0 \in Threads /\ 0 \in Parties /\ 1 \in Parties /\ th[1][0] \in ThreadStates
  BY ZeroOK
<1>3. /\ th'[1][0] = [th[1][0] EXCEPT !.at = "exec", !.complexity = 0]
      /\ Elsewhere(th, th', 1, 0)
  BY <1>2, Do_pop_store
<1>4. store[0] # <<>> =>
         /\ gates'[1][0] = Head(store[0]).gates /\ masks'[1][0] = Head(store[0]).masks
         /\ Elsewhere(gates, gates', 1, 0) /\ Elsewhere(masks, masks', 1, 0)
         /\ store'[0] = Tail(store[0])
  BY <1>2, Do_pop_store
<1>5. PICK tr, n, st, i : History(tr, n, st) /\ LinkedBy(tr, n, st, i)
  BY LinkPaths
<1>6. /\ store[0] # <<>>
      /\ \A v2 : /\ v2.tape = th[1][0].tape /\ v2.run = th[1][0].run /\ v2.PC = th[1][0].PC
                 /\ v2.reg = th[1][0].reg /\ v2.at = "exec" /\ v2.complexity = 0
                 => Linked(session, th[0][0], v2, gates[0][0], masks[0][0], Head(store[0]).gates,
                           Head(store[0]).masks, keys[0], Tail(store[0]),
                           chan[0][0], chan[1][0], ot[0][0], ot[1][0], tr, n, st, i)
  <2>1. Linked(session, th[0][0], th[1][0], gates[0][0], masks[0][0], gates[1][0], masks[1][0],
             keys[0], store[0], chan[0][0], chan[1][0], ot[0][0], ot[1][0], tr, n, st, i)
    BY <1>5 DEF LinkedBy
  <2>2. th[1][0].at = "receive" /\ ~session.continuous
    BY <1>1
  <2>3. QED
    BY <1>5, <2>1, <2>2, EvaluatorPops, SMTT(60)
<1>7. /\ gates'[1][0] = Head(store[0]).gates /\ masks'[1][0] = Head(store[0]).masks
      /\ Elsewhere(gates, gates', 1, 0) /\ Elsewhere(masks, masks', 1, 0)
      /\ store'[0] = Tail(store[0])
  BY <1>4, <1>6
<1>8. /\ th'[1][0].tape = th[1][0].tape /\ th'[1][0].run = th[1][0].run /\ th'[1][0].PC = th[1][0].PC
      /\ th'[1][0].reg = th[1][0].reg /\ th'[1][0].at = "exec" /\ th'[1][0].complexity = 0
  BY <1>2, <1>3 DEF ThreadStates
<1>9. Linked(session, th[0][0], th'[1][0], gates[0][0], masks[0][0], Head(store[0]).gates,
             Head(store[0]).masks, keys[0], Tail(store[0]),
             chan[0][0], chan[1][0], ot[0][0], ot[1][0], tr, n, st, i)
  BY <1>6, <1>8
<1>10. th'[0][0] = th[0][0] /\ gates'[0][0] = gates[0][0] /\ masks'[0][0] = masks[0][0]
  BY <1>2, <1>3, <1>7 DEF Elsewhere
<1>11. LinkedBy(tr, n, st, i)'
  BY <1>1, <1>7, <1>9, <1>10 DEF LinkedBy
<1>12. Link'
  BY <1>5, <1>11 DEF Link, InLink, History, LinkedBy
<1>13. QED
  BY <1>1, <1>12, NoFailure

(* The evaluator's thread takes the tape, or ends.                         *)
LEMMA LinkEvaluatorMoves ==
  ASSUME Types, NEW tr, NEW n, NEW st, NEW i, History(tr, n, st), LinkedBy(tr, n, st, i),
         th[1][0].at = "schedule", th'[1][0].at \in {"receive", "ended"},
         EvaluatorOn(session, th'[1][0], Sent(th[0][0], tr[n]), tr, n, i, st),
         UNCHANGED <<session, gates, masks, keys, store, chan, ot>>, Elsewhere(th, th', 1, 0)
  PROVE  Link'
<1>1. Linked(session, th[0][0], th[1][0], gates[0][0], masks[0][0], gates[1][0], masks[1][0],
           keys[0], store[0], chan[0][0], chan[1][0], ot[0][0], ot[1][0], tr, n, st, i)
  BY DEF LinkedBy
<1>2. (InBatch(th'[1][0]) <=> InBatch(th[1][0])) /\ th[1][0].at # "store" /\ th'[1][0].at # "store"
  BY DEF InBatch
<1>3. TransfersOn(session, th'[1][0], ot[0][0], ot[1][0], keys[0], tr, n, i)
  BY LinkTransfers DEF TransfersOn
<1>4. Linked(session, th[0][0], th'[1][0], gates[0][0], masks[0][0], gates[1][0], masks[1][0],
             keys[0], store[0], chan[0][0], chan[1][0], ot[0][0], ot[1][0], tr, n, st, i)
  BY <1>1, <1>2, <1>3, EvaluatorMoves, SMTT(60)
<1>5. th'[0][0] = th[0][0]
  BY ZeroOK DEF Elsewhere
<1>6. LinkedBy(tr, n, st, i)'
  BY <1>4, <1>5 DEF LinkedBy
<1>7. QED
  BY <1>6 DEF Link, InLink, History, LinkedBy

LEMMA Link_evaluator_StartTape ==
  ASSUME Types, Link, OnlyBranchingFails, StartTape(1, 0), Scheduled(1)
  PROVE  Link' /\ OnlyBranchingFails' /\ th'[1][0].run = 1
<1>0. queue[1][0] = <<0>> /\ th[1][0].run = 0
  BY DEF StartTape, Scheduled
<1> USE <1>0
<1>1. /\ th[1][0].at = "schedule"
      /\ UNCHANGED <<session, gates, masks, keys, store, chan, ot, failure>>
  BY DEF StartTape, At
<1>2. 0 \in Threads /\ 0 \in Parties /\ 1 \in Parties /\ th[1][0] \in ThreadStates
  BY ZeroOK
<1>3. /\ th'[1][0] = [th[1][0] EXCEPT !.tape = Head(queue[1][0]), !.run = @ + 1,
                       !.PC = 1, !.complexity = 0, !.last = "time",
                       !.at = IF 1 = 0 THEN "exec" ELSE "receive"]
      /\ Elsewhere(th, th', 1, 0)
  BY <1>2, Do_StartTape, ZenonT(60)
<1>4. Head(queue[1][0]) = 0
  OBVIOUS
<1>5. th'[1][0] = [th[1][0] EXCEPT !.tape = 0, !.run = @ + 1,
                       !.PC = 1, !.complexity = 0, !.last = "time", !.at = "receive"]
  BY <1>3, <1>4
<1>6. /\ th'[1][0].tape = 0 /\ th'[1][0].run = 1 /\ th'[1][0].PC = 1 /\ th'[1][0].at = "receive"
      /\ th'[1][0].reg = th[1][0].reg
  BY <1>2, <1>5 DEF ThreadStates
<1>7. PICK tr, n, st, i : History(tr, n, st) /\ LinkedBy(tr, n, st, i)
  BY LinkPaths
<1>8. /\ EvaluatorOn(session, th[1][0], Sent(th[0][0], tr[n]), tr, n, i, st)
      /\ PathOK(session, tr, n, st)
  BY <1>7, LinkTransfers
<1>9. EvaluatorOn(session, th'[1][0], Sent(th[0][0], tr[n]), tr, n, i, st)
  <2>1. i = 1
    BY <1>8 DEF EvaluatorOn
  <2>2. tr[1].PC = 1 /\ ~tr[1].end
    BY <1>8 DEF PathOK
  <2>3. QED
    BY <1>1, <1>6, <1>8, <2>1, <2>2 DEF EvaluatorOn, InBatch
<1>13. Link'
  BY <1>1, <1>3, <1>6, <1>7, <1>9, LinkEvaluatorMoves
<1>14. QED
  BY <1>1, <1>6, <1>13, NoFailure

LEMMA Link_evaluator_EndThread ==
  ASSUME Types, Link, OnlyBranchingFails, EndThread(1, 0), th[1][0].run = 1
  PROVE  Link' /\ OnlyBranchingFails'
<1>1. /\ th[1][0].at = "schedule"
      /\ UNCHANGED <<session, gates, masks, keys, store, chan, ot, failure>>
  BY DEF EndThread, At
<1>2. 0 \in Threads /\ 0 \in Parties /\ 1 \in Parties /\ th[1][0] \in ThreadStates
  BY ZeroOK
<1>3. /\ th'[1][0] = [th[1][0] EXCEPT !.at =
                        IF 1 = 0 /\ ~session.continuous THEN "post_run" ELSE "ended"]
      /\ Elsewhere(th, th', 1, 0)
  BY <1>2, Do_EndThread
<1>5. th'[1][0] = [th[1][0] EXCEPT !.at = "ended"]
  BY <1>3
<1>6. /\ th'[1][0].tape = th[1][0].tape /\ th'[1][0].run = th[1][0].run /\ th'[1][0].PC = th[1][0].PC
      /\ th'[1][0].at = "ended" /\ th'[1][0].reg = th[1][0].reg
  BY <1>2, <1>5 DEF ThreadStates
<1>7. PICK tr, n, st, i : History(tr, n, st) /\ LinkedBy(tr, n, st, i)
  BY LinkPaths
<1>8. EvaluatorOn(session, th[1][0], Sent(th[0][0], tr[n]), tr, n, i, st)
  BY <1>7, LinkTransfers
<1>9. EvaluatorOn(session, th'[1][0], Sent(th[0][0], tr[n]), tr, n, i, st)
  BY <1>1, <1>6, <1>8 DEF EvaluatorOn, InBatch
<1>13. Link'
  BY <1>1, <1>3, <1>6, <1>7, <1>9, LinkEvaluatorMoves
<1>14. QED
  BY <1>1, <1>13, NoFailure

(***************************************************************************)
(* A thread's step leaves the other threads alone, unless it starts a      *)
(* tape.                                                                   *)
(***************************************************************************)
Apart(f, g, t) == \A q \in Parties, u \in Threads : u # t => g[q][u] = f[q][u]

Alone(t) ==
    /\ Apart(th, th', t) /\ Apart(gates, gates', t) /\ Apart(masks, masks', t)
    /\ Apart(chan, chan', t) /\ Apart(ot, ot', t) /\ Apart(queue, queue', t)
    /\ \A u \in Threads : u # t => keys'[u] = keys[u] /\ store'[u] = store[u]
    /\ UNCHANGED <<session, stopped, master>>

LEMMA ApartSame == ASSUME NEW f, NEW g, NEW t, g = f PROVE Apart(f, g, t)
BY DEF Apart

LEMMA ApartUpdate ==
  ASSUME NEW S, NEW f \in Grid(S), NEW p \in Parties, NEW t \in Threads, NEW x,
         NEW g, g = [f EXCEPT ![p][t] = x]
  PROVE  Apart(f, g, t)
BY DEF Apart, Grid

LEMMA Grids ==
  ASSUME Types
  PROVE  /\ th \in Grid(ThreadStates) /\ gates \in Grid(Seq(Positions)) /\ masks \in Grid(Seq(Positions))
         /\ chan \in Grid(Seq(Messages[0] \union Messages[1])) /\ ot \in Grid(Seq(Positions))
         /\ queue \in Grid(Seq(DOMAIN session.tapes))
         /\ keys \in [Threads -> Seq(Positions)] /\ store \in [Threads -> Seq(Batches)]
BY DEF Types, ThOK, BuffersOK, ChannelsOK, QueuesOK

LEMMA BecomesApart ==
  ASSUME Types, NEW p \in Parties, NEW t \in Threads, NEW x, Becomes(p, t, x)
  PROVE  Apart(th, th', t)
BY Grids, ApartUpdate DEF Becomes

LEMMA SendApart ==
  ASSUME Types, NEW p \in Parties, NEW t \in Threads, NEW x, Send(p, t, x)
  PROVE  Apart(chan, chan', t)
<1>1. chan' = [chan EXCEPT ![p][t] = Append(chan[p][t], x)]
  BY DEF Send
<1>2. QED
  BY <1>1, Grids, ApartUpdate

LEMMA ReceiveApart ==
  ASSUME Types, NEW p \in Parties, NEW t \in Threads, Receive(p, t)
  PROVE  Apart(chan, chan', t)
<1>1. chan' = [chan EXCEPT ![p][t] = Tail(chan[p][t])]
  BY DEF Receive
<1>2. QED
  BY <1>1, Grids, ApartUpdate

LEMMA ThreadAlone ==
  ASSUME Types, NEW p \in Parties, NEW t \in Threads, ThreadNext(p, t)
  PROVE  Alone(t)
<1>1. CASE StartTape(p, t)
  <2>1. queue' = [queue EXCEPT ![p][t] = Tail(queue[p][t])] /\ Apart(th, th', t)
    BY <1>1, BecomesApart DEF StartTape
  <2>2. Apart(queue, queue', t)
    BY <2>1, Grids, ApartUpdate
  <2>3. QED
    BY <1>1, <2>1, <2>2, ApartSame DEF StartTape, Alone
<1>2. CASE EndThread(p, t)
  <2>1. Apart(th, th', t)
    BY <1>2, BecomesApart DEF EndThread
  <2>2. QED
    BY <1>2, <2>1, ApartSame DEF EndThread, Alone, queues
<1>3. CASE join_tape(p, t)
  <2>1. Apart(th, th', t)
    BY <1>3, BecomesApart DEF join_tape, Step
  <2>2. QED
    BY <1>3, <2>1, ApartSame DEF join_tape, Alone
<1>4. QED
  BY <1>1, <1>2, <1>3 DEF ThreadNext

LEMMA GarblerAlone ==
  ASSUME Types, NEW t \in Threads, GarblerNext(t), ~Executing(0, t, "run_tape")
  PROVE  Alone(t)
<1>0. 0 \in Parties /\ 1 \in Parties
  BY DEF Parties
<1>1. CASE Garble_and(t)
  <2>1. gates' = [gates EXCEPT ![0][t] = Append(gates[0][t], Position(0, t))]
    BY <1>1 DEF Garble_and
  <2>2. Apart(gates, gates', t)
    BY <1>0, <2>1, Grids, ApartUpdate
  <2>3. Apart(th, th', t)
    BY <1>0, <1>1, BecomesApart DEF Garble_and, CountGate
  <2>4. QED
    BY <1>1, <2>2, <2>3, ApartSame DEF Garble_and, Alone, queues
<1>2. CASE Garble_inputb(t)
  <2>1. Apart(th, th', t)
    BY <1>0, <1>2, BecomesApart DEF Garble_inputb, Step
  <2>2. \A u \in Threads : u # t => keys'[u] = keys[u]
    BY <1>2, Grids DEF Garble_inputb
  <2>3. QED
    BY <1>2, <2>1, <2>2, ApartSame DEF Garble_inputb, Alone, queues
<1>3. CASE Garble_reveal(t)
  <2>1. masks' = [masks EXCEPT ![0][t] = Append(masks[0][t], Position(0, t))]
    BY <1>3 DEF Garble_reveal
  <2>2. Apart(masks, masks', t)
    BY <1>0, <2>1, Grids, ApartUpdate
  <2>3. Apart(th, th', t)
    BY <1>0, <1>3, BecomesApart DEF Garble_reveal, Clean
  <2>4. QED
    BY <1>3, <2>2, <2>3, ApartSame DEF Garble_reveal, Alone, queues
<1>4. CASE Garble_reveal_again(t)
  <2>1. Apart(chan, chan', t)
    BY <1>0, <1>4, ReceiveApart DEF Garble_reveal_again
  <2>2. Apart(th, th', t)
    BY <1>0, <1>4, BecomesApart, ApartSame DEF Garble_reveal_again
  <2>3. QED
    BY <1>4, <2>1, <2>2, ApartSame DEF Garble_reveal_again, Alone, queues
<1>5. CASE Garble_branch(t)
  <2>1. Apart(th, th', t)
    BY <1>0, <1>5, BecomesApart, ApartSame DEF Garble_branch, Jump
  <2>2. QED
    BY <1>5, <2>1, ApartSame DEF Garble_branch, Alone, queues
<1>6. CASE Garble_run_tapes(t)
  BY <1>6 DEF Garble_run_tapes
<1>7. CASE Garble_end(t)
  <2>1. Apart(th, th', t)
    BY <1>0, <1>7, BecomesApart DEF Garble_end
  <2>2. QED
    BY <1>7, <2>1, ApartSame DEF Garble_end, Alone, queues
<1>8. CASE send(t)
  <2>1. Apart(gates, gates', t) /\ Apart(masks, masks', t)
    BY <1>0, <1>8, Grids, ApartUpdate DEF send
  <2>2. Apart(chan, chan', t)
    BY <1>0, <1>8, SendApart DEF send
  <2>3. Apart(th, th', t)
    BY <1>0, <1>8, BecomesApart DEF send, NextBatch
  <2>4. QED
    BY <1>8, <2>1, <2>2, <2>3, ApartSame DEF send, Alone, queues
<1>9. CASE process_receiver_inputs(t)
  <2>1. Apart(ot, ot', t)
    <3>1. ot' = [ot EXCEPT ![0][t] = Tail(ot[0][t]), ![1][t] = Append(@, Head(keys[t]))]
      BY <1>9 DEF process_receiver_inputs
    <3>2. QED
      BY <1>0, <3>1, Grids DEF Grid, Apart
  <2>2. \A u \in Threads : u # t => keys'[u] = keys[u]
    BY <1>9, Grids DEF process_receiver_inputs
  <2>3. Apart(th, th', t)
    BY <1>0, <1>9, BecomesApart, ApartSame DEF process_receiver_inputs, NextBatch
  <2>4. QED
    BY <1>9, <2>1, <2>2, <2>3, ApartSame DEF process_receiver_inputs, Alone, queues
<1>10. CASE Garbler_finish(t)
  <2>1. Apart(chan, chan', t)
    BY <1>0, <1>10, SendApart, ReceiveApart, ApartSame DEF Garbler_finish
  <2>2. Apart(th, th', t)
    BY <1>0, <1>10, BecomesApart, ApartSame DEF Garbler_finish, EndTape
  <2>3. QED
    BY <1>10, <2>1, <2>2, ApartSame DEF Garbler_finish, Alone
<1>11. CASE post_run(t)
  <2>1. Apart(chan, chan', t)
    BY <1>0, <1>11, SendApart DEF post_run
  <2>2. Apart(th, th', t)
    BY <1>0, <1>11, BecomesApart DEF post_run
  <2>3. QED
    BY <1>11, <2>1, <2>2, ApartSame DEF post_run, Alone, queues
<1>12. QED
  BY <1>1, <1>2, <1>3, <1>4, <1>5, <1>6, <1>7, <1>8, <1>9, <1>10, <1>11 DEF GarblerNext

LEMMA EvaluatorAlone ==
  ASSUME Types, NEW t \in Threads, EvaluatorNext(t), ~Executing(1, t, "run_tape")
  PROVE  Alone(t)
<1>0. 0 \in Parties /\ 1 \in Parties
  BY DEF Parties
<1>1. CASE receive_to_store(t)
  <2>1. Apart(chan, chan', t)
    BY <1>0, <1>1, ReceiveApart DEF receive_to_store
  <2>2. Apart(th, th', t)
    BY <1>0, <1>1, BecomesApart, ApartSame DEF receive_to_store
  <2>3. \A u \in Threads : u # t => store'[u] = store[u]
    BY <1>1, Grids DEF receive_to_store
  <2>4. QED
    BY <1>1, <2>1, <2>2, <2>3, ApartSame DEF receive_to_store, Alone, queues
<1>2. CASE receive(t)
  <2>1. Apart(chan, chan', t)
    BY <1>0, <1>2, ReceiveApart DEF receive
  <2>2. Apart(th, th', t) /\ Apart(gates, gates', t) /\ Apart(masks, masks', t)
    <3>1. CASE LoadBatch(t, Head(chan[1][t]))
      BY <1>0, <3>1, BecomesApart, Grids, ApartUpdate DEF LoadBatch
    <3>2. CASE UNCHANGED <<gates, masks, th>>
      BY <3>2, ApartSame
    <3>3. QED
      BY <1>2, <3>1, <3>2 DEF receive
  <2>3. QED
    BY <1>2, <2>1, <2>2, ApartSame DEF receive, Alone, queues
<1>3. CASE pop_store(t)
  <2>1. Apart(th, th', t)
    BY <1>0, <1>3, BecomesApart DEF pop_store, LoadBatch
  <2>2. Apart(gates, gates', t) /\ Apart(masks, masks', t)
    <3>1. CASE LoadBatch(t, Head(store[t]))
      BY <1>0, <3>1, Grids, ApartUpdate DEF LoadBatch
    <3>2. CASE UNCHANGED <<gates, masks>>
      BY <3>2, ApartSame
    <3>3. QED
      BY <1>3, <3>1, <3>2 DEF pop_store
  <2>3. \A u \in Threads : u # t => store'[u] = store[u]
    BY <1>3, Grids DEF pop_store
  <2>4. QED
    BY <1>3, <2>1, <2>2, <2>3, ApartSame DEF pop_store, Alone, queues
<1>4. CASE Eval_and(t)
  <2>1. Apart(gates, gates', t)
    <3>1. gates' = [gates EXCEPT ![1][t] = Tail(gates[1][t])] \/ gates' = gates
      BY <1>4 DEF Eval_and
    <3>2. QED
      BY <1>0, <3>1, Grids, ApartUpdate, ApartSame
  <2>2. Apart(th, th', t)
    BY <1>0, <1>4, BecomesApart, ApartSame DEF Eval_and, CountGate
  <2>3. QED
    BY <1>4, <2>1, <2>2, ApartSame DEF Eval_and, Alone, queues
<1>5. CASE Eval_inputb(t)
  <2>1. ot' = [ot EXCEPT ![0][t] = Append(ot[0][t], Position(1, t))]
    BY <1>5 DEF Eval_inputb
  <2>2. Apart(ot, ot', t)
    BY <1>0, <2>1, Grids, ApartUpdate
  <2>3. Apart(th, th', t)
    BY <1>0, <1>5, BecomesApart DEF Eval_inputb
  <2>4. QED
    BY <1>5, <2>2, <2>3, ApartSame DEF Eval_inputb, Alone, queues
<1>6. CASE Eval_finalize_input(t)
  <2>1. ot' = [ot EXCEPT ![1][t] = Tail(ot[1][t])]
    BY <1>6 DEF Eval_finalize_input
  <2>2. Apart(ot, ot', t)
    BY <1>0, <2>1, Grids, ApartUpdate
  <2>3. Apart(th, th', t)
    BY <1>0, <1>6, BecomesApart DEF Eval_finalize_input, Step
  <2>4. QED
    BY <1>6, <2>2, <2>3, ApartSame DEF Eval_finalize_input, Alone, queues
<1>7. CASE Eval_reveal(t)
  <2>1. Apart(masks, masks', t)
    <3>1. masks' = [masks EXCEPT ![1][t] = Tail(masks[1][t])] \/ masks' = masks
      BY <1>7 DEF Eval_reveal
    <3>2. QED
      BY <1>0, <3>1, Grids, ApartUpdate, ApartSame
  <2>2. Apart(th, th', t)
    BY <1>0, <1>7, BecomesApart, ApartSame DEF Eval_reveal
  <2>3. Apart(chan, chan', t)
    BY <1>0, <1>7, SendApart, ApartSame DEF Eval_reveal
  <2>4. QED
    BY <1>7, <2>1, <2>2, <2>3, ApartSame DEF Eval_reveal, Alone, queues
<1>8. CASE Eval_branch(t)
  <2>1. Apart(th, th', t)
    BY <1>0, <1>8, BecomesApart, ApartSame DEF Eval_branch, Jump
  <2>2. QED
    BY <1>8, <2>1, ApartSame DEF Eval_branch, Alone, queues
<1>9. CASE Eval_run_tapes(t)
  BY <1>9 DEF Eval_run_tapes
<1>10. CASE Evaluator_finish(t)
  <2>1. Apart(chan, chan', t)
    BY <1>0, <1>10, SendApart, ReceiveApart, ApartSame DEF Evaluator_finish
  <2>2. Apart(th, th', t)
    BY <1>0, <1>10, BecomesApart, ApartSame DEF Evaluator_finish, EndTape
  <2>3. QED
    BY <1>10, <2>1, <2>2, ApartSame DEF Evaluator_finish, Alone
<1>11. QED
  BY <1>1, <1>2, <1>3, <1>4, <1>5, <1>6, <1>7, <1>8, <1>9, <1>10 DEF EvaluatorNext

(***************************************************************************)
(* The whole session.  A step of a thread that starts no tape leaves the   *)
(* schedules and the number of tapes started alone.                        *)
(***************************************************************************)
Keeps(p, t) ==
    /\ th[p][t].at # "ended" /\ th'[p][t].run = th[p][t].run
    /\ Elsewhere(th, th', p, t)
    /\ UNCHANGED <<queue, stopped, master>>

LEMMA BecomesKeeps ==
  ASSUME Types, NEW p \in Parties, NEW t \in Threads, NEW x, Becomes(p, t, x), x.run = th[p][t].run
  PROVE  th'[p][t].run = th[p][t].run /\ Elsewhere(th, th', p, t)
BY Grids DEF Becomes, Grid, Elsewhere

LEMMA SameKeeps ==
  ASSUME NEW p, NEW t, th' = th
  PROVE  th'[p][t].run = th[p][t].run /\ Elsewhere(th, th', p, t)
BY DEF Elsewhere

LEMMA GarblerKeeps ==
  ASSUME Types, NEW t \in Threads, GarblerNext(t), ~Executing(0, t, "run_tape")
  PROVE  Keeps(0, t)
<1>0. 0 \in Parties /\ th[0][t] \in ThreadStates
  BY ThType DEF Parties
<1> USE <1>0
<1>1. CASE Garble_and(t)
  BY <1>1, BecomesKeeps DEF Garble_and, CountGate, ThreadStates, Keeps, queues, Executing, At
<1>2. CASE Garble_inputb(t)
  BY <1>2, BecomesKeeps DEF Garble_inputb, Step, ThreadStates, Keeps, queues, Executing, At
<1>3. CASE Garble_reveal(t)
  BY <1>3, BecomesKeeps DEF Garble_reveal, Clean, ThreadStates, Keeps, queues, Executing, At
<1>4. CASE Garble_reveal_again(t)
  BY <1>4, BecomesKeeps, SameKeeps DEF Garble_reveal_again, ThreadStates, Keeps, queues, Executing, At
<1>5. CASE Garble_branch(t)
  BY <1>5, BecomesKeeps, SameKeeps DEF Garble_branch, Jump, ThreadStates, Keeps, queues, Executing, At
<1>6. CASE Garble_run_tapes(t)
  BY <1>6 DEF Garble_run_tapes
<1>7. CASE Garble_end(t)
  BY <1>7, BecomesKeeps DEF Garble_end, ThreadStates, Keeps, queues, AtEnd, At
<1>8. CASE send(t)
  BY <1>8, BecomesKeeps DEF send, NextBatch, ThreadStates, Keeps, queues, At
<1>9. CASE process_receiver_inputs(t)
  BY <1>9, BecomesKeeps, SameKeeps DEF process_receiver_inputs, NextBatch, ThreadStates, Keeps, queues, At
<1>10. CASE Garbler_finish(t)
  BY <1>10, BecomesKeeps, SameKeeps DEF Garbler_finish, EndTape, ThreadStates, Keeps, At
<1>11. CASE post_run(t)
  BY <1>11, BecomesKeeps DEF post_run, ThreadStates, Keeps, queues, At
<1>12. QED
  BY <1>1, <1>2, <1>3, <1>4, <1>5, <1>6, <1>7, <1>8, <1>9, <1>10, <1>11 DEF GarblerNext

LEMMA EvaluatorKeeps ==
  ASSUME Types, NEW t \in Threads, EvaluatorNext(t), ~Executing(1, t, "run_tape")
  PROVE  Keeps(1, t)
<1>0. 1 \in Parties /\ th[1][t] \in ThreadStates
  BY ThType DEF Parties
<1> USE <1>0
<1>1. CASE receive_to_store(t)
  BY <1>1, BecomesKeeps, SameKeeps DEF receive_to_store, ThreadStates, Keeps, queues, At
<1>2. CASE receive(t)
  BY <1>2, BecomesKeeps, SameKeeps DEF receive, LoadBatch, ThreadStates, Keeps, queues, At
<1>3. CASE pop_store(t)
  BY <1>3, BecomesKeeps DEF pop_store, LoadBatch, ThreadStates, Keeps, queues, At
<1>4. CASE Eval_and(t)
  BY <1>4, BecomesKeeps, SameKeeps DEF Eval_and, CountGate, ThreadStates, Keeps, queues, Executing, At
<1>5. CASE Eval_inputb(t)
  BY <1>5, BecomesKeeps DEF Eval_inputb, ThreadStates, Keeps, queues, Executing, At
<1>6. CASE Eval_finalize_input(t)
  BY <1>6, BecomesKeeps DEF Eval_finalize_input, Step, ThreadStates, Keeps, queues, At
<1>7. CASE Eval_reveal(t)
  BY <1>7, BecomesKeeps, SameKeeps DEF Eval_reveal, ThreadStates, Keeps, queues, Executing, At
<1>8. CASE Eval_branch(t)
  BY <1>8, BecomesKeeps, SameKeeps DEF Eval_branch, Jump, ThreadStates, Keeps, queues, Executing, At
<1>9. CASE Eval_run_tapes(t)
  BY <1>9 DEF Eval_run_tapes
<1>10. CASE Evaluator_finish(t)
  BY <1>10, BecomesKeeps, SameKeeps DEF Evaluator_finish, EndTape, ThreadStates, Keeps, AtEnd, At
<1>11. QED
  BY <1>1, <1>2, <1>3, <1>4, <1>5, <1>6, <1>7, <1>8, <1>9, <1>10 DEF EvaluatorNext

LEMMA ThreadKeeps ==
  ASSUME Types, NEW p \in Parties, NEW t \in Threads, EndThread(p, t) \/ join_tape(p, t)
  PROVE  Keeps(p, t)
<1>0. th[p][t] \in ThreadStates
  BY ThType
<1>1. CASE EndThread(p, t)
  BY <1>0, <1>1, BecomesKeeps DEF EndThread, ThreadStates, Keeps, queues, At
<1>2. CASE join_tape(p, t)
  BY <1>0, <1>2, BecomesKeeps DEF join_tape, Step, ThreadStates, Keeps, Executing, At
<1>3. QED
  BY <1>1, <1>2

(* Then the schedules stay right, and the other threads idle.              *)
LEMMA ScheduledStays ==
  ASSUME Types, NEW p \in Parties, NEW t \in Threads, Keeps(p, t), NEW q \in Parties, Scheduled(q)
  PROVE  Scheduled(q)'
<1>0. 0 \in Threads
  BY ZeroOK
<1>1. \A u \in Threads : th'[q][u].run = th[q][u].run /\ (th[q][u].at = "ended" => th'[q][u].at = "ended")
  BY DEF Keeps, Elsewhere
<1>2. QED
  BY <1>0, <1>1 DEF Scheduled, Keeps

LEMMA IdleStays ==
  ASSUME NEW t \in Threads, Alone(t), NEW u \in Threads, u # t, Idle(u)
  PROVE  Idle(u)'
<1>1. 0 \in Parties /\ 1 \in Parties
  BY DEF Parties
<1>2. \A p \in Parties : /\ th'[p][u] = th[p][u] /\ gates'[p][u] = gates[p][u] /\ masks'[p][u] = masks[p][u]
                         /\ ot'[p][u] = ot[p][u] /\ queue'[p][u] = queue[p][u] /\ chan'[p][u] = chan[p][u]
  BY DEF Alone, Apart
<1>3. keys'[u] = keys[u] /\ store'[u] = store[u] /\ session' = session
  BY DEF Alone
<1>4. QED
  BY <1>1, <1>2, <1>3 DEF Idle

(* A step of another thread leaves the link alone.                         *)
LEMMA LinkApart ==
  ASSUME Link, NEW t \in Threads, Alone(t), t # 0, 0 \in Threads
  PROVE  Link'
BY LinkStays DEF Alone, Apart

(* What a thread without a tape can do: it ends, on the garbler's side     *)
(* after telling the evaluator's thread, which waits for that.             *)
LEMMA IdleThread ==
  ASSUME Types, NEW p \in Parties, NEW t \in Threads, Idle(t), ThreadNext(p, t)
  PROVE  EndThread(p, t) /\ Idle(t)' /\ UNCHANGED failure
<1>0. 0 \in Parties /\ 1 \in Parties /\ th[p][t] \in ThreadStates
  BY ThType DEF Parties
<1>1. EndThread(p, t)
  BY DEF Idle, ThreadNext, StartTape, join_tape, Executing, At
<1>2. /\ th[p][t].at = "schedule"
      /\ UNCHANGED <<session, gates, masks, keys, store, chan, ot, queue, failure>>
  BY <1>1 DEF EndThread, At, queues
<1>3. PICK at : at = IF p = 0 /\ ~session.continuous THEN "post_run" ELSE "ended"
  OBVIOUS
<1>4. th'[p][t] = [th[p][t] EXCEPT !.at = at] /\ Elsewhere(th, th', p, t)
  BY <1>1, <1>3, Do_EndThread
<1>5. th'[p][t].at = at /\ th'[p][t].run = th[p][t].run
  BY <1>0, <1>4 DEF ThreadStates
<1>6. \A q \in Parties : q # p => th'[q][t] = th[q][t]
  BY <1>4 DEF Elsewhere
<1>7. Idle(t)'
  <2>1. CASE p = 0
    <3>1. th'[1][t] = th[1][t]
      BY <1>0, <1>6, <2>1
    <3>2. chan'[1][t] = <<>> /\ (~session.continuous => th[1][t].at = "store")
      BY <1>2, <2>1 DEF Idle
    <3>3. /\ th'[0][t].run = 0 /\ session' = session
          /\ \/ th'[0][t].at = "post_run" /\ ~session.continuous
             \/ th'[0][t].at = "ended" /\ session.continuous
      BY <1>2, <1>3, <1>5, <2>1 DEF Idle
    <3>4. \A q \in Parties : th'[q][t].run = 0 /\ th'[q][t].at \in {"store", "schedule", "post_run", "ended"}
      BY <1>0, <3>1, <3>3 DEF Idle, Parties
    <3>5. QED
      BY <1>2, <3>1, <3>2, <3>3, <3>4 DEF Idle
  <2>2. CASE p = 1
    <3>1. th'[0][t] = th[0][t]
      BY <1>0, <1>6, <2>2
    <3>2. /\ th'[1][t].run = 0 /\ session' = session /\ th'[1][t].at = "ended"
          /\ session.continuous \/ th[0][t].at = "ended"
      BY <1>2, <1>3, <1>5, <2>2 DEF Idle
    <3>3. chan'[1][t] = <<>>
      BY <1>2, <2>2 DEF Idle
    <3>4. \A q \in Parties : th'[q][t].run = 0 /\ th'[q][t].at \in {"store", "schedule", "post_run", "ended"}
      BY <1>0, <3>1, <3>2 DEF Idle, Parties
    <3>5. QED
      BY <1>2, <3>1, <3>2, <3>3, <3>4 DEF Idle
  <2>3. QED
    BY <2>1, <2>2 DEF Parties
<1>8. QED
  BY <1>1, <1>2, <1>7

LEMMA IdleGarbler ==
  ASSUME Types, NEW t \in Threads, Idle(t), GarblerNext(t)
  PROVE  Idle(t)' /\ UNCHANGED failure
<1>0. 0 \in Parties /\ 1 \in Parties /\ th[0][t] \in ThreadStates /\ chan[1][t] \in Seq(Messages[1])
  BY ThType DEF Parties, Types, ChannelsOK
<1>1. th[0][t].at \in {"store", "schedule", "post_run", "ended"} /\ keys[t] = <<>>
  BY <1>0 DEF Idle
<1>2. post_run(t)
  BY <1>1 DEF GarblerNext, Garble_and, Garble_inputb, Garble_reveal, Garble_reveal_again, Garble_branch,
       Garble_run_tapes, Garble_end, send, process_receiver_inputs, Garbler_finish, Executing, AtEnd, At
<1>3. th[0][t].at = "post_run" /\ UNCHANGED <<session, gates, masks, keys, store, ot, queue, failure>>
  BY <1>2 DEF post_run, At, queues
<1>4. /\ chan'[1][t] = Append(chan[1][t], [type |-> "DONE"]) /\ Elsewhere(chan, chan', 1, t)
      /\ th'[0][t] = [th[0][t] EXCEPT !.at = "ended"] /\ Elsewhere(th, th', 0, t)
  BY <1>1, <1>2, Do_post_run
<1>5. th'[0][t].at = "ended" /\ th'[0][t].run = 0
  BY <1>0, <1>4 DEF ThreadStates, Idle
<1>6. th'[1][t] = th[1][t] /\ chan'[0][t] = chan[0][t]
  BY <1>0, <1>4 DEF Elsewhere
<1>7. ~session.continuous /\ th[1][t].at = "store" /\ chan[1][t] = <<>>
  BY <1>3 DEF Idle
<1>8. chan'[1][t] = <<[type |-> "DONE"]>>
  BY <1>4, <1>7
<1>9. \A q \in Parties : th'[q][t].run = 0 /\ th'[q][t].at \in {"store", "schedule", "post_run", "ended"}
  BY <1>0, <1>5, <1>6 DEF Idle, Parties
<1>10. Idle(t)'
  BY <1>3, <1>5, <1>6, <1>7, <1>8, <1>9 DEF Idle
<1>11. QED
  BY <1>3, <1>10

LEMMA IdleEvaluator ==
  ASSUME Types, NEW t \in Threads, Idle(t), EvaluatorNext(t)
  PROVE  Idle(t)' /\ UNCHANGED failure
<1>0. 0 \in Parties /\ 1 \in Parties /\ th[1][t] \in ThreadStates
  BY ThType DEF Parties
<1>1. th[1][t].at \in {"store", "schedule", "post_run", "ended"}
  BY <1>0 DEF Idle
<1>2. receive_to_store(t)
  BY <1>1 DEF EvaluatorNext, receive, pop_store, Eval_and, Eval_inputb, Eval_finalize_input,
       Eval_reveal, Eval_branch, Eval_run_tapes, Evaluator_finish, Executing, AtEnd, At
<1>3. th[1][t].at = "store" /\ UNCHANGED <<session, gates, masks, keys, ot, queue>>
  BY <1>2 DEF receive_to_store, At, queues
<1>4. /\ chan[1][t] # <<>> /\ chan'[1][t] = Tail(chan[1][t]) /\ Elsewhere(chan, chan', 1, t)
      /\ Head(chan[1][t]).type = "DONE" =>
           /\ th'[1][t] = [th[1][t] EXCEPT !.at = "schedule"] /\ Elsewhere(th, th', 1, t)
           /\ UNCHANGED <<store, failure>>
  BY <1>2, Do_receive_to_store
<1>5. chan[1][t] = <<[type |-> "DONE"]>> /\ ~session.continuous /\ th[0][t].at = "ended"
  BY <1>3, <1>4 DEF Idle
<1>6. Head(chan[1][t]).type = "DONE" /\ Tail(chan[1][t]) = <<>>
  BY <1>5
<1>7. /\ th'[1][t] = [th[1][t] EXCEPT !.at = "schedule"] /\ Elsewhere(th, th', 1, t)
      /\ UNCHANGED <<store, failure>> /\ chan'[1][t] = <<>>
  BY <1>4, <1>6
<1>8. th'[1][t].at = "schedule" /\ th'[1][t].run = 0
  BY <1>0, <1>7 DEF ThreadStates, Idle
<1>9. th'[0][t] = th[0][t] /\ chan'[0][t] = chan[0][t]
  BY <1>0, <1>4, <1>7 DEF Elsewhere
<1>10. \A q \in Parties : th'[q][t].run = 0 /\ th'[q][t].at \in {"store", "schedule", "post_run", "ended"}
  BY <1>0, <1>8, <1>9 DEF Idle, Parties
<1>11. Idle(t)'
  BY <1>3, <1>5, <1>7, <1>8, <1>9, <1>10 DEF Idle
<1>12. QED
  BY <1>7, <1>11
-----------------------------------------------------------------------------
(* The inductive invariant of sessions of one tape.                        *)
Scheduling == (\A p \in Parties : Scheduled(p)) /\ (\A t \in Threads \ {0} : Idle(t))

YaoInv == TypeInv /\ OneTape(session) /\ OnlyBranchingFails /\ Link /\ Scheduling

LEMMA YaoGarblerStep ==
  ASSUME YaoInv, NEW t \in Threads, GarblerNext(t)
  PROVE  YaoInv'
<1>0. Types /\ Link /\ OneTape(session) /\ OnlyBranchingFails /\ 0 \in Parties /\ 1 \in Parties /\ 0 \in Threads
  BY ZeroOK DEF YaoInv, TypeInv
<1>1. TypeInv'
  BY GarblerStepTypes DEF YaoInv
<1>2. ~Executing(0, t, "run_tape")
  <2>1. CASE t = 0
    BY <1>0, <2>1, NoOtherTape
  <2>2. CASE t # 0
    BY <1>0, <2>2 DEF YaoInv, Scheduling, Idle, Executing, At
  <2>3. QED
    BY <2>1, <2>2
<1>3. Alone(t) /\ Keeps(0, t)
  BY <1>0, <1>2, GarblerAlone, GarblerKeeps
<1>4. \A q \in Parties : Scheduled(q)'
  BY <1>0, <1>3, ScheduledStays DEF YaoInv, Scheduling
<1>5. \A u \in Threads \ {0} : u # t => Idle(u)'
  BY <1>3, IdleStays DEF YaoInv, Scheduling
<1>6. CASE t = 0
  <2>1. keys[0] # <<>> \/ ~process_receiver_inputs(0)
    BY <1>0 DEF YaoInv, TypeInv, InputsOK, process_receiver_inputs, At
  <2>2. ~Garble_run_tapes(0)
    BY <1>2, <1>6 DEF Garble_run_tapes
  <2>3. Link' /\ OnlyBranchingFails'
    BY <1>0, <1>6, <2>1, <2>2, Link_Garble_and, Link_Garble_inputb, Link_Garble_reveal, Link_Garble_reveal_again,
       Link_Garble_branch, Link_Garble_end, Link_send, Link_process_receiver_inputs, Link_Garbler_finish,
       Link_post_run DEF GarblerNext
  <2>4. QED
    BY <1>0, <1>1, <1>3, <1>4, <1>5, <1>6, <2>3 DEF YaoInv, Scheduling, Alone
<1>7. CASE t # 0
  <2>1. Idle(t)' /\ UNCHANGED failure
    BY <1>0, <1>7, IdleGarbler DEF YaoInv, Scheduling
  <2>2. Link' /\ OnlyBranchingFails'
    BY <1>0, <1>3, <1>7, <2>1, LinkApart, NoFailure DEF Alone
  <2>3. QED
    BY <1>0, <1>1, <1>3, <1>4, <1>5, <2>1, <2>2 DEF YaoInv, Scheduling, Alone
<1>8. QED
  BY <1>6, <1>7

LEMMA YaoEvaluatorStep ==
  ASSUME YaoInv, NEW t \in Threads, EvaluatorNext(t)
  PROVE  YaoInv'
<1>0. Types /\ Link /\ OneTape(session) /\ OnlyBranchingFails /\ 0 \in Parties /\ 1 \in Parties /\ 0 \in Threads
  BY ZeroOK DEF YaoInv, TypeInv
<1>1. TypeInv'
  BY EvaluatorStepTypes DEF YaoInv
<1>2. ~Executing(1, t, "run_tape")
  <2>1. CASE t = 0
    BY <1>0, <2>1, NoOtherTape
  <2>2. CASE t # 0
    BY <1>0, <2>2 DEF YaoInv, Scheduling, Idle, Executing, At
  <2>3. QED
    BY <2>1, <2>2
<1>3. Alone(t) /\ Keeps(1, t)
  BY <1>0, <1>2, EvaluatorAlone, EvaluatorKeeps
<1>4. \A q \in Parties : Scheduled(q)'
  BY <1>0, <1>3, ScheduledStays DEF YaoInv, Scheduling
<1>5. \A u \in Threads \ {0} : u # t => Idle(u)'
  BY <1>3, IdleStays DEF YaoInv, Scheduling
<1>6. CASE t = 0
  <2>1. ~Eval_run_tapes(0)
    BY <1>2, <1>6 DEF Eval_run_tapes
  <2>2. Link' /\ OnlyBranchingFails'
    BY <1>0, <1>6, <2>1, Link_receive_to_store, Link_receive, Link_pop_store, Link_Eval_and, Link_Eval_inputb,
       Link_Eval_finalize_input, Link_Eval_reveal, Link_Eval_branch, Link_Evaluator_finish DEF EvaluatorNext
  <2>3. QED
    BY <1>0, <1>1, <1>3, <1>4, <1>5, <1>6, <2>2 DEF YaoInv, Scheduling, Alone
<1>7. CASE t # 0
  <2>1. Idle(t)' /\ UNCHANGED failure
    BY <1>0, <1>7, IdleEvaluator DEF YaoInv, Scheduling
  <2>2. Link' /\ OnlyBranchingFails'
    BY <1>0, <1>3, <1>7, <2>1, LinkApart, NoFailure DEF Alone
  <2>3. QED
    BY <1>0, <1>1, <1>3, <1>4, <1>5, <2>1, <2>2 DEF YaoInv, Scheduling, Alone
<1>8. QED
  BY <1>6, <1>7

LEMMA RunOnce ==
  ASSUME Types, Link, NEW p \in Parties
  PROVE  th[p][0].run \in {0, 1}
<1>1. PICK tr, n, st, i : History(tr, n, st) /\ LinkedBy(tr, n, st, i)
  BY LinkPaths
<1>2. GarblerOn(session, th[0][0], tr, n, st) /\ EvaluatorOn(session, th[1][0], Sent(th[0][0], tr[n]), tr, n, i, st)
  BY <1>1, LinkTransfers
<1>3. QED
  BY <1>2 DEF GarblerOn, EvaluatorOn, Parties

(* The main tape is taken from the schedule.                               *)
LEMMA ScheduledStart ==
  ASSUME Types, NEW p \in Parties, StartTape(p, 0), Scheduled(p),
         th'[p][0].run = 1, NEW q \in Parties, Scheduled(q)
  PROVE  Scheduled(q)'
<1>7. queue[p][0] = <<0>>
  BY DEF StartTape, Scheduled
<1>0. 0 \in Threads /\ th[p][0].at = "schedule" /\ UNCHANGED <<stopped, master>>
  BY ZeroOK DEF StartTape, At
<1>1. queue'[p][0] = Tail(queue[p][0]) /\ Elsewhere(th, th', p, 0) /\ Elsewhere(queue, queue', p, 0)
  BY <1>0, Do_StartTape
<1>2. queue'[p][0] = <<>>
  BY <1>1, <1>7
<1>3. \A u \in Threads : th[q][u].at = "ended" => th'[q][u].at = "ended"
  BY <1>0, <1>1 DEF Elsewhere
<1>4. q # p => th'[q][0] = th[q][0] /\ queue'[q][0] = queue[q][0]
  BY <1>0, <1>1 DEF Elsewhere
<1>5. q = p => master[q].at # "start"
  BY <1>7 DEF Scheduled
<1>6. QED
  BY <1>0, <1>2, <1>3, <1>4, <1>5, <1>7 DEF Scheduled

LEMMA YaoThreadStep ==
  ASSUME YaoInv, NEW p \in Parties, NEW t \in Threads, ThreadNext(p, t)
  PROVE  YaoInv'
<1>0. Types /\ Link /\ OneTape(session) /\ OnlyBranchingFails /\ 0 \in Threads /\ Scheduled(p)
  BY ZeroOK DEF YaoInv, TypeInv, Scheduling
<1>1. TypeInv'
  BY ThreadStepTypes DEF YaoInv
<1>2. Alone(t)
  BY <1>0, ThreadAlone
<1>3. \A u \in Threads \ {0} : u # t => Idle(u)'
  BY <1>2, IdleStays DEF YaoInv, Scheduling
<1>4. CASE t = 0
  <2>1. ASSUME StartTape(p, 0)
        PROVE  Link' /\ OnlyBranchingFails' /\ \A q \in Parties : Scheduled(q)'
    <3>2. Link' /\ OnlyBranchingFails' /\ th'[p][0].run = 1
      BY <1>0, <2>1, Link_garbler_StartTape, Link_evaluator_StartTape DEF Parties
    <3>3. QED
      BY <1>0, <2>1, <3>2, ScheduledStart DEF YaoInv, Scheduling
  <2>2. ASSUME EndThread(p, 0)
        PROVE  Link' /\ OnlyBranchingFails' /\ \A q \in Parties : Scheduled(q)'
    <3>1. queue[p][0] = <<>> /\ stopped[p][0]
      BY <2>2 DEF EndThread
    <3>2. th[p][0].run # 0
      BY <1>0, <3>1 DEF Scheduled
    <3>3. th[p][0].run = 1
      BY <1>0, <3>2, RunOnce
    <3>4. Link' /\ OnlyBranchingFails'
      BY <1>0, <2>2, <3>3, Link_garbler_EndThread, Link_evaluator_EndThread DEF Parties
    <3>5. QED
      BY <1>0, <2>2, <3>4, ThreadKeeps, ScheduledStays DEF YaoInv, Scheduling
  <2>3. ASSUME join_tape(p, 0)
        PROVE  Link' /\ OnlyBranchingFails' /\ \A q \in Parties : Scheduled(q)'
    <3>1. Link' /\ OnlyBranchingFails'
      BY <1>0, <2>3, Link_garbler_join_tape, Link_evaluator_join_tape DEF Parties
    <3>2. QED
      BY <1>0, <2>3, <3>1, ThreadKeeps, ScheduledStays DEF YaoInv, Scheduling
  <2>4. QED
    BY <1>0, <1>1, <1>2, <1>3, <1>4, <2>1, <2>2, <2>3 DEF ThreadNext, YaoInv, Scheduling, Alone
<1>5. CASE t # 0
  <2>1. EndThread(p, t) /\ Idle(t)' /\ UNCHANGED failure
    BY <1>0, <1>5, IdleThread DEF YaoInv, Scheduling
  <2>2. Link' /\ OnlyBranchingFails'
    BY <1>0, <1>2, <1>5, <2>1, LinkApart, NoFailure DEF Alone
  <2>3. \A q \in Parties : Scheduled(q)'
    BY <1>0, <2>1, ThreadKeeps, ScheduledStays DEF YaoInv, Scheduling
  <2>4. QED
    BY <1>0, <1>1, <1>2, <1>3, <2>1, <2>2, <2>3 DEF YaoInv, Scheduling, Alone
<1>6. QED
  BY <1>4, <1>5

(* The master touches the schedules only.                                  *)
LEMMA YaoMasterStep ==
  ASSUME YaoInv, NEW p \in Parties, MasterNext(p)
  PROVE  YaoInv'
<1>0. Types /\ Link /\ OneTape(session) /\ OnlyBranchingFails /\ 0 \in Threads /\ Scheduled(p)
  BY ZeroOK DEF YaoInv, TypeInv, Scheduling
<1>1. TypeInv'
  BY MasterStepTypes DEF YaoInv
<1>2. UNCHANGED <<session, th, gates, masks, keys, store, chan, ot, failure>>
  BY DEF MasterNext, MasterStart, MasterStop, MasterJoin, MasterSync
<1>3. Link' /\ OnlyBranchingFails' /\ OneTape(session)'
  BY <1>0, <1>2, LinkStays, NoFailure
<1>4. \A u \in Threads \ {0}, q \in Parties : queue'[q][u] = queue[q][u]
  <2>1. CASE MasterStart(p)
    BY <1>0, <2>1, Do_MasterStart DEF Elsewhere
  <2>2. CASE ~MasterStart(p)
    BY <2>2 DEF MasterNext, MasterStop, MasterJoin, MasterSync
  <2>3. QED
    BY <2>1, <2>2
<1>5. \A u \in Threads \ {0} : Idle(u)'
  BY <1>2, <1>4 DEF YaoInv, Scheduling, Idle
<1>6. /\ master[p].thread \in Threads
      /\ \A q \in Parties : master[q].thread \in Threads
      /\ \A u \in Threads : u \in Nat
      /\ stopped \in Grid(BOOLEAN)
  BY <1>0, BoundsOK DEF Types, QueuesOK, Threads
<1>7. ASSUME NEW q \in Parties PROVE Scheduled(q)'
  <2>0. Scheduled(q)
    BY DEF YaoInv, Scheduling
  <2>1. CASE MasterStart(p)
    <3>1. /\ queue'[p][0] = Append(queue[p][0], 0) /\ Elsewhere(queue, queue', p, 0)
          /\ master'[p].at = "stop" /\ master'[p].thread = master[p].thread
          /\ \A r \in Parties : r # p => master'[r] = master[r]
      BY <1>0, <2>1, Do_MasterStart
    <3>2. master[p].at = "start" /\ stopped' = stopped
      BY <2>1 DEF MasterStart
    <3>3. CASE q = p
      <4>1. queue[p][0] = <<>> /\ th[p][0].run # 1
        BY <1>0, <3>2 DEF Scheduled
      <4>2. th[p][0].run = 0
        BY <1>0, <4>1, RunOnce
      <4>3. queue'[p][0] = <<0>>
        BY <3>1, <4>1
      <4>4. QED
        BY <1>2, <2>0, <3>1, <3>2, <3>3, <4>2, <4>3 DEF Scheduled
    <3>4. CASE q # p
      <4>1. queue'[q][0] = queue[q][0]
        BY <1>0, <3>1, <3>4 DEF Elsewhere
      <4>2. QED
        BY <1>2, <2>0, <3>1, <3>2, <3>4, <4>1 DEF Scheduled
    <3>5. QED
      BY <3>3, <3>4
  <2>2. CASE MasterStop(p)
    <3>1. /\ master'[p].at = "join" /\ master'[p].thread = master[p].thread
          /\ \A r \in Parties : r # p => master'[r] = master[r] /\ stopped'[r] = stopped[r]
      BY <1>0, <2>2, Do_MasterStop
    <3>2. master[p].at = "stop" /\ queue' = queue
      BY <2>2 DEF MasterStop
    <3>3. QED
      BY <1>2, <2>0, <3>1, <3>2 DEF Scheduled
  <2>3. CASE MasterJoin(p)
    <3>1. /\ IF master[p].thread + 1 \in Threads
             THEN master'[p].at = "stop" /\ master'[p].thread = master[p].thread + 1
             ELSE master'[p].at = "sync" /\ master'[p].thread = master[p].thread
          /\ \A r \in Parties : r # p => master'[r] = master[r]
      BY <1>0, <2>3, Do_MasterJoin
    <3>2. /\ master[p].at = "join" /\ th[p][master[p].thread].at = "ended"
          /\ queue' = queue /\ stopped' = stopped
      BY <2>3 DEF MasterJoin
    <3>3. CASE q = p
      <4>1. \A u \in Threads : u < master[p].thread => th[p][u].at = "ended"
        BY <1>0 DEF Scheduled
      <4>2. \A u \in Threads : u <= master[p].thread => th[p][u].at = "ended"
        BY <1>6, <3>2, <4>1
      <4>3. master[p].thread + 1 \notin Threads => \A u \in Threads : u <= master[p].thread
        BY <1>6, BoundsOK DEF Threads
      <4>4. \A u \in Threads : u < master'[p].thread \/ master'[p].at \in {"sync", "exit"} => th'[p][u].at = "ended"
        BY <1>2, <1>6, <3>1, <4>2, <4>3
      <4>5. master'[p].at # "start" /\ master[p].at # "start"
        BY <3>1, <3>2
      <4>6. QED
        BY <1>2, <2>0, <3>2, <3>3, <4>4, <4>5 DEF Scheduled
    <3>4. CASE q # p
      BY <1>2, <2>0, <3>1, <3>2, <3>4 DEF Scheduled
    <3>5. QED
      BY <3>3, <3>4
  <2>4. CASE MasterSync(p)
    <3>1. /\ master'[p].at = "exit" /\ master'[p].thread = master[p].thread
          /\ \A r \in Parties : r # p => master'[r] = master[r]
      BY <1>0, <2>4, Do_MasterSync
    <3>2. master[p].at = "sync" /\ queue' = queue /\ stopped' = stopped
      BY <2>4 DEF MasterSync
    <3>3. QED
      BY <1>2, <2>0, <3>1, <3>2 DEF Scheduled
  <2>5. QED
    BY <2>1, <2>2, <2>3, <2>4 DEF MasterNext
<1>8. QED
  BY <1>1, <1>3, <1>5, <1>7 DEF YaoInv, Scheduling

LEMMA YaoStep == YaoInv /\ [Next]_vars => YaoInv'
<1> SUFFICES ASSUME YaoInv, [Next]_vars PROVE YaoInv'
  OBVIOUS
<1>1. ASSUME UNCHANGED vars PROVE YaoInv'
  <2>1. UNCHANGED <<session, th, gates, masks, keys, store, chan, ot, queue, stopped, master, failure>>
    BY <1>1 DEF vars
  <2>2. TypeInv'
    BY TypeStep DEF YaoInv
  <2>3. Link' /\ OnlyBranchingFails' /\ OneTape(session)'
    BY <2>1, LinkStays, NoFailure DEF YaoInv
  <2>4. Scheduling'
    BY <2>1 DEF YaoInv, Scheduling, Scheduled, Idle
  <2>5. QED
    BY <2>2, <2>3, <2>4 DEF YaoInv
<1>2. QED
  BY <1>1, YaoThreadStep, YaoGarblerStep, YaoEvaluatorStep, YaoMasterStep DEF Next, Over

(* At first the path is one configuration and nothing is under way.        *)
LEMMA LinkInit ==
  ASSUME Init
  PROVE  Link
<1> DEFINE tr == [k \in Nat |-> First]
           st == [b \in Nat |-> Zero]
<1>1. 0 \in Threads /\ session.continuous \in BOOLEAN
  BY InitTypes, ZeroOK
<1>2. /\ th[0][0] = [at |-> "schedule", tape |-> 0, run |-> 0, PC |-> 1, last |-> "time", complexity |-> 0,
                     tainted |-> TRUE, reg |-> FALSE]
      /\ th[1][0] = [at |-> IF ~session.continuous THEN "store" ELSE "schedule",
                     tape |-> 0, run |-> 0, PC |-> 1, last |-> "time", complexity |-> 0,
                     tainted |-> TRUE, reg |-> FALSE]
  BY <1>1 DEF Init, Parties
<1>3. /\ gates[0][0] = <<>> /\ gates[1][0] = <<>> /\ masks[0][0] = <<>> /\ masks[1][0] = <<>>
      /\ keys[0] = <<>> /\ store[0] = <<>> /\ chan[0][0] = <<>> /\ chan[1][0] = <<>>
      /\ ot[0][0] = <<>> /\ ot[1][0] = <<>>
  BY <1>1 DEF Init, Parties
<1>4. Zero \in Counts /\ (\A op \in Kinds : Zero[op] = 0) /\ {"and", "reveal", "inputb"} = Kinds
  BY DEF Zero, Counts, Kinds
<1>5. First \in Configs
  BY <1>4 DEF First, Configs
<1>6. History(tr, 1, st)
  BY <1>4, <1>5 DEF History
<1>7. /\ tr[1].PC = 1 /\ tr[1].cx = 0 /\ tr[1].nb = 0 /\ tr[1].cnt = Zero /\ tr[1].reg = FALSE
      /\ tr[1].end = FALSE /\ st[0] = Zero
  BY DEF First
<1> HIDE DEF tr, st
<1>8. /\ th[0][0].at = "schedule" /\ th[0][0].tape = 0 /\ th[0][0].run = 0 /\ th[0][0].PC = 1
      /\ th[0][0].last = "time" /\ th[0][0].tainted = TRUE /\ th[0][0].reg = FALSE
  BY <1>2
<1>9. /\ th[1][0].at \in {"store", "schedule"} /\ (th[1][0].at = "store" <=> ~session.continuous)
      /\ th[1][0].tape = 0 /\ th[1][0].run = 0 /\ th[1][0].PC = 1 /\ th[1][0].reg = FALSE
  BY <1>1, <1>2
<1>10. PathOK(session, tr, 1, st)
  BY <1>4, <1>7 DEF PathOK
<1>11. GarblerOn(session, th[0][0], tr, 1, st)
  BY <1>7, <1>8 DEF GarblerOn
<1>12. Sent(th[0][0], tr[1]) = 0
  BY <1>7, <1>8 DEF Sent
<1>13. \A op \in Kinds : Holds(session, op, <<>>, 0, 0, tr, 1)
  BY DEF Holds
<1>14. Unsent(session, th[0][0], <<>>, <<>>, tr, 1, st)
  BY <1>4, <1>7, <1>12, <1>13 DEF Unsent
<1>15. EvaluatorOn(session, th[1][0], 0, tr, 1, 1, st)
  <2>1. 1 \in 1 .. 1 /\ ~InBatch(th[1][0])
    BY <1>9 DEF InBatch
  <2>2. ~tr[1].end
    BY <1>7
  <2>3. th[1][0].reg = tr[1].reg
    BY <1>7, <1>9
  <2>4. tr[1].cnt = st[tr[1].nb]
    BY <1>7
  <2>5. th[1][0].PC = tr[1].PC
    BY <1>7, <1>9
  <2>6. tr[1].cx = 0
    BY <1>7
  <2>7. QED
    BY <1>9, <2>1, <2>2, <2>3, <2>4, <2>5, <2>6 DEF EvaluatorOn
<1>16. Unused(session, th[1][0], <<>>, <<>>, tr, 1, 1, st)
  BY <1>9 DEF Unused, InBatch
<1>17. Trailer(session, th[0][0], th[1][0], tr[1]) = "none"
  BY <1>8 DEF Trailer, Over0
<1>18. Loaded(th[1][0], tr[1]) = 0
  BY <1>7, <1>9 DEF Loaded, InBatch
<1>19. UnderWay(session, th[1][0], 0, "none", <<>>, <<>>, tr, 1, 1, st)
  <2>1. <<>> \in Seq(Batches) /\ <<>> \in Seq(Messages[1]) /\ Len(<<>>) = 0
    OBVIOUS
  <2>2. 0 - 0 - Len(<<>>) = 0
    <3>1. 0 - 0 - 0 = 0
      OBVIOUS
    <3>2. QED
      BY <2>1, <3>1, Zenon
  <2>3. 0 \in Nat /\ \A j : j \notin 1 .. 0
    OBVIOUS
  <2>4. QED
    BY <1>9, <1>18, <2>1, <2>2, <2>3 DEF UnderWay
<1>20. Answers(session, th[0][0], <<>>, tr, 1, 1)
  BY <1>7, <1>8 DEF Answers
<1>21. TransfersOn(session, th[1][0], <<>>, <<>>, <<>>, tr, 1, 1)
  BY <1>4, <1>7, <1>9, <1>13 DEF TransfersOn
<1>22. RevealsOn(session, th[0][0], tr, 1, 1)
  <2>1. (\A k : k \notin 1 .. 1 - 1) /\ \A k \in 1 .. 1 : k = 1
    OBVIOUS
  <2>2. tr[1].reg = th[0][0].reg
    BY <1>7, <1>8
  <2>3. QED
    BY <2>1, <2>2 DEF RevealsOn
<1>23. ModeOn(session, th[0][0], th[1][0]) /\ FinishOn(session, th[0][0], tr[1])
  BY <1>7, <1>8, <1>9 DEF ModeOn, FinishOn, Over0
<1>24. LinkedBy(tr, 1, st, 1)
  BY <1>3, <1>10, <1>11, <1>12, <1>14, <1>15, <1>16, <1>17, <1>19, <1>20, <1>21, <1>22, <1>23
     DEF LinkedBy, Linked
<1>25. QED
  BY <1>6, <1>24, LinkPaths

LEMMA YaoInit == Init /\ OneTape(session) => YaoInv
<1> SUFFICES ASSUME Init, OneTape(session) PROVE YaoInv
  OBVIOUS
<1>1. TypeInv /\ Link /\ session.continuous \in BOOLEAN
  BY TypeInit, LinkInit, ZeroOK DEF TypeInv
<1>2. OnlyBranchingFails
  BY DEF Init, OnlyBranchingFails
<1>3. \A p \in Parties, t \in Threads :
         /\ th[p][t].run = 0
         /\ th[p][t].at = IF p = 1 /\ ~session.continuous THEN "store" ELSE "schedule"
  BY DEF Init
<1>4. ASSUME NEW p \in Parties PROVE Scheduled(p)
  <2>1. 0 \in Threads /\ master[p].at = "start" /\ master[p].thread = 0 /\ queue[p][0] = <<>>
    BY BoundsOK DEF Init, Threads
  <2>2. \A t \in Threads : ~(t < 0) /\ stopped[p][t] = FALSE
    BY BoundsOK DEF Init, Threads
  <2>3. QED
    BY <1>3, <2>1, <2>2 DEF Scheduled
<1>5. ASSUME NEW t \in Threads PROVE Idle(t)
  <2>1. 0 \in Parties /\ 1 \in Parties
    BY DEF Parties
  <2>2. /\ th[0][t].at = "schedule"
        /\ th[1][t].at = IF ~session.continuous THEN "store" ELSE "schedule"
        /\ \A p \in Parties : th[p][t].run = 0 /\ th[p][t].at \in {"store", "schedule"}
    BY <1>3, <2>1
  <2>3. /\ \A p \in Parties : /\ gates[p][t] = <<>> /\ masks[p][t] = <<>> /\ ot[p][t] = <<>>
                              /\ queue[p][t] = <<>> /\ chan[p][t] = <<>>
        /\ keys[t] = <<>> /\ store[t] = <<>>
    BY DEF Init
  <2>4. QED
    BY <1>1, <2>1, <2>2, <2>3 DEF Idle
<1>6. QED
  BY <1>1, <1>2, <1>4, <1>5 DEF YaoInv, Scheduling

(* What the invariant says of the properties.                              *)
LEMMA YaoInStep == YaoInv => InStep
<1> SUFFICES ASSUME YaoInv, NEW t \in Threads
             PROVE  /\ Executing(1, t, "and") => gates[1][t] # <<>> /\ Head(gates[1][t]) = Position(1, t)
                    /\ Executing(1, t, "reveal") => masks[1][t] # <<>> /\ Head(masks[1][t]) = Position(1, t)
                    /\ At(1, t, "keys") /\ ot[1][t] # <<>> => Head(ot[1][t]) = Position(1, t)
                    /\ (At(0, t, "inputs") \/ At(0, t, "post_inputs")) /\ ot[0][t] # <<>> =>
                         Head(ot[0][t]) = Head(keys[t])
  BY DEF InStep
<1>0. Types /\ Link /\ 0 \in Parties /\ 1 \in Parties
  BY ZeroOK DEF YaoInv, TypeInv
<1>1. CASE t = 0
  <2>1. ASSUME NEW op \in {"and", "reveal"}, Executing(1, 0, op)
        PROVE  /\ th[1][0].at = "exec" /\ IsAt(session, Place(1), op)
               /\ Position(1, 0) = Pos(Place(1))
    BY <1>0, <2>1, ExecutingAt
  <2>2. /\ Executing(1, 0, "and") => gates[1][0] # <<>> /\ Head(gates[1][0]) = Position(1, 0)
        /\ Executing(1, 0, "reveal") => masks[1][0] # <<>> /\ Head(masks[1][0]) = Position(1, 0)
    BY <1>0, <2>1, EvaluatorData
  <2>3. ASSUME At(1, 0, "keys"), ot[1][0] # <<>> PROVE Head(ot[1][0]) = Position(1, 0)
    <3>1. th[1][0].at = "keys"
      BY <2>3 DEF At
    <3>2. th[1][0].run = 1 /\ Head(ot[1][0]) = Pos(Place(1))
      BY <1>0, <2>3, <3>1, OnPath, EvaluatorData
    <3>3. QED
      BY <3>2 DEF Pos, Place, Position
  <2>4. ASSUME ot[0][0] # <<>> PROVE Head(ot[0][0]) = Head(keys[0])
    <3>1. PICK tr, n, st, i : History(tr, n, st) /\ LinkedBy(tr, n, st, i)
      BY <1>0, LinkPaths
    <3>2. Linked(session, th[0][0], th[1][0], gates[0][0], masks[0][0], gates[1][0], masks[1][0],
                 keys[0], store[0], chan[0][0], chan[1][0], ot[0][0], ot[1][0], tr, n, st, i)
      BY <3>1 DEF LinkedBy
    <3>3. QED
      BY <2>4, <3>1, <3>2, GarblerAnswers, SMTT(60)
  <2>5. QED
    BY <1>1, <2>2, <2>3, <2>4
<1>2. CASE t # 0
  BY <1>0, <1>2 DEF YaoInv, Scheduling, Idle, Executing, At
<1>3. QED
  BY <1>1, <1>2

LEMMA YaoSameBranch == YaoInv => SameBranch
<1> SUFFICES ASSUME YaoInv, NEW t \in Threads, session.continuous, At(0, t, "exec"), At(1, t, "exec")
             PROVE  th[0][t].reg = th[1][t].reg
  BY DEF SameBranch
<1>0. Types /\ Link /\ 0 \in Parties /\ 1 \in Parties /\ th[1][t].at = "exec"
  BY ZeroOK DEF YaoInv, TypeInv, At
<1>1. CASE t = 0
  <2>1. PICK tr, n, st, i : History(tr, n, st) /\ LinkedBy(tr, n, st, i)
    BY <1>0, LinkPaths
  <2>2. Linked(session, th[0][0], th[1][0], gates[0][0], masks[0][0], gates[1][0], masks[1][0],
               keys[0], store[0], chan[0][0], chan[1][0], ot[0][0], ot[1][0], tr, n, st, i)
    BY <2>1 DEF LinkedBy
  <2>3. InBatch(th[1][0]) => th[1][0].run = 1 /\ i # n
    BY <2>1, <2>2, EvaluatorHas, SMTT(60)
  <2>4. i # n
    BY <1>0, <1>1, <2>3 DEF InBatch
  <2>5. /\ i \in 1 .. n /\ n \in Nat \ {0} /\ th[1][0].reg = tr[i].reg
        /\ \A k \in i .. n : (k < n \/ th[0][0].tainted) => tr[k].reg = th[0][0].reg
    BY <2>1, <2>2, HistoryTypes DEF Linked, EvaluatorOn, RevealsOn
  <2>6. i \in i .. n /\ i < n
    BY <2>4, <2>5
  <2>7. QED
    BY <1>1, <2>5, <2>6
<1>2. CASE t # 0
  BY <1>0, <1>2 DEF YaoInv, Scheduling, Idle
<1>3. QED
  BY <1>1, <1>2

LEMMA YaoDrained == YaoInv => Drained
<1> SUFFICES ASSUME YaoInv, Finished
             PROVE  /\ \A p \in Parties, t \in Threads :
                         /\ gates[p][t] = <<>> /\ masks[p][t] = <<>>
                         /\ chan[p][t] = <<>> /\ ot[p][t] = <<>>
                         /\ queue[p][t] = <<>>
                    /\ \A t \in Threads : keys[t] = <<>> /\ store[t] = <<>>
  BY DEF Drained
<1>0. Types /\ Link /\ 0 \in Parties /\ 1 \in Parties /\ 0 \in Threads
  BY ZeroOK DEF YaoInv, TypeInv
<1>1. \A p \in Parties, t \in Threads : th[p][t].at = "ended" /\ master[p].at = "exit"
  BY DEF YaoInv, Scheduling, Scheduled, Finished
<1>2. PICK tr, n, st, i : History(tr, n, st) /\ LinkedBy(tr, n, st, i)
  BY <1>0, LinkPaths
<1>3. Linked(session, th[0][0], th[1][0], gates[0][0], masks[0][0], gates[1][0], masks[1][0],
             keys[0], store[0], chan[0][0], chan[1][0], ot[0][0], ot[1][0], tr, n, st, i)
  BY <1>2 DEF LinkedBy
<1>4. th[0][0].at = "ended" /\ th[1][0].at = "ended"
  BY <1>0, <1>1
<1>5. /\ th[0][0].run = 1 /\ th[1][0].run = 1
      /\ gates[0][0] = <<>> /\ masks[0][0] = <<>> /\ gates[1][0] = <<>> /\ masks[1][0] = <<>>
      /\ keys[0] = <<>> /\ store[0] = <<>> /\ chan[0][0] = <<>> /\ chan[1][0] = <<>>
      /\ ot[0][0] = <<>> /\ ot[1][0] = <<>>
  BY <1>2, <1>3, <1>4, AllUsed, SMTT(60)
<1>6. \A p \in Parties : queue[p][0] = <<>>
  BY <1>5 DEF YaoInv, Scheduling, Scheduled, Parties
<1>7. ASSUME NEW t \in Threads, t # 0
      PROVE  /\ \A p \in Parties : /\ gates[p][t] = <<>> /\ masks[p][t] = <<>> /\ ot[p][t] = <<>>
                                   /\ queue[p][t] = <<>> /\ chan[p][t] = <<>>
             /\ keys[t] = <<>> /\ store[t] = <<>>
  <2>1. Idle(t) /\ th[1][t].at # "store"
    BY <1>0, <1>1, <1>7 DEF YaoInv, Scheduling
  <2>2. QED
    BY <2>1 DEF Idle, Parties
<1>8. QED
  BY <1>5, <1>6, <1>7 DEF Parties

(* In a session of one tape, whatever its instructions, the batch size,    *)
(* the capacity of the connections and the number of threads, the          *)
(* invariant holds: the evaluator is on the path of the garbler.           *)
THEOREM YaoLinked == OneTape(session) /\ Spec => []YaoInv
<1>1. Init /\ OneTape(session) => YaoInv
  BY YaoInit
<1>2. YaoInv /\ [Next]_vars => YaoInv'
  BY YaoStep
<1>3. QED
  BY <1>1, <1>2, PTL DEF Spec

(* So every gate, mask and key the evaluator uses was made for the         *)
(* instruction it executes (YaoEvalWire::op, output, and the transfers of  *)
(* YaoEvalInput), although no message says which instruction that is.      *)
THEOREM YaoStaysInStep == OneTape(session) /\ Spec => []InStep
<1>1. YaoInv => InStep
  BY YaoInStep
<1>2. QED
  BY <1>1, YaoLinked, PTL

(* Both parties hold the same revealed bit where they branch on it         *)
(* (convcbit after reveal, in continuous mode).                            *)
THEOREM YaoBranchesAgree == OneTape(session) /\ Spec => []SameBranch
<1>1. YaoInv => SameBranch
  BY YaoSameBranch
<1>2. QED
  BY <1>1, YaoLinked, PTL

(* No message is taken for another, check_buffer() never finds a buffer    *)
(* too short, and branching is refused in one-shot mode only.              *)
THEOREM YaoFailsOnlyOnBranches == OneTape(session) /\ Spec => []OnlyBranchingFails
<1>1. YaoInv => OnlyBranchingFails
  BY DEF YaoInv
<1>2. QED
  BY <1>1, YaoLinked, PTL

(* When the masters of both parties have joined their threads and          *)
(* exchanged the last message, nothing sent or scheduled is left unused.   *)
THEOREM YaoDrains == OneTape(session) /\ Spec => []Drained
<1>1. YaoInv => Drained
  BY YaoDrained
<1>2. QED
  BY <1>1, YaoLinked, PTL
=============================================================================
