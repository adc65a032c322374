----------------------------- MODULE YaoSession -----------------------------
(***************************************************************************)
(* A run of yao-party.x on both sides.  The garbler (party 0) executes the *)
(* program's tapes, garbling as it goes, and sends what it produced in     *)
(* batches; the evaluator (party 1) executes the same tapes on the batches *)
(* it receives.  Nothing in a batch says which instruction it belongs to:  *)
(* the parties agree only because they break off execution at the same     *)
(* instructions, by counting gates (Program::execute), at a `reveal', or   *)
(* at a `run_tape' (the needs_cleaning exception and the taint flag of     *)
(* RuntimeBranching).                                                      *)
(*                                                                         *)
(* Each party runs one thread per program thread, with a channel to its    *)
(* peer (P) and a second one for the oblivious transfers (player), and a   *)
(* master thread that starts and joins them.                               *)
(*                                                                         *)
(* A gate, an output mask and an input key are represented by the position *)
(* of the instruction they were produced for.                              *)
(***************************************************************************)
EXTENDS Naturals, Sequences, FiniteSets

CONSTANTS NThreads,     \* machine.nthreads
          BatchSize,    \* OnlineOptions::batch_size: gates that end a batch
          Capacity,     \* messages a connection holds before send blocks
          Sessions      \* what the parties may be started with

ASSUME BoundsOK == NThreads \in Nat \ {0} /\ BatchSize \in Nat \ {0} /\ Capacity \in Nat \ {0}

Parties == {0, 1}
Threads == 0 .. NThreads - 1

VARIABLES session,   \* the program and the mode: see IsSession
          th,        \* the state of each party's threads
          gates,     \* the gates buffer of each thread
          masks,     \* its output_masks buffer
          keys,      \* the garbler threads' receiver_input_keys
          store,     \* the evaluator threads' gates_store and output_masks_store
          chan,      \* messages under way to each party's threads on P
          ot,        \* ... and on player
          queue,     \* the threads' tape_schedule ...
          stopped,   \* ... and whether it was told to stop
          done,      \* entries in the threads' done queue
          master,    \* where each party's master thread is
          failure    \* the exception that ended a party, if any

vars == <<session, th, gates, masks, keys, store, chan, ot, queue, stopped,
          done, master, failure>>

queues == <<queue, stopped, done, master>>

(* The phase variants of YaoGarbler.cpp and YaoEvaluator.cpp, and the      *)
(* instructions that matter to the protocol.  `branch' is a convcbit of    *)
(* the revealed bit and a jump on it.                                      *)
Variants == {"oprf", "init", "reconstruct"}

Instructions ==
    [op : {"and", "inputb", "reveal"}]
    \union [op : {"branch"}, to : Nat \ {0}]
    \union [op : {"run_tape"}, thread : Threads, tape : Nat]
    \union [op : {"join_tape"}, thread : Threads]

IsSession(s) ==
    /\ s.continuous \in BOOLEAN
    /\ s.variant \in Variants
    /\ \A i \in DOMAIN s.tapes : s.tapes[i] \in Seq(Instructions)
    /\ 0 \in DOMAIN s.tapes
    /\ \A i \in DOMAIN s.tapes : \A k \in DOMAIN s.tapes[i] :
         s.tapes[i][k].op = "run_tape" => s.tapes[i][k].tape \in DOMAIN s.tapes

ASSUME SessionsOK == \A s \in Sessions : IsSession(s)

Init ==
    /\ session \in Sessions
    /\ th = [p \in Parties |-> [t \in Threads |->
               [at |-> IF p = 1 /\ ~session.continuous THEN "store" ELSE "schedule",
                tape |-> 0, run |-> 0, PC |-> 1, last |-> "time", complexity |-> 0,
                tainted |-> TRUE, reg |-> FALSE]]]
    /\ gates = [p \in Parties |-> [t \in Threads |-> <<>>]]
    /\ masks = [p \in Parties |-> [t \in Threads |-> <<>>]]
    /\ keys = [t \in Threads |-> <<>>]
    /\ store = [t \in Threads |-> <<>>]
    /\ chan = [p \in Parties |-> [t \in Threads |-> <<>>]]
    /\ ot = [p \in Parties |-> [t \in Threads |-> <<>>]]
    /\ queue = [p \in Parties |-> [t \in Threads |-> <<>>]]
    /\ stopped = [p \in Parties |-> [t \in Threads |-> FALSE]]
    /\ done = [p \in Parties |-> [t \in Threads |-> 1]]
    /\ master = [p \in Parties |-> [at |-> "start", thread |-> 0]]
    /\ failure = [p \in Parties |-> "none"]
-----------------------------------------------------------------------------
Alive(p) == failure[p] = "none"

At(p, t, place) == Alive(p) /\ th[p][t].at = place

Tape(p, t) == session.tapes[th[p][t].tape]

Instr(p, t) == Tape(p, t)[th[p][t].PC]

(* The thread is in the loop of Program::execute, at an op instruction.    *)
Executing(p, t, op) ==
    /\ At(p, t, "exec")
    /\ th[p][t].PC <= Len(Tape(p, t))
    /\ Instr(p, t).op = op

AtEnd(p, t) == At(p, t, "exec") /\ th[p][t].PC > Len(Tape(p, t))

Position(p, t) == <<th[p][t].run, th[p][t].PC>>

(* Blocking send to and receive from the peer.                             *)
Send(p, t, msg) ==
    /\ Len(chan[p][t]) < Capacity
    /\ chan' = [chan EXCEPT ![p][t] = Append(@, msg)]

Receive(p, t) ==
    /\ chan[p][t] # <<>>
    /\ chan' = [chan EXCEPT ![p][t] = Tail(@)]

Fail(p, what) == failure' = [failure EXCEPT ![p] = what]

Becomes(p, t, state) == th' = [th EXCEPT ![p][t] = state]

(* The thread goes on with the next instruction.                           *)
Step(p, t) == Becomes(p, t, [th[p][t] EXCEPT !.PC = @ + 1, !.at = "exec"])

(* Program::execute's loop condition after complexity has grown by one.    *)
CountGate(p, t, break) ==
    LET c == th[p][t].complexity + 1 IN
    Becomes(p, t, [th[p][t] EXCEPT !.PC = @ + 1,
                                   !.complexity = c,
                                   !.at = IF c >= BatchSize THEN break ELSE "exec",
                                   !.last = "time"])
-----------------------------------------------------------------------------
(* Thread::run, the threads of both parties.                               *)

(* The next tape of the schedule: processor.reset() and run().             *)
StartTape(p, t) ==
    /\ At(p, t, "schedule")
    /\ queue[p][t] # <<>>
    /\ Becomes(p, t, [th[p][t] EXCEPT !.tape = Head(queue[p][t]), !.run = @ + 1,
                                      !.PC = 1, !.complexity = 0, !.last = "time",
                                      !.at = IF p = 0 THEN "exec" ELSE "receive"])
    /\ queue' = [queue EXCEPT ![p][t] = Tail(@)]
    /\ UNCHANGED <<session, gates, masks, keys, store, chan, ot, stopped, done,
                   master, failure>>

(* Mutant: the stop of an empty schedule is not noticed.                   *)
EndThread_polls(p, t) ==
    /\ At(p, t, "schedule")
    /\ queue[p][t] = <<>> /\ stopped[p][t]
    /\ UNCHANGED vars

(* The schedule is empty and stopped: post_run().                          *)
EndThread(p, t) ==
    /\ At(p, t, "schedule")
    /\ queue[p][t] = <<>> /\ stopped[p][t]
    /\ Becomes(p, t, [th[p][t] EXCEPT !.at =
                IF p = 0 /\ ~session.continuous THEN "post_run" ELSE "ended"])
    /\ UNCHANGED <<session, gates, masks, keys, store, chan, ot, queues, failure>>

(* The tape is finished: done.push(0).                                     *)
EndTape(p, t) ==
    /\ Becomes(p, t, [th[p][t] EXCEPT !.at = "schedule"])
    /\ done' = [done EXCEPT ![p][t] = @ + 1]

join_tape(p, t) ==
    /\ Executing(p, t, "join_tape")
    /\ LET c == Instr(p, t).thread IN
         /\ done[p][c] > 0
         /\ done' = [done EXCEPT ![p][c] = @ - 1]
    /\ Step(p, t)
    /\ UNCHANGED <<session, gates, masks, keys, store, chan, ot, queue, stopped,
                   master, failure>>

(* Machine::run_tape: push the tape to the thread's schedule.              *)
Schedule(p, t) ==
    queue' = [queue EXCEPT ![p][Instr(p, t).thread] = Append(@, Instr(p, t).tape)]
-----------------------------------------------------------------------------
(* YaoGarbleWire and YaoGarbler.                                           *)

Garble_and(t) ==
    /\ Executing(0, t, "and")
    /\ gates' = [gates EXCEPT ![0][t] = Append(@, Position(0, t))]
    /\ CountGate(0, t, "send")
    /\ UNCHANGED <<session, masks, keys, store, chan, ot, queues, failure>>

Garble_inputb(t) ==
    /\ Executing(0, t, "inputb")
    /\ keys' = [keys EXCEPT ![t] = Append(@, Position(0, t))]
    /\ Step(0, t)
    /\ UNCHANGED <<session, gates, masks, store, chan, ot, queues, failure>>

(* Mutant: PC is not put back.                                             *)
Clean_no_rewind(t) ==
    Becomes(0, t, [th[0][t] EXCEPT !.PC = @ + 1, !.tainted = FALSE,
                                   !.at = "send", !.last = "time"])

(* needs_cleaning in YaoGarbler::run: PC is put back to the instruction    *)
(* and the batch is sent.                                                  *)
Clean(t) == Becomes(0, t, [th[0][t] EXCEPT !.tainted = FALSE, !.at = "send",
                                           !.last = "time"])

(* The first time the output masks join the batch and untaint() throws;    *)
(* in one-shot mode there is no second time and the value is a dummy.      *)
Garble_reveal(t) ==
    /\ Executing(0, t, "reveal")
    /\ ~session.continuous \/ th[0][t].tainted
    /\ masks' = [masks EXCEPT ![0][t] = Append(@, Position(0, t))]
    /\ IF session.continuous THEN Clean(t)
       ELSE Becomes(0, t, [th[0][t] EXCEPT !.PC = @ + 1, !.reg = FALSE,
                                           !.tainted = TRUE])
    /\ UNCHANGED <<session, gates, keys, store, chan, ot, queues, failure>>

(* Mutant: the value is received and not unpacked.                         *)
Garble_reveal_again_drops(t) ==
    /\ Executing(0, t, "reveal")
    /\ session.continuous /\ ~th[0][t].tainted
    /\ Receive(0, t)
    /\ Becomes(0, t, [th[0][t] EXCEPT !.PC = @ + 1, !.tainted = TRUE])
    /\ UNCHANGED <<session, gates, masks, keys, store, ot, queues, failure>>

(* The second time untaint() does not throw, and the value is received.    *)
Garble_reveal_again(t) ==
    /\ Executing(0, t, "reveal")
    /\ session.continuous /\ ~th[0][t].tainted
    /\ Receive(0, t)
    /\ LET msg == Head(chan[0][t]) IN
         IF msg.type = "value"
         THEN /\ Becomes(0, t, [th[0][t] EXCEPT !.PC = @ + 1, !.tainted = TRUE,
                                                !.reg = msg.bit])
              /\ UNCHANGED failure
         ELSE Fail(0, "misread") /\ UNCHANGED th
    /\ UNCHANGED <<session, gates, masks, keys, store, ot, queues>>

(* Whether a branch is taken.                                              *)
Jump(p, t) ==
    Becomes(p, t, [th[p][t] EXCEPT !.PC = IF th[p][t].reg THEN Instr(p, t).to ELSE @ + 1])

Garble_branch(t) ==
    /\ Executing(0, t, "branch")
    /\ IF session.continuous
       THEN Jump(0, t) /\ UNCHANGED failure
       ELSE Fail(0, "branching") /\ UNCHANGED th
    /\ UNCHANGED <<session, gates, masks, keys, store, chan, ot, queues>>

(* The tapes are only started once the batch before them is sent.          *)
Garble_run_tapes(t) ==
    /\ Executing(0, t, "run_tape")
    /\ IF session.continuous /\ th[0][t].tainted
       THEN Clean(t) /\ UNCHANGED queue
       ELSE /\ Becomes(0, t, [th[0][t] EXCEPT !.PC = @ + 1, !.tainted = TRUE])
            /\ Schedule(0, t)
    /\ UNCHANGED <<session, gates, masks, keys, store, chan, ot, stopped, done,
                   master, failure>>

Garble_end(t) ==
    /\ AtEnd(0, t)
    /\ Becomes(0, t, [th[0][t] EXCEPT !.at = "send", !.last = "done"])
    /\ UNCHANGED <<session, gates, masks, keys, store, chan, ot, queues, failure>>

(* Mutant: execute() does not start counting again.                        *)
NextBatch_no_reset(t) ==
    Becomes(0, t, [th[0][t] EXCEPT !.at = IF @ = "post_inputs" THEN "ended"
                                          ELSE IF th[0][t].last = "done" THEN "finish"
                                          ELSE "exec"])

(* Where the loop of YaoGarbler::run goes once a batch is dealt with.      *)
NextBatch(t) ==
    Becomes(0, t, [th[0][t] EXCEPT !.at = IF @ = "post_inputs" THEN "ended"
                                          ELSE IF th[0][t].last = "done" THEN "finish"
                                          ELSE "exec",
                                   !.complexity = 0])

send(t) ==
    /\ At(0, t, "send")
    /\ Send(1, t, [type |-> "MORE", gates |-> gates[0][t], masks |-> masks[0][t]])
    /\ gates' = [gates EXCEPT ![0][t] = <<>>]
    /\ masks' = [masks EXCEPT ![0][t] = <<>>]
    /\ IF session.continuous /\ keys[t] # <<>>
       THEN Becomes(0, t, [th[0][t] EXCEPT !.at = "inputs"])
       ELSE NextBatch(t)
    /\ UNCHANGED <<session, keys, store, ot, queues, failure>>

(* One round of the loop: the evaluator's correlation is received, the     *)
(* masked keys are sent.                                                   *)
process_receiver_inputs(t) ==
    /\ At(0, t, "inputs") \/ At(0, t, "post_inputs")
    /\ ot[0][t] # <<>> /\ Len(ot[1][t]) < Capacity
    /\ ot' = [ot EXCEPT ![0][t] = Tail(@), ![1][t] = Append(@, Head(keys[t]))]
    /\ keys' = [keys EXCEPT ![t] = Tail(@)]
    /\ IF Len(keys[t]) = 1 THEN NextBatch(t) ELSE UNCHANGED th
    /\ UNCHANGED <<session, gates, masks, store, chan, queues, failure>>

(* Mutant: in continuous mode the stand-in is sent in every phase but Init. *)
Garbler_finish_sends(t) ==
    /\ At(0, t, "finish")
    /\ CASE session.variant = "init" -> Receive(0, t)
         [] session.continuous -> Send(1, t, [type |-> "pack"])
         [] OTHER -> UNCHANGED chan
    /\ EndTape(0, t)
    /\ UNCHANGED <<session, gates, masks, keys, store, ot, queue, stopped, master, failure>>

(* The end of YaoGarbler::run: the client's Init message is received, or a *)
(* stand-in for the stored one is sent back to it.                         *)
Garbler_finish(t) ==
    /\ At(0, t, "finish")
    /\ CASE session.variant = "init" -> Receive(0, t)
         [] session.variant = "reconstruct" -> Send(1, t, [type |-> "pack"])
         [] OTHER -> UNCHANGED chan
    /\ IF session.variant = "init" /\ Head(chan[0][t]).type # "pack"
       THEN Fail(0, "misread") /\ UNCHANGED <<th, done>>
       ELSE EndTape(0, t) /\ UNCHANGED failure
    /\ UNCHANGED <<session, gates, masks, keys, store, ot, queue, stopped, master>>

post_run(t) ==
    /\ At(0, t, "post_run")
    /\ Send(1, t, [type |-> "DONE"])
    /\ Becomes(0, t, [th[0][t] EXCEPT !.at = IF keys[t] # <<>> THEN "post_inputs" ELSE "ended"])
    /\ UNCHANGED <<session, gates, masks, keys, store, ot, queues, failure>>
-----------------------------------------------------------------------------
(* YaoEvaluator and YaoEvalWire.                                           *)

(* One round of the loop of pre_run() in one-shot mode.                    *)
receive_to_store(t) ==
    /\ At(1, t, "store")
    /\ Receive(1, t)
    /\ LET msg == Head(chan[1][t]) IN
       CASE msg.type = "MORE" ->
              /\ store' = [store EXCEPT ![t] = Append(@, msg)]
              /\ UNCHANGED <<th, failure>>
         [] msg.type = "DONE" ->
              /\ Becomes(1, t, [th[1][t] EXCEPT !.at = "schedule"])
              /\ UNCHANGED <<store, failure>>
         [] OTHER -> Fail(1, "misread") /\ UNCHANGED <<th, store>>
    /\ UNCHANGED <<session, gates, masks, keys, ot, queues>>

LoadBatch(t, batch) ==
    /\ gates' = [gates EXCEPT ![1][t] = batch.gates]
    /\ masks' = [masks EXCEPT ![1][t] = batch.masks]
    /\ Becomes(1, t, [th[1][t] EXCEPT !.at = "exec", !.complexity = 0])

receive(t) ==
    /\ At(1, t, "receive") /\ session.continuous
    /\ Receive(1, t)
    /\ IF Head(chan[1][t]).type = "MORE"
       THEN LoadBatch(t, Head(chan[1][t])) /\ UNCHANGED failure
       ELSE Fail(1, "misread") /\ UNCHANGED <<gates, masks, th>>
    /\ UNCHANGED <<session, keys, store, ot, queues>>

(* run_from_store(); pop() leaves the buffers alone if nothing is left.    *)
pop_store(t) ==
    /\ At(1, t, "receive") /\ ~session.continuous
    /\ IF store[t] # <<>>
       THEN /\ LoadBatch(t, Head(store[t]))
            /\ store' = [store EXCEPT ![t] = Tail(@)]
       ELSE /\ Becomes(1, t, [th[1][t] EXCEPT !.at = "exec", !.complexity = 0])
            /\ UNCHANGED <<gates, masks, store>>
    /\ UNCHANGED <<session, keys, chan, ot, queues, failure>>

Eval_and(t) ==
    /\ Executing(1, t, "and")
    /\ IF gates[1][t] # <<>>
       THEN /\ gates' = [gates EXCEPT ![1][t] = Tail(@)]
            /\ CountGate(1, t, "receive")
            /\ UNCHANGED failure
       ELSE Fail(1, "overflow") /\ UNCHANGED <<gates, th>>
    /\ UNCHANGED <<session, masks, keys, store, chan, ot, queues>>

(* YaoEvalInput::exchange(): the correlation is sent ...                   *)
Eval_inputb(t) ==
    /\ Executing(1, t, "inputb")
    /\ Len(ot[0][t]) < Capacity
    /\ ot' = [ot EXCEPT ![0][t] = Append(@, Position(1, t))]
    /\ Becomes(1, t, [th[1][t] EXCEPT !.at = "keys"])
    /\ UNCHANGED <<session, gates, masks, keys, store, chan, queues, failure>>

(* ... and the masked keys are received and unmasked.                      *)
Eval_finalize_input(t) ==
    /\ At(1, t, "keys")
    /\ ot[1][t] # <<>>
    /\ ot' = [ot EXCEPT ![1][t] = Tail(@)]
    /\ Step(1, t)
    /\ UNCHANGED <<session, gates, masks, keys, store, chan, queues, failure>>

(* Mutant: the evaluator goes on with the batch it has.                    *)
Eval_reveal_goes_on(t) ==
    /\ Executing(1, t, "reveal")
    /\ masks[1][t] # <<>>
    /\ \E bit \in BOOLEAN :
         /\ masks' = [masks EXCEPT ![1][t] = Tail(@)]
         /\ Becomes(1, t, [th[1][t] EXCEPT !.PC = @ + 1, !.tainted = TRUE, !.reg = bit])
         /\ IF session.continuous THEN Send(0, t, [type |-> "value", bit |-> bit])
                                  ELSE UNCHANGED chan
    /\ UNCHANGED <<session, gates, keys, store, ot, queues, failure>>

(* Any bit may come out of the circuit.  In continuous mode it is sent to  *)
(* the garbler, and needs_cleaning ends the batch.                         *)
Eval_reveal(t) ==
    /\ Executing(1, t, "reveal")
    /\ IF masks[1][t] # <<>>
       THEN \E bit \in BOOLEAN :
              /\ masks' = [masks EXCEPT ![1][t] = Tail(@)]
              /\ Becomes(1, t, [th[1][t] EXCEPT !.PC = @ + 1, !.tainted = TRUE, !.reg = bit,
                                                !.at = IF session.continuous THEN "receive" ELSE "exec"])
              /\ IF session.continuous THEN Send(0, t, [type |-> "value", bit |-> bit])
                                       ELSE UNCHANGED chan
              /\ UNCHANGED failure
       ELSE Fail(1, "overflow") /\ UNCHANGED <<masks, th, chan>>
    /\ UNCHANGED <<session, gates, keys, store, ot, queues>>

(* In one-shot mode convcbit() throws, and nothing catches it.             *)
Eval_branch(t) ==
    /\ Executing(1, t, "branch")
    /\ IF session.continuous
       THEN Jump(1, t) /\ UNCHANGED failure
       ELSE Fail(1, "branching") /\ UNCHANGED th
    /\ UNCHANGED <<session, gates, masks, keys, store, chan, ot, queues>>

(* The tapes are started, then untaint() may end the batch.                *)
Eval_run_tapes(t) ==
    /\ Executing(1, t, "run_tape")
    /\ Schedule(1, t)
    /\ Becomes(1, t, [th[1][t] EXCEPT !.PC = @ + 1,
                                      !.tainted = IF session.continuous THEN ~@ ELSE @,
                                      !.at = IF session.continuous /\ th[1][t].tainted
                                             THEN "receive" ELSE "exec"])
    /\ UNCHANGED <<session, gates, masks, keys, store, chan, ot, stopped, done,
                   master, failure>>

(* The end of the tape: the PPSS part of YaoEvaluator::run, which sends    *)
(* its result to the garbler or asks it for the stored one.                *)
Evaluator_finish(t) ==
    /\ AtEnd(1, t)
    /\ CASE session.continuous /\ session.variant = "init" -> Send(0, t, [type |-> "pack"])
         [] session.continuous /\ session.variant = "reconstruct" -> Receive(1, t)
         [] OTHER -> UNCHANGED chan
    /\ IF session.continuous /\ session.variant = "reconstruct" /\ Head(chan[1][t]).type # "pack"
       THEN Fail(1, "misread") /\ UNCHANGED <<th, done>>
       ELSE EndTape(1, t) /\ UNCHANGED failure
    /\ UNCHANGED <<session, gates, masks, keys, store, ot, queue, stopped, master>>
-----------------------------------------------------------------------------
(* ThreadMaster::run.                                                      *)

(* Every thread has reported, and the first is given the main tape.        *)
MasterStart(p) ==
    /\ Alive(p) /\ master[p].at = "start"
    /\ \A t \in Threads : done[p][t] > 0
    /\ done' = [done EXCEPT ![p] = [t \in Threads |-> done[p][t] - 1]]
    /\ queue' = [queue EXCEPT ![p][0] = Append(@, 0)]
    /\ master' = [master EXCEPT ![p].at = "stop"]
    /\ UNCHANGED <<session, th, gates, masks, keys, store, chan, ot, stopped, failure>>

(* finish(): stop a thread's schedule ...                                  *)
MasterStop(p) ==
    /\ Alive(p) /\ master[p].at = "stop"
    /\ stopped' = [stopped EXCEPT ![p][master[p].thread] = TRUE]
    /\ master' = [master EXCEPT ![p].at = "join"]
    /\ UNCHANGED <<session, th, gates, masks, keys, store, chan, ot, queue, done, failure>>

(* ... and join it.                                                        *)
MasterJoin(p) ==
    /\ Alive(p) /\ master[p].at = "join"
    /\ th[p][master[p].thread].at = "ended"
    /\ master' = [master EXCEPT ![p] =
                    IF @.thread + 1 \in Threads
                    THEN [at |-> "stop", thread |-> @.thread + 1]
                    ELSE [@ EXCEPT !.at = "sync"]]
    /\ UNCHANGED <<session, th, gates, masks, keys, store, chan, ot, queue, stopped,
                   done, failure>>

(* Broadcast_Receive: the parties wait for each other.                     *)
MasterSync(p) ==
    /\ Alive(p) /\ master[p].at = "sync"
    /\ master[1 - p].at \in {"sync", "exit"}
    /\ master' = [master EXCEPT ![p].at = "exit"]
    /\ UNCHANGED <<session, th, gates, masks, keys, store, chan, ot, queue, stopped,
                   done, failure>>

Finished == \A p \in Parties : master[p].at = "exit"

Failed == \E p \in Parties : ~Alive(p)

(* Nothing is left to do, or an exception has ended one of the parties.    *)
Over == (Finished \/ Failed) /\ UNCHANGED vars

ThreadNext(p, t) == StartTape(p, t) \/ EndThread(p, t) \/ join_tape(p, t)

GarblerNext(t) ==
    \/ Garble_and(t) \/ Garble_inputb(t) \/ Garble_reveal(t) \/ Garble_reveal_again(t)
    \/ Garble_branch(t) \/ Garble_run_tapes(t) \/ Garble_end(t) \/ send(t)
    \/ process_receiver_inputs(t) \/ Garbler_finish(t) \/ post_run(t)

EvaluatorNext(t) ==
    \/ receive_to_store(t) \/ receive(t) \/ pop_store(t) \/ Eval_and(t)
    \/ Eval_inputb(t) \/ Eval_finalize_input(t) \/ Eval_reveal(t) \/ Eval_branch(t)
    \/ Eval_run_tapes(t) \/ Evaluator_finish(t)

MasterNext(p) == MasterStart(p) \/ MasterStop(p) \/ MasterJoin(p) \/ MasterSync(p)

Next ==
    \/ \E p \in Parties, t \in Threads : ThreadNext(p, t)
    \/ \E t \in Threads : GarblerNext(t) \/ EvaluatorNext(t)
    \/ \E p \in Parties : MasterNext(p)
    \/ Over

(* As long as some thread of some party can run, one does.                 *)
Spec == Init /\ [][Next]_vars /\ WF_vars(Next)
-----------------------------------------------------------------------------
Positions == Nat \X Nat

Batches == [type : {"MORE"}, gates : Seq(Positions), masks : Seq(Positions)]

Messages == [p \in Parties |-> IF p = 0 THEN [type : {"pack"}] \union [type : {"value"}, bit : BOOLEAN]
             ELSE [type : {"pack", "DONE"}] \union Batches]

Places == [p \in Parties |-> IF p = 0 THEN {"schedule", "exec", "send", "inputs", "finish", "post_run",
                  "post_inputs", "ended"}
           ELSE {"store", "schedule", "receive", "exec", "keys", "ended"}]

TypeOK ==
    /\ IsSession(session)
    /\ \A p \in Parties, t \in Threads :
         /\ th[p][t] \in [at : Places[p], tape : DOMAIN session.tapes, run : Nat, PC : Nat,
                          last : {"time", "done"}, complexity : 0 .. BatchSize,
                          tainted : BOOLEAN, reg : BOOLEAN]
         /\ gates[p][t] \in Seq(Positions) /\ masks[p][t] \in Seq(Positions)
         /\ chan[p][t] \in Seq(Messages[p]) /\ Len(chan[p][t]) <= Capacity
         /\ ot[p][t] \in Seq(Positions) /\ Len(ot[p][t]) <= Capacity
         /\ queue[p][t] \in Seq(DOMAIN session.tapes)
         /\ stopped[p][t] \in BOOLEAN
         /\ done[p][t] \in Nat
    /\ \A t \in Threads : keys[t] \in Seq(Positions) /\ store[t] \in Seq(Batches)
    /\ master \in [Parties -> [at : {"start", "stop", "join", "sync", "exit"}, thread : Threads]]
    /\ failure \in [Parties -> {"none", "overflow", "misread", "branching"}]

(***************************************************************************)
(* The parties stay in step without naming instructions to each other: the *)
(* gate the evaluator consumes, the mask it opens an output with and the   *)
(* keys it receives for its inputs were made by the garbler for the very   *)
(* instruction that the evaluator is executing, in the same run of the     *)
(* tape; and the garbler answers a transfer with the keys asked for.       *)
(***************************************************************************)
InStep == \A t \in Threads :
    /\ Executing(1, t, "and") =>
         gates[1][t] # <<>> /\ Head(gates[1][t]) = Position(1, t)
    /\ Executing(1, t, "reveal") =>
         masks[1][t] # <<>> /\ Head(masks[1][t]) = Position(1, t)
    /\ At(1, t, "keys") /\ ot[1][t] # <<>> => Head(ot[1][t]) = Position(1, t)
    /\ (At(0, t, "inputs") \/ At(0, t, "post_inputs")) /\ ot[0][t] # <<>> =>
         Head(ot[0][t]) = Head(keys[t])

(***************************************************************************)
(* Where both threads are about to execute the same instruction they hold  *)
(* the same revealed bit, so they take the same branches.                  *)
(***************************************************************************)
SameBranch == \A t \in Threads :
    /\ session.continuous
    /\ At(0, t, "exec") /\ At(1, t, "exec")
    /\ Position(0, t) = Position(1, t)
    => th[0][t].reg = th[1][t].reg

(***************************************************************************)
(* No message is taken for one of another kind and no buffer runs empty    *)
(* (check_buffer()); the only exception is the refusal to branch on        *)
(* revealed values in one-shot mode.                                       *)
(***************************************************************************)
OnlyBranchingFails == \A p \in Parties :
    failure[p] \in {"none", "branching"} /\ (failure[p] = "branching" => ~session.continuous)

(* check_buffer(): the evaluator never asks for more than a batch holds.   *)
EnoughData == failure[1] # "overflow"

(***************************************************************************)
(* When both parties have exited, everything sent was received and         *)
(* everything received was used.                                           *)
(***************************************************************************)
Drained == Finished =>
    /\ \A p \in Parties, t \in Threads :
         /\ gates[p][t] = <<>> /\ masks[p][t] = <<>>
         /\ chan[p][t] = <<>> /\ ot[p][t] = <<>>
         /\ queue[p][t] = <<>>
    /\ \A t \in Threads : keys[t] = <<>> /\ store[t] = <<>>

(***************************************************************************)
(* Both parties exit (or refuse a one-shot program that branches): they    *)
(* never wait for each other in a circle, whichever thread is fast.        *)
(***************************************************************************)
Completes == <>(Finished \/ \E p \in Parties : failure[p] = "branching")
=============================================================================
