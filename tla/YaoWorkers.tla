----------------------------- MODULE YaoWorkers -----------------------------
(***************************************************************************)
(* How a tape thread of a Yao party shares out the ANDS, ANDRS and XORS    *)
(* instructions among its worker threads (YaoCommon::jobs), and how the    *)
(* gates come out: which slot of the gates buffer each one has, which gate *)
(* id it is hashed with and which wires it reads.                          *)
(*                                                                         *)
(* The garbler and the evaluator each run this on their own machine.  They *)
(* may have different numbers of workers, and the garbler's threshold for  *)
(* using them is an option (-t) while the evaluator's is fixed, so the two *)
(* may split the same instruction differently or not at all.  Nothing but  *)
(* the order of the gates tells the evaluator which garbled gate is which. *)
(*                                                                         *)
(* A behaviour is one party; `conf' says which and on what machine.  A     *)
(* gate is represented by the names of what goes into it, a wire by its    *)
(* register and its bit.                                                   *)
(***************************************************************************)
EXTENDS Integers, Sequences, FiniteSetsExt, WaitQueue

CONSTANTS Instructions,    \* the ANDS, ANDRS and XORS the program may have
          MaxInstructions, \* bound: how many of them a behaviour executes
          WorkerCounts,    \* values get_n_worker_threads may have
          Thresholds,      \* values of the garbler's option -t
          EvalThreshold,   \* YaoEvalWire::and_: threshold (1024)
          XorThreshold,    \* YaoWire::xors: threshold (1024)
          FewGates,        \* and_singlethread: 10
          DefaultLength    \* Secret::default_length: bits of a register (64)

(* An instruction's arguments are tuples <number of bits, result, operand, *)
(* operand>.  The numbers of bits are given by their running sum `upto',   *)
(* of which check_args returns the last.  They are not 0.                  *)
IsInstruction(ins) ==
    /\ ins.op \in {"and", "xor"}
    /\ ins.repeat \in BOOLEAN
    /\ ins.upto \in Seq(Nat)
    /\ Len(ins.upto) > 0
    /\ ins.upto[1] > 0
    /\ \A i, j \in 1 .. Len(ins.upto) : i < j => ins.upto[i] < ins.upto[j]
    /\ \A i \in 1 .. Len(ins.upto) : {ins.out[i], ins.left[i], ins.right[i]} \subseteq Nat

ASSUME InstructionsOK == \A ins \in Instructions : IsInstruction(ins)
ASSUME BoundsOK ==
    /\ MaxInstructions \in Nat
    /\ WorkerCounts \subseteq Nat \ {0}
    /\ Thresholds \subseteq Nat /\ EvalThreshold \in Nat
    /\ FewGates \in Nat /\ DefaultLength \in Nat \ {0}
(* More tuples in an XORS that is shared out than there are workers.       *)
ASSUME XorThresholdOK == XorThreshold \in Nat /\ \A n \in WorkerCounts : n < XorThreshold

VARIABLES conf,      \* [role, n_workers, threshold]: fixed
          main,      \* the tape thread: where it is and its local variables
          counter,   \* YaoCommon::counter
          gates,     \* the gates buffer: see Allocate
          jobs,      \* YaoCommon::jobs
          input,     \* the workers' input queues ...
          output,    \* ... their output queues ...
          wpc,       \* ... and where each worker thread is
          ran,       \* how often each tuple of the instruction was executed
          asked,     \* the gates the batch should consist of
          executed   \* number of instructions so far

vars == <<conf, main, counter, gates, jobs, input, output, wpc, ran, asked, executed>>

Workers == 0 .. conf.n_workers - 1
n_tuples(ins) == Len(ins.upto)
bits_before(ins, i) == IF i = 0 THEN 0 ELSE ins.upto[i]
check_args(ins) == ins.upto[n_tuples(ins)]

NoJob == [type |-> "none"]
Empty == [id |-> 0]

Init ==
    /\ conf \in [role : {"garbler"}, n_workers : WorkerCounts, threshold : Thresholds]
            \union [role : {"evaluator"}, n_workers : WorkerCounts, threshold : {EvalThreshold}]
    /\ main = [pc |-> "fetch"]
    /\ counter = 0
    /\ gates = [slots |-> <<>>, buf |-> 0]
    /\ jobs = [w \in Workers |-> NoJob]
    /\ input = [w \in Workers |-> NewQueue]
    /\ output = [w \in Workers |-> NewQueue]
    /\ wpc = [w \in Workers |-> "pop"]
    /\ ran = <<>>
    /\ asked = <<>>
    /\ executed = 0
-----------------------------------------------------------------------------
(* Gates.  The p-th bit of a tuple is bit k of the j-th register.          *)

(* Processor::and_ and Secret::and_, one gate at a time.                   *)
op(ins, i, p, gate_id) ==
    LET j == p \div DefaultLength
        k == p % DefaultLength
    IN  [id |-> gate_id, out |-> <<ins.out[i] + j, k>>, left |-> <<ins.left[i] + j, k>>,
         right |-> IF ins.repeat THEN <<ins.right[i], 0>> ELSE <<ins.right[i] + j, k>>]

(* The loops of YaoGarbleWire::and_ ...                                    *)
garble(ins, i, p, gate_id) ==
    LET j == p \div DefaultLength
        k == p % DefaultLength
    IN  [id |-> gate_id, out |-> <<ins.out[i] + j, k>>, left |-> <<ins.left[i] + j, k>>,
         right |-> <<ins.right[i] + j, IF ins.repeat THEN 0 ELSE k>>]

(* ... and of YaoEvalWire::and_.                                           *)
eval(ins, i, p, gate_id) ==
    LET j == p \div DefaultLength
        k == p % DefaultLength
    IN  [id |-> gate_id, out |-> <<ins.out[i] + j, k>>, left |-> <<ins.left[i] + j, k>>,
         right |-> <<ins.right[i] + (IF ins.repeat THEN 0 ELSE j),
                     IF ins.repeat THEN 0 ELSE k>>]

(* The gates of tuple i, ids following gate_id.                            *)
Tuple(gate(_, _, _, _), ins, i, gate_id) ==
    [g \in 1 .. ins.upto[i] - bits_before(ins, i - 1) |-> gate(ins, i, g - 1, gate_id + g)]

(* The gates of the whole instruction, in order.                           *)
AllTuples(gate(_, _, _, _), ins, gate_id) ==
    [g \in 1 .. check_args(ins) |->
        LET i == Min({t \in 1 .. n_tuples(ins) : g <= ins.upto[t]})
        IN  gate(ins, i, g - bits_before(ins, i - 1) - 1, gate_id + g)]

and_(ins, i, gate_id) ==
    IF conf.role = "garbler" THEN Tuple(garble, ins, i, gate_id) ELSE Tuple(eval, ins, i, gate_id)

(* SendBuffer::allocate may have to move the buffer (how large it is, is   *)
(* not modelled); pointers into the old one are dead then.  The evaluator  *)
(* consumes from the received message, which stays where it is.            *)
Allocate(b) == IF conf.role = "garbler" THEN {b, [b EXCEPT !.buf = @ + 1]} ELSE {b}

Skip(b, n) == [b EXCEPT !.slots = @ \o [g \in 1 .. n |-> Empty]]

(* Writing gs from slot `first' on, through a pointer into buffer `buf'.   *)
Write(b, buf, first, gs) ==
    IF buf = b.buf
    THEN [b EXCEPT !.slots = [g \in DOMAIN @ |->
             IF g \in first + 1 .. first + Len(gs) THEN gs[g - first] ELSE @[g]]]
    ELSE b
-----------------------------------------------------------------------------
(* The tape thread executes an instruction.                                *)
Fetch(ins, o) ==
    /\ main.pc = "fetch"
    /\ executed < MaxInstructions
    /\ executed' = executed + 1
    /\ ins.op = o

Asks(ins) == asked' = asked \o AllTuples(op, ins, counter)

(* processor.and_: `op' for one gate after the other, each serialized to   *)
(* the buffer.                                                             *)
And_few(ins) ==
    /\ Fetch(ins, "and")
    /\ check_args(ins) < conf.threshold
    /\ check_args(ins) < FewGates
    /\ \E b \in Allocate(gates) :
          gates' = [b EXCEPT !.slots = @ \o AllTuples(op, ins, counter)]
    /\ counter' = counter + check_args(ins)
    /\ ran' = [i \in 1 .. n_tuples(ins) |-> 1]
    /\ Asks(ins)
    /\ UNCHANGED <<conf, main, jobs, input, output, wpc>>

(* and_singlethread: the loops of and_ in the tape thread itself.          *)
And_singlethread(ins) ==
    /\ Fetch(ins, "and")
    /\ check_args(ins) < conf.threshold
    /\ check_args(ins) >= FewGates
    /\ \E b \in Allocate(gates) :
          gates' = [b EXCEPT !.slots = @ \o (IF conf.role = "garbler"
                                             THEN AllTuples(garble, ins, counter)
                                             ELSE AllTuples(eval, ins, counter))]
    /\ counter' = counter + check_args(ins)
    /\ ran' = [i \in 1 .. n_tuples(ins) |-> 1]
    /\ Asks(ins)
    /\ UNCHANGED <<conf, main, jobs, input, output, wpc>>

(* and_multithread, up to the loop over the splits.                        *)
And_multithread(ins) ==
    /\ Fetch(ins, "and")
    /\ check_args(ins) >= conf.threshold
    /\ gates' \in Allocate(gates)
    /\ main' = [pc |-> "split", ins |-> ins, i_thread |-> 0, start |-> 0,
                waited |-> 0]
    /\ ran' = [i \in 1 .. n_tuples(ins) |-> 0]
    /\ Asks(ins)
    /\ UNCHANGED <<conf, counter, jobs, input, output, wpc>>

(* Mutant: without rounding up.                                            *)
max_gates_floor(ins) ==
    Max({conf.threshold \div 2, check_args(ins) \div conf.n_workers})

max_gates_per_thread(ins) ==
    Max({conf.threshold \div 2,
         (check_args(ins) + conf.n_workers - 1) \div conf.n_workers})

(* get_splits: the split that begins after tuple `start' ends with the     *)
(* first tuple that makes it large enough, or with the last one.           *)
is_split(ins, start, end) ==
    LET large(e) == ins.upto[e] - bits_before(ins, start) >= max_gates_per_thread(ins)
    IN  /\ end = n_tuples(ins) \/ large(end)
        /\ \A e \in start + 1 .. end - 1 : ~large(e)

(* YaoAndJob::dispatch.  Beyond the last job it is undefined behaviour,    *)
(* here: nothing happens.                                                  *)
dispatch(i_thread, job) ==
    /\ jobs' = [jobs EXCEPT ![i_thread] = job]
    /\ input' = [input EXCEPT ![i_thread] = push(@, "job")]

(* Mutant: the buffer grows split by split.                                *)
Split_allocates ==
    /\ main.pc = "split"
    /\ \E end \in main.start + 1 .. n_tuples(main.ins) :
          LET i_gate == main.ins.upto[end] - bits_before(main.ins, main.start)
          IN  /\ is_split(main.ins, main.start, end)
              /\ gates' = Skip([gates EXCEPT !.buf = @ + 1], i_gate)
              /\ dispatch(main.i_thread,
                          [type |-> "and", ins |-> main.ins, it |-> main.start, end |-> end,
                           gate |-> Len(gates.slots), buf |-> gates.buf + 1, counter |-> counter])
              /\ counter' = counter + i_gate
              /\ main' = [main EXCEPT !.i_thread = @ + 1, !.start = end,
                           !.pc = IF end = n_tuples(main.ins) THEN "wait" ELSE "split"]
    /\ UNCHANGED <<conf, output, wpc, ran, asked, executed>>

(* One iteration of the loop over the splits.                              *)
Split ==
    /\ main.pc = "split"
    /\ \E end \in main.start + 1 .. n_tuples(main.ins) :
          LET i_gate == main.ins.upto[end] - bits_before(main.ins, main.start)
          IN  /\ is_split(main.ins, main.start, end)
              /\ gates' = Skip(gates, i_gate)
              /\ dispatch(main.i_thread,
                          [type |-> "and", ins |-> main.ins, it |-> main.start, end |-> end,
                           gate |-> Len(gates.slots), buf |-> gates.buf, counter |-> counter])
              /\ counter' = counter + i_gate
              /\ main' = [main EXCEPT !.i_thread = @ + 1, !.start = end,
                           !.pc = IF end = n_tuples(main.ins) THEN "wait" ELSE "split"]
    /\ UNCHANGED <<conf, output, wpc, ran, asked, executed>>
-----------------------------------------------------------------------------
(* YaoWire::xors: a few tuples are dealt with at once; otherwise every     *)
(* worker gets as many and the tape thread takes the rest itself.          *)
Xor_few(ins) ==
    /\ Fetch(ins, "xor")
    /\ n_tuples(ins) < XorThreshold
    /\ ran' = [i \in 1 .. n_tuples(ins) |-> 1]
    /\ UNCHANGED <<conf, main, counter, gates, jobs, input, output, wpc, asked>>

Xor_multithread(ins) ==
    /\ Fetch(ins, "xor")
    /\ n_tuples(ins) >= XorThreshold
    /\ main' = [pc |-> "xor", ins |-> ins, i_thread |-> 0, start |-> 0,
                waited |-> 0]
    /\ ran' = [i \in 1 .. n_tuples(ins) |-> 0]
    /\ UNCHANGED <<conf, counter, gates, jobs, input, output, wpc, asked>>

xor_batch(ins) == n_tuples(ins) \div (conf.n_workers + 1)

Xor_dispatch ==
    /\ main.pc = "xor"
    /\ main.i_thread < conf.n_workers
    /\ LET end == main.start + xor_batch(main.ins)
       IN  /\ dispatch(main.i_thread,
                       [type |-> "xor", ins |-> main.ins, it |-> main.start, end |-> end,
                        gate |-> 0, buf |-> 0, counter |-> 0])
           /\ main' = [main EXCEPT !.i_thread = @ + 1, !.start = end]
    /\ UNCHANGED <<conf, counter, gates, output, wpc, ran, asked, executed>>

Xor_rest ==
    /\ main.pc = "xor"
    /\ main.i_thread = conf.n_workers
    /\ ran' = [i \in DOMAIN ran |-> IF i > main.start THEN ran[i] + 1 ELSE ran[i]]
    /\ main' = [main EXCEPT !.pc = "wait"]
    /\ UNCHANGED <<conf, counter, gates, jobs, input, output, wpc, asked, executed>>
-----------------------------------------------------------------------------
(* YaoCommon::wait: jobs[0 .. i_thread - 1]->worker.done().                *)
Wait_blocks ==
    /\ main.pc = "wait"
    /\ PopWaits(output[main.waited])
    /\ output' = [output EXCEPT ![main.waited] = wait(@)]
    /\ UNCHANGED <<conf, main, counter, gates, jobs, input, wpc, ran, asked, executed>>

(* Mutant: the last worker is not waited for.                              *)
Wait_done_early ==
    /\ main.pc = "wait"
    /\ PopGoesOn(output[main.waited])
    /\ output' = [output EXCEPT ![main.waited] = pop(@)]
    /\ main' = IF main.waited + 2 >= main.i_thread
               THEN [pc |-> "fetch"]
               ELSE [main EXCEPT !.waited = @ + 1]
    /\ UNCHANGED <<conf, counter, gates, jobs, input, wpc, ran, asked, executed>>

Wait_done ==
    /\ main.pc = "wait"
    /\ PopGoesOn(output[main.waited])
    /\ output' = [output EXCEPT ![main.waited] = pop(@)]
    /\ main' = IF main.waited + 1 = main.i_thread
               THEN [pc |-> "fetch"]
               ELSE [main EXCEPT !.waited = @ + 1]
    /\ UNCHANGED <<conf, counter, gates, jobs, input, wpc, ran, asked, executed>>

(* The batch is over: the garbler sends the buffer and clears it, the      *)
(* evaluator goes on with the next message.                                *)
NextBatch ==
    /\ main.pc = "fetch"
    /\ gates.slots # <<>>
    /\ gates' = [gates EXCEPT !.slots = <<>>]
    /\ asked' = <<>>
    /\ UNCHANGED <<conf, main, counter, jobs, input, output, wpc, ran, executed>>

(* ~YaoCommon deletes the jobs one after the other; ~Worker stops the      *)
(* input queue and joins the thread.                                       *)
Destroy ==
    /\ main.pc = "fetch"
    /\ main' = [pc |-> "stop", worker |-> 0]
    /\ UNCHANGED <<conf, counter, gates, jobs, input, output, wpc, ran, asked, executed>>

Stop_worker ==
    /\ main.pc = "stop"
    /\ input' = [input EXCEPT ![main.worker] = stop(@)]
    /\ main' = [main EXCEPT !.pc = "join"]
    /\ UNCHANGED <<conf, counter, gates, jobs, output, wpc, ran, asked, executed>>

Join_worker ==
    /\ main.pc = "join"
    /\ wpc[main.worker] = "exited"
    /\ main' = IF main.worker + 1 = conf.n_workers
               THEN [pc |-> "end"]
               ELSE [pc |-> "stop", worker |-> main.worker + 1]
    /\ UNCHANGED <<conf, counter, gates, jobs, input, output, wpc, ran, asked, executed>>
-----------------------------------------------------------------------------
(* Worker::run, which pops a job, runs it and pushes its result.           *)
Worker_blocks(w) ==
    /\ wpc[w] = "pop"
    /\ PopWaits(input[w])
    /\ input' = [input EXCEPT ![w] = wait(@)]
    /\ UNCHANGED <<conf, main, counter, gates, jobs, output, wpc, ran, asked, executed>>

Worker_pops(w) ==
    /\ wpc[w] = "pop"
    /\ PopGoesOn(input[w])
    /\ input' = [input EXCEPT ![w] = pop(@)]
    /\ wpc' = [wpc EXCEPT ![w] = IF input[w].running THEN "run" ELSE "exited"]
    /\ UNCHANGED <<conf, main, counter, gates, jobs, output, ran, asked, executed>>

(* YaoAndJob::run, one tuple: the loops of and_ or of Processor::xors.     *)
Worker_runs(w) ==
    LET job == jobs[w]
        i == job.it + 1
        n == job.ins.upto[i] - bits_before(job.ins, job.it)
    IN  /\ wpc[w] = "run"
        /\ job.type # "none"
        /\ job.it < job.end
        /\ ran' = [ran EXCEPT ![i] = @ + 1]
        /\ IF job.type = "and"
           THEN /\ gates' = Write(gates, job.buf, job.gate, and_(job.ins, i, job.counter))
                /\ jobs' = [jobs EXCEPT ![w].it = i, ![w].gate = @ + n, ![w].counter = @ + n]
           ELSE jobs' = [jobs EXCEPT ![w].it = i] /\ UNCHANGED gates
        /\ UNCHANGED <<conf, main, counter, input, output, wpc, asked, executed>>

Worker_ends(w) ==
    /\ wpc[w] = "run"
    /\ jobs[w].type # "none"
    /\ jobs[w].it = jobs[w].end
    /\ jobs' = [jobs EXCEPT ![w] = NoJob]
    /\ wpc' = [wpc EXCEPT ![w] = "push"]
    /\ UNCHANGED <<conf, main, counter, gates, input, output, ran, asked, executed>>

Worker_pushes(w) ==
    /\ wpc[w] = "push"
    /\ output' = [output EXCEPT ![w] = push(@, "res")]
    /\ wpc' = [wpc EXCEPT ![w] = "pop"]
    /\ UNCHANGED <<conf, main, counter, gates, jobs, input, ran, asked, executed>>
-----------------------------------------------------------------------------
Execute(ins) ==
    \/ And_few(ins) \/ And_singlethread(ins) \/ And_multithread(ins)
    \/ Xor_few(ins) \/ Xor_multithread(ins)

(* What the tape thread does once it has begun an instruction or the end.  *)
MainGoesOn ==
    \/ Split \/ Xor_dispatch \/ Xor_rest \/ Wait_blocks \/ Wait_done
    \/ Stop_worker \/ Join_worker

WorkerStep(w) ==
    \/ Worker_blocks(w) \/ Worker_pops(w) \/ Worker_runs(w) \/ Worker_ends(w)
    \/ Worker_pushes(w)

Next ==
    \/ \E ins \in Instructions : Execute(ins)
    \/ NextBatch \/ Destroy \/ MainGoesOn
    \/ \E w \in Workers : WorkerStep(w)

(* A thread that can go on eventually does.                                *)
Fairness ==
    /\ WF_vars(MainGoesOn)
    /\ \A w \in 0 .. Max(WorkerCounts) - 1 : WF_vars(w \in Workers /\ WorkerStep(w))

Spec == Init /\ [][Next]_vars /\ Fairness
-----------------------------------------------------------------------------
(* What the variables hold: the tape thread's pc, the jobs and the slots   *)
(* of the gates buffer.                                                    *)
TypeOK ==
    /\ main.pc \in {"fetch", "split", "xor", "wait", "stop", "join", "end"}
    /\ counter \in Nat
    /\ gates.buf \in Nat
    /\ \A g \in DOMAIN gates.slots : gates.slots[g].id \in 0 .. counter
    /\ \A w \in Workers :
          /\ jobs[w].type \in {"none", "and", "xor"}
          /\ input[w] \in WaitQueueOf({"job"})
          /\ output[w] \in WaitQueueOf({"res"})
          /\ wpc[w] \in {"pop", "run", "push", "exited"}
    /\ \A i \in DOMAIN ran : ran[i] \in Nat

(* The loops that share an instruction out index jobs[] within its size    *)
(* (get_splits never returns more splits than there are workers), and give *)
(* each worker tuples of the instruction only.                             *)
JobsFit ==
    /\ main.pc \in {"split", "xor", "wait"} => main.i_thread <= conf.n_workers
    /\ \A w \in Workers :
          jobs[w].type # "none" => /\ jobs[w].it <= jobs[w].end
                                  /\ jobs[w].end <= n_tuples(jobs[w].ins)

(* A worker has at most one job, from dispatch() until its result was      *)
(* taken by wait(): the fields of a YaoAndJob are never overwritten while  *)
(* its worker may still read them, and a pop that was signalled finds      *)
(* something.                                                              *)
InFlight(w) ==
    Len(input[w].queue) + Len(output[w].queue) + (IF wpc[w] \in {"run", "push"} THEN 1 ELSE 0)

(* The tape thread still has to take this worker's result.                 *)
Outstanding(w) ==
    \/ main.pc \in {"split", "xor"} /\ w < main.i_thread
    \/ main.pc = "wait" /\ w \in main.waited .. main.i_thread - 1

OneJobEach ==
    \A w \in Workers :
       /\ InFlight(w) = IF Outstanding(w) THEN 1 ELSE 0
       /\ (jobs[w].type # "none") <=> (input[w].queue # <<>> \/ wpc[w] = "run")
       /\ input[w].cond = "signalled" /\ input[w].running => input[w].queue # <<>>
       /\ output[w].cond = "signalled" => output[w].queue # <<>>

(* When an instruction is over, each of its tuples was executed exactly    *)
(* once, and the buffer holds the gates that processor.and_ would have     *)
(* made one after the other, with the same gate ids, whatever the          *)
(* threshold and the number of workers: so both parties agree on them.     *)
InOrder ==
    main.pc = "fetch" =>
        /\ \A i \in DOMAIN ran : ran[i] = 1
        /\ gates.slots = asked

(* An instruction that was begun is finished, and the workers can be       *)
(* joined when the party is destroyed.                                     *)
Finishes ==
    /\ main.pc \in {"split", "xor", "wait"} ~> main.pc = "fetch"
    /\ main.pc = "stop" ~> main.pc = "end"

(* ANDRS ANDs every bit of its vector operand with bit 0 of its single     *)
(* operand (Compiler/GC/instructions.py, andrs).                           *)
SingleOperand ==
    main.pc = "fetch" =>
        \A g \in DOMAIN gates.slots : gates.slots[g].right = asked[g].right
=============================================================================
