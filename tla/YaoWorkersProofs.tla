-------------------------- MODULE YaoWorkersProofs --------------------------
(***************************************************************************)
(* Sharing out an instruction stays within the workers a party has; no job *)
(* is handed out while its worker may still be busy with the last one; and *)
(* every tuple is executed once, its gates coming out where and as if they *)
(* had been made one after the other.  For every number of workers, every  *)
(* threshold and every program.                                            *)
(***************************************************************************)
EXTENDS YaoWorkers, TLAPS, SequenceTheorems, WellFoundedInduction

JobFields == {"type", "ins", "it", "end", "gate", "buf", "counter"}

ConfOK ==
    /\ conf.n_workers \in WorkerCounts
    /\ conf.threshold \in Nat

(* What the tape thread knows at each place.  Every split but the last has *)
(* at least max_gates_per_thread gates, and that many times the number of  *)
(* workers is at least the total: hence a split that begins before the     *)
(* last tuple finds a worker.                                              *)
Sharing == [pc : {"split", "xor", "wait"}, ins : Instructions, i_thread : Nat,
            start : Nat, waited : Nat]

MainOK ==
    /\ main \in Sharing \union [pc : {"fetch", "end"}]
                        \union [pc : {"stop", "join"}, worker : Nat]
    /\ main.pc = "split" =>
         /\ main.start < n_tuples(main.ins)
         /\ main.i_thread * max_gates_per_thread(main.ins) <= bits_before(main.ins, main.start)
         /\ main.waited = 0
    /\ main.pc = "xor" =>
         /\ n_tuples(main.ins) >= XorThreshold
         /\ main.i_thread <= conf.n_workers
         /\ main.start = main.i_thread * xor_batch(main.ins)
         /\ main.waited = 0
    /\ main.pc = "wait" =>
         /\ main.i_thread <= conf.n_workers
         /\ main.waited < main.i_thread

JobOK(w) ==
    \/ jobs[w] = NoJob
    \/ /\ jobs[w] = [x \in JobFields |-> jobs[w][x]]
       /\ jobs[w].type \in {"and", "xor"}
       /\ jobs[w].ins \in Instructions
       /\ jobs[w].it \in Nat
       /\ jobs[w].end \in Nat
       /\ jobs[w].it <= jobs[w].end
       /\ jobs[w].end <= n_tuples(jobs[w].ins)

JobsOK ==
    /\ DOMAIN jobs = Workers
    /\ jobs = [w \in Workers |-> jobs[w]]
    /\ \A w \in Workers : JobOK(w)

SharingInv == ConfOK /\ MainOK /\ JobsOK
-----------------------------------------------------------------------------
(* Arithmetic.                                                             *)
LEMMA DivBounds ==
    ASSUME NEW a \in Nat, NEW n \in Nat, n > 0
    PROVE  a \div n \in Nat /\ n * (a \div n) <= a /\ a < n * (a \div n) + n
OBVIOUS

LEMMA CeilBound ==
    ASSUME NEW a \in Nat, NEW n \in Nat, n > 0
    PROVE  (a + n - 1) \div n \in Nat /\ a <= n * ((a + n - 1) \div n)
<1>1. a + n - 1 \in Nat
  OBVIOUS
<1>2. /\ (a + n - 1) \div n \in Nat
      /\ a + n - 1 < n * ((a + n - 1) \div n) + n
  BY <1>1, DivBounds
<1>3. n * ((a + n - 1) \div n) \in Nat
  BY <1>2
<1> QED BY <1>2, <1>3

LEMMA CancelLess ==
    ASSUME NEW i \in Nat, NEW n \in Nat, NEW m \in Nat, i * m < m * n
    PROVE  i < n
OBVIOUS

LEMMA MulMonotone ==
    ASSUME NEW i \in Nat, NEW j \in Nat, NEW m \in Nat, i <= j
    PROVE  m * i <= m * j /\ m * i \in Nat
OBVIOUS

LEMMA MaxOfTwo ==
    ASSUME NEW a \in Nat, NEW b \in Nat
    PROVE  Max({a, b}) \in Nat /\ a <= Max({a, b}) /\ b <= Max({a, b})
<1>1. \E x \in {a, b} : \A y \in {a, b} : x >= y
  OBVIOUS
<1> QED BY <1>1 DEF Max

(* The running sums of an instruction.                                     *)
LEMMA Sums ==
    ASSUME NEW ins \in Instructions
    PROVE  /\ n_tuples(ins) \in Nat \ {0}
           /\ \A i \in 1 .. n_tuples(ins) : ins.upto[i] \in Nat \ {0}
           /\ check_args(ins) \in Nat \ {0}
           /\ \A i \in 0 .. n_tuples(ins) : bits_before(ins, i) \in Nat
           /\ \A i \in 0 .. n_tuples(ins) - 1 : bits_before(ins, i) < check_args(ins)
<1>1. /\ ins.upto \in Seq(Nat) /\ Len(ins.upto) > 0 /\ ins.upto[1] > 0
      /\ \A i, j \in 1 .. Len(ins.upto) : i < j => ins.upto[i] < ins.upto[j]
  BY InstructionsOK DEF IsInstruction
<1>2. Len(ins.upto) \in Nat /\ \A i \in 1 .. Len(ins.upto) : ins.upto[i] \in Nat
  BY <1>1
<1>3. \A i \in 1 .. Len(ins.upto) : ins.upto[i] \in Nat \ {0}
  <2> TAKE i \in 1 .. Len(ins.upto)
  <2>1. CASE i = 1
    BY <2>1, <1>1, <1>2
  <2>2. CASE i # 1
    <3>1. 1 \in 1 .. Len(ins.upto) /\ 1 < i
      BY <2>2, <1>2
    <3>2. ins.upto[1] < ins.upto[i]
      BY <3>1, <1>1
    <3> QED BY <3>1, <3>2, <1>1, <1>2
  <2> QED BY <2>1, <2>2
<1>4. Len(ins.upto) \in 1 .. Len(ins.upto)
  BY <1>1, <1>2
<1>5. \A i \in 0 .. Len(ins.upto) - 1 : (IF i = 0 THEN 0 ELSE ins.upto[i]) < ins.upto[Len(ins.upto)]
  <2> TAKE i \in 0 .. Len(ins.upto) - 1
  <2>1. CASE i = 0
    BY <2>1, <1>3, <1>4
  <2>2. CASE i # 0
    <3>1. i \in 1 .. Len(ins.upto) /\ i < Len(ins.upto)
      BY <2>2, <1>2
    <3> QED BY <3>1, <1>1, <1>4, <2>2
  <2> QED BY <2>1, <2>2
<1>6. \A i \in 0 .. Len(ins.upto) : (IF i = 0 THEN 0 ELSE ins.upto[i]) \in Nat
  <2> TAKE i \in 0 .. Len(ins.upto)
  <2>1. i = 0 \/ i \in 1 .. Len(ins.upto)
    BY <1>2
  <2> QED BY <2>1, <1>2
<1> QED BY <1>1, <1>2, <1>3, <1>4, <1>5, <1>6 DEF n_tuples, check_args, bits_before

LEMMA Workers_ ==
    ASSUME ConfOK
    PROVE  conf.n_workers \in Nat \ {0} /\ conf.n_workers < XorThreshold
BY BoundsOK, XorThresholdOK DEF ConfOK

(* The workers suffice.                                                    *)
LEMMA MaxGates ==
    ASSUME ConfOK, NEW ins \in Instructions
    PROVE  /\ max_gates_per_thread(ins) \in Nat
           /\ check_args(ins) <= max_gates_per_thread(ins) * conf.n_workers
<1> DEFINE n == conf.n_workers
           t == check_args(ins)
           q == (t + n - 1) \div n
           h == conf.threshold \div 2
<1>1. n \in Nat /\ n > 0 /\ t \in Nat
  BY Workers_, Sums
<1>2. q \in Nat /\ t <= n * q
  BY <1>1, CeilBound
<1>3. h \in Nat
  BY DivBounds DEF ConfOK
<1>4. max_gates_per_thread(ins) = Max({h, q})
  BY DEF max_gates_per_thread
<1> HIDE DEF n, t, q, h
<1>5. Max({h, q}) \in Nat /\ q <= Max({h, q})
  BY <1>2, <1>3, MaxOfTwo
<1>6. n * q <= n * Max({h, q}) /\ n * q \in Nat
  BY <1>1, <1>2, <1>5, MulMonotone
<1>7. t <= Max({h, q}) * n
  BY <1>1, <1>2, <1>5, <1>6
<1> QED BY <1>4, <1>5, <1>7 DEF n, t
-----------------------------------------------------------------------------
LEMMA SharingInit == Init => SharingInv
<1> SUFFICES ASSUME Init PROVE SharingInv
  OBVIOUS
<1>1. ConfOK
  BY BoundsOK DEF Init, ConfOK
<1>2. MainOK
  BY DEF Init, MainOK
<1>3. JobsOK
  BY DEF Init, JobsOK, JobOK
<1> QED BY <1>1, <1>2, <1>3 DEF SharingInv

(* Steps that leave the jobs alone.                                        *)
LEMMA JobsKept ==
    ASSUME JobsOK, UNCHANGED <<conf, jobs>>
    PROVE  JobsOK'
BY DEF JobsOK, JobOK, Workers

LEMMA MainKept ==
    ASSUME MainOK, UNCHANGED <<conf, main>>
    PROVE  MainOK'
BY DEF MainOK, max_gates_per_thread, xor_batch

(* A new job for a worker that exists.                                     *)
LEMMA JobsDispatched ==
    ASSUME JobsOK, UNCHANGED conf, NEW w \in Workers, NEW job,
           jobs' = [jobs EXCEPT ![w] = job],
           job = [x \in JobFields |-> job[x]], job.type \in {"and", "xor"}, job.ins \in Instructions,
           job.it \in Nat, job.end \in Nat, job.it <= job.end, job.end <= n_tuples(job.ins)
    PROVE  JobsOK'
<1>1. Workers' = Workers
  BY DEF Workers
<1>2. jobs' = [v \in Workers |-> IF v = w THEN job ELSE jobs[v]]
  BY DEF JobsOK
<1>3. ASSUME NEW v \in Workers PROVE JobOK(v)'
  BY <1>2 DEF JobsOK, JobOK
<1> QED BY <1>1, <1>2, <1>3 DEF JobsOK

(* A split that begins finds a worker.                                     *)
LEMMA SplitHasWorker ==
    ASSUME SharingInv, main.pc = "split"
    PROVE  main.i_thread \in Nat /\ main.i_thread < conf.n_workers
<1> USE DEF SharingInv
<1> DEFINE ins == main.ins
           mg == max_gates_per_thread(ins)
<1>1. main \in Sharing
  BY DEF MainOK
<1>2. ins \in Instructions /\ main.i_thread \in Nat /\ main.start \in Nat
  BY <1>1 DEF Sharing
<1>3. /\ main.start \in 0 .. n_tuples(ins) - 1
      /\ main.i_thread * mg <= bits_before(ins, main.start)
  BY <1>2, Sums DEF MainOK
<1>4. mg \in Nat /\ check_args(ins) <= mg * conf.n_workers /\ conf.n_workers \in Nat
  BY <1>2, MaxGates, Workers_
<1>5. bits_before(ins, main.start) \in Nat /\ bits_before(ins, main.start) < check_args(ins)
      /\ check_args(ins) \in Nat
  BY <1>2, <1>3, Sums
<1>6. main.i_thread * mg \in Nat /\ mg * conf.n_workers \in Nat
  BY <1>2, <1>4
<1>7. main.i_thread * mg < mg * conf.n_workers
  BY <1>3, <1>4, <1>5, <1>6
<1> QED BY <1>2, <1>4, <1>7, CancelLess

LEMMA SplitSharing == SharingInv /\ Split => SharingInv' /\ main.i_thread \in Workers
<1> SUFFICES ASSUME SharingInv, Split PROVE SharingInv' /\ main.i_thread \in Workers
  OBVIOUS
<1> USE DEF SharingInv
<1> DEFINE ins == main.ins
           mg == max_gates_per_thread(ins)
           n == n_tuples(ins)
<1>1. PICK end \in main.start + 1 .. n :
         /\ is_split(ins, main.start, end)
         /\ dispatch(main.i_thread,
                     [type |-> "and", ins |-> ins, it |-> main.start, end |-> end,
                      gate |-> Len(gates.slots), buf |-> gates.buf, counter |-> counter])
         /\ main' = [main EXCEPT !.i_thread = @ + 1, !.start = end,
                      !.pc = IF end = n THEN "wait" ELSE "split"]
  BY DEF Split
<1>2. main.pc = "split" /\ UNCHANGED conf
  BY DEF Split
<1>3. main \in Sharing
  BY <1>2 DEF MainOK
<1>4. ins \in Instructions /\ main.i_thread \in Nat /\ main.start \in Nat /\ main.waited = 0
  BY <1>2, <1>3 DEF Sharing, MainOK
<1>5. /\ main.start < n /\ n \in Nat /\ main.start \in 0 .. n - 1
      /\ main.i_thread * mg <= bits_before(ins, main.start)
  BY <1>2, <1>4, Sums DEF MainOK
<1>6. mg \in Nat /\ check_args(ins) <= mg * conf.n_workers /\ conf.n_workers \in Nat
  BY <1>4, MaxGates, Workers_
<1>7. bits_before(ins, main.start) \in Nat /\ bits_before(ins, main.start) < check_args(ins)
      /\ check_args(ins) \in Nat
  BY <1>4, <1>5, Sums
<1>8. main.i_thread < conf.n_workers
  BY <1>2, SplitHasWorker
<1>9. main.i_thread \in Workers
  BY <1>4, <1>6, <1>8 DEF Workers
<1>10. /\ main' \in Sharing /\ main'.ins = ins /\ main'.i_thread = main.i_thread + 1
       /\ main'.start = end /\ main'.waited = 0
       /\ main'.pc = IF end = n THEN "wait" ELSE "split"
  <2>1. (IF end = n THEN "wait" ELSE "split") \in {"split", "xor", "wait"}
        /\ main.i_thread + 1 \in Nat /\ end \in Nat
    BY <1>1, <1>4, <1>5
  <2>2. main' = [main EXCEPT !.i_thread = main.i_thread + 1, !.start = end,
                  !.pc = IF end = n THEN "wait" ELSE "split"]
    BY <1>1
  <2> DEFINE p == IF end = n THEN "wait" ELSE "split"
  <2> HIDE DEF p
  <2>3. p \in {"split", "xor", "wait"} /\ main' = [main EXCEPT !.i_thread = main.i_thread + 1, !.start = end, !.pc = p]
    BY <2>1, <2>2 DEF p
  <2>4. /\ main' \in Sharing /\ main'.ins = main.ins /\ main'.i_thread = main.i_thread + 1
        /\ main'.start = end /\ main'.waited = main.waited /\ main'.pc = p
    <3>1. main' = [pc |-> p, ins |-> main.ins, i_thread |-> main.i_thread + 1,
                   start |-> end, waited |-> main.waited]
      BY <2>3, <1>3 DEF Sharing
    <3> QED BY <3>1, <2>1, <2>3, <1>3 DEF Sharing
  <2> QED BY <2>4, <1>4 DEF p
<1>11. end # n => (main.i_thread + 1) * mg <= bits_before(ins, end)
  <2> SUFFICES ASSUME end # n PROVE (main.i_thread + 1) * mg <= bits_before(ins, end)
    OBVIOUS
  <2>1. ins.upto[end] - bits_before(ins, main.start) >= mg
    BY <1>1 DEF is_split
  <2>2. end \in 1 .. n /\ ins.upto[end] \in Nat
    BY <1>1, <1>4, <1>5, Sums
  <2>3. bits_before(ins, end) = ins.upto[end]
    BY <2>2 DEF bits_before
  <2>4. (main.i_thread + 1) * mg = main.i_thread * mg + mg /\ main.i_thread * mg \in Nat
    BY <1>4, <1>6
  <2> QED BY <2>1, <2>2, <2>3, <2>4, <1>5, <1>6, <1>7
<1>12. max_gates_per_thread(ins)' = mg
  BY <1>2, <1>10 DEF max_gates_per_thread
<1>13. MainOK'
  <2>1. CASE end = n
    BY <2>1, <1>2, <1>10, <1>8, <1>4, <1>6 DEF MainOK
  <2>2. CASE end # n
    <3>1. end < n
      BY <2>2, <1>1, <1>5
    <3>2. max_gates_per_thread(main.ins)' = mg
      BY <1>2, <1>10 DEF max_gates_per_thread
    <3> QED BY <2>2, <3>1, <3>2, <1>10, <1>11 DEF MainOK
  <2> QED BY <2>1, <2>2
<1>14. JobsOK'
  <2> DEFINE job == [type |-> "and", ins |-> ins, it |-> main.start, end |-> end,
                     gate |-> Len(gates.slots), buf |-> gates.buf, counter |-> counter]
  <2>1. jobs' = [jobs EXCEPT ![main.i_thread] = job]
    BY <1>1 DEF dispatch
  <2>2. job = [x \in JobFields |-> job[x]] /\ job.type = "and" /\ job.ins = ins /\ job.it = main.start /\ job.end = end
    BY DEF JobFields
  <2>3. end \in Nat /\ main.start <= end /\ end <= n
    BY <1>1, <1>5
  <2> HIDE DEF job
  <2> QED BY <2>1, <2>2, <2>3, <1>2, <1>4, <1>9, JobsDispatched
<1>15. ConfOK'
  BY <1>2 DEF ConfOK
<1> QED BY <1>9, <1>13, <1>14, <1>15

LEMMA XorSharing ==
    SharingInv /\ Xor_dispatch => SharingInv' /\ main.i_thread \in Workers
<1> SUFFICES ASSUME SharingInv, Xor_dispatch PROVE SharingInv' /\ main.i_thread \in Workers
  OBVIOUS
<1> USE DEF SharingInv
<1> DEFINE ins == main.ins
           b == xor_batch(ins)
           n == n_tuples(ins)
           end == main.start + b
           job == [type |-> "xor", ins |-> ins, it |-> main.start, end |-> end,
                   gate |-> 0, buf |-> 0, counter |-> 0]
<1>1. /\ main.pc = "xor" /\ main.i_thread < conf.n_workers /\ UNCHANGED conf
      /\ jobs' = [jobs EXCEPT ![main.i_thread] = job]
      /\ main' = [main EXCEPT !.i_thread = @ + 1, !.start = end]
  BY DEF Xor_dispatch, dispatch
<1>2. main \in Sharing
  BY <1>1 DEF MainOK
<1>3. /\ ins \in Instructions /\ main.i_thread \in Nat /\ main.start \in Nat
      /\ main.start = main.i_thread * b /\ main.waited = 0 /\ n >= XorThreshold
  BY <1>1, <1>2 DEF Sharing, MainOK
<1>4. conf.n_workers \in Nat \ {0} /\ n \in Nat
  BY <1>3, Workers_, Sums
<1>5. b \in Nat /\ (conf.n_workers + 1) * b <= n
  BY <1>4, DivBounds DEF xor_batch
<1>6. end = (main.i_thread + 1) * b /\ end \in Nat /\ end <= n
  <2>1. end = (main.i_thread + 1) * b /\ end \in Nat
    BY <1>3, <1>5
  <2>2. b * (main.i_thread + 1) <= b * (conf.n_workers + 1)
    BY <1>1, <1>3, <1>4, <1>5, MulMonotone
  <2> QED BY <2>1, <2>2, <1>3, <1>4, <1>5
<1>7. main.i_thread \in Workers
  BY <1>1, <1>3, <1>4 DEF Workers
<1> HIDE DEF b, end
<1>8. /\ main' \in Sharing /\ main'.ins = ins /\ main'.i_thread = main.i_thread + 1
      /\ main'.start = end /\ main'.waited = 0 /\ main'.pc = "xor"
  <2>1. main.i_thread + 1 \in Nat
    BY <1>3
  <2>2. main' = [main EXCEPT !.i_thread = main.i_thread + 1, !.start = end]
    BY <1>1
  <2>3. "xor" \in {"split", "xor", "wait"}
    OBVIOUS
  <2>4. /\ main' \in Sharing /\ main'.ins = main.ins /\ main'.i_thread = main.i_thread + 1
        /\ main'.start = end /\ main'.waited = main.waited /\ main'.pc = "xor"
    <3>1. main' = [pc |-> "xor", ins |-> main.ins, i_thread |-> main.i_thread + 1,
                   start |-> end, waited |-> main.waited]
      BY <2>2, <1>1, <1>2 DEF Sharing
    <3> QED BY <3>1, <2>1, <2>3, <1>2, <1>6 DEF Sharing
  <2> QED BY <2>4, <1>3
<1>9. xor_batch(main.ins)' = b
  BY <1>1, <1>8 DEF xor_batch, b
<1>10. MainOK'
  BY <1>1, <1>3, <1>4, <1>6, <1>8, <1>9 DEF MainOK
<1>11. JobsOK'
  <2>1. job = [x \in JobFields |-> job[x]] /\ job.type = "xor" /\ job.ins = ins /\ job.it = main.start /\ job.end = end
    BY DEF JobFields
  <2>2. main.start <= end
    BY <1>3, <1>5 DEF end
  <2> HIDE DEF job
  <2> QED BY <2>1, <2>2, <1>1, <1>3, <1>6, <1>7, JobsDispatched
<1> QED BY <1>1, <1>7, <1>10, <1>11 DEF ConfOK

LEMMA SharingNext == SharingInv /\ [Next]_vars => SharingInv'
<1> SUFFICES ASSUME SharingInv, [Next]_vars PROVE SharingInv'
  OBVIOUS
<1> USE DEF SharingInv
<1>0. UNCHANGED conf => ConfOK'
  BY DEF ConfOK
<1>1. ASSUME NEW ins \in Instructions, And_few(ins) PROVE SharingInv'
  BY <1>0, <1>1, JobsKept, MainKept DEF And_few
<1>2. ASSUME NEW ins \in Instructions, And_singlethread(ins) PROVE SharingInv'
  BY <1>0, <1>2, JobsKept, MainKept DEF And_singlethread
<1>3. ASSUME NEW ins \in Instructions, And_multithread(ins) PROVE SharingInv'
  <2>1. main' = [pc |-> "split", ins |-> ins, i_thread |-> 0, start |-> 0, waited |-> 0]
        /\ UNCHANGED <<conf, jobs>>
    BY <1>3 DEF And_multithread
  <2>2. main' \in Sharing /\ main'.pc = "split" /\ main'.ins = ins /\ main'.i_thread = 0
        /\ main'.start = 0 /\ main'.waited = 0
    BY <2>1 DEF Sharing
  <2>3. n_tuples(ins) \in Nat \ {0}
    BY Sums
  <2>4. max_gates_per_thread(main.ins)' = max_gates_per_thread(ins) /\ max_gates_per_thread(ins) \in Nat
    BY <2>1, <2>2, MaxGates DEF max_gates_per_thread
  <2>5. bits_before(ins, 0) = 0
    BY DEF bits_before
  <2>6. MainOK'
    BY <2>2, <2>3, <2>4, <2>5 DEF MainOK
  <2> QED BY <1>0, <2>1, <2>6, JobsKept
<1>4. ASSUME NEW ins \in Instructions, Xor_few(ins) PROVE SharingInv'
  BY <1>0, <1>4, JobsKept, MainKept DEF Xor_few
<1>5. ASSUME NEW ins \in Instructions, Xor_multithread(ins) PROVE SharingInv'
  <2>1. main' = [pc |-> "xor", ins |-> ins, i_thread |-> 0, start |-> 0, waited |-> 0]
        /\ UNCHANGED <<conf, jobs>> /\ n_tuples(ins) >= XorThreshold
    BY <1>5 DEF Xor_multithread
  <2>2. main' \in Sharing /\ main'.pc = "xor" /\ main'.ins = ins /\ main'.i_thread = 0
        /\ main'.start = 0 /\ main'.waited = 0
    BY <2>1 DEF Sharing
  <2>3. conf.n_workers \in Nat \ {0} /\ n_tuples(ins) \in Nat
    BY Workers_, Sums
  <2>4. xor_batch(main.ins)' = xor_batch(ins) /\ xor_batch(ins) \in Nat
    BY <2>1, <2>2, <2>3, DivBounds DEF xor_batch
  <2>5. MainOK'
    BY <2>1, <2>2, <2>3, <2>4 DEF MainOK
  <2> QED BY <1>0, <2>1, <2>5, JobsKept
<1>6. CASE NextBatch
  BY <1>0, <1>6, JobsKept, MainKept DEF NextBatch
<1>7. CASE Destroy
  <2>1. main' = [pc |-> "stop", worker |-> 0] /\ UNCHANGED <<conf, jobs>>
    BY <1>7 DEF Destroy
  <2>2. MainOK'
    BY <2>1 DEF MainOK
  <2> QED BY <1>0, <2>1, <2>2, JobsKept
<1>8. CASE Split
  BY <1>8, SplitSharing
<1>9. CASE Xor_dispatch
  BY <1>9, XorSharing
<1>10. CASE Xor_rest
  <2>1. main.pc = "xor" /\ main.i_thread = conf.n_workers /\ UNCHANGED <<conf, jobs>>
        /\ main' = [main EXCEPT !.pc = "wait"]
    BY <1>10 DEF Xor_rest
  <2>2. main \in Sharing /\ main.waited = 0
    BY <2>1 DEF MainOK
  <2>3. main' = [pc |-> "wait", ins |-> main.ins, i_thread |-> main.i_thread,
                 start |-> main.start, waited |-> main.waited]
    BY <2>1, <2>2 DEF Sharing
  <2>4. main' \in Sharing
    BY <2>2, <2>3 DEF Sharing
  <2>5. MainOK'
    BY <2>1, <2>2, <2>3, <2>4, Workers_ DEF MainOK
  <2> QED BY <1>0, <2>1, <2>5, JobsKept
<1>11. CASE Wait_blocks
  BY <1>0, <1>11, JobsKept, MainKept DEF Wait_blocks
<1>12. CASE Wait_done
  <2>1. main.pc = "wait" /\ UNCHANGED <<conf, jobs>>
        /\ main' = IF main.waited + 1 = main.i_thread
                   THEN [pc |-> "fetch"]
                   ELSE [main EXCEPT !.waited = main.waited + 1]
    BY <1>12 DEF Wait_done
  <2>2. main \in Sharing /\ main.i_thread <= conf.n_workers /\ main.waited < main.i_thread
        /\ main.i_thread \in Nat /\ main.waited \in Nat
    BY <2>1 DEF MainOK, Sharing
  <2>3. CASE main.waited + 1 = main.i_thread
    <3>1. MainOK'
      BY <2>1, <2>3 DEF MainOK
    <3> QED BY <1>0, <2>1, <3>1, JobsKept
  <2>4. CASE main.waited + 1 # main.i_thread
    <3>1. main' = [pc |-> "wait", ins |-> main.ins, i_thread |-> main.i_thread,
                   start |-> main.start, waited |-> main.waited + 1]
      BY <2>1, <2>2, <2>4 DEF Sharing
    <3>2. main' \in Sharing
      BY <2>2, <3>1 DEF Sharing
    <3>3. MainOK'
      BY <2>1, <2>2, <2>4, <3>1, <3>2 DEF MainOK
    <3> QED BY <1>0, <2>1, <3>3, JobsKept
  <2> QED BY <2>3, <2>4
<1>13. CASE Stop_worker
  <2>1. main.pc = "stop" /\ UNCHANGED <<conf, jobs>> /\ main' = [main EXCEPT !.pc = "join"]
    BY <1>13 DEF Stop_worker
  <2>2. main \in [pc : {"stop", "join"}, worker : Nat]
    BY <2>1 DEF MainOK, Sharing
  <2>3. main' \in [pc : {"stop", "join"}, worker : Nat] /\ main'.pc = "join"
    BY <2>1, <2>2
  <2>4. MainOK'
    BY <2>3 DEF MainOK
  <2> QED BY <1>0, <2>1, <2>4, JobsKept
<1>14. CASE Join_worker
  <2>1. main.pc = "join" /\ UNCHANGED <<conf, jobs>>
        /\ main' = IF main.worker + 1 = conf.n_workers THEN [pc |-> "end"]
                   ELSE [pc |-> "stop", worker |-> main.worker + 1]
    BY <1>14 DEF Join_worker
  <2>2. main.worker \in Nat
    BY <2>1 DEF MainOK, Sharing
  <2>3. MainOK'
    BY <2>1, <2>2 DEF MainOK
  <2> QED BY <1>0, <2>1, <2>3, JobsKept
<1>15. ASSUME NEW w \in Workers, Worker_blocks(w) \/ Worker_pops(w) \/ Worker_pushes(w)
       PROVE SharingInv'
  BY <1>0, <1>15, JobsKept, MainKept DEF Worker_blocks, Worker_pops, Worker_pushes
<1>16. ASSUME NEW w \in Workers, Worker_runs(w) PROVE SharingInv'
  <2>1. UNCHANGED <<conf, main>> /\ jobs[w].type # "none" /\ jobs[w].it < jobs[w].end
    BY <1>16 DEF Worker_runs
  <2>2. /\ jobs[w] = [x \in JobFields |-> jobs[w][x]]
        /\ jobs[w].type \in {"and", "xor"} /\ jobs[w].ins \in Instructions
        /\ jobs[w].it \in Nat /\ jobs[w].end \in Nat /\ jobs[w].end <= n_tuples(jobs[w].ins)
    BY <2>1 DEF JobsOK, JobOK, NoJob
  <2> DEFINE job == jobs'[w]
  <2>3. jobs' = [jobs EXCEPT ![w] = job]
    BY <1>16 DEF Worker_runs, JobsOK
  <2>4. /\ job = [x \in JobFields |-> job[x]] /\ job.type = jobs[w].type /\ job.ins = jobs[w].ins
        /\ job.it = jobs[w].it + 1 /\ job.end = jobs[w].end
    <3>1. CASE jobs[w].type = "and"
      <4> DEFINE n == jobs[w].ins.upto[jobs[w].it + 1] - bits_before(jobs[w].ins, jobs[w].it)
                 g == jobs[w].gate + n
                 c == jobs[w].counter + n
      <4>1. jobs' = [jobs EXCEPT ![w].it = jobs[w].it + 1, ![w].gate = g, ![w].counter = c]
        BY <1>16, <3>1 DEF Worker_runs
      <4> HIDE DEF g, c
      <4>2. jobs'[w] = [jobs[w] EXCEPT !.it = jobs[w].it + 1, !.gate = g, !.counter = c]
        BY <4>1 DEF JobsOK
      <4> QED BY <2>2, <4>2 DEF JobFields
    <3>2. CASE jobs[w].type # "and"
      <4>1. jobs' = [jobs EXCEPT ![w].it = jobs[w].it + 1]
        BY <1>16, <3>2 DEF Worker_runs
      <4>2. jobs'[w] = [jobs[w] EXCEPT !.it = jobs[w].it + 1]
        BY <4>1 DEF JobsOK
      <4> QED BY <2>2, <4>2 DEF JobFields
    <3> QED BY <3>1, <3>2
  <2> HIDE DEF job
  <2>5. job.it \in Nat /\ job.it <= job.end
    BY <2>1, <2>2, <2>4
  <2>6. JobsOK'
    BY <2>1, <2>2, <2>3, <2>4, <2>5, JobsDispatched
  <2> QED BY <1>0, <2>1, <2>6, MainKept
<1>17. ASSUME NEW w \in Workers, Worker_ends(w) PROVE SharingInv'
  <2>1. UNCHANGED <<conf, main>> /\ jobs' = [jobs EXCEPT ![w] = NoJob]
    BY <1>17 DEF Worker_ends
  <2>2. JobsOK'
    BY <2>1 DEF JobsOK, JobOK, Workers
  <2> QED BY <1>0, <2>1, <2>2, MainKept
<1>18. CASE UNCHANGED vars
  BY <1>0, <1>18, JobsKept, MainKept DEF vars
<1> QED
  BY <1>1, <1>2, <1>3, <1>4, <1>5, <1>6, <1>7, <1>8, <1>9, <1>10, <1>11, <1>12, <1>13, <1>14,
     <1>15, <1>16, <1>17, <1>18 DEF Next, Execute, MainGoesOn, WorkerStep

(* The jobs handed out are ones the party has, and on tuples of the        *)
(* instruction: jobs[i_thread++] in and_multithread stays within jobs.     *)
THEOREM JobsAlwaysFit == Spec => []JobsFit
<1>1. SharingInv => JobsFit
  <2> SUFFICES ASSUME SharingInv PROVE JobsFit
    OBVIOUS
  <2>1. ASSUME main.pc = "split" PROVE main.i_thread <= conf.n_workers
    BY <2>1, SplitHasWorker, Workers_ DEF SharingInv
  <2> QED BY <2>1 DEF SharingInv, JobsFit, MainOK, JobsOK, JobOK, NoJob
<1> QED BY <1>1, SharingInit, SharingNext, PTL DEF Spec
-----------------------------------------------------------------------------
(* The handover of jobs and results.  A worker is at rest, or it has a     *)
(* job, and then the job is at one place: in the input queue, with the     *)
(* thread, or, as a result, in the output queue.  `due' says that the tape *)
(* thread still waits for the result, `busy' that the fields of the job    *)
(* are in use, `ending' that the party is being destroyed.                 *)
AtRest(i, o, pc) == i.queue = <<>> /\ o.queue = <<>> /\ pc \in {"pop", "exited"}
JobWaits(i, o, pc) == i.queue = <<"job">> /\ o.queue = <<>> /\ pc = "pop"
JobRuns(i, o, pc) == i.queue = <<>> /\ o.queue = <<>> /\ pc = "run"
ResultComes(i, o, pc) == i.queue = <<>> /\ o.queue = <<>> /\ pc = "push"
ResultWaits(i, o, pc) == i.queue = <<>> /\ o.queue = <<"res">> /\ pc = "pop"

Place(i, o, pc, busy, due) ==
    \/ ~due /\ ~busy /\ AtRest(i, o, pc)
    \/ due /\ busy /\ (JobWaits(i, o, pc) \/ JobRuns(i, o, pc))
    \/ due /\ ~busy /\ (ResultComes(i, o, pc) \/ ResultWaits(i, o, pc))

(* A signal means that there is something, or that the queue was stopped;  *)
(* input queues are stopped at the end only, output queues never.          *)
Signals(i, o, pc, ending) ==
    /\ i \in WaitQueueOf({"job"})
    /\ o \in WaitQueueOf({"res"})
    /\ i.cond = "signalled" /\ i.running => i.queue # <<>>
    /\ o.cond = "signalled" => o.queue # <<>>
    /\ o.running
    /\ i.running \/ ending
    /\ pc = "exited" => ~i.running

Ending == main.pc \in {"stop", "join", "end"}

WorkerOK(w) ==
    /\ Place(input[w], output[w], wpc[w], jobs[w].type # "none", Outstanding(w))
    /\ Signals(input[w], output[w], wpc[w], Ending)

HandoverOK ==
    /\ input = [w \in Workers |-> input[w]]
    /\ output = [w \in Workers |-> output[w]]
    /\ wpc = [w \in Workers |-> wpc[w]]
    /\ \A w \in Workers : WorkerOK(w)

LEMMA HandoverInit == Init => HandoverOK
<1> SUFFICES ASSUME Init PROVE HandoverOK
  OBVIOUS
<1>1. NewQueue \in WaitQueueOf({"job"}) /\ NewQueue \in WaitQueueOf({"res"})
      /\ NewQueue.queue = <<>> /\ NewQueue.running = TRUE /\ NewQueue.cond = "none"
  BY DEF NewQueue, WaitQueueOf
<1>2. main.pc = "fetch"
  BY DEF Init
<1>3. ASSUME NEW w \in Workers PROVE WorkerOK(w)
  <2>1. input[w] = NewQueue /\ output[w] = NewQueue /\ wpc[w] = "pop" /\ jobs[w] = NoJob
    BY DEF Init
  <2>2. jobs[w].type = "none" /\ ~Outstanding(w)
    BY <2>1, <1>2 DEF NoJob, Outstanding
  <2> QED BY <1>1, <2>1, <2>2 DEF WorkerOK, Place, AtRest, Signals
<1> QED BY <1>3 DEF HandoverOK, Init

(* A step of the tape thread or of one worker disturbs that worker only.   *)
LEMMA OneWorker ==
    ASSUME HandoverOK, UNCHANGED conf, Ending => Ending', NEW w \in Workers,
           NEW i, NEW o, NEW p,
           input' = [input EXCEPT ![w] = i], output' = [output EXCEPT ![w] = o],
           wpc' = [wpc EXCEPT ![w] = p],
           \A v \in Workers \ {w} : jobs'[v] = jobs[v] /\ (Outstanding(v)' <=> Outstanding(v)),
           Place(i, o, p, jobs'[w].type # "none", Outstanding(w)'), Signals(i, o, p, Ending')
    PROVE  HandoverOK'
<1>1. Workers' = Workers
  BY DEF Workers
<1>2. /\ input' = [v \in Workers |-> IF v = w THEN i ELSE input[v]]
      /\ output' = [v \in Workers |-> IF v = w THEN o ELSE output[v]]
      /\ wpc' = [v \in Workers |-> IF v = w THEN p ELSE wpc[v]]
  BY DEF HandoverOK
<1>3. ASSUME NEW v \in Workers PROVE WorkerOK(v)'
  <2>1. CASE v = w
    BY <1>2, <2>1 DEF WorkerOK
  <2>2. CASE v # w
    <3>1. input'[v] = input[v] /\ output'[v] = output[v] /\ wpc'[v] = wpc[v] /\ jobs'[v] = jobs[v]
      BY <1>2, <2>2
    <3>2. Place(input'[v], output'[v], wpc'[v], jobs'[v].type # "none", Outstanding(v)')
      BY <3>1, <2>2 DEF HandoverOK, WorkerOK, Place
    <3>3. Signals(input'[v], output'[v], wpc'[v], Ending')
      BY <3>1 DEF HandoverOK, WorkerOK, Signals
    <3> QED BY <3>2, <3>3 DEF WorkerOK
  <2> QED BY <2>1, <2>2
<1> QED BY <1>1, <1>2, <1>3 DEF HandoverOK

LEMMA NoWorker ==
    ASSUME HandoverOK, UNCHANGED <<conf, jobs, input, output, wpc>>, Ending => Ending',
           \A v \in Workers : Outstanding(v)' <=> Outstanding(v)
    PROVE  HandoverOK'
<1>1. Workers' = Workers
  BY DEF Workers
<1>2. ASSUME NEW v \in Workers PROVE WorkerOK(v)'
  <2>1. Place(input'[v], output'[v], wpc'[v], jobs'[v].type # "none", Outstanding(v)')
    BY DEF HandoverOK, WorkerOK, Place
  <2>2. Signals(input'[v], output'[v], wpc'[v], Ending')
    BY DEF HandoverOK, WorkerOK, Signals
  <2> QED BY <2>1, <2>2 DEF WorkerOK
<1> QED BY <1>1, <1>2 DEF HandoverOK

(* What the operations of a queue make of it.                              *)
LEMMA Signal ==
    ASSUME NEW x, NEW q \in WaitQueueOf({x})
    PROVE  signal(q) \in WaitQueueOf({x}) /\ signal(q).queue = q.queue
           /\ signal(q).running = q.running
BY DEF WaitQueueOf, signal

LEMMA PushInto ==
    ASSUME NEW x, NEW q \in WaitQueueOf({x}), q.queue = <<>>
    PROVE  /\ push(q, x) \in WaitQueueOf({x})
           /\ push(q, x).queue = <<x>>
           /\ push(q, x).running = q.running
<1> DEFINE r == [q EXCEPT !.queue = Append(q.queue, x)]
<1>1. Append(q.queue, x) = <<x>> /\ <<x>> \in Seq({x})
  OBVIOUS
<1>2. r \in WaitQueueOf({x}) /\ r.queue = <<x>> /\ r.running = q.running
  BY <1>1 DEF WaitQueueOf
<1>3. push(q, x) = signal(r)
  BY DEF push
<1> HIDE DEF r
<1> QED BY <1>2, <1>3, Signal

LEMMA PopFrom ==
    ASSUME NEW x, NEW q \in WaitQueueOf({x}), q.queue = <<x>> \/ (q.queue = <<>> /\ ~q.running)
    PROVE  /\ pop(q) \in WaitQueueOf({x})
           /\ pop(q).queue = IF q.running THEN <<>> ELSE q.queue
           /\ pop(q).running = q.running
           /\ pop(q).cond = "none"
<1> DEFINE s == IF q.running THEN Tail(q.queue) ELSE q.queue
<1>1. Tail(<<x>>) = <<>> /\ <<>> \in Seq({x})
  OBVIOUS
<1>2. q.queue \in Seq({x})
  BY DEF WaitQueueOf
<1>3. s \in Seq({x}) /\ s = IF q.running THEN <<>> ELSE q.queue
  BY <1>1, <1>2
<1>4. pop(q) = [q EXCEPT !.cond = "none", !.queue = s]
  BY DEF pop
<1> HIDE DEF s
<1>5. /\ pop(q) \in WaitQueueOf({x}) /\ pop(q).queue = s
      /\ pop(q).running = q.running /\ pop(q).cond = "none"
  BY <1>3, <1>4 DEF WaitQueueOf
<1> QED BY <1>3, <1>5

LEMMA WaitOn ==
    ASSUME NEW x, NEW q \in WaitQueueOf({x})
    PROVE  wait(q) \in WaitQueueOf({x}) /\ wait(q).queue = q.queue
           /\ wait(q).running = q.running /\ wait(q).cond = "waiting"
BY DEF WaitQueueOf, wait

LEMMA StopIt ==
    ASSUME NEW x, NEW q \in WaitQueueOf({x})
    PROVE  stop(q) \in WaitQueueOf({x}) /\ stop(q).queue = q.queue /\ stop(q).running = FALSE
<1> DEFINE r == [q EXCEPT !.running = FALSE]
<1>1. r \in WaitQueueOf({x}) /\ r.queue = q.queue /\ r.running = FALSE
  BY DEF WaitQueueOf
<1>2. stop(q) = signal(r)
  BY DEF stop
<1> HIDE DEF r
<1> QED BY <1>1, <1>2, Signal

LEMMA NothingChanged ==
    ASSUME HandoverOK, NEW w \in Workers
    PROVE  /\ input = [input EXCEPT ![w] = input[w]]
           /\ output = [output EXCEPT ![w] = output[w]]
           /\ wpc = [wpc EXCEPT ![w] = wpc[w]]
BY DEF HandoverOK

(* Outside of sharing out and waiting nothing is due.                      *)
LEMMA NothingDue ==
    ASSUME main.pc \notin {"split", "xor", "wait"}, NEW w
    PROVE  ~Outstanding(w)
BY DEF Outstanding

(* A worker that is free takes a job.                                      *)
LEMMA Dispatched ==
    ASSUME HandoverOK, UNCHANGED <<conf, output, wpc>>, ~Ending, ~Ending',
           NEW w \in Workers, NEW job, job.type # "none",
           dispatch(w, job), jobs = [v \in Workers |-> jobs[v]],
           ~Outstanding(w), Outstanding(w)',
           \A v \in Workers \ {w} : Outstanding(v)' <=> Outstanding(v)
    PROVE  HandoverOK'
<1> DEFINE i == push(input[w], "job")
           o == output[w]
           p == wpc[w]
<1>1. jobs' = [jobs EXCEPT ![w] = job] /\ input' = [input EXCEPT ![w] = i]
  BY DEF dispatch
<1>2. jobs'[w] = job /\ \A v \in Workers \ {w} : jobs'[v] = jobs[v]
  BY <1>1
<1>3. /\ output' = [output EXCEPT ![w] = o] /\ wpc' = [wpc EXCEPT ![w] = p]
  BY NothingChanged
<1>4. /\ Place(input[w], o, p, jobs[w].type # "none", Outstanding(w))
      /\ Signals(input[w], o, p, Ending)
  BY DEF HandoverOK, WorkerOK
<1>5. AtRest(input[w], o, p) /\ p = "pop"
  BY <1>4 DEF Place, Signals, AtRest
<1>6. i \in WaitQueueOf({"job"}) /\ i.queue = <<"job">> /\ i.running = input[w].running
  BY <1>4, <1>5, PushInto DEF Signals, AtRest
<1> HIDE DEF i, o, p
<1>7. Place(i, o, p, jobs'[w].type # "none", Outstanding(w)')
  BY <1>2, <1>5, <1>6 DEF Place, JobWaits, AtRest
<1>8. Signals(i, o, p, Ending')
  <2>1. i.queue # <<>>
    BY <1>6
  <2> QED BY <1>4, <1>5, <1>6, <2>1 DEF Signals, AtRest
<1> QED BY <1>1, <1>2, <1>3, <1>7, <1>8, OneWorker

LEMMA SplitHands == SharingInv /\ HandoverOK /\ Split => HandoverOK'
<1> SUFFICES ASSUME SharingInv, HandoverOK, Split PROVE HandoverOK'
  OBVIOUS
<1>1. main.pc = "split" /\ main \in Sharing /\ main.i_thread \in Nat /\ main.waited = 0
  BY DEF Split, SharingInv, MainOK, Sharing
<1>2. PICK end \in main.start + 1 .. n_tuples(main.ins) :
         /\ dispatch(main.i_thread,
                     [type |-> "and", ins |-> main.ins, it |-> main.start, end |-> end,
                      gate |-> Len(gates.slots), buf |-> gates.buf, counter |-> counter])
         /\ main' = [main EXCEPT !.i_thread = @ + 1, !.start = end,
                      !.pc = IF end = n_tuples(main.ins) THEN "wait" ELSE "split"]
  BY DEF Split
<1>3. UNCHANGED <<conf, output, wpc>>
  BY DEF Split
<1>4. main.i_thread \in Workers
  BY SplitSharing
<1>5. /\ main'.i_thread = main.i_thread + 1 /\ main'.waited = 0
      /\ main'.pc \in {"split", "wait"}
  <2> DEFINE p == IF end = n_tuples(main.ins) THEN "wait" ELSE "split"
  <2>1. p \in {"split", "wait"}
    OBVIOUS
  <2>2. main' = [main EXCEPT !.i_thread = main.i_thread + 1, !.start = end, !.pc = p]
    BY <1>2
  <2> HIDE DEF p
  <2> QED BY <1>1, <2>1, <2>2 DEF Sharing
<1>6. \A v \in Workers : (Outstanding(v) <=> v < main.i_thread)
                         /\ (Outstanding(v)' <=> v < main.i_thread + 1) /\ v \in Int
  <2> TAKE v \in Workers
  <2>1. v \in Nat
    BY Workers_ DEF Workers, SharingInv
  <2>2. Outstanding(v) <=> v < main.i_thread
    BY <1>1 DEF Outstanding
  <2>3. CASE main'.pc = "split"
    BY <1>5, <2>1, <2>2, <2>3 DEF Outstanding
  <2>4. CASE main'.pc = "wait"
    BY <1>1, <1>5, <2>1, <2>2, <2>4 DEF Outstanding
  <2> QED BY <2>3, <2>4, <1>5
<1>7. PICK w \in Workers : w = main.i_thread
  BY <1>4
<1>8. ~Outstanding(w) /\ Outstanding(w)'
      /\ \A v \in Workers \ {w} : Outstanding(v)' <=> Outstanding(v)
  BY <1>1, <1>6, <1>7
<1>9. ~Ending /\ ~Ending'
  BY <1>1, <1>5 DEF Ending
<1>10. jobs = [v \in Workers |-> jobs[v]]
  BY DEF SharingInv, JobsOK
<1> DEFINE job == [type |-> "and", ins |-> main.ins, it |-> main.start, end |-> end,
                   gate |-> Len(gates.slots), buf |-> gates.buf, counter |-> counter]
<1>11. job.type # "none" /\ dispatch(w, job)
  BY <1>2, <1>7
<1> HIDE DEF job
<1> QED BY <1>3, <1>8, <1>9, <1>10, <1>11, Dispatched

LEMMA XorHands == SharingInv /\ HandoverOK /\ Xor_dispatch => HandoverOK'
<1> SUFFICES ASSUME SharingInv, HandoverOK, Xor_dispatch PROVE HandoverOK'
  OBVIOUS
<1> DEFINE job == [type |-> "xor", ins |-> main.ins, it |-> main.start,
                   end |-> main.start + xor_batch(main.ins), gate |-> 0, buf |-> 0, counter |-> 0]
<1>1. main.pc = "xor" /\ main \in Sharing /\ main.i_thread \in Nat
  BY DEF Xor_dispatch, SharingInv, MainOK, Sharing
<1>2. /\ dispatch(main.i_thread, job) /\ UNCHANGED <<conf, output, wpc>>
      /\ main' = [main EXCEPT !.i_thread = main.i_thread + 1,
                              !.start = main.start + xor_batch(main.ins)]
  BY DEF Xor_dispatch
<1>3. PICK w \in Workers : w = main.i_thread
  BY XorSharing
<1>4. main'.pc = "xor" /\ main'.i_thread = main.i_thread + 1
  BY <1>1, <1>2 DEF Sharing
<1>5. \A v \in Workers : /\ Outstanding(v) <=> v < main.i_thread
                         /\ Outstanding(v)' <=> v < main.i_thread + 1
                         /\ v \in Int
  BY <1>1, <1>4, Workers_ DEF Outstanding, Workers, SharingInv
<1>6. ~Outstanding(w) /\ Outstanding(w)'
      /\ \A v \in Workers \ {w} : Outstanding(v)' <=> Outstanding(v)
  BY <1>1, <1>3, <1>5
<1>7. ~Ending /\ ~Ending'
  BY <1>1, <1>4 DEF Ending
<1>8. jobs = [v \in Workers |-> jobs[v]]
  BY DEF SharingInv, JobsOK
<1>9. job.type # "none" /\ dispatch(w, job)
  BY <1>2, <1>3
<1> HIDE DEF job
<1> QED BY <1>2, <1>6, <1>7, <1>8, <1>9, Dispatched

(* The tape thread waits for one result after the other.                   *)
LEMMA WaitHands ==
    SharingInv /\ HandoverOK /\ (Wait_blocks \/ Wait_done) => HandoverOK'
<1> SUFFICES ASSUME SharingInv, HandoverOK, Wait_blocks \/ Wait_done PROVE HandoverOK'
  OBVIOUS
<1>1. /\ main.pc = "wait" /\ main \in Sharing /\ main.i_thread \in Nat /\ main.waited \in Nat
      /\ main.waited < main.i_thread /\ main.i_thread <= conf.n_workers
      /\ conf.n_workers \in Nat
  BY Workers_ DEF Wait_blocks, Wait_done, SharingInv, MainOK, Sharing
<1>2. PICK w \in Workers : w = main.waited
  BY <1>1 DEF Workers
<1>3. Outstanding(w)
  BY <1>1, <1>2 DEF Outstanding
<1>4. /\ Place(input[w], output[w], wpc[w], jobs[w].type # "none", Outstanding(w))
      /\ Signals(input[w], output[w], wpc[w], Ending)
  BY DEF HandoverOK, WorkerOK
<1>5. /\ input = [input EXCEPT ![w] = input[w]] /\ wpc = [wpc EXCEPT ![w] = wpc[w]]
  BY NothingChanged
<1>6. CASE Wait_blocks
  <2>1. /\ output' = [output EXCEPT ![w] = wait(output[w])] /\ UNCHANGED <<conf, main, jobs, input, wpc>>
    BY <1>2, <1>6 DEF Wait_blocks
  <2>2. /\ wait(output[w]) \in WaitQueueOf({"res"}) /\ wait(output[w]).queue = output[w].queue
        /\ wait(output[w]).running = output[w].running /\ wait(output[w]).cond = "waiting"
    BY <1>4, WaitOn DEF Signals
  <2>3. Ending' <=> Ending
    BY <2>1 DEF Ending
  <2>4. \A v : Outstanding(v)' <=> Outstanding(v)
    BY <2>1 DEF Outstanding
  <2>5. Place(input[w], wait(output[w]), wpc[w], jobs'[w].type # "none", Outstanding(w)')
    BY <1>4, <2>1, <2>2, <2>4
       DEF Place, AtRest, JobWaits, JobRuns, ResultComes, ResultWaits
  <2>6. Signals(input[w], wait(output[w]), wpc[w], Ending')
    BY <1>4, <2>2, <2>3 DEF Signals
  <2> QED BY <1>5, <2>1, <2>3, <2>4, <2>5, <2>6, OneWorker
<1>7. CASE Wait_done
  <2>1. /\ output' = [output EXCEPT ![w] = pop(output[w])] /\ UNCHANGED <<conf, jobs, input, wpc>>
        /\ PopGoesOn(output[w])
        /\ main' = IF main.waited + 1 = main.i_thread THEN [pc |-> "fetch"]
                   ELSE [main EXCEPT !.waited = main.waited + 1]
    BY <1>2, <1>7 DEF Wait_done
  <2>2. output[w].queue # <<>> /\ output[w].running
    BY <1>4, <2>1 DEF PopGoesOn, Signals
  <2>3. ResultWaits(input[w], output[w], wpc[w]) /\ ~(jobs[w].type # "none")
    BY <1>4, <2>2 DEF Place, AtRest, JobWaits, JobRuns, ResultComes
  <2>4. /\ pop(output[w]) \in WaitQueueOf({"res"}) /\ pop(output[w]).queue = <<>>
        /\ pop(output[w]).running = output[w].running /\ pop(output[w]).cond = "none"
    <3>1. output[w] \in WaitQueueOf({"res"}) /\ output[w].queue = <<"res">>
      BY <1>4, <2>3 DEF Signals, ResultWaits
    <3>2. /\ pop(output[w]) \in WaitQueueOf({"res"})
          /\ pop(output[w]).queue = IF output[w].running THEN <<>> ELSE output[w].queue
          /\ pop(output[w]).running = output[w].running /\ pop(output[w]).cond = "none"
      BY <3>1, PopFrom
    <3> QED BY <3>2, <2>2
  <2>5. ~Outstanding(w)' /\ ~Ending' /\ \A v \in Workers \ {w} : Outstanding(v)' <=> Outstanding(v)
    <3>1. \A v \in Workers : v \in Nat /\ (Outstanding(v) <=> v \in main.waited .. main.i_thread - 1)
      BY <1>1 DEF Outstanding, Workers
    <3>2. CASE main.waited + 1 = main.i_thread
      <4>1. main'.pc = "fetch"
        BY <2>1, <3>2
      <4> QED BY <1>1, <1>2, <3>1, <3>2, <4>1 DEF Outstanding, Ending
    <3>3. CASE main.waited + 1 # main.i_thread
      <4>1. main'.pc = "wait" /\ main'.waited = main.waited + 1 /\ main'.i_thread = main.i_thread
        BY <1>1, <2>1, <3>3 DEF Sharing
      <4>2. \A v \in Workers : Outstanding(v)' <=> v \in main.waited + 1 .. main.i_thread - 1
        BY <4>1 DEF Outstanding
      <4> QED BY <1>1, <1>2, <3>1, <4>1, <4>2 DEF Ending
    <3> QED BY <3>2, <3>3
  <2>6. ~Ending
    BY <1>1 DEF Ending
  <2>7. Place(input[w], pop(output[w]), wpc[w], jobs'[w].type # "none", Outstanding(w)')
    BY <2>1, <2>3, <2>4, <2>5 DEF Place, AtRest, ResultWaits
  <2>8. Signals(input[w], pop(output[w]), wpc[w], Ending')
    BY <1>4, <2>4, <2>5, <2>6 DEF Signals
  <2> QED BY <1>5, <2>1, <2>5, <2>6, <2>7, <2>8, OneWorker
<1> QED BY <1>6, <1>7

(* The steps of a worker.                                                  *)
LEMMA WorkerHands ==
    ASSUME SharingInv, HandoverOK, NEW w \in Workers, WorkerStep(w)
    PROVE  HandoverOK'
<1> USE DEF SharingInv
<1>1. UNCHANGED <<conf, main>>
  BY DEF WorkerStep, Worker_blocks, Worker_pops, Worker_runs, Worker_ends, Worker_pushes
<1>2. (Ending' <=> Ending) /\ \A v : Outstanding(v)' <=> Outstanding(v)
  BY <1>1 DEF Ending, Outstanding
<1>3. /\ Place(input[w], output[w], wpc[w], jobs[w].type # "none", Outstanding(w))
      /\ Signals(input[w], output[w], wpc[w], Ending)
  BY DEF HandoverOK, WorkerOK
<1>4. /\ input = [input EXCEPT ![w] = input[w]] /\ wpc = [wpc EXCEPT ![w] = wpc[w]]
      /\ output = [output EXCEPT ![w] = output[w]]
  BY NothingChanged
<1>5. Ending => ~Outstanding(w)
  BY DEF Ending, Outstanding
<1>6. CASE Worker_blocks(w)
  <2>1. /\ input' = [input EXCEPT ![w] = wait(input[w])] /\ UNCHANGED <<jobs, output, wpc>>
    BY <1>6 DEF Worker_blocks
  <2>2. /\ wait(input[w]) \in WaitQueueOf({"job"}) /\ wait(input[w]).queue = input[w].queue
        /\ wait(input[w]).running = input[w].running /\ wait(input[w]).cond = "waiting"
    BY <1>3, WaitOn DEF Signals
  <2>3. Place(wait(input[w]), output[w], wpc[w], jobs'[w].type # "none", Outstanding(w)')
    BY <1>2, <1>3, <2>1, <2>2
       DEF Place, AtRest, JobWaits, JobRuns, ResultComes, ResultWaits
  <2>4. Signals(wait(input[w]), output[w], wpc[w], Ending')
    BY <1>2, <1>3, <2>2 DEF Signals
  <2> QED BY <1>1, <1>2, <1>4, <2>1, <2>3, <2>4, OneWorker
<1>7. CASE Worker_pops(w)
  <2> DEFINE p == IF input[w].running THEN "run" ELSE "exited"
             i == pop(input[w])
  <2>1. /\ input' = [input EXCEPT ![w] = i] /\ wpc' = [wpc EXCEPT ![w] = p]
        /\ UNCHANGED <<jobs, output>> /\ wpc[w] = "pop" /\ PopGoesOn(input[w])
    BY <1>7 DEF Worker_pops
  <2>2. input[w] \in WaitQueueOf({"job"})
    BY <1>3 DEF Signals
  <2>3. CASE input[w].running
    <3>1. input[w].queue # <<>>
      BY <1>3, <2>1, <2>3 DEF PopGoesOn, Signals
    <3>2. JobWaits(input[w], output[w], wpc[w]) /\ jobs[w].type # "none" /\ Outstanding(w)
      BY <1>3, <3>1 DEF Place, AtRest, JobRuns, ResultComes, ResultWaits
    <3>3. /\ i \in WaitQueueOf({"job"}) /\ i.queue = IF input[w].running THEN <<>> ELSE input[w].queue
          /\ i.running = input[w].running /\ i.cond = "none"
      BY <2>2, <3>2, PopFrom DEF JobWaits
    <3>4. p = "run" /\ i.queue = <<>> /\ output[w].queue = <<>>
      BY <2>3, <3>2, <3>3 DEF JobWaits
    <3> HIDE DEF p, i
    <3>5. Place(i, output[w], p, jobs'[w].type # "none", Outstanding(w)')
      BY <1>2, <2>1, <3>2, <3>4 DEF Place, JobRuns
    <3>6. Signals(i, output[w], p, Ending')
      BY <1>2, <1>3, <3>3, <3>4 DEF Signals
    <3> QED BY <1>1, <1>2, <1>4, <2>1, <3>5, <3>6, OneWorker
  <2>4. CASE ~input[w].running
    <3>1. Ending
      BY <1>3, <2>4 DEF Signals
    <3>2. AtRest(input[w], output[w], wpc[w]) /\ ~(jobs[w].type # "none") /\ ~Outstanding(w)
      BY <1>3, <1>5, <3>1 DEF Place
    <3>3. /\ i \in WaitQueueOf({"job"}) /\ i.queue = IF input[w].running THEN <<>> ELSE input[w].queue
          /\ i.running = input[w].running /\ i.cond = "none"
      BY <2>2, <2>4, <3>2, PopFrom DEF AtRest
    <3>4. p = "exited" /\ i.queue = <<>> /\ output[w].queue = <<>>
      BY <2>4, <3>2, <3>3 DEF AtRest
    <3> HIDE DEF p, i
    <3>5. Place(i, output[w], p, jobs'[w].type # "none", Outstanding(w)')
      BY <1>2, <2>1, <3>2, <3>4 DEF Place, AtRest
    <3>6. Signals(i, output[w], p, Ending')
      BY <1>2, <1>3, <2>4, <3>1, <3>3, <3>4 DEF Signals
    <3> QED BY <1>1, <1>2, <1>4, <2>1, <3>5, <3>6, OneWorker
  <2> QED BY <2>3, <2>4
<1>8. CASE Worker_runs(w)
  <2>1. UNCHANGED <<input, output, wpc>> /\ wpc[w] = "run" /\ jobs[w].type # "none"
    BY <1>8 DEF Worker_runs
  <2>2. jobs'[w].type = jobs[w].type /\ \A v \in Workers \ {w} : jobs'[v] = jobs[v]
    <3>1. /\ DOMAIN jobs = Workers
          /\ jobs[w] = [x \in JobFields |-> jobs[w][x]]
      BY <2>1 DEF JobsOK, JobOK, NoJob
    <3>2. CASE jobs[w].type = "and"
      <4> DEFINE n == jobs[w].ins.upto[jobs[w].it + 1] - bits_before(jobs[w].ins, jobs[w].it)
                 g == jobs[w].gate + n
                 c == jobs[w].counter + n
      <4>1. jobs' = [jobs EXCEPT ![w].it = jobs[w].it + 1, ![w].gate = g, ![w].counter = c]
        BY <1>8, <3>2 DEF Worker_runs
      <4> HIDE DEF g, c
      <4>2. jobs'[w] = [jobs[w] EXCEPT !.it = jobs[w].it + 1, !.gate = g, !.counter = c]
            /\ \A v \in Workers \ {w} : jobs'[v] = jobs[v]
        BY <4>1, <3>1
      <4> QED BY <3>1, <4>2 DEF JobFields
    <3>3. CASE jobs[w].type # "and"
      <4>1. jobs' = [jobs EXCEPT ![w].it = jobs[w].it + 1]
        BY <1>8, <3>3 DEF Worker_runs
      <4>2. jobs'[w] = [jobs[w] EXCEPT !.it = jobs[w].it + 1]
            /\ \A v \in Workers \ {w} : jobs'[v] = jobs[v]
        BY <4>1, <3>1
      <4> QED BY <3>1, <4>2 DEF JobFields
    <3> QED BY <3>2, <3>3
  <2>3. Place(input[w], output[w], wpc[w], jobs'[w].type # "none", Outstanding(w)')
    BY <1>2, <1>3, <2>2 DEF Place
  <2>4. Signals(input[w], output[w], wpc[w], Ending')
    BY <1>2, <1>3 DEF Signals
  <2> QED BY <1>1, <1>2, <1>4, <2>1, <2>2, <2>3, <2>4, OneWorker
<1>9. CASE Worker_ends(w)
  <2>1. /\ jobs' = [jobs EXCEPT ![w] = NoJob] /\ wpc' = [wpc EXCEPT ![w] = "push"]
        /\ UNCHANGED <<input, output>> /\ wpc[w] = "run"
    BY <1>9 DEF Worker_ends
  <2>2. jobs'[w].type = "none" /\ \A v \in Workers \ {w} : jobs'[v] = jobs[v]
    BY <2>1 DEF JobsOK, NoJob
  <2>3. JobRuns(input[w], output[w], wpc[w]) /\ Outstanding(w)
    BY <1>3, <2>1 DEF Place, AtRest, JobWaits, ResultComes, ResultWaits
  <2>4. Place(input[w], output[w], "push", jobs'[w].type # "none", Outstanding(w)')
    BY <1>2, <2>2, <2>3 DEF Place, JobRuns, ResultComes
  <2>5. Signals(input[w], output[w], "push", Ending')
    BY <1>2, <1>3 DEF Signals
  <2> QED BY <1>1, <1>2, <1>4, <2>1, <2>2, <2>4, <2>5, OneWorker
<1>10. CASE Worker_pushes(w)
  <2> DEFINE o == push(output[w], "res")
  <2>1. /\ output' = [output EXCEPT ![w] = o] /\ wpc' = [wpc EXCEPT ![w] = "pop"]
        /\ UNCHANGED <<input, jobs>> /\ wpc[w] = "push"
    BY <1>10 DEF Worker_pushes
  <2>2. ResultComes(input[w], output[w], wpc[w]) /\ Outstanding(w) /\ ~(jobs[w].type # "none")
    BY <1>3, <2>1 DEF Place, AtRest, JobWaits, JobRuns, ResultWaits
  <2>3. /\ o \in WaitQueueOf({"res"}) /\ o.queue = <<"res">> /\ o.running = output[w].running
    BY <1>3, <2>2, PushInto DEF Signals, ResultComes
  <2>4. o.queue # <<>>
    <3>1. <<"res">> # <<>>
      OBVIOUS
    <3> HIDE DEF o
    <3> QED BY <2>3, <3>1
  <2> HIDE DEF o
  <2>5. Place(input[w], o, "pop", jobs'[w].type # "none", Outstanding(w)')
    BY <1>2, <2>1, <2>2, <2>3 DEF Place, ResultComes, ResultWaits
  <2>6. Signals(input[w], o, "pop", Ending')
    BY <1>2, <1>3, <2>3, <2>4 DEF Signals
  <2> QED BY <1>1, <1>2, <1>4, <2>1, <2>5, <2>6, OneWorker
<1> QED BY <1>6, <1>7, <1>8, <1>9, <1>10 DEF WorkerStep

LEMMA HandoverNext == SharingInv /\ HandoverOK /\ [Next]_vars => HandoverOK'
<1> SUFFICES ASSUME SharingInv, HandoverOK, [Next]_vars PROVE HandoverOK'
  OBVIOUS
<1>1. ASSUME NEW ins \in Instructions, Execute(ins) PROVE HandoverOK'
  <2>1. main.pc = "fetch" /\ UNCHANGED <<conf, jobs, input, output, wpc>>
    BY <1>1 DEF Execute, And_few, And_singlethread, And_multithread, Xor_few, Xor_multithread,
               Fetch
  <2>2. main' = main \/ (main'.pc \in {"split", "xor"} /\ main'.i_thread = 0)
    <3>1. \/ main' = main
          \/ main' = [pc |-> "split", ins |-> ins, i_thread |-> 0, start |-> 0, waited |-> 0]
          \/ main' = [pc |-> "xor", ins |-> ins, i_thread |-> 0, start |-> 0, waited |-> 0]
      BY <1>1, Zenon DEF Execute, And_few, And_singlethread, And_multithread, Xor_few, Xor_multithread
    <3> QED BY <3>1
  <2>3. \A v \in Workers : Outstanding(v)' <=> Outstanding(v)
    BY <2>1, <2>2, Workers_ DEF Outstanding, Workers, SharingInv
  <2>4. ~Ending
    BY <2>1 DEF Ending
  <2> QED BY <2>1, <2>3, <2>4, NoWorker
<1>2. CASE NextBatch
  <2>1. UNCHANGED <<conf, main, jobs, input, output, wpc>>
    BY <1>2 DEF NextBatch
  <2> QED BY <2>1, NoWorker DEF Outstanding, Ending
<1>3. CASE Destroy
  <2>1. main.pc = "fetch" /\ main'.pc = "stop" /\ UNCHANGED <<conf, jobs, input, output, wpc>>
    BY <1>3 DEF Destroy
  <2> QED BY <2>1, NoWorker DEF Outstanding, Ending
<1>4. CASE Split
  BY <1>4, SplitHands
<1>5. CASE Xor_dispatch
  BY <1>5, XorHands
<1>6. CASE Xor_rest
  <2>1. /\ main.pc = "xor" /\ main.i_thread = conf.n_workers
        /\ UNCHANGED <<conf, jobs, input, output, wpc>>
        /\ main' = [main EXCEPT !.pc = "wait"]
    BY <1>6 DEF Xor_rest
  <2>2. main \in Sharing /\ main.waited = 0
    BY <2>1 DEF SharingInv, MainOK
  <2>3. main'.pc = "wait" /\ main'.waited = 0 /\ main'.i_thread = conf.n_workers
    BY <2>1, <2>2 DEF Sharing
  <2>4. \A v \in Workers : Outstanding(v)' <=> Outstanding(v)
    BY <2>1, <2>3, Workers_ DEF Outstanding, Workers, SharingInv
  <2>5. ~Ending
    BY <2>1 DEF Ending
  <2> QED BY <2>1, <2>4, <2>5, NoWorker
<1>7. CASE Wait_blocks \/ Wait_done
  BY <1>7, WaitHands
<1>8. CASE Stop_worker
  <2>1. /\ main.pc = "stop" /\ main'.pc = "join" /\ UNCHANGED <<conf, jobs, output, wpc>>
        /\ input' = [input EXCEPT ![main.worker] = stop(input[main.worker])]
    <3>1. main \in [pc : {"stop", "join"}, worker : Nat]
      BY <1>8 DEF Stop_worker, SharingInv, MainOK, Sharing
    <3> QED BY <1>8, <3>1 DEF Stop_worker
  <2>2. Ending /\ Ending' /\ \A v \in Workers : ~Outstanding(v) /\ ~Outstanding(v)'
    BY <2>1 DEF Ending, Outstanding
  <2>3. CASE main.worker \notin Workers
    <3>1. input' = input
      BY <2>1, <2>3 DEF HandoverOK
    <3> QED BY <2>1, <2>2, <3>1, NoWorker
  <2>4. CASE main.worker \in Workers
    <3>1. PICK w \in Workers : w = main.worker
      BY <2>4
    <3>2. /\ Place(input[w], output[w], wpc[w], jobs[w].type # "none", Outstanding(w))
          /\ Signals(input[w], output[w], wpc[w], Ending)
      BY DEF HandoverOK, WorkerOK
    <3> DEFINE i == stop(input[w])
    <3>3. i \in WaitQueueOf({"job"}) /\ i.queue = input[w].queue /\ i.running = FALSE
      BY <3>2, StopIt DEF Signals
    <3>4. /\ input' = [input EXCEPT ![w] = i] /\ output = [output EXCEPT ![w] = output[w]]
          /\ wpc = [wpc EXCEPT ![w] = wpc[w]]
      BY <2>1, <3>1, NothingChanged
    <3> HIDE DEF i
    <3>5. Place(i, output[w], wpc[w], jobs'[w].type # "none", Outstanding(w)')
      BY <2>1, <2>2, <3>2, <3>3 DEF Place, AtRest
    <3>6. Signals(i, output[w], wpc[w], Ending')
      BY <2>2, <3>2, <3>3 DEF Signals
    <3> QED BY <2>1, <2>2, <3>4, <3>5, <3>6, OneWorker
  <2> QED BY <2>3, <2>4
<1>9. CASE Join_worker
  <2>1. main.pc = "join" /\ main'.pc \in {"stop", "end"} /\ UNCHANGED <<conf, jobs, input, output, wpc>>
    BY <1>9 DEF Join_worker
  <2> QED BY <2>1, NoWorker DEF Outstanding, Ending
<1>10. ASSUME NEW w \in Workers, WorkerStep(w) PROVE HandoverOK'
  BY <1>10, WorkerHands
<1>11. CASE UNCHANGED vars
  <2>1. UNCHANGED <<conf, main, jobs, input, output, wpc>>
    BY <1>11 DEF vars
  <2> QED BY <2>1, NoWorker DEF Outstanding, Ending
<1> QED
  BY <1>1, <1>2, <1>3, <1>4, <1>5, <1>6, <1>7, <1>8, <1>9, <1>10, <1>11 DEF Next, MainGoesOn

(* A worker has at most one job from dispatch() until wait() took its      *)
(* result: the fields of a YaoAndJob are never overwritten in use, and a   *)
(* pop() that was signalled, and does not look again, finds something.     *)
THEOREM JobsOneAtATime == Spec => []OneJobEach
<1>1. HandoverOK => OneJobEach
  <2> SUFFICES ASSUME HandoverOK, NEW w \in Workers
               PROVE  /\ InFlight(w) = IF Outstanding(w) THEN 1 ELSE 0
                      /\ (jobs[w].type # "none") <=> (input[w].queue # <<>> \/ wpc[w] = "run")
                      /\ input[w].cond = "signalled" /\ input[w].running => input[w].queue # <<>>
                      /\ output[w].cond = "signalled" => output[w].queue # <<>>
    BY DEF OneJobEach
  <2>1. /\ Place(input[w], output[w], wpc[w], jobs[w].type # "none", Outstanding(w))
        /\ Signals(input[w], output[w], wpc[w], Ending)
    BY DEF HandoverOK, WorkerOK
  <2>2. Len(<<>>) = 0 /\ Len(<<"job">>) = 1 /\ Len(<<"res">>) = 1
        /\ <<"job">> # <<>> /\ <<"res">> # <<>>
    OBVIOUS
  <2>3. InFlight(w) = IF Outstanding(w) THEN 1 ELSE 0
    <3>1. CASE ~Outstanding(w)
      <4>1. AtRest(input[w], output[w], wpc[w])
        BY <2>1, <3>1 DEF Place
      <4>2. Len(input[w].queue) = 0 /\ Len(output[w].queue) = 0 /\ wpc[w] \notin {"run", "push"}
        BY <4>1, <2>2 DEF AtRest
      <4> QED BY <3>1, <4>2 DEF InFlight
    <3>2. CASE Outstanding(w)
      <4>1. JobWaits(input[w], output[w], wpc[w]) \/ JobRuns(input[w], output[w], wpc[w])
            \/ ResultComes(input[w], output[w], wpc[w]) \/ ResultWaits(input[w], output[w], wpc[w])
        BY <2>1, <3>2 DEF Place
      <4>2. \/ Len(input[w].queue) = 1 /\ Len(output[w].queue) = 0 /\ wpc[w] = "pop"
            \/ Len(input[w].queue) = 0 /\ Len(output[w].queue) = 0 /\ wpc[w] \in {"run", "push"}
            \/ Len(input[w].queue) = 0 /\ Len(output[w].queue) = 1 /\ wpc[w] = "pop"
        BY <4>1, <2>2 DEF JobWaits, JobRuns, ResultComes, ResultWaits
      <4>3. InFlight(w) = 1
        <5> DEFINE a == Len(input[w].queue)
                   b == Len(output[w].queue)
                   c == IF wpc[w] \in {"run", "push"} THEN 1 ELSE 0
        <5>1. (a = 1 /\ b = 0 /\ c = 0) \/ (a = 0 /\ b = 0 /\ c = 1) \/ (a = 0 /\ b = 1 /\ c = 0)
          BY <4>2
        <5>2. InFlight(w) = a + b + c
          BY DEF InFlight
        <5> HIDE DEF a, b, c
        <5> QED BY <5>1, <5>2
      <4> QED BY <3>2, <4>3
    <3> QED BY <3>1, <3>2
  <2>4. (jobs[w].type # "none") <=> (input[w].queue # <<>> \/ wpc[w] = "run")
    BY <2>1, <2>2 DEF Place, AtRest, JobWaits, JobRuns, ResultComes, ResultWaits
  <2> QED BY <2>1, <2>3, <2>4 DEF Signals
<1> QED BY <1>1, SharingInit, SharingNext, HandoverInit, HandoverNext, PTL DEF Spec
-----------------------------------------------------------------------------
(* What comes out of the sharing.  The garbler's loops read another wire   *)
(* than processor.and_ for an ANDRS on a vector longer than a register     *)
(* (SingleOperand), so for it the gates are the right ones where there is  *)
(* no such instruction, or only ones so short that the loops are not used. *)
width(ins, i) == ins.upto[i] - bits_before(ins, i - 1)
Gates_of(ins, i) == bits_before(ins, i - 1) + 1 .. ins.upto[i]

NarrowAndrs ==
    \A ins \in Instructions : ins.op = "and" /\ ins.repeat =>
        \/ \A i \in 1 .. n_tuples(ins) : width(ins, i) <= DefaultLength
        \/ check_args(ins) < FewGates /\ \A t \in Thresholds : check_args(ins) < t

RoleOK ==
    /\ conf.role \in {"garbler", "evaluator"}
    /\ conf.role = "garbler" => conf.threshold \in Thresholds

LoopsAgree == conf.role = "evaluator" \/ NarrowAndrs

Busy(w) == jobs[w].type # "none"
InSharing == main.pc \in {"split", "xor", "wait"}

(* Every tuple before `start' was executed or is still in a job, the jobs  *)
(* are on different tuples, in the order of their workers.                 *)
RanOK ==
    /\ main.pc = "fetch" => \A i \in DOMAIN ran : ran[i] = 1
    /\ main.pc = "split" => main.ins.op = "and"
    /\ main.pc = "xor" => main.ins.op = "xor"
    /\ InSharing /\ main.ins.op = "and" => check_args(main.ins) >= conf.threshold
    /\ InSharing =>
         /\ ran \in [1 .. n_tuples(main.ins) -> {0, 1}]
         /\ main.start <= n_tuples(main.ins)
         /\ main.pc = "wait" /\ main.ins.op = "and" => main.start = n_tuples(main.ins)
         /\ \A i \in main.start + 1 .. n_tuples(main.ins) : ran[i] = IF main.pc = "wait" THEN 1 ELSE 0
         /\ \A i \in 1 .. main.start :
               ran[i] = 1 \/ \E w \in Workers : Busy(w) /\ i \in jobs[w].it + 1 .. jobs[w].end
         /\ \A w \in Workers : Busy(w) =>
               /\ jobs[w].ins = main.ins
               /\ jobs[w].type = main.ins.op
               /\ jobs[w].end <= main.start
               /\ \A i \in jobs[w].it + 1 .. jobs[w].end : ran[i] = 0
         /\ \A v, w \in Workers : Busy(v) /\ Busy(w) /\ v < w => jobs[v].end <= jobs[w].it

(* The slots of the instruction follow the `Before' ones of the batch, its *)
(* gate ids follow FirstId.  A worker has the slots and the ids of the     *)
(* tuples it has not come to, in the buffer that is still in use.          *)
Gate == [id : Nat, out : Nat \X Nat, left : Nat \X Nat, right : Nat \X Nat] \union {Empty}
AndGates(ins, gate_id) == AllTuples(op, ins, gate_id)
Before == Len(asked) - check_args(main.ins)
FirstId == counter - bits_before(main.ins, main.start)

Written(i) ==
    \A h \in Gates_of(main.ins, i) :
       gates.slots[Before + h] = asked[Before + h]

SlotsOK ==
    /\ Before \in Nat
    /\ FirstId \in Nat
    /\ Len(gates.slots) = Before + bits_before(main.ins, main.start)
    /\ \A g \in 1 .. Before : gates.slots[g] = asked[g]
    /\ \A h \in 1 .. check_args(main.ins) :
          asked[Before + h] = AndGates(main.ins, FirstId)[h]
    /\ \A i \in 1 .. main.start : ran[i] = 1 => Written(i)
    /\ \A w \in Workers : Busy(w) =>
          /\ jobs[w].buf = gates.buf
          /\ jobs[w].gate = Before + bits_before(main.ins, jobs[w].it)
          /\ jobs[w].counter = FirstId + bits_before(main.ins, jobs[w].it)

GatesOK ==
    /\ counter \in Nat
    /\ gates \in [slots : Seq(Gate), buf : Nat]
    /\ asked \in Seq(Gate)
    /\ main.pc = "fetch" \/ (InSharing /\ main.ins.op = "xor") => gates.slots = asked
    /\ InSharing /\ main.ins.op = "and" => SlotsOK

(* Tuples and the gates in them.                                           *)
LEMMA SmallestExists ==
    ASSUME NEW S, S \subseteq Nat, S # {}
    PROVE  Min(S) \in S /\ \A y \in S : Min(S) <= y
<1> DEFINE R == OpToRel(<, Nat)
<1>1. IsWellFoundedOn(R, Nat)
  BY NatLessThanWellFounded
<1> HIDE DEF R
<1>2. PICK x \in S : \A y \in S : ~(<<y, x>> \in R)
  BY <1>1, WFMin
<1>3. \A y \in Nat : <<y, x>> \in R <=> y < x
  BY <1>2 DEF R, OpToRel
<1>4. \A y \in S : y \in Nat /\ ~(y < x) /\ x \in Nat
  BY <1>2, <1>3
<1>5. \A y \in S : x <= y
  BY <1>4
<1> QED BY <1>5 DEF Min

LEMMA TupleSums ==
    ASSUME NEW ins \in Instructions, NEW i \in 1 .. n_tuples(ins)
    PROVE  /\ i - 1 \in 0 .. n_tuples(ins) - 1
           /\ bits_before(ins, i - 1) \in Nat /\ ins.upto[i] \in Nat
           /\ bits_before(ins, i) = ins.upto[i]
           /\ bits_before(ins, i - 1) < ins.upto[i]
           /\ ins.upto[i] <= check_args(ins)
           /\ \A t \in 1 .. i - 1 : ins.upto[t] <= bits_before(ins, i - 1)
           /\ width(ins, i) \in Nat
<1>1. /\ n_tuples(ins) \in Nat \ {0} /\ \A t \in 1 .. n_tuples(ins) : ins.upto[t] \in Nat \ {0}
      /\ \A t \in 0 .. n_tuples(ins) : bits_before(ins, t) \in Nat
      /\ \A t \in 0 .. n_tuples(ins) - 1 : bits_before(ins, t) < check_args(ins)
      /\ check_args(ins) \in Nat
  BY Sums
<1>2. \A s, t \in 1 .. n_tuples(ins) : s < t => ins.upto[s] < ins.upto[t]
  BY InstructionsOK DEF IsInstruction, n_tuples
<1>3. i \in Nat /\ i # 0 /\ i - 1 \in 0 .. n_tuples(ins) - 1 /\ i - 1 \in 0 .. n_tuples(ins)
  BY <1>1
<1>4. bits_before(ins, i - 1) \in Nat /\ ins.upto[i] \in Nat /\ bits_before(ins, i) = ins.upto[i]
  BY <1>1, <1>3 DEF bits_before
<1>5. CASE i = 1
  <2>1. bits_before(ins, i - 1) = 0
    BY <1>5 DEF bits_before
  <2>2. bits_before(ins, i - 1) < ins.upto[i] /\ \A t \in 1 .. i - 1 : FALSE
    BY <1>1, <1>5, <2>1
  <2>3. ins.upto[i] <= check_args(ins)
    <3>1. CASE i = n_tuples(ins)
      BY <3>1, <1>1, <1>4 DEF check_args
    <3>2. CASE i # n_tuples(ins)
      <4>1. i \in 0 .. n_tuples(ins) - 1
        BY <3>2, <1>1
      <4> QED BY <4>1, <1>1, <1>4
    <3> QED BY <3>1, <3>2
  <2> QED BY <1>3, <1>4, <2>2, <2>3 DEF width
<1>6. CASE i # 1
  <2>1. i - 1 \in 1 .. n_tuples(ins) /\ i - 1 # 0
    BY <1>1, <1>6
  <2>2. bits_before(ins, i - 1) = ins.upto[i - 1]
    BY <2>1 DEF bits_before
  <2>3. bits_before(ins, i - 1) < ins.upto[i]
    BY <1>2, <2>1, <2>2
  <2>4. ASSUME NEW t \in 1 .. i - 1 PROVE ins.upto[t] <= bits_before(ins, i - 1)
    <3>1. t \in 1 .. n_tuples(ins) /\ t \in Nat /\ t <= i - 1
      BY <1>1, <1>3
    <3>2. CASE t = i - 1
      BY <3>2, <2>1, <2>2, <1>1
    <3>3. CASE t < i - 1
      BY <3>1, <3>3, <2>1, <2>2, <1>1, <1>2
    <3> QED BY <3>1, <3>2, <3>3, <1>3
  <2>5. ins.upto[i] <= check_args(ins)
    <3>1. CASE i = n_tuples(ins)
      BY <3>1, <1>1, <1>4 DEF check_args
    <3>2. CASE i # n_tuples(ins)
      <4>1. i \in 0 .. n_tuples(ins) - 1
        BY <3>2, <1>1
      <4> QED BY <4>1, <1>1, <1>4
    <3> QED BY <3>1, <3>2
  <2> QED BY <1>3, <1>4, <2>3, <2>4, <2>5 DEF width
<1> QED BY <1>5, <1>6

(* The h-th gate of an instruction is in the tuple that AllTuples says.    *)
LEMMA TupleIsMin ==
    ASSUME NEW ins \in Instructions, NEW i \in 1 .. n_tuples(ins), NEW h \in Gates_of(ins, i)
    PROVE  /\ h \in 1 .. check_args(ins)
           /\ Min({t \in 1 .. n_tuples(ins) : h <= ins.upto[t]}) = i
           /\ h - bits_before(ins, i - 1) \in 1 .. width(ins, i)
<1> DEFINE S == {t \in 1 .. n_tuples(ins) : h <= ins.upto[t]}
<1>1. /\ bits_before(ins, i - 1) \in Nat /\ ins.upto[i] \in Nat /\ ins.upto[i] <= check_args(ins)
      /\ \A t \in 1 .. i - 1 : ins.upto[t] <= bits_before(ins, i - 1)
  BY TupleSums
<1>2. check_args(ins) \in Nat /\ n_tuples(ins) \in Nat /\ \A t \in 1 .. n_tuples(ins) : ins.upto[t] \in Nat
  BY Sums
<1>3. h \in Nat /\ bits_before(ins, i - 1) < h /\ h <= ins.upto[i]
  BY <1>1 DEF Gates_of
<1>4. i \in S
  BY <1>3
<1>5. \A t \in S : i <= t
  <2> SUFFICES ASSUME NEW t \in S, ~(i <= t) PROVE FALSE
    OBVIOUS
  <2>1. t \in 1 .. n_tuples(ins) /\ h <= ins.upto[t]
    OBVIOUS
  <2>2. t \in 1 .. i - 1
    BY <2>1, <1>2
  <2> QED BY <2>1, <2>2, <1>1, <1>2, <1>3
<1>6. S \subseteq Nat /\ i \in Nat
  BY <1>2
<1> HIDE DEF S
<1>7. Min(S) \in S /\ \A y \in S : Min(S) <= y
  BY <1>4, <1>6, SmallestExists
<1>8. Min(S) = i
  <2>1. Min(S) <= i /\ i <= Min(S) /\ Min(S) \in Nat
    BY <1>4, <1>5, <1>6, <1>7
  <2> QED BY <2>1, <1>6
<1>9. h \in 1 .. check_args(ins)
  BY <1>1, <1>2, <1>3
<1>10. h - bits_before(ins, i - 1) \in 1 .. width(ins, i)
  BY <1>1, <1>3 DEF width
<1> QED BY <1>8, <1>9, <1>10 DEF S

LEMMA InATuple ==
    ASSUME NEW ins \in Instructions, NEW h \in 1 .. check_args(ins)
    PROVE  \E i \in 1 .. n_tuples(ins) : h \in Gates_of(ins, i)
<1> DEFINE S == {t \in 1 .. n_tuples(ins) : h <= ins.upto[t]}
<1>1. n_tuples(ins) \in Nat \ {0} /\ check_args(ins) = ins.upto[n_tuples(ins)] /\ check_args(ins) \in Nat
  BY Sums DEF check_args
<1>2. n_tuples(ins) \in S /\ S \subseteq Nat
  BY <1>1
<1> DEFINE i == Min(S)
<1>3. i \in S /\ \A y \in S : i <= y
  BY <1>2, SmallestExists
<1>4. i \in 1 .. n_tuples(ins) /\ h <= ins.upto[i]
  BY <1>3
<1> HIDE DEF i
<1>5. bits_before(ins, i - 1) \in Nat /\ ins.upto[i] \in Nat /\ i \in Nat
  BY <1>1, <1>4, TupleSums
<1>6. bits_before(ins, i - 1) < h
  <2>1. CASE i = 1
    BY <2>1, <1>1 DEF bits_before
  <2>2. CASE i # 1
    <3>1. i - 1 \in 1 .. n_tuples(ins) /\ i - 1 # 0 /\ ~(i <= i - 1)
      BY <1>1, <1>4, <1>5, <2>2
    <3>2. i - 1 \notin S
      BY <1>3, <3>1
    <3>3. ~(h <= ins.upto[i - 1])
      BY <3>1, <3>2
    <3>4. bits_before(ins, i - 1) = ins.upto[i - 1] /\ h \in Nat
      BY <3>1, <1>1 DEF bits_before
    <3> QED BY <3>3, <3>4, <1>5
  <2> QED BY <2>1, <2>2
<1>7. h \in Gates_of(ins, i)
  BY <1>1, <1>4, <1>5, <1>6 DEF Gates_of
<1> QED BY <1>4, <1>7

LEMMA Bits ==
    ASSUME NEW p \in Nat
    PROVE  /\ p \div DefaultLength \in Nat /\ p % DefaultLength \in Nat
           /\ p < DefaultLength => p \div DefaultLength = 0
<1>1. DefaultLength \in Nat /\ DefaultLength > 0
  BY BoundsOK
<1> QED BY <1>1

LEMMA Registers ==
    ASSUME NEW ins \in Instructions, NEW i \in 1 .. n_tuples(ins)
    PROVE  ins.out[i] \in Nat /\ ins.left[i] \in Nat /\ ins.right[i] \in Nat
BY InstructionsOK DEF IsInstruction, n_tuples

LEMMA GateType ==
    ASSUME NEW ins \in Instructions, NEW i \in 1 .. n_tuples(ins), NEW p \in Nat, NEW n \in Nat
    PROVE  op(ins, i, p, n) \in Gate
<1>1. p \div DefaultLength \in Nat /\ p % DefaultLength \in Nat
  BY Bits
<1>2. ins.out[i] \in Nat /\ ins.left[i] \in Nat /\ ins.right[i] \in Nat
  BY Registers
<1> DEFINE j == p \div DefaultLength
           k == p % DefaultLength
           r == IF ins.repeat THEN <<ins.right[i], 0>> ELSE <<ins.right[i] + j, k>>
<1>3. op(ins, i, p, n) = [id |-> n, out |-> <<ins.out[i] + j, k>>, left |-> <<ins.left[i] + j, k>>,
                          right |-> r]
  BY DEF op
<1>4. <<ins.out[i] + j, k>> \in Nat \X Nat /\ <<ins.left[i] + j, k>> \in Nat \X Nat /\ r \in Nat \X Nat
  BY <1>1, <1>2
<1> HIDE DEF j, k, r
<1> QED BY <1>3, <1>4 DEF Gate

(* The three ways to make a gate.                                          *)
LEMMA EvalIsOp ==
    ASSUME NEW ins \in Instructions, NEW i \in 1 .. n_tuples(ins), NEW p \in Nat, NEW n
    PROVE  eval(ins, i, p, n) = op(ins, i, p, n)
<1>1. ins.right[i] \in Nat /\ ins.right[i] + 0 = ins.right[i]
  BY Registers
<1>2. CASE ins.repeat
  BY <1>1, <1>2 DEF eval, op
<1>3. CASE ~ins.repeat
  BY <1>3 DEF eval, op
<1> QED BY <1>2, <1>3

LEMMA GarbleIsOp ==
    ASSUME NEW ins \in Instructions, NEW i \in 1 .. n_tuples(ins), NEW p \in Nat, NEW n,
           ins.repeat => p < DefaultLength
    PROVE  garble(ins, i, p, n) = op(ins, i, p, n)
<1>1. ins.right[i] \in Nat /\ ins.right[i] + 0 = ins.right[i]
  BY Registers
<1>2. CASE ins.repeat
  <2>1. p \div DefaultLength = 0
    BY <1>2, Bits
  <2> QED BY <1>1, <1>2, <2>1 DEF garble, op
<1>3. CASE ~ins.repeat
  BY <1>3 DEF garble, op
<1> QED BY <1>2, <1>3

(* A function on 1 .. n is a sequence.                                     *)
LEMMA SeqOfFunction ==
    ASSUME NEW n \in Nat, NEW S, NEW f \in [1 .. n -> S]
    PROVE  f \in Seq(S) /\ Len(f) = n
<1>1. f \in Seq(S)
  BY SeqDef
<1>2. Len(f) \in Nat /\ DOMAIN f = 1 .. Len(f)
  BY <1>1, LenProperties
<1> QED BY <1>1, <1>2

LEMMA AllTuplesOp ==
    ASSUME NEW ins \in Instructions, NEW c \in Nat
    PROVE  /\ AllTuples(op, ins, c) \in Seq(Gate)
           /\ Len(AllTuples(op, ins, c)) = check_args(ins)
           /\ \A i \in 1 .. n_tuples(ins) : \A h \in Gates_of(ins, i) :
                 AllTuples(op, ins, c)[h] = op(ins, i, h - bits_before(ins, i - 1) - 1, c + h)
<1> DEFINE A == AllTuples(op, ins, c)
<1>1. check_args(ins) \in Nat /\ n_tuples(ins) \in Nat
  BY Sums
<1>2. DOMAIN A = 1 .. check_args(ins) /\ A = [h \in 1 .. check_args(ins) |-> A[h]]
  BY DEF AllTuples
<1>3. ASSUME NEW i \in 1 .. n_tuples(ins), NEW h \in Gates_of(ins, i)
      PROVE  A[h] = op(ins, i, h - bits_before(ins, i - 1) - 1, c + h) /\ A[h] \in Gate
  <2>1. /\ h \in 1 .. check_args(ins)
        /\ Min({t \in 1 .. n_tuples(ins) : h <= ins.upto[t]}) = i
        /\ h - bits_before(ins, i - 1) \in 1 .. width(ins, i)
    BY TupleIsMin
  <2>2. A[h] = op(ins, i, h - bits_before(ins, i - 1) - 1, c + h)
    BY <2>1 DEF AllTuples
  <2>3. width(ins, i) \in Nat /\ h \in Nat /\ c + h \in Nat
    BY <1>1, <2>1, TupleSums
  <2> DEFINE p == h - bits_before(ins, i - 1) - 1
  <2>4. p \in Nat
    BY <2>1, <2>3
  <2> HIDE DEF p
  <2>5. op(ins, i, p, c + h) \in Gate
    BY <2>3, <2>4, GateType
  <2> QED BY <2>2, <2>5 DEF p
<1>4. \A h \in 1 .. check_args(ins) : A[h] \in Gate
  BY <1>3, InATuple
<1> HIDE DEF A
<1>5. A \in [1 .. check_args(ins) -> Gate]
  BY <1>2, <1>4
<1>6. A \in Seq(Gate) /\ Len(A) = check_args(ins)
  BY <1>1, <1>5, SeqOfFunction
<1> QED BY <1>3, <1>6 DEF A

(* Where the loops of and_ are used they make the gates of processor.and_. *)
LEMMA GarbledNarrow ==
    ASSUME NarrowAndrs, RoleOK, conf.role = "garbler",
           NEW ins \in Instructions, ins.op = "and",
           check_args(ins) >= conf.threshold \/ check_args(ins) >= FewGates,
           NEW i \in 1 .. n_tuples(ins), ins.repeat
    PROVE  width(ins, i) <= DefaultLength
<1>1. check_args(ins) \in Nat /\ conf.threshold \in Nat /\ FewGates \in Nat /\ conf.threshold \in Thresholds
  BY Sums, BoundsOK DEF RoleOK
<1>2. ~(check_args(ins) < FewGates /\ \A t \in Thresholds : check_args(ins) < t)
  BY <1>1
<1> QED BY <1>2 DEF NarrowAndrs

LEMMA TupleIsOp ==
    ASSUME LoopsAgree, RoleOK, NEW ins \in Instructions, ins.op = "and",
           check_args(ins) >= conf.threshold \/ check_args(ins) >= FewGates,
           NEW i \in 1 .. n_tuples(ins), NEW c \in Nat
    PROVE  /\ Len(and_(ins, i, c)) = width(ins, i)
           /\ \A k \in 1 .. width(ins, i) : and_(ins, i, c)[k] = op(ins, i, k - 1, c + k)
<1>1. width(ins, i) \in Nat
  BY TupleSums
<1> DEFINE S(f) == {f[k] : k \in 1 .. width(ins, i)}
<1>2. CASE conf.role = "garbler"
  <2> DEFINE f == and_(ins, i, c)
  <2>1. f = [k \in 1 .. width(ins, i) |-> garble(ins, i, k - 1, c + k)]
    BY <1>2 DEF and_, Tuple, width
  <2>2. ASSUME NEW k \in 1 .. width(ins, i) PROVE garble(ins, i, k - 1, c + k) = op(ins, i, k - 1, c + k)
    <3>1. k - 1 \in Nat /\ k - 1 < width(ins, i)
      BY <1>1
    <3>2. ins.repeat => width(ins, i) <= DefaultLength /\ DefaultLength \in Nat
      BY <1>2, GarbledNarrow, BoundsOK DEF LoopsAgree
    <3>3. ins.repeat => k - 1 < DefaultLength
      BY <1>1, <3>1, <3>2
    <3> QED BY <3>1, <3>3, GarbleIsOp
  <2>3. DOMAIN f = 1 .. width(ins, i) /\ \A k \in 1 .. width(ins, i) : f[k] = op(ins, i, k - 1, c + k)
    BY <2>1, <2>2
  <2> HIDE DEF f
  <2>4. f \in [1 .. width(ins, i) -> S(f)]
    BY <2>1, <2>3
  <2>5. Len(f) = width(ins, i)
    BY <1>1, <2>4, SeqOfFunction
  <2> QED BY <2>3, <2>5 DEF f
<1>3. CASE conf.role # "garbler"
  <2> DEFINE f == and_(ins, i, c)
  <2>1. f = [k \in 1 .. width(ins, i) |-> eval(ins, i, k - 1, c + k)]
    BY <1>3 DEF and_, Tuple, width
  <2>2. ASSUME NEW k \in 1 .. width(ins, i) PROVE eval(ins, i, k - 1, c + k) = op(ins, i, k - 1, c + k)
    <3>1. k - 1 \in Nat
      BY <1>1
    <3> QED BY <3>1, EvalIsOp
  <2>3. DOMAIN f = 1 .. width(ins, i) /\ \A k \in 1 .. width(ins, i) : f[k] = op(ins, i, k - 1, c + k)
    BY <2>1, <2>2
  <2> HIDE DEF f
  <2>4. f \in [1 .. width(ins, i) -> S(f)]
    BY <2>1, <2>3
  <2>5. Len(f) = width(ins, i)
    BY <1>1, <2>4, SeqOfFunction
  <2> QED BY <2>3, <2>5 DEF f
<1> QED BY <1>2, <1>3

LEMMA SinglethreadIsOp ==
    ASSUME LoopsAgree, RoleOK, NEW ins \in Instructions, ins.op = "and",
           check_args(ins) >= FewGates, NEW c \in Nat
    PROVE  (IF conf.role = "garbler" THEN AllTuples(garble, ins, c) ELSE AllTuples(eval, ins, c))
           = AllTuples(op, ins, c)
<1> DEFINE tuple(h) == Min({t \in 1 .. n_tuples(ins) : h <= ins.upto[t]})
           place(h) == h - bits_before(ins, tuple(h) - 1) - 1
<1>1. ASSUME NEW h \in 1 .. check_args(ins)
      PROVE  /\ tuple(h) \in 1 .. n_tuples(ins) /\ place(h) \in Nat /\ place(h) < width(ins, tuple(h))
             /\ width(ins, tuple(h)) \in Nat
  <2>1. PICK i \in 1 .. n_tuples(ins) : h \in Gates_of(ins, i)
    BY InATuple
  <2>2. tuple(h) = i /\ h - bits_before(ins, i - 1) \in 1 .. width(ins, i)
    BY <2>1, TupleIsMin
  <2>3. width(ins, i) \in Nat
    BY <2>1, TupleSums
  <2> QED BY <2>1, <2>2, <2>3
<1>2. CASE conf.role = "garbler"
  <2>1. ASSUME NEW h \in 1 .. check_args(ins)
        PROVE garble(ins, tuple(h), place(h), c + h) = op(ins, tuple(h), place(h), c + h)
    <3>1. /\ tuple(h) \in 1 .. n_tuples(ins) /\ place(h) \in Nat /\ place(h) < width(ins, tuple(h))
          /\ width(ins, tuple(h)) \in Nat
      BY <1>1
    <3> HIDE DEF tuple, place
    <3>2. ins.repeat => width(ins, tuple(h)) <= DefaultLength /\ DefaultLength \in Nat
      BY <1>2, <3>1, GarbledNarrow, BoundsOK DEF LoopsAgree
    <3>3. ins.repeat => place(h) < DefaultLength
      BY <3>1, <3>2
    <3> QED BY <3>1, <3>3, GarbleIsOp
  <2>2. AllTuples(garble, ins, c) = [h \in 1 .. check_args(ins) |-> garble(ins, tuple(h), place(h), c + h)]
    BY DEF AllTuples
  <2>3. AllTuples(op, ins, c) = [h \in 1 .. check_args(ins) |-> op(ins, tuple(h), place(h), c + h)]
    BY DEF AllTuples
  <2> HIDE DEF tuple, place
  <2> QED BY <1>2, <2>1, <2>2, <2>3
<1>3. CASE conf.role # "garbler"
  <2>1. ASSUME NEW h \in 1 .. check_args(ins)
        PROVE eval(ins, tuple(h), place(h), c + h) = op(ins, tuple(h), place(h), c + h)
    <3>1. tuple(h) \in 1 .. n_tuples(ins) /\ place(h) \in Nat
      BY <1>1
    <3> HIDE DEF tuple, place
    <3> QED BY <3>1, EvalIsOp
  <2>2. AllTuples(eval, ins, c) = [h \in 1 .. check_args(ins) |-> eval(ins, tuple(h), place(h), c + h)]
    BY DEF AllTuples
  <2>3. AllTuples(op, ins, c) = [h \in 1 .. check_args(ins) |-> op(ins, tuple(h), place(h), c + h)]
    BY DEF AllTuples
  <2> HIDE DEF tuple, place
  <2> QED BY <1>3, <2>1, <2>2, <2>3
<1> QED BY <1>2, <1>3
-----------------------------------------------------------------------------
(* Every tuple is executed once.                                           *)
LEMMA NobodyBusy ==
    ASSUME HandoverOK, ~InSharing, NEW w \in Workers
    PROVE  ~Busy(w)
<1>1. ~Outstanding(w)
  BY DEF InSharing, Outstanding
<1> QED BY <1>1 DEF HandoverOK, WorkerOK, Place, Busy

LEMMA BusyIsDue ==
    ASSUME HandoverOK, NEW w \in Workers, Busy(w)
    PROVE  Outstanding(w) /\ wpc[w] # "push"
BY DEF HandoverOK, WorkerOK, Place, Busy, ResultComes, ResultWaits, JobWaits, JobRuns

LEMMA BusyJob ==
    ASSUME SharingInv, NEW w \in Workers, Busy(w)
    PROVE  jobs[w].it \in Nat /\ jobs[w].end \in Nat /\ jobs[w].it <= jobs[w].end
BY DEF SharingInv, JobsOK, JobOK, Busy, NoJob

LEMMA SharingMain ==
    ASSUME SharingInv, InSharing
    PROVE  /\ main \in Sharing /\ main.ins \in Instructions /\ main.i_thread \in Nat
           /\ main.start \in Nat /\ n_tuples(main.ins) \in Nat /\ main.ins.op \in {"and", "xor"}
<1>1. main \in Sharing
  BY DEF SharingInv, MainOK, InSharing
<1>2. main.ins \in Instructions /\ main.i_thread \in Nat /\ main.start \in Nat
  BY <1>1 DEF Sharing
<1>3. n_tuples(main.ins) \in Nat /\ main.ins.op \in {"and", "xor"}
  BY <1>2, Sums, InstructionsOK DEF IsInstruction
<1> QED BY <1>1, <1>2, <1>3

LEMMA RanKept ==
    ASSUME RanOK, UNCHANGED <<conf, main, jobs, ran>>
    PROVE  RanOK'
BY DEF RanOK, InSharing, Busy, Workers

(* A job on the tuples from `start' to `end' is handed out.                *)
LEMMA RanDispatched ==
    ASSUME SharingInv, HandoverOK, RanOK, main.pc \in {"split", "xor"},
           UNCHANGED <<conf, ran>>,
           NEW w \in Workers, w = main.i_thread, NEW job, NEW end \in Nat,
           main.start <= end, end <= n_tuples(main.ins),
           job.type = main.ins.op, job.ins = main.ins, job.it = main.start, job.end = end,
           jobs' = [jobs EXCEPT ![w] = job],
           main'.ins = main.ins, main'.start = end,
           main'.pc = main.pc \/ (main.pc = "split" /\ main'.pc = "wait" /\ end = n_tuples(main.ins))
    PROVE  RanOK'
<1>1. /\ InSharing /\ InSharing' /\ Workers' = Workers
  BY DEF InSharing, Workers
<1>2. /\ main.ins \in Instructions /\ main.start \in Nat /\ n_tuples(main.ins) \in Nat
      /\ main.ins.op \in {"and", "xor"}
  BY <1>1, SharingMain
<1>3. \A v \in Workers : jobs'[v] = IF v = w THEN job ELSE jobs[v]
  BY DEF SharingInv, JobsOK
<1>4. Busy(w)' /\ ~Busy(w)
  <2>1. ~Outstanding(w)
    BY <1>1, SharingMain DEF Outstanding
  <2> QED BY <1>2, <1>3, <2>1, BusyIsDue DEF Busy
<1>5. \A v \in Workers \ {w} : Busy(v)' <=> Busy(v)
  BY <1>3 DEF Busy
<1>6. \A v \in Workers : Busy(v) => v < w /\ v # w
  <2> SUFFICES ASSUME NEW v \in Workers, Busy(v) PROVE v < w /\ v # w
    OBVIOUS
  <2>1. Outstanding(v)
    BY BusyIsDue
  <2> QED BY <2>1, <1>4 DEF Outstanding
<1> DEFINE n == n_tuples(main.ins)
           start == main.start
<1>7. /\ ran \in [1 .. n -> {0, 1}]
      /\ \A i \in start + 1 .. n : ran[i] = 0
      /\ \A i \in 1 .. start :
            ran[i] = 1 \/ \E v \in Workers : Busy(v) /\ i \in jobs[v].it + 1 .. jobs[v].end
      /\ \A v \in Workers : Busy(v) =>
            /\ jobs[v].ins = main.ins /\ jobs[v].type = main.ins.op /\ jobs[v].end <= start
            /\ \A i \in jobs[v].it + 1 .. jobs[v].end : ran[i] = 0
      /\ \A u, v \in Workers : Busy(u) /\ Busy(v) /\ u < v => jobs[u].end <= jobs[v].it
  BY <1>1 DEF RanOK
<1>8. \A v \in Workers : Busy(v) => jobs[v].end \in Nat /\ jobs[v].it \in Nat
  BY BusyJob
<1>9. \A i \in end + 1 .. n : ran[i] = 0
  BY <1>2, <1>7
<1>10. ASSUME NEW i \in 1 .. end
       PROVE  ran[i] = 1 \/ \E v \in Workers : Busy(v)' /\ i \in jobs'[v].it + 1 .. jobs'[v].end
  <2>1. CASE i <= start
    <3>1. i \in 1 .. start
      BY <2>1, <1>2
    <3>2. ASSUME NEW v \in Workers, Busy(v), i \in jobs[v].it + 1 .. jobs[v].end
          PROVE  Busy(v)' /\ i \in jobs'[v].it + 1 .. jobs'[v].end
      BY <3>2, <1>3, <1>5, <1>6
    <3> QED BY <3>1, <3>2, <1>7
  <2>2. CASE ~(i <= start)
    <3>1. i \in start + 1 .. end
      BY <2>2, <1>2
    <3>2. jobs'[w].it = start /\ jobs'[w].end = end
      BY <1>3
    <3> QED BY <3>1, <3>2, <1>4
  <2> QED BY <2>1, <2>2
<1>11. ASSUME NEW v \in Workers, Busy(v)'
       PROVE  /\ jobs'[v].ins = main.ins /\ jobs'[v].type = main.ins.op /\ jobs'[v].end <= end
              /\ \A i \in jobs'[v].it + 1 .. jobs'[v].end : ran[i] = 0
  <2>1. CASE v = w
    <3>1. jobs'[v] = job
      BY <2>1, <1>3
    <3>2. \A i \in start + 1 .. end : i \in start + 1 .. n
      BY <1>2
    <3> QED BY <3>1, <3>2, <1>7
  <2>2. CASE v # w
    <3>1. Busy(v) /\ jobs'[v] = jobs[v]
      BY <2>2, <1>3, <1>5, <1>11
    <3> QED BY <3>1, <1>2, <1>7, <1>8
  <2> QED BY <2>1, <2>2
<1>12. ASSUME NEW u \in Workers, NEW v \in Workers, Busy(u)', Busy(v)', u < v
       PROVE  jobs'[u].end <= jobs'[v].it
  <2>1. CASE v = w
    <3>1. u # w /\ jobs'[v].it = start
      BY <2>1, <1>3, <1>12, Workers_ DEF Workers, SharingInv
    <3>2. Busy(u) /\ jobs'[u] = jobs[u]
      BY <3>1, <1>3, <1>5, <1>12
    <3> QED BY <3>1, <3>2, <1>7
  <2>2. CASE v # w
    <3>1. Busy(v) /\ jobs'[v] = jobs[v]
      BY <2>2, <1>3, <1>5, <1>12
    <3>2. u # w
      <4>1. v < w /\ u \in Int /\ v \in Int
        BY <3>1, <1>6, Workers_ DEF Workers, SharingInv
      <4> QED BY <4>1, <1>12
    <3>3. Busy(u) /\ jobs'[u] = jobs[u]
      BY <3>2, <1>3, <1>5, <1>12
    <3> QED BY <3>1, <3>3, <1>7, <1>12
  <2> QED BY <2>1, <2>2
<1>13. /\ main'.pc \in {"split", "xor", "wait"} /\ main'.pc # "fetch"
       /\ main'.pc = "split" => main.ins.op = "and"
       /\ main'.pc = "xor" => main.ins.op = "xor"
       /\ main.ins.op = "and" => check_args(main.ins) >= conf.threshold
       /\ main'.pc = "wait" => end = n
  BY <1>1 DEF RanOK
<1>14. ASSUME NEW i \in end + 1 .. n PROVE ran[i] = IF main'.pc = "wait" THEN 1 ELSE 0
  <2>1. main'.pc # "wait"
    BY <1>2, <1>13
  <2> QED BY <2>1, <1>9
<1> QED BY <1>1, <1>2, <1>7, <1>10, <1>11, <1>12, <1>13, <1>14 DEF RanOK

(* What a worker does to its job.                                          *)
LEMMA JobAfterRun ==
    ASSUME SharingInv, NEW w \in Workers, Worker_runs(w)
    PROVE  LET job == jobs[w]
               n == job.ins.upto[job.it + 1] - bits_before(job.ins, job.it)
           IN  /\ Busy(w) /\ Busy(w)' /\ \A v \in Workers \ {w} : jobs'[v] = jobs[v]
               /\ jobs'[w].type = job.type /\ jobs'[w].ins = job.ins /\ jobs'[w].end = job.end
               /\ jobs'[w].it = job.it + 1
               /\ jobs'[w].buf = job.buf
               /\ job.type = "and" => jobs'[w].gate = job.gate + n /\ jobs'[w].counter = job.counter + n
<1>1. /\ DOMAIN jobs = Workers /\ jobs[w] = [x \in JobFields |-> jobs[w][x]]
      /\ jobs[w].type \in {"and", "xor"}
  BY DEF SharingInv, JobsOK, JobOK, NoJob, Worker_runs
<1>2. CASE jobs[w].type = "and"
  <2> DEFINE n == jobs[w].ins.upto[jobs[w].it + 1] - bits_before(jobs[w].ins, jobs[w].it)
             g == jobs[w].gate + n
             c == jobs[w].counter + n
  <2>1. jobs' = [jobs EXCEPT ![w].it = jobs[w].it + 1, ![w].gate = g, ![w].counter = c]
    BY <1>2 DEF Worker_runs
  <2> HIDE DEF g, c
  <2>2. jobs'[w] = [jobs[w] EXCEPT !.it = jobs[w].it + 1, !.gate = g, !.counter = c]
        /\ \A v \in Workers \ {w} : jobs'[v] = jobs[v]
    BY <1>1, <2>1
  <2>3. /\ jobs'[w].type = jobs[w].type /\ jobs'[w].ins = jobs[w].ins /\ jobs'[w].end = jobs[w].end
        /\ jobs'[w].it = jobs[w].it + 1 /\ jobs'[w].buf = jobs[w].buf
        /\ jobs'[w].gate = g /\ jobs'[w].counter = c
    BY <1>1, <2>2 DEF JobFields
  <2> QED BY <1>2, <2>2, <2>3 DEF Busy, g, c
<1>3. CASE jobs[w].type # "and"
  <2>1. jobs' = [jobs EXCEPT ![w].it = jobs[w].it + 1]
    BY <1>3 DEF Worker_runs
  <2>2. jobs'[w] = [jobs[w] EXCEPT !.it = jobs[w].it + 1]
        /\ \A v \in Workers \ {w} : jobs'[v] = jobs[v]
    BY <1>1, <2>1
  <2>3. /\ jobs'[w].type = jobs[w].type /\ jobs'[w].ins = jobs[w].ins /\ jobs'[w].end = jobs[w].end
        /\ jobs'[w].it = jobs[w].it + 1 /\ jobs'[w].buf = jobs[w].buf
    BY <1>1, <2>2 DEF JobFields
  <2> QED BY <1>1, <1>3, <2>2, <2>3 DEF Busy
<1> QED BY <1>2, <1>3

LEMMA RunFacts ==
    ASSUME SharingInv, HandoverOK, RanOK, NEW w \in Workers, Worker_runs(w)
    PROVE  /\ InSharing /\ UNCHANGED <<conf, main>>
           /\ jobs[w].ins = main.ins /\ jobs[w].type = main.ins.op
           /\ jobs[w].it \in Nat /\ jobs[w].end \in Nat /\ jobs[w].it + 1 <= jobs[w].end
           /\ jobs[w].end <= main.start /\ main.start <= n_tuples(main.ins)
           /\ jobs[w].it + 1 \in 1 .. n_tuples(main.ins)
           /\ ran[jobs[w].it + 1] = 0
           /\ ran \in [1 .. n_tuples(main.ins) -> {0, 1}]
           /\ ran' = [ran EXCEPT ![jobs[w].it + 1] = 1]
<1>1. Busy(w) /\ UNCHANGED <<conf, main>> /\ jobs[w].it < jobs[w].end
      /\ ran' = [ran EXCEPT ![jobs[w].it + 1] = ran[jobs[w].it + 1] + 1]
  BY DEF Worker_runs, Busy
<1>2. InSharing
  BY <1>1, NobodyBusy
<1>3. jobs[w].it \in Nat /\ jobs[w].end \in Nat
  BY <1>1, BusyJob
<1>4. main.start \in Nat /\ n_tuples(main.ins) \in Nat
  BY <1>2, SharingMain
<1>5. /\ jobs[w].ins = main.ins /\ jobs[w].type = main.ins.op /\ jobs[w].end <= main.start
      /\ main.start <= n_tuples(main.ins) /\ ran \in [1 .. n_tuples(main.ins) -> {0, 1}]
      /\ \A i \in jobs[w].it + 1 .. jobs[w].end : ran[i] = 0
  BY <1>1, <1>2 DEF RanOK
<1>6. jobs[w].it + 1 \in jobs[w].it + 1 .. jobs[w].end /\ jobs[w].it + 1 \in 1 .. n_tuples(main.ins)
  BY <1>1, <1>3, <1>4, <1>5
<1>7. ran[jobs[w].it + 1] = 0 /\ 0 + 1 = 1
  BY <1>5, <1>6
<1> QED BY <1>1, <1>2, <1>3, <1>5, <1>6, <1>7

LEMMA RanRuns ==
    ASSUME SharingInv, HandoverOK, RanOK, NEW w \in Workers, Worker_runs(w)
    PROVE  RanOK'
<1>1. /\ InSharing /\ UNCHANGED <<conf, main>>
      /\ jobs[w].ins = main.ins /\ jobs[w].type = main.ins.op
      /\ jobs[w].it \in Nat /\ jobs[w].end \in Nat /\ jobs[w].it + 1 <= jobs[w].end
      /\ jobs[w].end <= main.start /\ main.start <= n_tuples(main.ins)
      /\ jobs[w].it + 1 \in 1 .. n_tuples(main.ins)
      /\ ran[jobs[w].it + 1] = 0
      /\ ran \in [1 .. n_tuples(main.ins) -> {0, 1}]
      /\ ran' = [ran EXCEPT ![jobs[w].it + 1] = 1]
  BY RunFacts
<1>2. /\ Busy(w) /\ Busy(w)' /\ \A v \in Workers \ {w} : jobs'[v] = jobs[v]
      /\ jobs'[w].type = jobs[w].type /\ jobs'[w].ins = jobs[w].ins /\ jobs'[w].end = jobs[w].end
      /\ jobs'[w].it = jobs[w].it + 1
  BY JobAfterRun
<1>3. main.start \in Nat /\ n_tuples(main.ins) \in Nat
  BY <1>1, SharingMain
<1> DEFINE k == jobs[w].it + 1
           n == n_tuples(main.ins)
<1>4. k \in Nat /\ ran' \in [1 .. n -> {0, 1}] /\ ran'[k] = 1 /\ \A i \in 1 .. n : i # k => ran'[i] = ran[i]
  BY <1>1
<1>5. /\ \A i \in main.start + 1 .. n : ran[i] = IF main.pc = "wait" THEN 1 ELSE 0
      /\ \A i \in 1 .. main.start :
            ran[i] = 1 \/ \E v \in Workers : Busy(v) /\ i \in jobs[v].it + 1 .. jobs[v].end
      /\ \A v \in Workers : Busy(v) =>
            /\ jobs[v].ins = main.ins /\ jobs[v].type = main.ins.op /\ jobs[v].end <= main.start
            /\ \A i \in jobs[v].it + 1 .. jobs[v].end : ran[i] = 0
      /\ \A u, v \in Workers : Busy(u) /\ Busy(v) /\ u < v => jobs[u].end <= jobs[v].it
  BY <1>1 DEF RanOK
<1>6. \A v \in Workers : Busy(v) => jobs[v].it \in Nat /\ jobs[v].end \in Nat /\ jobs[v].it <= jobs[v].end
  BY BusyJob
<1>7. \A v \in Workers : v \in Int
  BY Workers_ DEF Workers, SharingInv
<1>8. \A v \in Workers \ {w} : (Busy(v)' <=> Busy(v))
  BY <1>2 DEF Busy
<1>9. ASSUME NEW v \in Workers \ {w}, Busy(v)
      PROVE  k \notin jobs[v].it + 1 .. jobs[v].end
  <2>1. v < w \/ w < v
    BY <1>7
  <2>2. CASE v < w
    <3>1. jobs[v].end <= jobs[w].it
      BY <2>2, <1>2, <1>5, <1>9
    <3> QED BY <3>1, <1>1, <1>6, <1>9
  <2>3. CASE w < v
    <3>1. jobs[w].end <= jobs[v].it
      BY <2>3, <1>2, <1>5, <1>9
    <3> QED BY <3>1, <1>1, <1>6, <1>9
  <2> QED BY <2>1, <2>2, <2>3
<1>10. ASSUME NEW i \in main.start + 1 .. n PROVE ran'[i] = IF main.pc = "wait" THEN 1 ELSE 0
  <2>1. i \in 1 .. n /\ i # k
    BY <1>1, <1>3
  <2> QED BY <2>1, <1>4, <1>5
<1>11. ASSUME NEW i \in 1 .. main.start
       PROVE  ran'[i] = 1 \/ \E v \in Workers : Busy(v)' /\ i \in jobs'[v].it + 1 .. jobs'[v].end
  <2>1. CASE i = k
    BY <2>1, <1>4
  <2>2. CASE i # k
    <3>1. i \in 1 .. n /\ ran'[i] = ran[i]
      BY <2>2, <1>1, <1>3, <1>4
    <3>2. ASSUME NEW v \in Workers, Busy(v), i \in jobs[v].it + 1 .. jobs[v].end
          PROVE  Busy(v)' /\ i \in jobs'[v].it + 1 .. jobs'[v].end
      <4>1. CASE v = w
        BY <4>1, <3>2, <2>2, <1>1, <1>2
      <4>2. CASE v # w
        BY <4>2, <3>2, <1>2, <1>8
      <4> QED BY <4>1, <4>2
    <3> QED BY <3>1, <3>2, <1>5
  <2> QED BY <2>1, <2>2
<1>12. ASSUME NEW v \in Workers, Busy(v)'
       PROVE  /\ jobs'[v].ins = main.ins /\ jobs'[v].type = main.ins.op /\ jobs'[v].end <= main.start
              /\ \A i \in jobs'[v].it + 1 .. jobs'[v].end : ran'[i] = 0
  <2>1. CASE v = w
    <3>1. ASSUME NEW i \in k + 1 .. jobs[w].end PROVE ran'[i] = 0
      <4>1. i \in k .. jobs[w].end /\ i \in 1 .. n /\ i # k
        BY <1>1, <1>3, <1>4
      <4> QED BY <4>1, <1>2, <1>4, <1>5
    <3> QED BY <2>1, <3>1, <1>1, <1>2
  <2>2. CASE v # w
    <3>1. Busy(v) /\ jobs'[v] = jobs[v]
      BY <2>2, <1>2, <1>8, <1>12
    <3>2. ASSUME NEW i \in jobs[v].it + 1 .. jobs[v].end PROVE ran'[i] = 0
      <4>1. i # k
        BY <2>2, <3>1, <1>9
      <4>2. i \in 1 .. n
        BY <3>1, <1>1, <1>3, <1>5, <1>6
      <4> QED BY <4>1, <4>2, <3>1, <1>4, <1>5
    <3> QED BY <3>1, <3>2, <1>5
  <2> QED BY <2>1, <2>2
<1>13. ASSUME NEW u \in Workers, NEW v \in Workers, Busy(u)', Busy(v)', u < v
       PROVE  jobs'[u].end <= jobs'[v].it
  <2>1. Busy(u) /\ Busy(v)
    BY <1>2, <1>8, <1>13
  <2>2. jobs[u].end <= jobs[v].it
    BY <2>1, <1>5, <1>13
  <2>3. jobs'[u].end = jobs[u].end /\ jobs[v].it <= jobs'[v].it /\ jobs'[v].it \in Nat
    BY <2>1, <1>1, <1>2, <1>6
  <2> QED BY <2>1, <2>2, <2>3, <1>6
<1> HIDE DEF k
<1>14. Workers' = Workers /\ InSharing'
  BY <1>1 DEF Workers, InSharing
<1> QED BY <1>1, <1>3, <1>4, <1>10, <1>11, <1>12, <1>13, <1>14 DEF RanOK, InSharing

LEMMA RanEnds ==
    ASSUME SharingInv, HandoverOK, RanOK, NEW w \in Workers, Worker_ends(w)
    PROVE  RanOK'
<1>1. /\ UNCHANGED <<conf, main, ran>> /\ jobs' = [jobs EXCEPT ![w] = NoJob] /\ Busy(w)
      /\ jobs[w].it = jobs[w].end
  BY DEF Worker_ends, Busy
<1>2. InSharing /\ InSharing' /\ Workers' = Workers
  BY <1>1, NobodyBusy DEF InSharing, Workers
<1>3. /\ ~Busy(w)' /\ \A v \in Workers \ {w} : jobs'[v] = jobs[v]
  BY <1>1 DEF SharingInv, JobsOK, Busy, NoJob
<1>4. \A v \in Workers : Busy(v)' => Busy(v) /\ jobs'[v] = jobs[v]
  BY <1>3 DEF Busy
<1>5. jobs[w].it \in Nat
  BY <1>1, BusyJob
<1>6. ASSUME NEW i \in Nat, NEW v \in Workers, Busy(v), i \in jobs[v].it + 1 .. jobs[v].end
      PROVE  Busy(v)' /\ i \in jobs'[v].it + 1 .. jobs'[v].end
  <2>1. v # w
    BY <1>1, <1>5, <1>6
  <2> QED BY <2>1, <1>3, <1>6 DEF Busy
<1>7. main.start \in Nat
  BY <1>2, SharingMain
<1>8. \A i \in 1 .. main.start :
        ran[i] = 1 \/ \E v \in Workers : Busy(v)' /\ i \in jobs'[v].it + 1 .. jobs'[v].end
  <2> TAKE i \in 1 .. main.start
  <2>1. i \in Nat
    BY <1>7
  <2>2. ran[i] = 1 \/ \E v \in Workers : Busy(v) /\ i \in jobs[v].it + 1 .. jobs[v].end
    BY <1>2 DEF RanOK
  <2> QED BY <2>1, <2>2, <1>6
<1>9. /\ \A v \in Workers : Busy(v)' =>
            /\ jobs'[v].ins = main.ins /\ jobs'[v].type = main.ins.op /\ jobs'[v].end <= main.start
            /\ \A i \in jobs'[v].it + 1 .. jobs'[v].end : ran[i] = 0
      /\ \A u, v \in Workers : Busy(u)' /\ Busy(v)' /\ u < v => jobs'[u].end <= jobs'[v].it
  BY <1>2, <1>4 DEF RanOK
<1> QED BY <1>1, <1>2, <1>8, <1>9 DEF RanOK

(* One split.                                                              *)
SplitStep(w, end) ==
    /\ main.pc = "split" /\ w = main.i_thread
    /\ end \in Nat /\ main.start < end /\ end <= n_tuples(main.ins)
    /\ UNCHANGED <<conf, ran, asked>>
    /\ gates' = Skip(gates, main.ins.upto[end] - bits_before(main.ins, main.start))
    /\ counter' = counter + (main.ins.upto[end] - bits_before(main.ins, main.start))
    /\ jobs' = [jobs EXCEPT ![w] =
                   [type |-> "and", ins |-> main.ins, it |-> main.start, end |-> end,
                    gate |-> Len(gates.slots), buf |-> gates.buf, counter |-> counter]]
    /\ main'.ins = main.ins /\ main'.start = end
    /\ main'.pc = IF end = n_tuples(main.ins) THEN "wait" ELSE "split"

LEMMA SplitIsStep ==
    ASSUME SharingInv, Split
    PROVE  \E w \in Workers : \E end \in Nat : SplitStep(w, end)
<1>1. main.pc = "split" /\ InSharing
  BY DEF Split, InSharing
<1>2. main \in Sharing /\ main.start \in Nat /\ n_tuples(main.ins) \in Nat
  BY <1>1, SharingMain
<1>3. PICK w \in Workers : w = main.i_thread
  BY SplitSharing
<1>4. PICK end \in main.start + 1 .. n_tuples(main.ins) :
         /\ gates' = Skip(gates, main.ins.upto[end] - bits_before(main.ins, main.start))
         /\ dispatch(main.i_thread,
                     [type |-> "and", ins |-> main.ins, it |-> main.start, end |-> end,
                      gate |-> Len(gates.slots), buf |-> gates.buf, counter |-> counter])
         /\ counter' = counter + (main.ins.upto[end] - bits_before(main.ins, main.start))
         /\ main' = [main EXCEPT !.i_thread = @ + 1, !.start = end,
                      !.pc = IF end = n_tuples(main.ins) THEN "wait" ELSE "split"]
  BY DEF Split
<1>5. end \in Nat /\ main.start < end /\ end <= n_tuples(main.ins)
  BY <1>2, <1>4
<1>6. UNCHANGED <<conf, ran, asked>>
  BY DEF Split
<1>7. main'.ins = main.ins /\ main'.start = end
      /\ main'.pc = IF end = n_tuples(main.ins) THEN "wait" ELSE "split"
  <2> DEFINE p == IF end = n_tuples(main.ins) THEN "wait" ELSE "split"
  <2>1. main' = [main EXCEPT !.i_thread = main.i_thread + 1, !.start = end, !.pc = p]
    BY <1>4
  <2> HIDE DEF p
  <2>2. main'.ins = main.ins /\ main'.start = end /\ main'.pc = p
    BY <1>2, <2>1 DEF Sharing
  <2> QED BY <2>2 DEF p
<1>8. jobs' = [jobs EXCEPT ![w] =
                   [type |-> "and", ins |-> main.ins, it |-> main.start, end |-> end,
                    gate |-> Len(gates.slots), buf |-> gates.buf, counter |-> counter]]
  BY <1>3, <1>4 DEF dispatch
<1> QED BY <1>1, <1>3, <1>4, <1>5, <1>6, <1>7, <1>8 DEF SplitStep

LEMMA RanSplit ==
    ASSUME SharingInv, HandoverOK, RanOK, Split
    PROVE  RanOK'
<1>1. PICK w \in Workers, end \in Nat : SplitStep(w, end)
  BY SplitIsStep
<1> DEFINE job == [type |-> "and", ins |-> main.ins, it |-> main.start, end |-> end,
                   gate |-> Len(gates.slots), buf |-> gates.buf, counter |-> counter]
<1>2. main.start \in Nat /\ main.ins.op = "and"
  BY <1>1, SharingMain DEF SplitStep, InSharing, RanOK
<1>3. /\ job.type = main.ins.op /\ job.ins = main.ins /\ job.it = main.start /\ job.end = end
      /\ jobs' = [jobs EXCEPT ![w] = job]
  BY <1>1, <1>2 DEF SplitStep
<1> HIDE DEF job
<1>4. main.start <= end
  BY <1>1, <1>2 DEF SplitStep
<1>5. /\ main.pc = "split" /\ w = main.i_thread /\ end <= n_tuples(main.ins) /\ UNCHANGED <<conf, ran>>
      /\ main'.ins = main.ins /\ main'.start = end
      /\ main'.pc = main.pc \/ (main.pc = "split" /\ main'.pc = "wait" /\ end = n_tuples(main.ins))
  BY <1>1 DEF SplitStep
<1> QED BY <1>3, <1>4, <1>5, RanDispatched

LEMMA XorFacts ==
    ASSUME SharingInv, Xor_dispatch
    PROVE  LET end == main.start + xor_batch(main.ins)
           IN  /\ main.pc = "xor" /\ main.i_thread \in Workers
               /\ end \in Nat /\ main.start <= end /\ end <= n_tuples(main.ins)
               /\ UNCHANGED <<conf, counter, gates, ran, asked>>
               /\ jobs' = [jobs EXCEPT ![main.i_thread] =
                     [type |-> "xor", ins |-> main.ins, it |-> main.start, end |-> end,
                      gate |-> 0, buf |-> 0, counter |-> 0]]
               /\ main'.ins = main.ins /\ main'.start = end /\ main'.pc = "xor"
<1> USE DEF SharingInv
<1> DEFINE b == xor_batch(main.ins)
           n == n_tuples(main.ins)
           end == main.start + b
<1>1. /\ main.pc = "xor" /\ main.i_thread < conf.n_workers
      /\ UNCHANGED <<conf, counter, gates, ran, asked>>
      /\ main' = [main EXCEPT !.i_thread = main.i_thread + 1, !.start = end]
      /\ jobs' = [jobs EXCEPT ![main.i_thread] =
            [type |-> "xor", ins |-> main.ins, it |-> main.start, end |-> end,
             gate |-> 0, buf |-> 0, counter |-> 0]]
  BY DEF Xor_dispatch, dispatch
<1>2. /\ main \in Sharing /\ main.ins \in Instructions /\ main.i_thread \in Nat
      /\ main.start \in Nat /\ n \in Nat
  BY <1>1, SharingMain DEF InSharing
<1>3. main.start = main.i_thread * b
  BY <1>1 DEF MainOK
<1>4. conf.n_workers \in Nat \ {0}
  BY Workers_
<1>5. b \in Nat /\ (conf.n_workers + 1) * b <= n
  BY <1>2, <1>4, DivBounds DEF xor_batch
<1> HIDE DEF b, n
<1>6. end \in Nat /\ main.start <= end /\ end <= n
  <2>1. end = (main.i_thread + 1) * b /\ end \in Nat /\ main.start <= end
    BY <1>2, <1>3, <1>5
  <2>2. b * (main.i_thread + 1) <= b * (conf.n_workers + 1)
    BY <1>1, <1>2, <1>4, <1>5, MulMonotone
  <2> QED BY <2>1, <2>2, <1>2, <1>4, <1>5
<1> HIDE DEF end
<1>7. main'.ins = main.ins /\ main'.start = end /\ main'.pc = "xor"
  BY <1>1, <1>2 DEF Sharing
<1>8. main.i_thread \in Workers
  BY XorSharing
<1> QED BY <1>1, <1>6, <1>7, <1>8 DEF end, b, n

LEMMA RanXor ==
    ASSUME SharingInv, HandoverOK, RanOK, Xor_dispatch
    PROVE  RanOK'
<1> DEFINE e == main.start + xor_batch(main.ins)
           job == [type |-> "xor", ins |-> main.ins, it |-> main.start, end |-> e,
                   gate |-> 0, buf |-> 0, counter |-> 0]
<1>1. /\ main.pc = "xor" /\ main.i_thread \in Workers
      /\ e \in Nat /\ main.start <= e /\ e <= n_tuples(main.ins)
      /\ UNCHANGED <<conf, ran>>
      /\ jobs' = [jobs EXCEPT ![main.i_thread] = job]
      /\ main'.ins = main.ins /\ main'.start = e /\ main'.pc = main.pc
  BY XorFacts
<1>2. PICK w \in Workers : w = main.i_thread
  BY <1>1
<1>3. PICK end \in Nat : end = e
  BY <1>1
<1>4. main.ins.op = "xor"
  BY <1>1 DEF RanOK
<1>5. job.type = main.ins.op /\ job.ins = main.ins /\ job.it = main.start /\ job.end = e
  BY <1>4
<1>6. jobs' = [jobs EXCEPT ![w] = job]
  BY <1>1, <1>2
<1> HIDE DEF job, e
<1> QED BY <1>1, <1>2, <1>3, <1>5, <1>6, RanDispatched

(* The tape thread has taken the last result.                              *)
LEMMA LastTaken ==
    ASSUME SharingInv, HandoverOK, Wait_done, main.waited + 1 = main.i_thread,
           NEW v \in Workers
    PROVE  ~Busy(v)
<1>1. /\ main.pc = "wait" /\ main.i_thread \in Nat /\ main.waited \in Nat
      /\ PopGoesOn(output[main.waited])
      /\ main.i_thread <= conf.n_workers /\ main.waited < main.i_thread /\ conf.n_workers \in Nat
  BY Workers_ DEF Wait_done, SharingInv, MainOK, Sharing
<1>2. v \in Int
  BY <1>1 DEF Workers
<1>3. /\ Place(input[v], output[v], wpc[v], jobs[v].type # "none", Outstanding(v))
      /\ Signals(input[v], output[v], wpc[v], Ending)
  BY DEF HandoverOK, WorkerOK
<1>4. CASE v = main.waited
  <2>1. output[v].queue # <<>>
    BY <1>1, <1>3, <1>4 DEF PopGoesOn, Signals
  <2> QED BY <1>3, <2>1 DEF Place, AtRest, JobWaits, JobRuns, ResultComes, Busy
<1>5. CASE v # main.waited
  <2>1. ~Outstanding(v)
    BY <1>1, <1>2, <1>5 DEF Outstanding
  <2> QED BY <1>3, <2>1 DEF Place, Busy
<1> QED BY <1>4, <1>5

LEMMA WaitDoneFacts ==
    ASSUME SharingInv, Wait_done
    PROVE  /\ main.pc = "wait" /\ UNCHANGED <<conf, counter, gates, jobs, ran, asked>>
           /\ main.waited + 1 = main.i_thread => main' = [pc |-> "fetch"]
           /\ main.waited + 1 # main.i_thread =>
                 main'.pc = "wait" /\ main'.ins = main.ins /\ main'.start = main.start
<1>1. main.pc = "wait" /\ UNCHANGED <<conf, counter, gates, jobs, ran, asked>>
  BY DEF Wait_done
<1>2. main \in Sharing
  BY <1>1 DEF SharingInv, MainOK
<1>3. CASE main.waited + 1 = main.i_thread
  BY <1>1, <1>3 DEF Wait_done
<1>4. CASE main.waited + 1 # main.i_thread
  <2>1. main' = [main EXCEPT !.waited = main.waited + 1]
    BY <1>4 DEF Wait_done
  <2>2. main'.pc = "wait" /\ main'.ins = main.ins /\ main'.start = main.start
    BY <1>1, <1>2, <2>1 DEF Sharing
  <2> QED BY <1>1, <1>4, <2>2
<1> QED BY <1>3, <1>4

LEMMA XorRestFacts ==
    ASSUME SharingInv, Xor_rest
    PROVE  /\ main.pc = "xor" /\ main'.pc = "wait" /\ main'.ins = main.ins /\ main'.start = main.start
           /\ UNCHANGED <<conf, counter, gates, jobs, asked>>
<1>1. main.pc = "xor" /\ main' = [main EXCEPT !.pc = "wait"] /\ UNCHANGED <<conf, counter, gates, jobs, asked>>
  BY DEF Xor_rest
<1>2. main \in Sharing
  BY <1>1 DEF SharingInv, MainOK
<1> QED BY <1>1, <1>2 DEF Sharing

LEMMA RanNext == SharingInv /\ HandoverOK /\ RanOK /\ [Next]_vars => RanOK'
<1> SUFFICES ASSUME SharingInv, HandoverOK, RanOK, [Next]_vars PROVE RanOK'
  OBVIOUS
<1>1. ASSUME NEW ins \in Instructions, And_few(ins) \/ And_singlethread(ins) \/ Xor_few(ins)
      PROVE  RanOK'
  <2>1. main.pc = "fetch" /\ UNCHANGED main /\ ran' = [i \in 1 .. n_tuples(ins) |-> 1]
    BY <1>1 DEF And_few, And_singlethread, Xor_few, Fetch
  <2> QED BY <2>1 DEF RanOK, InSharing
<1>2. ASSUME NEW ins \in Instructions, And_multithread(ins) \/ Xor_multithread(ins)
      PROVE  RanOK'
  <2>1. /\ main.pc = "fetch" /\ UNCHANGED <<conf, jobs>> /\ ran' = [i \in 1 .. n_tuples(ins) |-> 0]
        /\ main'.ins = ins /\ main'.start = 0
        /\ \/ main'.pc = "split" /\ ins.op = "and" /\ check_args(ins) >= conf.threshold
           \/ main'.pc = "xor" /\ ins.op = "xor"
    <3>1. CASE And_multithread(ins)
      BY <3>1 DEF And_multithread, Fetch
    <3>2. CASE Xor_multithread(ins)
      BY <3>2 DEF Xor_multithread, Fetch
    <3> QED BY <1>2, <3>1, <3>2
  <2>2. Workers' = Workers /\ \A w \in Workers : ~Busy(w)'
    BY <2>1, NobodyBusy DEF InSharing, Workers, Busy
  <2>3. n_tuples(ins) \in Nat
    BY Sums
  <2>4. ran' \in [1 .. n_tuples(ins) -> {0, 1}] /\ \A i \in 1 .. n_tuples(ins) : ran'[i] = 0
    BY <2>1
  <2>5. ASSUME NEW i \in main'.start + 1 .. n_tuples(ins)
        PROVE  ran'[i] = IF main'.pc = "wait" THEN 1 ELSE 0
    BY <2>1, <2>4
  <2>6. \A i \in 1 .. main'.start : FALSE
    BY <2>1
  <2> QED BY <2>1, <2>2, <2>3, <2>4, <2>5, <2>6 DEF RanOK, InSharing
<1>3. CASE NextBatch
  BY <1>3, RanKept DEF NextBatch
<1>4. CASE Destroy
  <2>1. main'.pc = "stop"
    BY <1>4 DEF Destroy
  <2> QED BY <2>1 DEF RanOK, InSharing
<1>5. CASE Split
  BY <1>5, RanSplit
<1>6. CASE Xor_dispatch
  BY <1>6, RanXor
<1>7. CASE Xor_rest
  <2>1. /\ main.pc = "xor" /\ main'.pc = "wait" /\ main'.ins = main.ins /\ main'.start = main.start
        /\ UNCHANGED <<conf, jobs>>
    BY <1>7, XorRestFacts
  <2>2. ran' = [i \in DOMAIN ran |-> IF i > main.start THEN ran[i] + 1 ELSE ran[i]]
    BY <1>7 DEF Xor_rest
  <2>3. InSharing /\ InSharing' /\ Workers' = Workers /\ \A w : (Busy(w)' <=> Busy(w))
    BY <2>1 DEF InSharing, Workers, Busy
  <2>4. main.start \in Nat /\ n_tuples(main.ins) \in Nat
    BY <2>3, SharingMain
  <2> DEFINE n == n_tuples(main.ins)
  <2>5. /\ ran \in [1 .. n -> {0, 1}] /\ main.ins.op = "xor" /\ main.start <= n
        /\ \A i \in main.start + 1 .. n : ran[i] = 0
        /\ \A i \in 1 .. main.start :
              ran[i] = 1 \/ \E v \in Workers : Busy(v) /\ i \in jobs[v].it + 1 .. jobs[v].end
        /\ \A v \in Workers : Busy(v) =>
              /\ jobs[v].ins = main.ins /\ jobs[v].type = main.ins.op /\ jobs[v].end <= main.start
              /\ \A i \in jobs[v].it + 1 .. jobs[v].end : ran[i] = 0
        /\ \A u, v \in Workers : Busy(u) /\ Busy(v) /\ u < v => jobs[u].end <= jobs[v].it
    BY <2>1, <2>3 DEF RanOK
  <2>6. ASSUME NEW i \in 1 .. n
        PROVE  /\ i \in main.start + 1 .. n => ran'[i] = 1
               /\ i \in 1 .. main.start => ran'[i] = ran[i]
               /\ ran'[i] \in {0, 1}
    <3>1. i \in main.start + 1 .. n \/ i \in 1 .. main.start
      BY <2>4
    <3>2. CASE i \in main.start + 1 .. n
      <4>1. i > main.start /\ ran[i] = 0 /\ ~(i \in 1 .. main.start)
        BY <3>2, <2>4, <2>5
      <4>2. ran'[i] = ran[i] + 1
        BY <4>1, <2>2, <2>5
      <4>3. 0 + 1 = 1
        OBVIOUS
      <4> QED BY <4>1, <4>2, <4>3
    <3>3. CASE i \in 1 .. main.start
      <4>1. ~(i > main.start) /\ ~(i \in main.start + 1 .. n)
        BY <3>3, <2>4
      <4>2. ran'[i] = ran[i]
        BY <4>1, <2>2, <2>5
      <4> QED BY <4>1, <4>2, <2>5
    <3> QED BY <3>1, <3>2, <3>3
  <2>7. ran' \in [1 .. n -> {0, 1}]
    BY <2>2, <2>5, <2>6
  <2>8. \A i \in main.start + 1 .. n : ran'[i] = 1
    BY <2>4, <2>6
  <2>9. \A i \in 1 .. main.start : i \in 1 .. n /\ ran'[i] = ran[i]
    BY <2>4, <2>5, <2>6
  <2>10. ASSUME NEW v \in Workers, Busy(v), NEW i \in jobs[v].it + 1 .. jobs[v].end PROVE ran'[i] = 0
    <3>1. jobs[v].it \in Nat /\ jobs[v].end \in Nat /\ jobs[v].end <= main.start
      BY <2>5, <2>10, BusyJob
    <3>2. i \in 1 .. main.start
      BY <3>1, <2>4
    <3> QED BY <3>2, <2>5, <2>9, <2>10
  <2>11. \A i \in 1 .. main.start :
            ran'[i] = 1 \/ \E v \in Workers : Busy(v)' /\ i \in jobs'[v].it + 1 .. jobs'[v].end
    BY <2>1, <2>3, <2>5, <2>9
  <2>12. \A i \in main.start + 1 .. n : ran'[i] = IF main'.pc = "wait" THEN 1 ELSE 0
    BY <2>1, <2>8
  <2>13. /\ \A v \in Workers : Busy(v)' =>
              /\ jobs'[v].ins = main.ins /\ jobs'[v].type = main.ins.op /\ jobs'[v].end <= main.start
              /\ \A i \in jobs'[v].it + 1 .. jobs'[v].end : ran'[i] = 0
        /\ \A u, v \in Workers : Busy(u)' /\ Busy(v)' /\ u < v => jobs'[u].end <= jobs'[v].it
    BY <2>1, <2>3, <2>5, <2>10
  <2> QED BY <2>1, <2>3, <2>5, <2>7, <2>11, <2>12, <2>13 DEF RanOK
<1>8. CASE Wait_blocks
  BY <1>8, RanKept DEF Wait_blocks
<1>9. CASE Wait_done
  <2>1. /\ main.pc = "wait" /\ UNCHANGED <<conf, jobs, ran>>
        /\ main.waited + 1 = main.i_thread => main' = [pc |-> "fetch"]
        /\ main.waited + 1 # main.i_thread =>
              main'.pc = "wait" /\ main'.ins = main.ins /\ main'.start = main.start
    BY <1>9, WaitDoneFacts
  <2>2. CASE main.waited + 1 = main.i_thread
    <3>1. \A v \in Workers : ~Busy(v)
      BY <1>9, <2>2, LastTaken
    <3>2. InSharing /\ main.start \in Nat /\ n_tuples(main.ins) \in Nat
      BY <2>1, SharingMain DEF InSharing
    <3>3. /\ DOMAIN ran = 1 .. n_tuples(main.ins)
          /\ \A i \in main.start + 1 .. n_tuples(main.ins) : ran[i] = 1
          /\ \A i \in 1 .. main.start : ran[i] = 1
      BY <2>1, <3>1, <3>2 DEF RanOK
    <3>4. \A i \in DOMAIN ran : ran[i] = 1
      <4> TAKE i \in DOMAIN ran
      <4>1. i \in main.start + 1 .. n_tuples(main.ins) \/ i \in 1 .. main.start
        BY <3>2, <3>3
      <4> QED BY <4>1, <3>3
    <3>5. main'.pc = "fetch"
      BY <2>1, <2>2
    <3> QED BY <2>1, <3>4, <3>5 DEF RanOK, InSharing
  <2>3. CASE main.waited + 1 # main.i_thread
    <3>1. main'.pc = main.pc /\ main'.ins = main.ins /\ main'.start = main.start
      BY <2>1, <2>3
    <3> QED BY <2>1, <3>1 DEF RanOK, InSharing, Busy, Workers
  <2> QED BY <2>2, <2>3
<1>10. CASE Stop_worker
  <2>1. main.pc = "stop" /\ main' = [main EXCEPT !.pc = "join"]
    BY <1>10 DEF Stop_worker
  <2>2. main \in [pc : {"stop", "join"}, worker : Nat]
    BY <2>1 DEF SharingInv, MainOK, Sharing
  <2>3. main'.pc = "join"
    BY <2>1, <2>2
  <2> QED BY <2>3 DEF RanOK, InSharing
<1>11. CASE Join_worker
  <2>1. main'.pc \in {"stop", "end"}
    BY <1>11 DEF Join_worker
  <2> QED BY <2>1 DEF RanOK, InSharing
<1>12. ASSUME NEW w \in Workers, Worker_blocks(w) \/ Worker_pops(w) \/ Worker_pushes(w)
       PROVE  RanOK'
  BY <1>12, RanKept DEF Worker_blocks, Worker_pops, Worker_pushes
<1>13. ASSUME NEW w \in Workers, Worker_runs(w) PROVE RanOK'
  BY <1>13, RanRuns
<1>14. ASSUME NEW w \in Workers, Worker_ends(w) PROVE RanOK'
  BY <1>14, RanEnds
<1>15. CASE UNCHANGED vars
  BY <1>15, RanKept DEF vars
<1> QED
  BY <1>1, <1>2, <1>3, <1>4, <1>5, <1>6, <1>7, <1>8, <1>9, <1>10, <1>11, <1>12, <1>13, <1>14,
     <1>15 DEF Next, Execute, MainGoesOn, WorkerStep

LEMMA RanInit == Init => RanOK
BY DEF Init, RanOK, InSharing
-----------------------------------------------------------------------------
(* The gates come out in order.                                            *)
LEMMA AndGatesOK ==
    ASSUME NEW ins \in Instructions, NEW c \in Nat
    PROVE  /\ AndGates(ins, c) \in Seq(Gate) /\ Len(AndGates(ins, c)) = check_args(ins)
           /\ \A i \in 1 .. n_tuples(ins) : \A h \in Gates_of(ins, i) :
                 AndGates(ins, c)[h] = op(ins, i, h - bits_before(ins, i - 1) - 1, c + h)
BY AllTuplesOp DEF AndGates

LEMMA SlotsLen ==
    ASSUME NEW s \in Seq(Gate)
    PROVE  Len(s) \in Nat /\ DOMAIN s = 1 .. Len(s) /\ s \in [1 .. Len(s) -> Gate]
BY LenProperties

LEMMA Buffer ==
    ASSUME gates \in [slots : Seq(Gate), buf : Nat], NEW b \in Allocate(gates)
    PROVE  b \in [slots : Seq(Gate), buf : Nat] /\ b.slots = gates.slots
<1>1. gates.buf + 1 \in Nat
  OBVIOUS
<1> QED BY <1>1 DEF Allocate

LEMMA NewSlots ==
    ASSUME NEW b \in [slots : Seq(Gate), buf : Nat], NEW s \in Seq(Gate)
    PROVE  /\ [b EXCEPT !.slots = s] \in [slots : Seq(Gate), buf : Nat]
           /\ [b EXCEPT !.slots = s].slots = s /\ [b EXCEPT !.slots = s].buf = b.buf
OBVIOUS

LEMMA GatesInit == Init => GatesOK
<1> SUFFICES ASSUME Init PROVE GatesOK
  OBVIOUS
<1>1. <<>> \in Seq(Gate)
  OBVIOUS
<1>2. main.pc = "fetch" /\ counter = 0 /\ gates = [slots |-> <<>>, buf |-> 0] /\ asked = <<>>
  BY DEF Init
<1> QED BY <1>1, <1>2 DEF GatesOK, InSharing

(* Steps that leave the gates alone.                                       *)
LEMMA GatesKept ==
    ASSUME GatesOK, UNCHANGED <<conf, counter, gates, asked>>,
           main'.ins = main.ins, main'.start = main.start,
           InSharing' <=> InSharing, main'.pc = "fetch" => main.pc = "fetch",
           \A v \in Workers : Busy(v)' => Busy(v) /\ jobs'[v] = jobs[v],
           main.ins.op = "and" => UNCHANGED ran
    PROVE  GatesOK'
<1>1. Workers' = Workers /\ Before' = Before /\ FirstId' = FirstId
  BY DEF Workers, Before, FirstId
<1>2. InSharing /\ main.ins.op = "and" => SlotsOK'
  <2> SUFFICES ASSUME InSharing, main.ins.op = "and" PROVE SlotsOK'
    OBVIOUS
  <2>1. SlotsOK /\ UNCHANGED ran
    BY DEF GatesOK
  <2>2. \A i : Written(i)' <=> Written(i)
    BY <1>1 DEF Written
  <2> QED BY <1>1, <2>1, <2>2 DEF SlotsOK
<1> QED BY <1>2 DEF GatesOK

LEMMA GatesExecuted ==
    ASSUME SharingInv, GatesOK, LoopsAgree, RoleOK, NEW ins \in Instructions,
           And_few(ins) \/ And_singlethread(ins)
    PROVE  GatesOK'
<1> DEFINE A == AndGates(ins, counter)
<1>1. /\ counter \in Nat /\ gates \in [slots : Seq(Gate), buf : Nat] /\ asked \in Seq(Gate)
      /\ main.pc = "fetch" => gates.slots = asked
  BY DEF GatesOK
<1>2. /\ main.pc = "fetch" /\ UNCHANGED main /\ counter' = counter + check_args(ins)
      /\ ins.op = "and"
      /\ asked' = asked \o A
  BY DEF And_few, And_singlethread, Fetch, Asks, AndGates
<1>3. \E b \in Allocate(gates) : gates' = [b EXCEPT !.slots = b.slots \o A]
  <2>1. CASE And_few(ins)
    BY <2>1 DEF And_few, AndGates
  <2>2. CASE And_singlethread(ins)
    <3>1. (IF conf.role = "garbler" THEN AllTuples(garble, ins, counter)
                                    ELSE AllTuples(eval, ins, counter)) = A
      BY <1>1, <1>2, <2>2, SinglethreadIsOp DEF And_singlethread, AndGates
    <3>2. PICK b \in Allocate(gates) :
             gates' = [b EXCEPT !.slots = b.slots \o
                          (IF conf.role = "garbler" THEN AllTuples(garble, ins, counter)
                                                    ELSE AllTuples(eval, ins, counter))]
      BY <2>2 DEF And_singlethread
    <3> QED BY <3>1, <3>2
  <2> QED BY <2>1, <2>2
<1>4. PICK b \in Allocate(gates) : gates' = [b EXCEPT !.slots = b.slots \o A]
  BY <1>3
<1>5. A \in Seq(Gate)
  BY <1>1, AndGatesOK
<1> HIDE DEF A
<1>6. b \in [slots : Seq(Gate), buf : Nat] /\ b.slots = asked
  BY <1>1, <1>2, <1>4, Buffer
<1>7. asked \o A \in Seq(Gate)
  BY <1>1, <1>5, ConcatProperties
<1>8. gates' \in [slots : Seq(Gate), buf : Nat] /\ gates'.slots = asked \o A
  BY <1>4, <1>6, <1>7, NewSlots
<1>9. counter' \in Nat
  BY <1>1, <1>2, Sums
<1> QED BY <1>2, <1>7, <1>8, <1>9 DEF GatesOK, InSharing

LEMMA GatesBegun ==
    ASSUME SharingInv, HandoverOK, GatesOK, NEW ins \in Instructions, And_multithread(ins)
    PROVE  GatesOK'
<1> DEFINE A == AndGates(ins, counter)
<1>1. /\ counter \in Nat /\ gates \in [slots : Seq(Gate), buf : Nat] /\ asked \in Seq(Gate)
      /\ main.pc = "fetch" => gates.slots = asked
  BY DEF GatesOK
<1>2. /\ main.pc = "fetch" /\ UNCHANGED <<conf, counter, jobs>> /\ ins.op = "and"
      /\ gates' \in Allocate(gates) /\ asked' = asked \o A
      /\ main'.pc = "split" /\ main'.ins = ins /\ main'.start = 0
  BY DEF And_multithread, Fetch, Asks, AndGates
<1>3. /\ A \in Seq(Gate) /\ Len(A) = check_args(ins) /\ check_args(ins) \in Nat
  BY <1>1, AndGatesOK, Sums
<1>4. /\ gates' \in [slots : Seq(Gate), buf : Nat] /\ gates'.slots = asked
  BY <1>1, <1>2, Buffer
<1> HIDE DEF A
<1>5. /\ asked' \in Seq(Gate) /\ Len(asked') = Len(asked) + check_args(ins)
      /\ \A g \in 1 .. Len(asked) + check_args(ins) :
            asked'[g] = IF g <= Len(asked) THEN asked[g] ELSE A[g - Len(asked)]
  <2> DEFINE c == asked \o A
  <2>1. /\ c \in Seq(Gate) /\ Len(c) = Len(asked) + Len(A)
        /\ \A g \in 1 .. Len(asked) + Len(A) :
              c[g] = IF g <= Len(asked) THEN asked[g] ELSE A[g - Len(asked)]
    BY <1>1, <1>3, ConcatProperties
  <2>2. asked' = c
    BY <1>2
  <2> HIDE DEF c
  <2> QED BY <1>3, <2>1, <2>2
<1>6. Len(asked) \in Nat
  BY <1>1, SlotsLen
<1>7. Before' = Len(asked)
  BY <1>2, <1>3, <1>5, <1>6 DEF Before
<1>8. bits_before(ins, 0) = 0
  BY DEF bits_before
<1>9. FirstId' = counter
  BY <1>1, <1>2, <1>8 DEF FirstId
<1>10. Workers' = Workers /\ \A w \in Workers : ~Busy(w)'
  BY <1>2, NobodyBusy DEF InSharing, Workers, Busy
<1>11. \A g \in 1 .. Len(asked) : gates'.slots[g] = asked'[g]
  BY <1>3, <1>4, <1>5, <1>6
<1>12. \A h \in 1 .. check_args(ins) : asked'[Len(asked) + h] = A[h]
  <2> TAKE h \in 1 .. check_args(ins)
  <2>1. Len(asked) + h \in 1 .. Len(asked) + check_args(ins) /\ ~(Len(asked) + h <= Len(asked))
        /\ Len(asked) + h - Len(asked) = h
    BY <1>3, <1>6
  <2> QED BY <2>1, <1>5
<1>13. SlotsOK'
  <2>1. \A i \in 1 .. main'.start : FALSE
    BY <1>2
  <2>2. Len(gates'.slots) = Len(asked) + bits_before(ins, 0)
    BY <1>4, <1>6, <1>8
  <2> QED BY <1>1, <1>2, <1>6, <1>7, <1>9, <1>10, <1>11, <1>12, <2>1, <2>2 DEF SlotsOK, A
<1> QED BY <1>1, <1>2, <1>4, <1>5, <1>13 DEF GatesOK, InSharing

(* The slots of a split are made before anybody writes to them.            *)
LEMMA SumsOrdered ==
    ASSUME NEW ins \in Instructions, NEW s \in 0 .. n_tuples(ins), NEW j \in 1 .. s
    PROVE  /\ j \in 1 .. n_tuples(ins) /\ bits_before(ins, s) \in Nat
           /\ ins.upto[j] <= bits_before(ins, s)
<1>1. n_tuples(ins) \in Nat
  BY Sums
<1>2. j \in 1 .. n_tuples(ins) /\ s \in 1 .. n_tuples(ins)
  BY <1>1
<1>3. bits_before(ins, s) = ins.upto[s] /\ bits_before(ins, s) \in Nat
      /\ bits_before(ins, s - 1) \in Nat /\ bits_before(ins, s - 1) < ins.upto[s]
      /\ \A t \in 1 .. s - 1 : ins.upto[t] <= bits_before(ins, s - 1)
  BY <1>2, TupleSums
<1>4. ins.upto[j] \in Nat
  BY <1>2, TupleSums
<1>5. CASE j = s
  BY <1>2, <1>3, <1>5
<1>6. CASE j # s
  <2>1. j \in 1 .. s - 1
    BY <1>1, <1>2, <1>6
  <2> QED BY <2>1, <1>2, <1>3, <1>4
<1> QED BY <1>5, <1>6

LEMMA GatesSplit ==
    ASSUME SharingInv, HandoverOK, RanOK, GatesOK, Split
    PROVE  GatesOK'
<1>1. PICK w \in Workers, end \in Nat : SplitStep(w, end)
  BY SplitIsStep
<1> DEFINE ins == main.ins
           start == main.start
           k == ins.upto[end] - bits_before(ins, start)
           job == [type |-> "and", ins |-> ins, it |-> start, end |-> end,
                   gate |-> Len(gates.slots), buf |-> gates.buf, counter |-> counter]
<1>2. /\ main.pc = "split" /\ w = main.i_thread /\ start < end /\ end <= n_tuples(ins)
      /\ UNCHANGED <<conf, ran, asked>>
      /\ gates' = Skip(gates, k) /\ counter' = counter + k
      /\ jobs' = [jobs EXCEPT ![w] = job]
      /\ main'.ins = ins /\ main'.start = end /\ main'.pc \in {"split", "wait"}
  BY <1>1 DEF SplitStep
<1>3. InSharing /\ InSharing' /\ ins.op = "and" /\ Workers' = Workers
  BY <1>2 DEF InSharing, RanOK, Workers
<1>4. ins \in Instructions /\ start \in Nat /\ n_tuples(ins) \in Nat
  BY <1>3, SharingMain
<1>5. /\ counter \in Nat /\ gates \in [slots : Seq(Gate), buf : Nat] /\ asked \in Seq(Gate)
      /\ SlotsOK
  BY <1>3 DEF GatesOK
<1>6. /\ end \in 1 .. n_tuples(ins) /\ start \in 0 .. n_tuples(ins)
  BY <1>2, <1>4
<1>7. /\ bits_before(ins, end) = ins.upto[end] /\ ins.upto[end] \in Nat
      /\ bits_before(ins, start) \in Nat
  BY <1>4, <1>6, TupleSums, Sums
<1>8. bits_before(ins, start) <= ins.upto[end]
  <2>1. CASE start = 0
    BY <2>1, <1>7 DEF bits_before
  <2>2. CASE start # 0
    <3>1. start \in 1 .. end /\ end \in 0 .. n_tuples(ins)
      BY <2>2, <1>2, <1>4, <1>6
    <3>2. ins.upto[start] <= bits_before(ins, end)
      BY <3>1, <1>4, SumsOrdered
    <3>3. bits_before(ins, start) = ins.upto[start]
      BY <2>2 DEF bits_before
    <3> QED BY <3>2, <3>3, <1>7
  <2> QED BY <2>1, <2>2
<1>9. k \in Nat /\ bits_before(ins, end) = bits_before(ins, start) + k
  BY <1>7, <1>8
<1> DEFINE E == [g \in 1 .. k |-> Empty]
           s == gates.slots
<1> HIDE DEF k
<1>10. E \in Seq(Gate) /\ Len(E) = k
  <2>1. E \in [1 .. k -> Gate]
    BY DEF Gate
  <2> HIDE DEF E
  <2> QED BY <1>9, <2>1, SeqOfFunction
<1>11. gates' = [gates EXCEPT !.slots = s \o E]
  BY <1>2 DEF Skip
<1> HIDE DEF E
<1>12. /\ s \o E \in Seq(Gate) /\ Len(s \o E) = Len(s) + k /\ Len(s) \in Nat
       /\ \A g \in 1 .. Len(s) : (s \o E)[g] = s[g]
  <2>1. s \in Seq(Gate)
    BY <1>5
  <2> HIDE DEF s
  <2>2. /\ s \o E \in Seq(Gate) /\ Len(s \o E) = Len(s) + Len(E) /\ Len(s) \in Nat
        /\ \A g \in 1 .. Len(s) + Len(E) : (s \o E)[g] = IF g <= Len(s) THEN s[g] ELSE E[g - Len(s)]
    BY <1>10, <2>1, ConcatProperties, SlotsLen
  <2>3. ASSUME NEW g \in 1 .. Len(s) PROVE (s \o E)[g] = s[g]
    <3>1. g \in 1 .. Len(s) + Len(E) /\ g <= Len(s)
      BY <2>2, <1>9, <1>10
    <3> QED BY <2>2, <3>1
  <2> QED BY <1>10, <2>2, <2>3
<1> DEFINE t == s \o E
<1> HIDE DEF t
<1>13. /\ gates' \in [slots : Seq(Gate), buf : Nat] /\ gates'.slots = t /\ gates'.buf = gates.buf
  BY <1>5, <1>11, <1>12, NewSlots DEF t
<1>14. /\ t \in Seq(Gate) /\ Len(t) = Len(s) + k /\ \A g \in 1 .. Len(s) : t[g] = s[g]
  BY <1>12 DEF t
<1>15. /\ Before \in Nat /\ FirstId \in Nat /\ Len(s) = Before + bits_before(ins, start)
       /\ \A g \in 1 .. Before : s[g] = asked[g]
       /\ \A h \in 1 .. check_args(ins) : asked[Before + h] = AndGates(ins, FirstId)[h]
       /\ \A i \in 1 .. start : ran[i] = 1 => Written(i)
       /\ \A v \in Workers : Busy(v) =>
             /\ jobs[v].buf = gates.buf
             /\ jobs[v].gate = Before + bits_before(ins, jobs[v].it)
             /\ jobs[v].counter = FirstId + bits_before(ins, jobs[v].it)
  BY <1>5 DEF SlotsOK
<1>16. Before' = Before
  BY <1>2 DEF Before
<1>17. FirstId' = FirstId /\ counter = FirstId + bits_before(ins, start) /\ counter' \in Nat
  <2>1. FirstId' = counter' - bits_before(main'.ins, main'.start)
        /\ FirstId = counter - bits_before(ins, start)
    BY DEF FirstId
  <2>2. bits_before(main'.ins, main'.start) = bits_before(ins, end) /\ counter' = counter + k
    BY <1>2
  <2> DEFINE a == bits_before(ins, start)
             b == bits_before(ins, end)
  <2>3. a \in Nat /\ k \in Nat /\ b = a + k /\ counter \in Nat
    BY <1>5, <1>7, <1>9
  <2>4. FirstId' = counter' - b /\ FirstId = counter - a /\ counter' = counter + k
    BY <2>1, <2>2
  <2> HIDE DEF a, b
  <2>5. counter' \in Nat /\ counter = FirstId + a
    BY <2>3, <2>4
  <2>6. FirstId' = FirstId
    BY <2>3, <2>4
  <2> QED BY <2>5, <2>6 DEF a
<1>18. Len(t) = Before + bits_before(ins, end)
  BY <1>7, <1>9, <1>14, <1>15
<1>19. \A g \in 1 .. Before : t[g] = asked[g]
  <2> TAKE g \in 1 .. Before
  <2>1. g \in 1 .. Len(s)
    BY <1>7, <1>15
  <2> QED BY <2>1, <1>14, <1>15
<1>20. ASSUME NEW j \in 1 .. end, ran[j] = 1 PROVE Written(j)'
  <2>1. j \in 1 .. start
    <3>1. ASSUME j > start PROVE FALSE
      <4>1. j \in start + 1 .. n_tuples(ins)
        BY <3>1, <1>2, <1>4
      <4>2. ran[j] = 0
        BY <4>1, <1>2, <1>3 DEF RanOK
      <4> QED BY <4>2, <1>20
    <3> QED BY <3>1, <1>4
  <2>2. Written(j) /\ j \in 1 .. n_tuples(ins) /\ ins.upto[j] <= bits_before(ins, start)
    BY <2>1, <1>4, <1>6, <1>15, <1>20, SumsOrdered
  <2>3. bits_before(ins, j - 1) \in Nat /\ ins.upto[j] \in Nat
    BY <2>2, <1>4, TupleSums
  <2>4. ASSUME NEW h \in Gates_of(ins, j) PROVE t[Before + h] = asked[Before + h]
    <3>1. h \in Nat /\ h > 0 /\ h <= bits_before(ins, start)
      BY <2>2, <2>3, <1>7 DEF Gates_of
    <3>2. Before + h \in 1 .. Len(s)
      BY <3>1, <1>7, <1>15
    <3>3. s[Before + h] = asked[Before + h]
      BY <2>2 DEF Written
    <3> QED BY <3>2, <3>3, <1>14
  <2> QED BY <2>4, <1>2, <1>13, <1>16 DEF Written
<1>21. ASSUME NEW v \in Workers, Busy(v)'
       PROVE  /\ jobs'[v].buf = gates'.buf
              /\ jobs'[v].gate = Before + bits_before(ins, jobs'[v].it)
              /\ jobs'[v].counter = FirstId + bits_before(ins, jobs'[v].it)
  <2>1. jobs'[v] = IF v = w THEN job ELSE jobs[v]
    BY <1>2 DEF SharingInv, JobsOK
  <2>2. CASE v = w
    <3>1. jobs'[v] = job
      BY <2>1, <2>2
    <3>2. jobs'[v].buf = gates.buf /\ jobs'[v].gate = Len(gates.slots) /\ jobs'[v].counter = counter
          /\ jobs'[v].it = start
      BY <3>1
    <3> QED BY <3>2, <1>13, <1>15, <1>17
  <2>3. CASE v # w
    <3>1. jobs'[v] = jobs[v] /\ Busy(v)
      BY <2>1, <2>3, <1>21 DEF Busy
    <3> QED BY <3>1, <1>13, <1>15
  <2> QED BY <2>2, <2>3
<1> HIDE DEF job, s
<1>22. SlotsOK'
  BY <1>2, <1>3, <1>13, <1>15, <1>16, <1>17, <1>18, <1>19, <1>20, <1>21 DEF SlotsOK
<1> QED BY <1>2, <1>3, <1>5, <1>13, <1>17, <1>22 DEF GatesOK, InSharing

(* A worker writes the gates of one tuple.                                 *)
LEMMA GatesRun ==
    ASSUME SharingInv, HandoverOK, RanOK, GatesOK, LoopsAgree, RoleOK,
           NEW w \in Workers, Worker_runs(w)
    PROVE  GatesOK'
<1> DEFINE ins == main.ins
           i == jobs[w].it + 1
           n == jobs[w].ins.upto[i] - bits_before(jobs[w].ins, jobs[w].it)
<1>1. /\ InSharing /\ UNCHANGED <<conf, main>>
      /\ jobs[w].ins = ins /\ jobs[w].type = ins.op
      /\ jobs[w].it \in Nat /\ jobs[w].end \in Nat /\ i <= jobs[w].end
      /\ jobs[w].end <= main.start /\ main.start <= n_tuples(ins)
      /\ i \in 1 .. n_tuples(ins)
      /\ ran \in [1 .. n_tuples(ins) -> {0, 1}]
      /\ ran' = [ran EXCEPT ![i] = 1]
  BY RunFacts
<1>2. /\ Busy(w) /\ Busy(w)' /\ \A v \in Workers \ {w} : jobs'[v] = jobs[v]
      /\ jobs'[w].it = i /\ jobs'[w].buf = jobs[w].buf
      /\ jobs[w].type = "and" => jobs'[w].gate = jobs[w].gate + n /\ jobs'[w].counter = jobs[w].counter + n
  BY JobAfterRun
<1>3. ins \in Instructions /\ main.start \in Nat /\ n_tuples(ins) \in Nat /\ ins.op \in {"and", "xor"}
  BY <1>1, SharingMain
<1>4. /\ counter \in Nat /\ gates \in [slots : Seq(Gate), buf : Nat] /\ asked \in Seq(Gate)
      /\ UNCHANGED <<counter, asked>> /\ InSharing' /\ Workers' = Workers
  BY <1>1 DEF GatesOK, Worker_runs, InSharing, Workers
<1>5. CASE ins.op = "xor"
  <2>1. UNCHANGED gates
    BY <1>1, <1>5 DEF Worker_runs
  <2> QED BY <1>1, <1>4, <1>5, <2>1 DEF GatesOK, InSharing
<1>6. CASE ins.op = "and"
  <2> DEFINE s == gates.slots
             c == jobs[w].counter
             G == jobs[w].gate
             gs == and_(ins, i, c)
             B == bits_before(ins, i - 1)
             W == width(ins, i)
  <2>1. /\ Before \in Nat /\ FirstId \in Nat /\ Len(s) = Before + bits_before(ins, main.start)
        /\ \A g \in 1 .. Before : s[g] = asked[g]
        /\ \A h \in 1 .. check_args(ins) : asked[Before + h] = AndGates(ins, FirstId)[h]
        /\ \A j \in 1 .. main.start : ran[j] = 1 => Written(j)
        /\ \A v \in Workers : Busy(v) =>
              /\ jobs[v].buf = gates.buf
              /\ jobs[v].gate = Before + bits_before(ins, jobs[v].it)
              /\ jobs[v].counter = FirstId + bits_before(ins, jobs[v].it)
    BY <1>1, <1>6 DEF GatesOK, SlotsOK
  <2>2. Before' = Before /\ FirstId' = FirstId
    BY <1>1, <1>4 DEF Before, FirstId
  <2>3. i - 1 = jobs[w].it /\ i \in 1 .. main.start /\ i \in Nat
    BY <1>1, <1>3
  <2>4. /\ B \in Nat /\ ins.upto[i] \in Nat /\ B < ins.upto[i] /\ W \in Nat
        /\ bits_before(ins, i) = ins.upto[i]
        /\ \A t \in 1 .. i - 1 : ins.upto[t] <= B
    BY <1>1, <1>3, TupleSums
  <2>5. W = ins.upto[i] - B
    BY DEF width
  <2>6. G = Before + B /\ c = FirstId + B /\ jobs[w].buf = gates.buf /\ n = W
    BY <1>1, <1>2, <2>1, <2>3, <2>5
  <2>7. ins.upto[i] <= bits_before(ins, main.start) /\ bits_before(ins, main.start) \in Nat
    <3>1. main.start \in 0 .. n_tuples(ins)
      BY <1>1, <1>3
    <3> QED BY <1>3, <2>3, <3>1, SumsOrdered
  <2>8. gates' = [gates EXCEPT !.slots = [g \in DOMAIN s |->
                     IF g \in G + 1 .. G + Len(gs) THEN gs[g - G] ELSE s[g]]]
    <3>1. gates' = Write(gates, jobs[w].buf, jobs[w].gate, and_(jobs[w].ins, i, jobs[w].counter))
      BY <1>1, <1>6 DEF Worker_runs
    <3>2. gates' = Write(gates, gates.buf, G, gs)
      BY <3>1, <2>6, <1>1
    <3> QED BY <3>2 DEF Write
  <2> HIDE DEF B, W, n, i, G, c
  <2>23. Before \in Nat /\ FirstId \in Nat /\ B \in Nat /\ W \in Nat /\ ins.upto[i] \in Nat
         /\ ins.upto[i] = B + W /\ bits_before(ins, i) = B + W /\ G = Before + B /\ c = FirstId + B
    BY <2>1, <2>4, <2>5, <2>6
  <2>9. c \in Nat /\ Len(gs) = W /\ \A k \in 1 .. W : gs[k] = op(ins, i, k - 1, c + k)
    <3>1. c \in Nat /\ check_args(ins) >= conf.threshold
      BY <1>1, <1>6, <2>1, <2>4, <2>6 DEF RanOK
    <3> QED BY <1>1, <1>3, <1>6, <3>1, TupleIsOp DEF W
  <2> HIDE DEF gs
  <2>10. \A k \in 1 .. W : gs[k] \in Gate
    <3> TAKE k \in 1 .. W
    <3>1. k - 1 \in Nat /\ c + k \in Nat
      BY <2>4, <2>9
    <3>2. op(ins, i, k - 1, c + k) \in Gate
      BY <3>1, <1>1, <1>3, GateType
    <3> QED BY <3>2, <2>9
  <2> DEFINE t == [g \in DOMAIN s |-> IF g \in G + 1 .. G + W THEN gs[g - G] ELSE s[g]]
  <2>11. s \in Seq(Gate) /\ Len(s) \in Nat /\ DOMAIN s = 1 .. Len(s) /\ \A g \in 1 .. Len(s) : s[g] \in Gate
    <3>1. s \in Seq(Gate)
      BY <1>4
    <3> QED BY <3>1, SlotsLen
  <2> HIDE DEF s
  <2>12. G \in Nat /\ \A g \in G + 1 .. G + W : g - G \in 1 .. W
    BY <2>1, <2>4, <2>6
  <2>13. /\ DOMAIN t = 1 .. Len(s)
         /\ \A g \in 1 .. Len(s) : g \in G + 1 .. G + W => t[g] = gs[g - G]
         /\ \A g \in 1 .. Len(s) : g \notin G + 1 .. G + W => t[g] = s[g]
    BY <2>11
  <2>14. t \in Seq(Gate) /\ Len(t) = Len(s)
    <3>1. \A g \in 1 .. Len(s) : t[g] \in Gate
      BY <2>10, <2>11, <2>12, <2>13
    <3>2. t \in [1 .. Len(s) -> Gate]
      BY <3>1, <2>11
    <3> HIDE DEF t
    <3> QED BY <3>2, <2>11, SeqOfFunction
  <2>15. gates' = [gates EXCEPT !.slots = t]
    BY <2>8, <2>9 DEF s
  <2> HIDE DEF t
  <2>16. gates' \in [slots : Seq(Gate), buf : Nat] /\ gates'.slots = t /\ gates'.buf = gates.buf
    BY <1>4, <2>14, <2>15, NewSlots
  <2>17. \A g \in 1 .. Before : t[g] = asked[g]
    <3> TAKE g \in 1 .. Before
    <3>1. g \in 1 .. Len(s) /\ g \notin G + 1 .. G + W
      BY <2>1, <2>4, <2>6, <2>7 DEF s
    <3>2. s[g] = asked[g]
      BY <2>1 DEF s
    <3> QED BY <3>1, <3>2, <2>13
  <2>18. ASSUME NEW h \in Gates_of(ins, i) PROVE t[Before + h] = asked[Before + h]
    <3>1. /\ h \in 1 .. check_args(ins) /\ h - B \in 1 .. W
      BY <1>1, <1>3, TupleIsMin DEF B, W
    <3>2. h \in Nat /\ check_args(ins) \in Nat
      BY <1>3, <3>1, Sums
    <3>4. Before + h \in 1 .. Len(s)
      <4>1. h <= ins.upto[i]
        BY <2>4 DEF Gates_of, B
      <4>2. Len(s) = Before + bits_before(ins, main.start)
        BY <2>1 DEF s
      <4> QED BY <4>1, <4>2, <3>1, <3>2, <2>1, <2>4, <2>7
    <3>5. t[Before + h] = gs[h - B]
      <4>1. PICK g \in 1 .. Len(s) : g = Before + h
        BY <3>4
      <4>2. g \in G + 1 .. G + W /\ g - G = h - B
        <5>1. g = Before + h /\ h \in Nat /\ h - B \in 1 .. W
          BY <4>1, <3>1, <3>2
        <5> QED BY <5>1, <2>23
      <4>3. t[g] = gs[g - G]
        BY <4>2, <2>13
      <4> QED BY <4>1, <4>2, <4>3
    <3>6. gs[h - B] = op(ins, i, h - B - 1, c + (h - B))
      BY <3>1, <2>9
    <3>7. c + (h - B) = FirstId + h
      BY <3>2, <2>1, <2>4, <2>6
    <3>8. asked[Before + h] = op(ins, i, h - B - 1, FirstId + h)
      BY <3>1, <1>1, <1>3, <2>1, AndGatesOK DEF B
    <3> QED BY <3>5, <3>6, <3>7, <3>8
  <2>19. ASSUME NEW j \in 1 .. main.start, ran'[j] = 1 PROVE Written(j)'
    <3>1. ASSUME NEW h \in Gates_of(ins, j) PROVE t[Before + h] = asked[Before + h]
      <4>1. CASE j = i
        BY <4>1, <3>1, <2>18
      <4>2. CASE j # i
        <5>1. j \in 1 .. n_tuples(ins) /\ ins.upto[j] <= bits_before(ins, main.start)
          <6>1. main.start \in 0 .. n_tuples(ins)
            BY <1>1, <1>3
          <6> QED BY <6>1, <1>3, SumsOrdered
        <5>2. ran[j] = 1
          BY <4>2, <5>1, <2>19, <1>1
        <5>3. s[Before + h] = asked[Before + h]
          BY <5>2, <3>1, <2>1 DEF Written, s
        <5>4. /\ bits_before(ins, j - 1) \in Nat /\ ins.upto[j] \in Nat
              /\ \A u \in 1 .. j - 1 : ins.upto[u] <= bits_before(ins, j - 1)
          BY <5>1, <1>3, TupleSums
        <5>5. h \in Nat /\ bits_before(ins, j - 1) < h /\ h <= ins.upto[j]
          BY <3>1, <5>4 DEF Gates_of
        <5>6. h <= B \/ ins.upto[i] < h
          <6>1. CASE j < i
            <7>1. j \in 1 .. i - 1
              BY <6>1, <5>1, <2>3, <1>3
            <7> QED BY <7>1, <5>4, <5>5, <2>4
          <6>2. CASE i < j
            <7>1. i \in 1 .. j - 1
              BY <6>2, <5>1, <2>3, <1>3
            <7> QED BY <7>1, <5>4, <5>5, <2>4
          <6> QED BY <6>1, <6>2, <4>2, <5>1, <2>3, <1>3
        <5>7. Before + h \notin G + 1 .. G + W
          BY <5>5, <5>6, <2>23
        <5>8. Before + h \in 1 .. Len(s)
          <6>1. Len(s) = Before + bits_before(ins, main.start)
            BY <2>1 DEF s
          <6> QED BY <6>1, <5>1, <5>4, <5>5, <2>1, <2>7
        <5> QED BY <5>3, <5>7, <5>8, <2>13
      <4> QED BY <4>1, <4>2
    <3> QED BY <3>1, <1>1, <1>4, <2>2, <2>16 DEF Written
  <2>20. ASSUME NEW v \in Workers, Busy(v)'
         PROVE  /\ jobs'[v].buf = gates'.buf
                /\ jobs'[v].gate = Before + bits_before(ins, jobs'[v].it)
                /\ jobs'[v].counter = FirstId + bits_before(ins, jobs'[v].it)
    <3>1. CASE v = w
      <4>1. jobs'[w].gate = G + W /\ jobs'[w].counter = c + W
        BY <1>1, <1>2, <1>6, <2>6 DEF G, c
      <4>2. G + W = Before + bits_before(ins, i) /\ c + W = FirstId + bits_before(ins, i)
        BY <2>23
      <4> QED BY <3>1, <4>1, <4>2, <1>2, <2>6, <2>16
    <3>2. CASE v # w
      <4>1. jobs'[v] = jobs[v] /\ Busy(v)
        BY <3>2, <2>20, <1>2 DEF Busy
      <4> QED BY <4>1, <2>1, <2>16
    <3> QED BY <3>1, <3>2
  <2>21. Len(t) = Before + bits_before(ins, main.start)
    BY <2>1, <2>14 DEF s
  <2>22. SlotsOK'
    BY <1>1, <1>4, <2>1, <2>2, <2>16, <2>17, <2>19, <2>20, <2>21 DEF SlotsOK
  <2> QED BY <1>1, <1>4, <1>6, <2>16, <2>22 DEF GatesOK, InSharing
<1> QED BY <1>3, <1>5, <1>6

(* The last result is taken: every slot was written.                       *)
LEMMA GatesDone ==
    ASSUME SharingInv, HandoverOK, RanOK, RanOK', GatesOK, Wait_done
    PROVE  GatesOK'
<1>1. /\ main.pc = "wait" /\ UNCHANGED <<conf, counter, gates, jobs, ran, asked>>
      /\ main.waited + 1 = main.i_thread => main' = [pc |-> "fetch"]
      /\ main.waited + 1 # main.i_thread =>
            main'.pc = "wait" /\ main'.ins = main.ins /\ main'.start = main.start
  BY WaitDoneFacts
<1>2. InSharing
  BY <1>1 DEF InSharing
<1>3. CASE main.waited + 1 # main.i_thread
  <2>1. main'.pc = "wait" /\ main'.ins = main.ins /\ main'.start = main.start
        /\ InSharing' /\ \A v \in Workers : Busy(v)' => Busy(v) /\ jobs'[v] = jobs[v]
    BY <1>1, <1>3 DEF InSharing, Busy
  <2> QED BY <1>1, <1>2, <2>1, GatesKept
<1>4. CASE main.waited + 1 = main.i_thread
  <2> DEFINE ins == main.ins
             s == gates.slots
  <2>1. main'.pc = "fetch"
    BY <1>1, <1>4
  <2>2. \A j \in DOMAIN ran : ran[j] = 1
    BY <1>1, <2>1 DEF RanOK
  <2>3. ins \in Instructions /\ n_tuples(ins) \in Nat /\ ins.op \in {"and", "xor"}
    BY <1>2, SharingMain
  <2>4. counter \in Nat /\ gates \in [slots : Seq(Gate), buf : Nat] /\ asked \in Seq(Gate)
    BY DEF GatesOK
  <2>5. s = asked
    <3>1. CASE ins.op = "xor"
      BY <1>2, <3>1 DEF GatesOK
    <3>2. CASE ins.op = "and"
      <4>1. /\ main.start = n_tuples(ins) /\ DOMAIN ran = 1 .. n_tuples(ins)
        BY <1>1, <1>2, <3>2 DEF RanOK
      <4>2. /\ Before \in Nat /\ Len(s) = Before + bits_before(ins, n_tuples(ins))
            /\ \A g \in 1 .. Before : s[g] = asked[g]
            /\ \A j \in 1 .. n_tuples(ins) : Written(j)
        BY <1>2, <2>2, <3>2, <4>1 DEF GatesOK, SlotsOK
      <4>3. bits_before(ins, n_tuples(ins)) = check_args(ins) /\ check_args(ins) \in Nat
        BY <2>3, Sums DEF bits_before, check_args
      <4>4. Len(asked) \in Nat /\ Len(asked) = Before + check_args(ins)
        BY <2>4, <4>2, <4>3, SlotsLen DEF Before
      <4>5. ASSUME NEW g \in 1 .. Len(s) PROVE s[g] = asked[g]
        <5>1. CASE g <= Before
          BY <5>1, <4>2
        <5>2. CASE ~(g <= Before)
          <6>1. PICK h \in 1 .. check_args(ins) : g = Before + h
            <7>1. g - Before \in 1 .. check_args(ins) /\ g = Before + (g - Before)
              BY <5>2, <4>2, <4>3
            <7> QED BY <7>1
          <6>2. PICK j \in 1 .. n_tuples(ins) : h \in Gates_of(ins, j)
            BY <2>3, InATuple
          <6> QED BY <6>1, <6>2, <4>2 DEF Written
        <5> QED BY <5>1, <5>2
      <4>6. s \in Seq(Gate) /\ Len(s) = Len(asked)
        BY <2>4, <4>2, <4>3, <4>4
      <4> HIDE DEF s
      <4> QED BY <2>4, <4>5, <4>6, SeqEqual
    <3> QED BY <2>3, <3>1, <3>2
  <2> QED BY <1>1, <2>1, <2>4, <2>5 DEF GatesOK, InSharing
<1> QED BY <1>3, <1>4

LEMMA GatesNext ==
    SharingInv /\ HandoverOK /\ RanOK /\ RanOK' /\ RoleOK /\ LoopsAgree /\ GatesOK /\ [Next]_vars
        => GatesOK'
<1> SUFFICES ASSUME SharingInv, HandoverOK, RanOK, RanOK', RoleOK, LoopsAgree, GatesOK, [Next]_vars
             PROVE  GatesOK'
  OBVIOUS
<1>0. /\ counter \in Nat /\ gates \in [slots : Seq(Gate), buf : Nat] /\ asked \in Seq(Gate)
      /\ main.pc = "fetch" => gates.slots = asked
  BY DEF GatesOK
<1>1. ASSUME NEW ins \in Instructions, And_few(ins) \/ And_singlethread(ins) PROVE GatesOK'
  BY <1>1, GatesExecuted
<1>2. ASSUME NEW ins \in Instructions, And_multithread(ins) PROVE GatesOK'
  BY <1>2, GatesBegun
<1>3. ASSUME NEW ins \in Instructions, Xor_few(ins) \/ Xor_multithread(ins) PROVE GatesOK'
  <2>1. /\ main.pc = "fetch" /\ ins.op = "xor" /\ UNCHANGED <<counter, gates, asked>>
    BY <1>3 DEF Xor_few, Xor_multithread, Fetch
  <2>2. main' = main \/ (main'.ins = ins /\ main'.pc = "xor")
    <3>1. CASE Xor_few(ins)
      BY <3>1 DEF Xor_few
    <3>2. CASE Xor_multithread(ins)
      BY <3>2 DEF Xor_multithread
    <3> QED BY <1>3, <3>1, <3>2
  <2>3. InSharing' => main'.ins.op = "xor"
    BY <2>1, <2>2 DEF InSharing
  <2> QED BY <1>0, <2>1, <2>3 DEF GatesOK
<1>4. CASE NextBatch
  <2>1. /\ main.pc = "fetch" /\ UNCHANGED <<main, counter>> /\ asked' = <<>>
        /\ gates' = [gates EXCEPT !.slots = <<>>]
    BY <1>4 DEF NextBatch
  <2>2. <<>> \in Seq(Gate)
    OBVIOUS
  <2>3. gates' \in [slots : Seq(Gate), buf : Nat] /\ gates'.slots = <<>>
    BY <1>0, <2>1, <2>2, NewSlots
  <2> QED BY <1>0, <2>1, <2>2, <2>3 DEF GatesOK, InSharing
<1>5. CASE Destroy \/ Stop_worker \/ Join_worker
  <2>1. UNCHANGED <<counter, gates, asked>>
    BY <1>5 DEF Destroy, Stop_worker, Join_worker
  <2>2. main'.pc \in {"stop", "join", "end"}
    <3>1. CASE Destroy
      BY <3>1 DEF Destroy
    <3>2. CASE Stop_worker
      <4>1. main \in [pc : {"stop", "join"}, worker : Nat]
        BY <3>2 DEF Stop_worker, SharingInv, MainOK, Sharing
      <4> QED BY <3>2, <4>1 DEF Stop_worker
    <3>3. CASE Join_worker
      BY <3>3 DEF Join_worker
    <3> QED BY <1>5, <3>1, <3>2, <3>3
  <2> QED BY <1>0, <2>1, <2>2 DEF GatesOK, InSharing
<1>6. CASE Split
  BY <1>6, GatesSplit
<1>7. CASE Xor_dispatch \/ Xor_rest
  <2>1. /\ main.pc = "xor" /\ main'.ins = main.ins /\ main'.pc \in {"xor", "wait"}
        /\ UNCHANGED <<counter, gates, asked>>
    BY <1>7, XorFacts, XorRestFacts
  <2>2. main.ins.op = "xor" /\ InSharing
    BY <2>1 DEF RanOK, InSharing
  <2>3. gates.slots = asked
    BY <2>2 DEF GatesOK
  <2> QED BY <1>0, <2>1, <2>2, <2>3 DEF GatesOK, InSharing
<1>8. CASE Wait_done
  BY <1>8, GatesDone
<1>9. ASSUME UNCHANGED <<conf, main, counter, gates, jobs, ran, asked>> PROVE GatesOK'
  BY <1>9, GatesKept DEF InSharing, Busy
<1>10. CASE Wait_blocks
  BY <1>9, <1>10 DEF Wait_blocks
<1>11. ASSUME NEW w \in Workers, Worker_blocks(w) \/ Worker_pops(w) \/ Worker_pushes(w)
       PROVE  GatesOK'
  BY <1>9, <1>11 DEF Worker_blocks, Worker_pops, Worker_pushes
<1>12. ASSUME NEW w \in Workers, Worker_runs(w) PROVE GatesOK'
  BY <1>12, GatesRun
<1>13. ASSUME NEW w \in Workers, Worker_ends(w) PROVE GatesOK'
  <2>1. /\ UNCHANGED <<conf, main, counter, gates, ran, asked>> /\ jobs' = [jobs EXCEPT ![w] = NoJob]
    BY <1>13 DEF Worker_ends
  <2>2. \A v \in Workers : jobs'[v] = IF v = w THEN NoJob ELSE jobs[v]
    BY <2>1 DEF SharingInv, JobsOK
  <2>3. \A v \in Workers : Busy(v)' => Busy(v) /\ jobs'[v] = jobs[v]
    BY <2>2 DEF Busy, NoJob
  <2> QED BY <2>1, <2>3, GatesKept DEF InSharing
<1>14. CASE UNCHANGED vars
  BY <1>9, <1>14 DEF vars
<1> QED
  BY <1>1, <1>2, <1>3, <1>4, <1>5, <1>6, <1>7, <1>8, <1>10, <1>11, <1>12, <1>13, <1>14
     DEF Next, Execute, MainGoesOn, WorkerStep

OrderInv == SharingInv /\ HandoverOK /\ RanOK /\ RoleOK /\ (LoopsAgree => GatesOK)

LEMMA OrderInit == Init => OrderInv
<1>1. Init => RoleOK
  BY DEF Init, RoleOK
<1> QED BY <1>1, SharingInit, HandoverInit, RanInit, GatesInit DEF OrderInv

LEMMA OrderNext == OrderInv /\ [Next]_vars => OrderInv'
<1> SUFFICES ASSUME OrderInv, [Next]_vars PROVE OrderInv'
  OBVIOUS
<1>1. SharingInv' /\ HandoverOK' /\ RanOK'
  BY SharingNext, HandoverNext, RanNext DEF OrderInv
<1>2. UNCHANGED conf
  BY DEF Next, Execute, MainGoesOn, WorkerStep, vars, And_few, And_singlethread, And_multithread,
         Xor_few, Xor_multithread, NextBatch, Destroy, Split, Xor_dispatch, Xor_rest, Wait_blocks,
         Wait_done, Stop_worker, Join_worker, Worker_blocks, Worker_pops, Worker_runs, Worker_ends,
         Worker_pushes
<1>3. RoleOK' /\ (LoopsAgree' => LoopsAgree)
  BY <1>2 DEF OrderInv, RoleOK, LoopsAgree
<1> QED BY <1>1, <1>3, GatesNext DEF OrderInv

(* Whatever the number of workers, the threshold and the interleaving of   *)
(* the workers, every tuple of an instruction is executed once, and the    *)
(* buffer holds the gates processor.and_ would have made one after the     *)
(* other: for programs without the ANDRS on which the garbler's loops are  *)
(* at odds with processor.and_.                                            *)
THEOREM GatesInOrder == NarrowAndrs /\ Spec => []InOrder
<1>1. OrderInv /\ NarrowAndrs => InOrder
  BY DEF OrderInv, LoopsAgree, GatesOK, RanOK, InOrder
<1>2. NarrowAndrs => NarrowAndrs'
  BY DEF NarrowAndrs, n_tuples, width, bits_before, check_args
<1> QED BY <1>1, <1>2, OrderInit, OrderNext, PTL DEF Spec

(* The evaluator's loops make the same gates for every program.            *)
THEOREM EvaluatorInOrder == Spec => [](conf.role = "evaluator" => InOrder)
<1>1. OrderInv => (conf.role = "evaluator" => InOrder)
  BY DEF OrderInv, LoopsAgree, GatesOK, RanOK, InOrder
<1> QED BY <1>1, OrderInit, OrderNext, PTL DEF Spec
=============================================================================
