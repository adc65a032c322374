----------------------------- MODULE WaitQueue ------------------------------
(***************************************************************************)
(* Tools/WaitQueue.h: a deque guarded by a mutex, with a condition         *)
(* variable for the thread that pops.  Every queue of the Yao parties has  *)
(* one popping thread.  push and stop hold the mutex throughout and are    *)
(* one step each.  pop gives the mutex up while it waits, so it is two     *)
(* steps when the queue is empty: it begins to wait, and, once signalled,  *)
(* goes on without looking at the queue again (`if', not `while').         *)
(*                                                                         *)
(* cond says where the popping thread is: not in pthread_cond_wait,        *)
(* waiting there, or signalled and not yet back.  pthread_cond_wait is     *)
(* taken to return only when signalled.                                    *)
(***************************************************************************)
EXTENDS Naturals, Sequences

WaitQueueOf(T) ==
    [queue : Seq(T), running : BOOLEAN, cond : {"none", "waiting", "signalled"}]

NewQueue == [queue |-> <<>>, running |-> TRUE, cond |-> "none"]

signal(q) ==
    [q EXCEPT !.cond = IF q.cond = "waiting" THEN "signalled" ELSE q.cond]

(* Mutant: push does not signal.                                           *)
push_no_signal(q, value) == [q EXCEPT !.queue = Append(q.queue, value)]

push(q, value) == signal([q EXCEPT !.queue = Append(q.queue, value)])

stop(q) == signal([q EXCEPT !.running = FALSE])

(* pop finds nothing and waits.                                            *)
PopWaits(q) == q.cond = "none" /\ q.running /\ q.queue = <<>>
wait(q) == [q EXCEPT !.cond = "waiting"]

(* pop goes on past its wait.  What it returns is the running flag; it     *)
(* takes the front only when that is still set.                            *)
PopGoesOn(q) ==
    \/ q.cond = "signalled"
    \/ q.cond = "none" /\ ~(q.running /\ q.queue = <<>>)
pop(q) ==
    [q EXCEPT !.cond = "none",
              !.queue = IF q.running THEN Tail(q.queue) ELSE q.queue]
=============================================================================
