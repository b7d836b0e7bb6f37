----------------------------- MODULE WorkQueue -----------------------------
(***************************************************************************)
(* Proton's work queue as the handlers use it (external: the library is    *)
(* not in the repository).  schedule(delay, job) makes a job runnable once *)
(* its delay is over; the event loop runs one runnable job, or one         *)
(* protocol event, at a time.  A queue maps each kind of job and each      *)
(* remaining delay, in ticks, to the number of pending jobs of that kind   *)
(* and delay, so two chains of the same job are told apart from one.       *)
(* A runnable job may stay so while time passes: the loop can be late.     *)
(***************************************************************************)
EXTENDS Integers

IMMEDIATE == 0

Queues(jobs, delays) == [jobs -> [delays -> Nat]]

NoJobs(jobs, delays) == [j \in jobs |-> [d \in delays |-> 0]]

Schedule(queue, job, delay) == [queue EXCEPT ![job][delay] = @ + 1]

Runnable(queue, job) == queue[job][0] > 0

Take(queue, job) == [queue EXCEPT ![job][0] = @ - 1]

Waiting(queue) == \E j \in DOMAIN queue : \E d \in DOMAIN queue[j] :
                      d > 0 /\ queue[j][d] > 0

(* One tick: every job that still waits is one tick closer.                 *)
Elapse(queue) ==
    [j \in DOMAIN queue |-> [d \in DOMAIN queue[j] |->
        (IF d + 1 \in DOMAIN queue[j] THEN queue[j][d + 1] ELSE 0)
      + (IF d = 0 THEN queue[j][0] ELSE 0)]]

Pending(queue, job) == \E d \in DOMAIN queue[job] : queue[job][d] > 0

AtMostOne(queue, job) ==
    \A d, e \in DOMAIN queue[job] :
        queue[job][d] > 0 /\ queue[job][e] > 0 => d = e /\ queue[job][d] = 1
=============================================================================
