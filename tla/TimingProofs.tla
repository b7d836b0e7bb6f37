---------------------------- MODULE TimingProofs ----------------------------
(***************************************************************************)
(* What reset and operator-- do to a countdown, and what scheduling,       *)
(* taking and waiting do to a work queue: the facts every handler's proof  *)
(* needs about its timer and its chains of jobs.                           *)
(***************************************************************************)
EXTENDS Timer, WorkQueue, TLAPS

(* A timer with a finite timeout has between nothing and all of it left.    *)
WithinBounds(t) == t.timeout >= 0 => t.remaining \in 0..t.timeout

(* A new timer has everything left.                                         *)
LEMMA NewTimerFacts ==
    ASSUME NEW T \in Int
    PROVE  /\ NewTimer(T) \in Timers
           /\ NewTimer(T).timeout = T
           /\ NewTimer(T).remaining = T
           /\ WithinBounds(NewTimer(T))
  BY DEF NewTimer, Timers, WithinBounds

(* reset() gives everything back and leaves the timeout alone.              *)
LEMMA ResetFacts ==
    ASSUME NEW t \in Timers
    PROVE  /\ Reset(t) \in Timers
           /\ Reset(t).timeout = t.timeout
           /\ Reset(t).remaining = t.timeout
           /\ WithinBounds(Reset(t))
  BY DEF Reset, Timers, WithinBounds

(* operator-- takes one off a timer that counts, and the timer of a handler *)
(* that has not expired stays within its bounds.                            *)
LEMMA DecrementFacts ==
    ASSUME NEW t \in Timers
    PROVE  /\ Decrement(t) \in Timers
           /\ Decrement(t).timeout = t.timeout
           /\ t.timeout # FOREVER => Decrement(t).remaining = t.remaining - 1
           /\ t.timeout = FOREVER => Decrement(t).remaining = t.remaining
           /\ WithinBounds(t) /\ ~IsExpired(t) => WithinBounds(Decrement(t))
  BY DEF Decrement, Timers, WithinBounds, IsExpired, FOREVER

(* A timer within its bounds that has not expired is decremented without an *)
(* exception, for the timeouts the option is meant for.                     *)
LEMMA NoThrow ==
    ASSUME NEW t \in Timers, WithinBounds(t), ~IsExpired(t),
           t.timeout >= FOREVER
    PROVE  ~DecrementThrows(t)
  BY DEF Timers, WithinBounds, IsExpired, DecrementThrows, FOREVER

(* A second is at least one tick, so products with it keep an order.        *)
LEMMA SecondFacts ==
    ASSUME NEW second \in Nat \ {0}, NEW n \in Int, NEW m \in Int
    PROVE  /\ n * second \in Int
           /\ (n + 1) * second = n * second + second
           /\ n <= m => n * second <= m * second
           /\ n < 0 => n * second < 0
           /\ 0 * second = 0
  OBVIOUS
-----------------------------------------------------------------------------
(* A scheduled job is one more pending job of its kind and delay.           *)
LEMMA ScheduleType ==
    ASSUME NEW jobs, NEW delays, NEW q \in Queues(jobs, delays),
           NEW j \in jobs, NEW d \in delays
    PROVE  Schedule(q, j, d) \in Queues(jobs, delays)
  BY DEF Queues, Schedule

(* Only a runnable job is taken, so a queue never holds less than no job.   *)
LEMMA TakeType ==
    ASSUME NEW jobs, NEW delays, 0 \in delays, NEW q \in Queues(jobs, delays),
           NEW j \in jobs, Runnable(q, j)
    PROVE  Take(q, j) \in Queues(jobs, delays)
  BY DEF Queues, Take, Runnable

(* The passage of time keeps the shape of a queue.                          *)
LEMMA ElapseType ==
    ASSUME NEW jobs, NEW delays, NEW q \in Queues(jobs, delays)
    PROVE  Elapse(q) \in Queues(jobs, delays)
  <1>1. ASSUME NEW j \in jobs, NEW d \in delays
        PROVE  (IF d + 1 \in delays THEN q[j][d + 1] ELSE 0)
               + (IF d = 0 THEN q[j][0] ELSE 0) \in Nat
    BY <1>1 DEF Queues
  <1> QED BY <1>1 DEF Queues, Elapse

(* Only the cell of that job and delay changes.                             *)
LEMMA ScheduleCells ==
    ASSUME NEW jobs, NEW delays, NEW q \in Queues(jobs, delays),
           NEW j \in jobs, NEW d \in delays,
           NEW k \in jobs, NEW e \in delays
    PROVE  Schedule(q, j, d)[k][e]
               = IF k = j /\ e = d THEN q[k][e] + 1 ELSE q[k][e]
  BY DEF Queues, Schedule

(* Only the runnable cell of that job changes.                              *)
LEMMA TakeCells ==
    ASSUME NEW jobs, NEW delays, 0 \in delays, NEW q \in Queues(jobs, delays),
           NEW j \in jobs, NEW k \in jobs, NEW e \in delays
    PROVE  Take(q, j)[k][e] = IF k = j /\ e = 0 THEN q[k][e] - 1 ELSE q[k][e]
  BY DEF Queues, Take

(* Every cell gets what waited one tick longer; what is runnable stays so.  *)
LEMMA ElapseCells ==
    ASSUME NEW jobs, NEW delays, NEW q \in Queues(jobs, delays),
           NEW k \in jobs, NEW e \in delays
    PROVE  Elapse(q)[k][e] = (IF e + 1 \in delays THEN q[k][e + 1] ELSE 0)
                             + (IF e = 0 THEN q[k][0] ELSE 0)
  BY DEF Queues, Elapse

(* A chain that is not pending can be started without forking.              *)
LEMMA ScheduleOne ==
    ASSUME NEW jobs, NEW delays, NEW q \in Queues(jobs, delays),
           NEW j \in jobs, NEW d \in delays, ~Pending(q, j)
    PROVE  /\ AtMostOne(Schedule(q, j, d), j)
           /\ Pending(Schedule(q, j, d), j)
  <1> DEFINE s == Schedule(q, j, d)
  <1>1. s \in Queues(jobs, delays) BY ScheduleType
  <1>2. DOMAIN s[j] = delays /\ DOMAIN q[j] = delays BY <1>1 DEF Queues
  <1>3. \A e \in delays : q[j][e] = 0 BY <1>2 DEF Pending, Queues
  <1>4. \A e \in delays : s[j][e] = IF e = d THEN 1 ELSE 0
    BY <1>3, ScheduleCells
  <1> HIDE DEF s
  <1>5. AtMostOne(s, j) /\ Pending(s, j) BY <1>2, <1>4 DEF AtMostOne, Pending
  <1> QED BY <1>5 DEF s

(* Running the only job of a chain leaves none of it pending.               *)
LEMMA TakeOne ==
    ASSUME NEW jobs, NEW delays, 0 \in delays, NEW q \in Queues(jobs, delays),
           NEW j \in jobs, AtMostOne(q, j), Runnable(q, j)
    PROVE  ~Pending(Take(q, j), j)
  <1> DEFINE t == Take(q, j)
  <1>1. t \in Queues(jobs, delays) BY TakeType
  <1>2. DOMAIN t[j] = delays /\ DOMAIN q[j] = delays BY <1>1 DEF Queues
  <1>3. q[j][0] = 1 /\ \A e \in delays : e # 0 => q[j][e] = 0
    BY <1>2 DEF AtMostOne, Runnable, Queues
  <1>4. \A e \in delays : t[j][e] = 0 BY <1>3, TakeCells
  <1> HIDE DEF t
  <1>5. ~Pending(t, j) BY <1>2, <1>4 DEF Pending
  <1> QED BY <1>5 DEF t

(* The other chains do not notice.                                          *)
LEMMA OtherChains ==
    ASSUME NEW jobs, NEW delays, 0 \in delays, NEW q \in Queues(jobs, delays),
           NEW j \in jobs, NEW d \in delays, NEW k \in jobs, k # j
    PROVE  /\ Schedule(q, j, d)[k] = q[k]
           /\ Take(q, j)[k] = q[k]
  BY DEF Queues, Schedule, Take

(* A job that runs and schedules itself again is the one of its chain, at    *)
(* the new delay alone, and the other chains do not notice.                 *)
LEMMA RunAgain ==
    ASSUME NEW jobs, NEW delays, 0 \in delays, NEW q \in Queues(jobs, delays),
           NEW j \in jobs, NEW d \in delays,
           AtMostOne(q, j), Runnable(q, j)
    PROVE  /\ AtMostOne(Schedule(Take(q, j), j, d), j)
           /\ Pending(Schedule(Take(q, j), j, d), j)
           /\ \A e \in delays :
                 Schedule(Take(q, j), j, d)[j][e] > 0 => e = d
           /\ \A k \in jobs : k # j => Schedule(Take(q, j), j, d)[k] = q[k]
  <1> DEFINE t == Take(q, j)
  <1>1. t \in Queues(jobs, delays) /\ ~Pending(t, j) BY TakeType, TakeOne
  <1>2. \A e \in delays : ~(t[j][e] > 0) BY <1>1 DEF Pending, Queues
  <1>3. \A k \in jobs : k # j => t[k] = q[k] BY OtherChains
  <1> HIDE DEF t
  <1>4. AtMostOne(Schedule(t, j, d), j) /\ Pending(Schedule(t, j, d), j)
    BY <1>1, ScheduleOne
  <1>5. \A e \in delays : Schedule(t, j, d)[j][e] > 0 => e = d
    BY <1>1, <1>2, ScheduleCells
  <1>6. \A k \in jobs : k # j => Schedule(t, j, d)[k] = q[k]
    BY <1>1, <1>3, OtherChains
  <1> QED BY <1>4, <1>5, <1>6 DEF t

(* A queue in which something waits or can run has a chain.                 *)
LEMMA RunnableIsPending ==
    ASSUME NEW jobs, NEW delays, 0 \in delays, NEW q \in Queues(jobs, delays),
           NEW j \in jobs, Runnable(q, j)
    PROVE  Pending(q, j)
  BY DEF Runnable, Pending, Queues

(* Whatever else of its chain is pending, a scheduled job is, at its delay. *)
LEMMA SchedulePending ==
    ASSUME NEW jobs, NEW delays, NEW q \in Queues(jobs, delays),
           NEW j \in jobs, NEW d \in delays
    PROVE  /\ Schedule(q, j, d)[j][d] > 0
           /\ Pending(Schedule(q, j, d), j)
  <1>1. Schedule(q, j, d) \in Queues(jobs, delays) BY ScheduleType
  <1>2. Schedule(q, j, d)[j][d] = q[j][d] + 1 BY ScheduleCells
  <1>3. q[j][d] \in Nat BY DEF Queues
  <1> QED BY <1>1, <1>2, <1>3 DEF Pending, Queues

(* What can run can still run a tick later: the loop may be late.           *)
LEMMA ElapseRunnable ==
    ASSUME NEW jobs, NEW max \in Nat, NEW q \in Queues(jobs, 0..max),
           NEW j \in jobs, Runnable(q, j)
    PROVE  Runnable(Elapse(q), j)
  <1>1. Elapse(q)[j][0] = (IF 0 + 1 \in 0..max THEN q[j][0 + 1] ELSE 0)
                          + (IF 0 = 0 THEN q[j][0] ELSE 0)
    BY ElapseCells
  <1>2. \A e \in 0..max : q[j][e] \in Nat BY DEF Queues
  <1> QED BY <1>1, <1>2 DEF Runnable

(* Only something that waits makes a tick.                                  *)
LEMMA WaitingIsPending ==
    ASSUME NEW jobs, NEW delays, NEW q \in Queues(jobs, delays), Waiting(q)
    PROVE  \E j \in jobs : Pending(q, j)
  BY DEF Waiting, Pending, Queues

(* What waited a tick longer, or could run already.                         *)
LEMMA ElapseFrom ==
    ASSUME NEW jobs, NEW max \in Nat, NEW q \in Queues(jobs, 0..max),
           NEW j \in jobs, NEW d \in 0..max, Elapse(q)[j][d] > 0
    PROVE  \/ d + 1 \in 0..max /\ q[j][d + 1] > 0
           \/ d = 0 /\ q[j][0] > 0
  <1>1. Elapse(q)[j][d] = (IF d + 1 \in 0..max THEN q[j][d + 1] ELSE 0)
                          + (IF d = 0 THEN q[j][0] ELSE 0)
    BY ElapseCells
  <1>2. \A e \in 0..max : q[j][e] \in Nat BY DEF Queues
  <1> QED BY <1>1, <1>2

(* Time merges no two jobs of a chain that has one, and loses none.         *)
LEMMA ElapseOne ==
    ASSUME NEW jobs, NEW max \in Nat, NEW q \in Queues(jobs, 0..max),
           NEW j \in jobs
    PROVE  /\ AtMostOne(q, j) => AtMostOne(Elapse(q), j)
           /\ Pending(q, j) => Pending(Elapse(q), j)
  <1> DEFINE delays == 0..max
             e == Elapse(q)
  <1>1. e \in Queues(jobs, delays) BY ElapseType
  <1>2. DOMAIN e[j] = delays /\ DOMAIN q[j] = delays BY <1>1 DEF Queues
  <1>3. \A d \in delays : q[j][d] \in Nat BY DEF Queues
  <1>4. \A d \in delays : e[j][d] = (IF d + 1 \in delays THEN q[j][d + 1] ELSE 0)
                                    + (IF d = 0 THEN q[j][0] ELSE 0)
    BY ElapseCells
  <1> HIDE DEF e
  <1>5. ASSUME AtMostOne(q, j) PROVE AtMostOne(e, j)
    <2> SUFFICES ASSUME NEW c \in delays, NEW d \in delays,
                        e[j][c] > 0, e[j][d] > 0
                 PROVE  c = d /\ e[j][c] = 1
      BY <1>2 DEF AtMostOne
    <2>1. \A a, b \in delays : q[j][a] > 0 /\ q[j][b] > 0
                                => a = b /\ q[j][a] = 1
      BY <1>2, <1>5 DEF AtMostOne
    <2>2. \A x \in delays : e[j][x] > 0 =>
              \/ x + 1 \in delays /\ q[j][x + 1] > 0
              \/ x = 0 /\ q[j][0] > 0
      BY <1>3, <1>4
    <2>3. c = d BY <2>1, <2>2
    <2>4. CASE c + 1 \in delays /\ q[j][c + 1] > 0
      <3>1. c = 0 => q[j][0] = 0 BY <1>3, <2>1, <2>4
      <3>2. q[j][c + 1] = 1 BY <2>1, <2>4
      <3> QED BY <1>4, <2>3, <2>4, <3>1, <3>2
    <2>5. CASE c = 0 /\ q[j][0] > 0 /\ ~(c + 1 \in delays /\ q[j][c + 1] > 0)
      <3>1. q[j][0] = 1 BY <2>1, <2>5
      <3>2. 1 \in delays => q[j][1] = 0 BY <1>3, <2>5
      <3> QED BY <1>4, <2>3, <2>5, <3>1, <3>2
    <2> QED BY <2>2, <2>4, <2>5
  <1>6. ASSUME Pending(q, j) PROVE Pending(e, j)
    <2>1. PICK d \in delays : q[j][d] > 0 BY <1>2, <1>6 DEF Pending
    <2>2. CASE d = 0
      <3>1. e[j][0] > 0 BY <1>3, <1>4, <2>1, <2>2
      <3> QED BY <1>2, <2>2, <3>1 DEF Pending
    <2>3. CASE d # 0
      <3>1. d - 1 \in delays /\ (d - 1) + 1 = d BY <2>3
      <3>2. e[j][d - 1] > 0 BY <1>3, <1>4, <2>1, <3>1
      <3> QED BY <1>2, <3>1, <3>2 DEF Pending
    <2> QED BY <2>2, <2>3
  <1> QED BY <1>5, <1>6 DEF e
=============================================================================
