---------------------------- MODULE Semaphore ----------------------------
(***************************************************************************)
(* semaphore_t (src/semaphore.cc): counted permits, an intrusive FIFO of   *)
(* waiters, wake-ups through the ready queue of the context, abort, and    *)
(* waiters whose frame is destroyed while queued or already granted.       *)
(* One thread runs everything: an action is one call or one resumption.    *)
(***************************************************************************)
EXTENDS Integers, Sequences, FiniteSets, Functions

CONSTANTS SemWaiters,   \* coroutines that use the semaphore
          SemNeed,      \* the permits each of them asks for (n of acquire)
          SemInitial    \* the count the semaphore is built with

\* acquire(n) and the constructor take unsigned numbers.
ASSUME SemAssumption ==
  IsFiniteSet(SemWaiters) /\ SemNeed \in [SemWaiters -> Nat] /\ SemInitial \in Nat

VARIABLES semCount,     \* count_
          semQueue,     \* head_ .. tail_, the queued awaiters
          semReady,     \* handles scheduled and not yet resumed, oldest first
          semPc,        \* where each coroutine stands
          semAborted,   \* aborted_
          semSkipped    \* history: a queued waiter died and left a head that fits

semVars == <<semCount, semQueue, semReady, semPc, semAborted, semSkipped>>

SemInit ==
  /\ semCount = SemInitial
  /\ semQueue = <<>>
  /\ semReady = <<>>
  /\ semPc = [w \in SemWaiters |-> "idle"]
  /\ semAborted = FALSE
  /\ semSkipped = FALSE

\* The permits some coroutines ask for, and how many that is.
SemPermits(ws) == UNION {{w} \X (1..SemNeed[w]) : w \in ws}
SemNeeds(ws)   == Cardinality(SemPermits(ws))

\* The first n waiters of a queue.
SemHeads(q, n) == {q[i] : i \in 1..n}

\* Mutant of SemFitting: the loop wakes one waiter at most.
SemFittingOne(q, count) ==
  IF q # <<>> /\ SemNeed[q[1]] <= count THEN 1 ELSE 0

\* The number of waiters the loop of wake_ready unlinks: heads, as long as they fit.
SemFitting(q, count) ==
  CHOOSE n \in 0..Len(q) :
    /\ SemNeeds(SemHeads(q, n)) <= count
    /\ n < Len(q) => SemNeeds(SemHeads(q, n + 1)) > count

\* wake_ready, with pc the program counters after the caller's own change.
SemWake(q, count, pc) ==
  LET n     == SemFitting(q, count)
      woken == SemHeads(q, n)
  IN  /\ semQueue' = SubSeq(q, n + 1, Len(q))
      /\ semCount' = count - SemNeeds(woken)
      /\ semReady' = semReady \o SubSeq(q, 1, n)
      /\ semPc' = [w \in SemWaiters |-> IF w \in woken THEN "granted" ELSE pc[w]]
      /\ semSkipped' = FALSE

\* Mutant of SemGiveBack: the permits of a granted frame that dies are kept.
SemGiveBackLost(n, pc) ==
  IF \E w \in SemWaiters : semPc[w] = "granted" /\ pc[w] = "gone"
  THEN semPc' = pc /\ UNCHANGED <<semCount, semQueue, semReady, semSkipped>>
  ELSE SemWake(semQueue, semCount + n, pc)

\* count_ += n, then the loop unless the semaphore is aborted.
SemGiveBack(n, pc) ==
  IF semAborted
  THEN /\ semCount' = semCount + n
       /\ semPc' = pc
       /\ UNCHANGED <<semQueue, semReady, semSkipped>>
  ELSE SemWake(semQueue, semCount + n, pc)

\* acquire(n): await_ready decides, await_suspend appends to the queue.
SemAcquire(w) ==
  /\ semPc[w] = "idle"
  /\ \/ /\ semAborted
        /\ semPc' = [semPc EXCEPT ![w] = "refused"]
        /\ UNCHANGED <<semCount, semQueue>>
     \/ /\ ~semAborted
        /\ semCount >= SemNeed[w]
        /\ semCount' = semCount - SemNeed[w]
        /\ semPc' = [semPc EXCEPT ![w] = "holding"]
        /\ UNCHANGED semQueue
     \/ /\ ~semAborted
        /\ semCount < SemNeed[w]
        /\ semQueue' = Append(semQueue, w)
        /\ semPc' = [semPc EXCEPT ![w] = "queued"]
        /\ UNCHANGED semCount
  /\ UNCHANGED <<semReady, semAborted, semSkipped>>

SemTryAcquire(w) ==
  /\ semPc[w] = "idle"
  /\ ~semAborted
  /\ semCount >= SemNeed[w]
  /\ semCount' = semCount - SemNeed[w]
  /\ semPc' = [semPc EXCEPT ![w] = "holding"]
  /\ UNCHANGED <<semQueue, semReady, semAborted, semSkipped>>

\* The scheduler resumes the oldest handle: await_resume settles the wait.  The
\* destructor of a frame does not take its handle out of the ready queue, so a frame
\* destroyed since is resumed too: "ghost", of which nothing more can be said.
SemResume ==
  /\ semReady # <<>>
  /\ semReady' = Tail(semReady)
  /\ LET w == Head(semReady)
     IN  semPc' = [semPc EXCEPT ![w] = CASE @ = "granted" -> "holding"
                                         [] @ = "failed"  -> "refused"
                                         [] OTHER         -> "ghost"]
  /\ UNCHANGED <<semCount, semQueue, semAborted, semSkipped>>

\* release(n), by hand or by the guard going out of scope; nothing for no permits.
SemRelease(w) ==
  /\ semPc[w] = "holding"
  /\ IF SemNeed[w] = 0
     THEN /\ semPc' = [semPc EXCEPT ![w] = "idle"]
          /\ UNCHANGED <<semCount, semQueue, semReady, semSkipped>>
     ELSE SemGiveBack(SemNeed[w], [semPc EXCEPT ![w] = "idle"])
  /\ UNCHANGED semAborted

\* unlink(): the neighbours of a queued node are joined.
SemUnlink(q, i) == SubSeq(q, 1, i - 1) \o SubSeq(q, i + 1, Len(q))

\* ~acquire_awaiter of a suspended frame: unlink, or repay an unused grant.
SemDestroy(w) ==
  /\ \/ /\ semPc[w] = "queued"
        /\ \E i \in DOMAIN semQueue :
             semQueue[i] = w /\ semQueue' = SemUnlink(semQueue, i)
        /\ semPc' = [semPc EXCEPT ![w] = "gone"]
        /\ semSkipped' = (semSkipped \/ (semQueue' # <<>> /\ SemNeed[semQueue'[1]] <= semCount))
        /\ UNCHANGED <<semCount, semReady>>
     \/ /\ semPc[w] = "granted"
        /\ SemGiveBack(SemNeed[w], [semPc EXCEPT ![w] = "gone"])
     \/ /\ semPc[w] = "failed"
        /\ semPc' = [semPc EXCEPT ![w] = "gone"]
        /\ UNCHANGED <<semCount, semQueue, semReady, semSkipped>>
  /\ UNCHANGED semAborted

\* abort(err): every queued waiter is scheduled with the error, for good.
SemAbort ==
  /\ ~semAborted
  /\ semAborted' = TRUE
  /\ semQueue' = <<>>
  /\ semReady' = semReady \o semQueue
  /\ semPc' = [w \in SemWaiters |-> IF w \in Range(semQueue) THEN "failed" ELSE semPc[w]]
  /\ semSkipped' = FALSE
  /\ UNCHANGED semCount

SemNext ==
  \/ SemResume
  \/ SemAbort
  \/ \E w \in SemWaiters :
        SemAcquire(w) \/ SemTryAcquire(w) \/ SemRelease(w) \/ SemDestroy(w)

SemSpec == SemInit /\ [][SemNext]_semVars

----------------------------------------------------------------------------
SemTypeOK ==
  /\ semCount \in Nat
  /\ semQueue \in Seq(SemWaiters)
  /\ semReady \in Seq(SemWaiters)
  /\ semPc \in [SemWaiters -> {"idle", "queued", "granted", "failed", "holding", "refused",
                            "gone", "ghost"}]
  /\ semAborted \in BOOLEAN
  /\ semSkipped \in BOOLEAN

\* No permit is lost or made up: what is free, what is held and what is granted
\* to a waiter that has not run yet always add up to the initial count, through
\* abort() and through frames destroyed between the wake-up and the resumption.
SemConserved ==
  semCount + SemNeeds({w \in SemWaiters : semPc[w] \in {"holding", "granted"}}) = SemInitial

\* The head of the queue waits only while it does not fit, unless a queued waiter
\* was destroyed since the last wake-up loop: ~acquire_awaiter unlinks and does
\* not look at the waiter it leaves at the head.  A fitting head also never waits
\* on an aborted semaphore, whose queue stays empty.  Whoever queues is served in
\* turn; one who never queues is not held back by that: acquire() and try_acquire()
\* look at count_ only, so a small request overtakes a large one at the head.
SemHeadWaits ==
  /\ semQueue # <<>> /\ ~semSkipped => SemNeed[semQueue[1]] > semCount
  /\ semAborted => semQueue = <<>>
  /\ \A w \in SemWaiters : semPc[w] = "queued" <=> w \in Range(semQueue)

\* Permits are conserved, and of those that queue the first is served as soon as what
\* has been given back is enough for it.
SemSound == SemConserved /\ SemHeadWaits

\* Why they hold: a waiter is queued once, and scheduled once, after it has left the
\* queue.
SemScheduled ==
  /\ IsInjective(semReady)
  /\ \A w \in Range(semReady) : semPc[w] \in {"granted", "failed", "gone"}

SemInv == SemTypeOK /\ SemSound /\ IsInjective(semQueue) /\ SemScheduled

============================================================================
