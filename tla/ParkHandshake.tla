---------------------------- MODULE ParkHandshake ----------------------------
(***************************************************************************)
(* The park token of context_t: how the owner thread of an event loop goes *)
(* to sleep in io_uring without sleeping over work that other threads hand *)
(* to it.                                                                  *)
(*                                                                         *)
(* Other threads put coroutine handles into the remote queue               *)
(* (spawn_remote) or finished jobs into the executor's completed queue,    *)
(* and then call wakeup(): it takes the token parked_ and, only if the     *)
(* token was there, writes the eventfd.  The owner stores the token, looks *)
(* at both queues once more, and only then waits.                          *)
(*                                                                         *)
(* This is the protocol on its own, for any set of producer threads and    *)
(* any amount of work; EventLoop is the loop that implements it.  Loads    *)
(* and stores of parked_ are seq_cst in the code and are single steps      *)
(* here; a queue operation is a single step.                               *)
(***************************************************************************)
EXTENDS Integers

CONSTANTS
  Producers,   \* threads other than the owner
  MaxPending   \* bound on what one queue holds at a time

ASSUME MaxPendingAssumption == MaxPending \in Nat

Queues == {"remote", "async"}

VARIABLES
  pending,   \* how many items each producer queue holds
  parked,    \* context_t::parked_
  notified,  \* an eventfd notification the owner has not consumed
  prod,      \* where each producer stands in enqueue; wakeup()
  owner      \* where the owner stands in the park block of sched()

vars == <<pending, parked, notified, prod, owner>>

TypeOK ==
  /\ pending \in [Queues -> 0..MaxPending]
  /\ parked \in BOOLEAN
  /\ notified \in BOOLEAN
  /\ prod \in [Producers -> {"out", "token", "poke"}]
  /\ owner \in {"busy", "parking", "recheck", "waiting", "leaving"}

Init ==
  /\ pending = [q \in Queues |-> 0]
  /\ parked = FALSE
  /\ notified = FALSE
  /\ prod = [p \in Producers |-> "out"]
  /\ owner = "busy"

-----------------------------------------------------------------------------
(* Producer threads *)

\* schedule_remote() / completed_tasks.try_enqueue_bulk(): some items at once.
Enqueue(p, q) ==
  /\ prod[p] = "out"
  /\ \E n \in 1..(MaxPending - pending[q]) :
       pending' = [pending EXCEPT ![q] = @ + n]
  /\ prod' = [prod EXCEPT ![p] = "token"]
  /\ UNCHANGED <<parked, notified, owner>>

\* wakeup() for its own sake: stop() calls it with nothing enqueued.
CallWakeup(p) ==
  /\ prod[p] = "out"
  /\ prod' = [prod EXCEPT ![p] = "token"]
  /\ UNCHANGED <<pending, parked, notified, owner>>

\* wakeup(): parked_.exchange(false); no token, no system call.
Exchange(p) ==
  /\ prod[p] = "token"
  /\ prod' = [prod EXCEPT ![p] = IF parked THEN "poke" ELSE "out"]
  /\ parked' = FALSE
  /\ UNCHANGED <<pending, notified, owner>>

\* wakeup(): the eventfd write.
Poke(p) ==
  /\ prod[p] = "poke"
  /\ notified' = TRUE
  /\ prod' = [prod EXCEPT ![p] = "out"]
  /\ UNCHANGED <<pending, parked, owner>>

-----------------------------------------------------------------------------
(* The owner thread *)

\* Mutant: one item is taken, there or not.
HarvestMutant(q) ==
  /\ owner = "busy"
  /\ pending' = [pending EXCEPT ![q] = @ - 1]
  /\ UNCHANGED <<parked, notified, prod, owner>>

\* harvest_remote() / harvest_async() outside the park block.
Harvest(q) ==
  /\ owner = "busy"
  /\ pending' = [pending EXCEPT ![q] = 0]
  /\ UNCHANGED <<parked, notified, prod, owner>>

\* Reaping the eventfd completion while the loop is busy anyway.
Consume ==
  /\ owner = "busy"
  /\ notified' = FALSE
  /\ UNCHANGED <<pending, parked, prod, owner>>

\* Mutant: the owner goes to sleep without the token.
ParkMutant ==
  /\ owner = "busy"
  /\ owner' = "parking"
  /\ UNCHANGED <<pending, parked, notified, prod>>

\* park_scope's constructor.
Park ==
  /\ owner = "busy"
  /\ parked' = TRUE
  /\ owner' = "parking"
  /\ UNCHANGED <<pending, notified, prod>>

\* harvest_remote() == 0, re-checked under the token.
RecheckRemote ==
  /\ owner = "parking"
  /\ owner' = IF pending["remote"] = 0 THEN "recheck" ELSE "leaving"
  /\ pending' = [pending EXCEPT !["remote"] = 0]
  /\ UNCHANGED <<parked, notified, prod>>

\* harvest_async() == 0, re-checked under the token.
RecheckAsync ==
  /\ owner = "recheck"
  /\ owner' = IF pending["async"] = 0 THEN "waiting" ELSE "leaving"
  /\ pending' = [pending EXCEPT !["async"] = 0]
  /\ UNCHANGED <<parked, notified, prod>>

\* submit_and_wait_cqes() returns: a completion (the eventfd's read or any
\* other) or the io_wait_ timeout.
Return ==
  /\ owner = "waiting"
  /\ owner' = "leaving"
  /\ notified' \in {notified, FALSE}
  /\ UNCHANGED <<pending, parked, prod>>

\* park_scope's destructor.
Unpark ==
  /\ owner = "leaving"
  /\ parked' = FALSE
  /\ owner' = "busy"
  /\ UNCHANGED <<pending, notified, prod>>

Next ==
  \/ \E p \in Producers :
       \/ \E q \in Queues : Enqueue(p, q)
       \/ CallWakeup(p) \/ Exchange(p) \/ Poke(p)
  \/ \E q \in Queues : Harvest(q)
  \/ Consume \/ Park \/ RecheckRemote \/ RecheckAsync \/ Return \/ Unpark

Spec == Init /\ [][Next]_vars

-----------------------------------------------------------------------------
\* A notification has been sent or is bound to be: someone is past the
\* exchange that took the token, or is about to take it.
WakeupComing ==
  \/ notified
  \/ \E p \in Producers : prod[p] = "poke"
  \/ parked /\ \E p \in Producers : prod[p] = "token"

\* sched() never blocks over handed-in work: while the owner waits in
\* submit_and_wait_cqes, an item in either queue implies a notification that
\* was sent or is bound to be sent (scheduler.cc "never blocks with remote
\* work pending").
NeverSleepsOverWork ==
  owner = "waiting" /\ (\E q \in Queues : pending[q] > 0) => WakeupComing

\* What makes NeverSleepsOverWork inductive: it already holds for each queue
\* from the moment the owner has looked at it, and a token that is gone while
\* the owner is inside the park block was taken by a producer that pokes.
HandshakeInv ==
  /\ TypeOK
  /\ owner \in {"recheck", "waiting"} /\ pending["remote"] > 0 => WakeupComing
  /\ owner = "waiting" /\ pending["async"] > 0 => WakeupComing
  /\ owner \in {"parking", "recheck", "waiting"} /\ ~parked =>
       notified \/ \E p \in Producers : prod[p] = "poke"
=============================================================================
