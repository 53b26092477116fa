---------------------------- MODULE CoroTimeout ----------------------------
(***************************************************************************)
(* Coroutine-level with_timeout (concurrency/combinators.h): a target      *)
(* coroutine under a heap canceler, a timer on the wheel, the awaiting     *)
(* parent, and the parent's frame destroyed at any point.  The final       *)
(* suspend of the target transfers straight to promise().continuation.     *)
(***************************************************************************)
EXTENDS Integers

CONSTANT CtOps          \* bound: operations the target awaits one after the other

VARIABLES ctParent,     \* the coroutine that holds the awaiter
          ctTarget,     \* the target coroutine
          ctDetached,   \* its promise().detached
          ctCont,       \* whom its promise().continuation names: "none", "parent"
          ctCanceler,   \* the canceler_t: memory, latch, tracked_ops_, orphaned_
          ctArmed,      \* node_ is on the wheel
          ctTimedOut,   \* timed_out_
          ctResult,     \* what await_resume returned
          ctOpsLeft,    \* operations the target has not started yet
          ctFault       \* history: freed memory that was used, "none" for none

ctVars == <<ctParent, ctTarget, ctDetached, ctCont, ctCanceler, ctArmed, ctTimedOut,
            ctResult, ctOpsLeft, ctFault>>

CtInit ==
  /\ ctParent = "holding"
  /\ ctTarget = "unstarted"
  /\ ctDetached = FALSE
  /\ ctCont = "none"
  /\ ctCanceler = [mem |-> "live", cancelled |-> FALSE, tracked |-> 0, orphaned |-> FALSE]
  /\ ctArmed = FALSE
  /\ ctTimedOut = FALSE
  /\ ctResult = "none"
  /\ ctOpsLeft = CtOps
  /\ ctFault = "none"

\* await_suspend: canceler and continuation into the promise, timer armed, and
\* the target entered by symmetric transfer.
CtAwait ==
  /\ ctParent = "holding"
  /\ ctParent' = "waiting"
  /\ ctTarget' = "running"
  /\ ctCont' = "parent"
  /\ ctArmed' = TRUE
  /\ UNCHANGED <<ctDetached, ctCanceler, ctTimedOut, ctResult, ctOpsLeft, ctFault>>

\* The target awaits an operation: its promise wraps it with the canceler.
CtTargetAwaits ==
  /\ ctTarget = "running"
  /\ ctOpsLeft > 0
  /\ ctFault = "none"
  /\ ctOpsLeft' = ctOpsLeft - 1
  /\ IF ctCanceler.mem = "freed"
     THEN ctFault' = "canceler" /\ UNCHANGED <<ctTarget, ctCanceler>>
     ELSE /\ UNCHANGED ctFault
          /\ IF ctCanceler.cancelled THEN UNCHANGED <<ctTarget, ctCanceler>>
             ELSE /\ ctTarget' = "suspended"
                  /\ ctCanceler' = [ctCanceler EXCEPT !.tracked = @ + 1]
  /\ UNCHANGED <<ctParent, ctDetached, ctCont, ctArmed, ctTimedOut, ctResult>>

\* The operation completes, by itself or cancelled; op_resolved may free an orphan.
CtOpLands ==
  /\ ctTarget = "suspended"
  /\ ctTarget' = "running"
  /\ ctCanceler' = [ctCanceler EXCEPT !.tracked = @ - 1,
                       !.mem = IF ctCanceler.tracked = 1 /\ ctCanceler.orphaned THEN "freed" ELSE @]
  /\ UNCHANGED <<ctParent, ctDetached, ctCont, ctArmed, ctTimedOut, ctResult, ctOpsLeft, ctFault>>

\* on_expire.
CtExpires ==
  /\ ctArmed
  /\ ctArmed' = FALSE
  /\ ctTimedOut' = TRUE
  /\ ctCanceler' = [ctCanceler EXCEPT !.cancelled = TRUE]
  /\ UNCHANGED <<ctParent, ctTarget, ctDetached, ctCont, ctResult, ctOpsLeft, ctFault>>

\* await_resume: an exception of the target wins over the timeout.
CtOutcome(out) == IF out = "exception" THEN out ELSE IF ctTimedOut THEN "ETIMEDOUT" ELSE out

\* Mutant of CtDisarmed: the destructor leaves the timer on the wheel.
CtDisarmedNot == ctArmed

\* ~coro_timeout_awaiter_base first takes the timer off the wheel.
CtDisarmed == FALSE

\* The target returns or throws.  A detached frame destroys itself; then control
\* goes to the continuation: the parent's await_resume and the awaiter's end.
CtTargetEnds(out) ==
  /\ ctTarget = "running"
  /\ ctFault = "none"
  /\ ctTarget' = "over"
  /\ IF ctCont = "parent" /\ ctParent = "waiting"
     THEN /\ ctParent' = "resumed"
          /\ ctResult' = CtOutcome(out)
          /\ ctArmed' = CtDisarmed
          /\ ctCanceler' = [ctCanceler EXCEPT !.mem = "freed"]
          /\ UNCHANGED ctFault
     ELSE /\ ctFault' = IF ctCont = "parent" THEN "parent" ELSE "none"
          /\ UNCHANGED <<ctParent, ctResult, ctArmed, ctCanceler>>
  /\ UNCHANGED <<ctDetached, ctCont, ctTimedOut, ctOpsLeft>>

\* The awaiter is dropped before it was awaited: canceler and target go with it.
CtDropped ==
  /\ ctParent = "holding"
  /\ ctParent' = "dead"
  /\ ctTarget' = "over"
  /\ ctCanceler' = [ctCanceler EXCEPT !.mem = "freed"]
  /\ UNCHANGED <<ctDetached, ctCont, ctArmed, ctTimedOut, ctResult, ctOpsLeft, ctFault>>

\* The parent's frame is destroyed while the target runs: disarm, cancel, detach
\* the target and orphan the canceler.
CtParentDies ==
  /\ ctParent = "waiting"
  /\ ctTarget = "suspended"
  /\ ctParent' = "dead"
  /\ ctArmed' = CtDisarmed
  /\ ctDetached' = TRUE
  /\ ctCanceler' = [ctCanceler EXCEPT !.cancelled = TRUE, !.orphaned = TRUE,
                       !.mem = IF ctCanceler.tracked = 0 THEN "freed" ELSE @]
  /\ UNCHANGED <<ctTarget, ctCont, ctTimedOut, ctResult, ctOpsLeft, ctFault>>

CtNext ==
  \/ CtAwait \/ CtTargetAwaits \/ CtOpLands \/ CtExpires \/ CtDropped \/ CtParentDies
  \/ \E out \in {"value", "error", "exception"} : CtTargetEnds(out)

CtSpec == CtInit /\ [][CtNext]_ctVars

----------------------------------------------------------------------------
CtTypeOK ==
  /\ ctParent \in {"holding", "waiting", "resumed", "dead"}
  /\ ctTarget \in {"unstarted", "running", "suspended", "over"}
  /\ ctCanceler.tracked \in 0..1
  /\ ctFault \in {"none", "canceler", "parent"}

\* The timer can only fire into a live awaiter and a live canceler, a registrant
\* only unlinks from a live canceler, and the caller is told of a timeout exactly when
\* the timer fired before the target ended, unless the target threw.
CtTimerSafe ==
  /\ ctArmed => ctParent = "waiting" /\ ctCanceler.mem = "live"
  /\ ctTarget = "suspended" => ctCanceler.mem = "live"
  /\ ctResult = "ETIMEDOUT" => ctTimedOut
  /\ ctTimedOut /\ ctParent = "resumed" => ctResult \in {"ETIMEDOUT", "exception"}

\* Why CtTimerSafe holds: while the parent waits the target has not ended and the
\* canceler is alive, an operation of the target keeps an orphaned canceler alive, and
\* nothing is armed once the parent no longer waits.
CtInv ==
  /\ ctParent \in {"holding", "waiting", "resumed", "dead"}
  /\ ctTarget \in {"unstarted", "running", "suspended", "over"}
  /\ ctCanceler \in [mem : {"live", "freed"}, cancelled : BOOLEAN, tracked : Int, orphaned : BOOLEAN]
  /\ ctArmed \in BOOLEAN /\ ctTimedOut \in BOOLEAN
  /\ ctParent = "holding" => ctTarget = "unstarted" /\ ctCont = "none" /\ ~ctTimedOut
  /\ ctParent = "waiting" => ctTarget \in {"running", "suspended"} /\ ctCont = "parent"
  /\ ctParent = "resumed" => ctTarget = "over"
  /\ ctParent \in {"holding", "waiting"} => ctCanceler.mem = "live" /\ ~ctCanceler.orphaned
  /\ ctArmed => ctParent = "waiting"
  /\ ctTarget = "suspended" => ctCanceler.mem = "live"
  /\ ctCanceler.tracked = IF ctTarget = "suspended" THEN 1 ELSE 0
  /\ ctResult # "none" <=> ctParent = "resumed"
  /\ ctResult = "ETIMEDOUT" => ctTimedOut
  /\ ctTimedOut /\ ctParent = "resumed" => ctResult \in {"ETIMEDOUT", "exception"}

\* "let the canceler free itself once the last op resolves", so that "nobody can
\* observe the delete": the target never uses a canceler that was freed and never
\* transfers to a parent that was destroyed.
CtNothingFreedIsUsed == ctFault = "none"
============================================================================
