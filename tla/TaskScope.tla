----------------------------- MODULE TaskScope -----------------------------
(***************************************************************************)
(* scope_t and task_scope (concurrency/scope.h): a detached runner runs    *)
(* the body, joins the children and schedules the awaiting coroutine.  The *)
(* scope is shared by the runner and the awaiter; the children only hold a *)
(* reference to it.  A spawned handle runs when the context gets to it.    *)
(***************************************************************************)
EXTENDS Integers, FiniteSets, Sequences

CONSTANT ScKids         \* bound: the children a scope gets

ASSUME ScAssumption == IsFiniteSet(ScKids) /\ "none" \notin ScKids

VARIABLES scRunner,     \* scope_runner
          scKid,        \* the scoped_runner of each child
          scActive,     \* active_count_
          scWaiter,     \* waiter_ is set
          scError,      \* first_error_: who failed first, "none" for nobody
          scCancelled,  \* the scope's canceler
          scParent,     \* the coroutine awaiting task_scope
          scUnder,      \* the scope's canceler is a child of one of the caller's
          scFails       \* history: everyone that failed, in the order they did

scVars == <<scRunner, scKid, scActive, scWaiter, scError, scCancelled, scParent, scUnder, scFails>>

ScInit ==
  /\ scRunner = "none"
  /\ scKid = [k \in ScKids |-> "none"]
  /\ scActive = 0
  /\ scWaiter = FALSE
  /\ scError = "none"
  /\ scCancelled = FALSE
  /\ scParent = "running"
  /\ scUnder = FALSE
  /\ scFails = <<>>

\* co_await task_scope(...): await_suspend makes the scope and spawns the runner.
ScEnter(under) ==
  /\ scParent = "running" /\ scRunner = "none"
  /\ scParent' = "waiting"
  /\ scRunner' = "body"
  /\ scUnder' = under
  /\ UNCHANGED <<scKid, scActive, scWaiter, scError, scCancelled, scFails>>

ScStart == ScEnter(FALSE)

\* The overload that links the scope's canceler under one of the caller's.
ScStartUnder == ScEnter(TRUE)

\* scope.spawn, in its five overloads, from the body or from a child that runs.
ScSpawn(k) ==
  /\ scRunner = "body" \/ \E p \in ScKids : scKid[p] = "running"
  /\ scKid[k] = "none"
  /\ scKid' = [scKid EXCEPT ![k] = "running"]
  /\ scActive' = scActive + 1
  /\ UNCHANGED <<scRunner, scWaiter, scError, scCancelled, scParent, scUnder, scFails>>

\* record_failure: the first one is kept and cancels the siblings.
ScRecord(who, fails) ==
  /\ scError' = IF fails /\ scError = "none" THEN who ELSE scError
  /\ scCancelled' = (scCancelled \/ (fails /\ scError = "none"))
  /\ scFails' = IF fails THEN Append(scFails, who) ELSE scFails

\* Mutant of ScChildDone: the waiter is scheduled while a sibling still runs.
ScChildDoneEarly ==
  /\ scActive' = scActive - 1
  /\ IF scActive <= 2 /\ scWaiter
     THEN scRunner' = "joined" /\ scWaiter' = FALSE
     ELSE UNCHANGED <<scRunner, scWaiter>>

\* on_child_done: the last child schedules the runner that joins.
ScChildDone ==
  /\ scActive' = scActive - 1
  /\ IF scActive = 1 /\ scWaiter
     THEN scRunner' = "joined" /\ scWaiter' = FALSE
     ELSE UNCHANGED <<scRunner, scWaiter>>

\* A child's coroutine returns or throws, and its runner reports to the scope.
ScKidEnds(k, fails) ==
  /\ scKid[k] = "running"
  /\ scKid' = [scKid EXCEPT ![k] = "over"]
  /\ ScRecord(k, fails)
  /\ ScChildDone
  /\ UNCHANGED <<scParent, scUnder>>

\* The runner gets past the join: the continuation is spawned, a destroyed one too
\* (deadScheduled: the scheduler will resume a dead frame).
ScContinue == IF scParent = "dead" THEN "deadScheduled" ELSE "scheduled"

\* The body returns or throws; scope_join_awaiter waits unless nobody is active.
ScBodyEnds(fails) ==
  /\ scRunner = "body"
  /\ ScRecord("body", fails)
  /\ IF scActive = 0
     THEN scRunner' = "over" /\ scParent' = ScContinue /\ UNCHANGED scWaiter
     ELSE scRunner' = "joining" /\ scWaiter' = TRUE /\ UNCHANGED scParent
  /\ UNCHANGED <<scKid, scActive, scUnder>>

\* The scheduled runner resumes after the join.
ScRunnerResumes ==
  /\ scRunner = "joined"
  /\ scRunner' = "over"
  /\ scParent' = ScContinue
  /\ UNCHANGED <<scKid, scActive, scWaiter, scError, scCancelled, scUnder, scFails>>

\* The awaiting coroutine resumes with as_expected().
ScParentResumes ==
  /\ scParent = "scheduled"
  /\ scParent' = "resumed"
  /\ UNCHANGED <<scRunner, scKid, scActive, scWaiter, scError, scCancelled, scUnder, scFails>>

\* scope.cancel(), from the body or a child.
ScCancel ==
  /\ scRunner = "body" \/ \E k \in ScKids : scKid[k] = "running"
  /\ ~scCancelled
  /\ scCancelled' = TRUE
  /\ UNCHANGED <<scRunner, scKid, scActive, scWaiter, scError, scParent, scUnder, scFails>>

\* The caller's canceler is cancelled while the scope's is linked under it.
ScCancelledAbove ==
  /\ scUnder /\ scRunner # "none" /\ ~scCancelled
  /\ scCancelled' = TRUE
  /\ UNCHANGED <<scRunner, scKid, scActive, scWaiter, scError, scParent, scUnder, scFails>>

\* The awaiting coroutine is destroyed; the runner keeps the scope alive.
ScParentDies ==
  /\ scParent = "waiting"
  /\ scParent' = "dead"
  /\ UNCHANGED <<scRunner, scKid, scActive, scWaiter, scError, scCancelled, scUnder, scFails>>

ScNext ==
  \/ ScStart \/ ScStartUnder \/ ScCancel \/ ScCancelledAbove
  \/ ScRunnerResumes \/ ScParentResumes \/ ScParentDies
  \/ \E k \in ScKids : ScSpawn(k) \/ \E fails \in BOOLEAN : ScKidEnds(k, fails)
  \/ \E fails \in BOOLEAN : ScBodyEnds(fails)

\* The loop resumes what is scheduled, and the coroutines of the user end.
ScFair ==
  /\ WF_scVars(ScRunnerResumes)
  /\ WF_scVars(ScParentResumes)
  /\ WF_scVars(\E fails \in BOOLEAN : ScBodyEnds(fails))
  /\ \A k \in ScKids : WF_scVars(\E fails \in BOOLEAN : ScKidEnds(k, fails))

ScSpec == ScInit /\ [][ScNext]_scVars

----------------------------------------------------------------------------
ScTypeOK ==
  /\ scRunner \in {"none", "body", "joining", "joined", "over"}
  /\ scKid \in [ScKids -> {"none", "running", "over"}]
  /\ scActive \in 0..Cardinality(ScKids)
  /\ scParent \in {"running", "waiting", "scheduled", "resumed", "dead", "deadScheduled"}

\* No child outlives its scope: while one runs the runner is alive, so is the
\* scope its reference points to, and the awaiting coroutine has not been
\* scheduled.  What it gets is the failure of whoever failed first, body included,
\* and by then the siblings were told to stop.
ScStructured ==
  /\ (\E k \in ScKids : scKid[k] = "running") =>
        /\ scRunner \in {"body", "joining"}
        /\ scParent \in {"waiting", "dead"}
  /\ scActive = Cardinality({k \in ScKids : scKid[k] = "running"})
  /\ scError = IF scFails = <<>> THEN "none" ELSE scFails[1]
  /\ scError # "none" => scCancelled

\* Why ScStructured holds: the waiter is set exactly while the runner waits in the
\* join, and until the runner has ended it has not scheduled the awaiting coroutine.
ScInv ==
  /\ scRunner \in {"none", "body", "joining", "joined", "over"}
  /\ scKid \in [ScKids -> {"none", "running", "over"}]
  /\ scWaiter \in BOOLEAN /\ scCancelled \in BOOLEAN
  /\ scParent \in {"running", "waiting", "scheduled", "resumed", "dead", "deadScheduled"}
  /\ scFails \in Seq(ScKids \cup {"body"})
  /\ ScStructured
  /\ scWaiter <=> scRunner = "joining"
  /\ scRunner = "none" => scParent = "running"
  /\ scRunner \in {"body", "joining", "joined"} => scParent \in {"waiting", "dead"}

\* The awaiting coroutine is always resumed in the end unless it was destroyed, though
\* a child, the body or both may have thrown.
ScReturns == scParent = "waiting" ~> scParent \in {"resumed", "dead"}
============================================================================
