------------------------------ MODULE Runtime ------------------------------
(***************************************************************************)
(* runtime_t (scheduling/runtime.h, src/runtime.cc): N worker threads with *)
(* a context each, started behind a latch, fed by submit and submit_async, *)
(* and ended by shutdown or stop followed by join.  A context is what the  *)
(* runtime sees of it: its phase, its keep-alive flag and the tasks handed *)
(* to it; EventLoop models its inside.                                     *)
(***************************************************************************)
EXTENDS Integers, FiniteSets

CONSTANTS RtThreads,    \* thread_nr_
          RtTasks       \* bound: the tasks submitted, numbered from 1

\* The constructor makes one thread of none; tasks get their numbers one by one.
ASSUME RtAssumption == RtThreads \in Nat \ {0} /\ IsFiniteSet(RtTasks) /\ RtTasks \subseteq Nat

RtIds == 0..RtThreads - 1

VARIABLES rtMain,       \* the thread that owns the runtime
          rtCursor,     \* the context shutdown or stop visits next
          rtWorker, rtPhase, rtKeepAlive,
          rtTask,       \* at which context a task is, how far it got, how it ended
          rtFuture      \* task_state_t: done_ and value_

rtVars == <<rtMain, rtCursor, rtWorker, rtPhase, rtKeepAlive, rtTask, rtFuture>>

RtInit ==
  /\ rtMain = "new"
  /\ rtCursor = 0
  /\ rtWorker = [i \in RtIds |-> "none"]
  /\ rtPhase = [i \in RtIds |-> "Terminated"]
  /\ rtKeepAlive = [i \in RtIds |-> FALSE]
  /\ rtTask = [t \in RtTasks |-> [at |-> 0, st |-> "none", out |-> "none"]]
  /\ rtFuture = [t \in RtTasks |-> [done |-> FALSE, value |-> "none"]]

\* start: the threads are created; each sets keep-alive before its init_fn.
RtStart(keepalive) ==
  /\ rtMain = "new"
  /\ rtMain' = "starting"
  /\ rtWorker' = [i \in RtIds |-> "init"]
  /\ rtKeepAlive' = [i \in RtIds |-> keepalive]
  /\ UNCHANGED <<rtCursor, rtPhase, rtTask, rtFuture>>

\* init_fn returns and the latch is counted down, before run().
RtCountsDown(i) ==
  /\ rtWorker[i] = "init"
  /\ rtWorker' = [rtWorker EXCEPT ![i] = "counted"]
  /\ UNCHANGED <<rtMain, rtCursor, rtPhase, rtKeepAlive, rtTask, rtFuture>>

\* init_done.wait() returns.
RtStarted ==
  /\ rtMain = "starting"
  /\ \A i \in RtIds : rtWorker[i] # "init"
  /\ rtMain' = "up"
  /\ UNCHANGED <<rtCursor, rtWorker, rtPhase, rtKeepAlive, rtTask, rtFuture>>

\* The head of context_t::run: only a plain start earns the Running phase.
RtRuns(i) ==
  /\ rtWorker[i] = "counted"
  /\ rtWorker' = [rtWorker EXCEPT ![i] = "running"]
  /\ rtPhase' = [rtPhase EXCEPT ![i] = IF @ = "Terminated" THEN "Running" ELSE @]
  /\ UNCHANGED <<rtMain, rtCursor, rtKeepAlive, rtTask, rtFuture>>

\* select_context: round robin over the calls of this thread.
RtSelect == Cardinality({u \in RtTasks : rtTask[u].st # "none"}) % RtThreads

\* submit/submit_async: the wrapper goes to the remote queue of the next context.
RtSubmit(t) ==
  /\ rtMain \in {"new", "up", "stopping"}
  /\ rtTask[t].st = "none" /\ \A u \in RtTasks : u < t => rtTask[u].st # "none"
  /\ rtTask' = [rtTask EXCEPT ![t] = [at |-> RtSelect, st |-> "queued", out |-> "none"]]
  /\ UNCHANGED <<rtMain, rtCursor, rtWorker, rtPhase, rtKeepAlive, rtFuture>>

\* The loop harvests its remote queue, in any phase.
RtHarvests(t) ==
  /\ rtTask[t].st = "queued"
  /\ rtWorker[rtTask[t].at] = "running"
  /\ rtTask' = [rtTask EXCEPT ![t].st = "running"]
  /\ UNCHANGED <<rtMain, rtCursor, rtWorker, rtPhase, rtKeepAlive, rtFuture>>

\* The task waits for a permit, a flight, a scope or another task: its coroutine is in no
\* queue and behind no operation, so no counter of its context counts it.
RtParks(t) ==
  /\ rtTask[t].st = "running"
  /\ rtTask' = [rtTask EXCEPT ![t].st = "parked"]
  /\ UNCHANGED <<rtMain, rtCursor, rtWorker, rtPhase, rtKeepAlive, rtFuture>>

\* What it waits for happens on its loop, and its coroutine is scheduled again.
RtWakes(t) ==
  /\ rtTask[t].st = "parked"
  /\ rtWorker[rtTask[t].at] = "running"
  /\ rtTask' = [rtTask EXCEPT ![t].st = "running"]
  /\ UNCHANGED <<rtMain, rtCursor, rtWorker, rtPhase, rtKeepAlive, rtFuture>>

\* Mutant of RtPublish: an exception is caught and nobody is told its kind.
RtPublishDone(t, out) ==
  rtFuture' = [rtFuture EXCEPT ![t] = [done |-> TRUE,
                 value |-> IF out = "exception" THEN "none" ELSE out]]

\* set_value or set_error, then set_done: each marks the state done.
RtPublish(t, out) == rtFuture' = [rtFuture EXCEPT ![t] = [done |-> TRUE, value |-> out]]

\* The coroutine of the task, or its callable on the executor, returns or throws;
\* a full executor queue is an exception too.
RtTaskEnds(t, out) ==
  /\ rtTask[t].st = "running"
  /\ rtTask' = [rtTask EXCEPT ![t] = [@ EXCEPT !.st = "over", !.out = out]]
  /\ RtPublish(t, out)
  /\ UNCHANGED <<rtMain, rtCursor, rtWorker, rtPhase, rtKeepAlive>>

\* shutdown, stop or the destructor's stop: stopped_ is set, the contexts follow.
RtStopBegins ==
  /\ rtMain = "up"
  /\ rtMain' = "stopping"
  /\ UNCHANGED <<rtCursor, rtWorker, rtPhase, rtKeepAlive, rtTask, rtFuture>>

\* context_t::stop or shutdown on the next context.  Both test Running first and
\* Terminated after it; run() may do its exchange in between, and both miss.
RtStopsOne(graceful, raced) ==
  LET i == rtCursor IN
  /\ rtMain = "stopping" /\ i \in RtIds
  /\ rtCursor' = i + 1
  /\ rtKeepAlive' = [rtKeepAlive EXCEPT ![i] = FALSE]
  /\ \/ /\ raced /\ rtWorker[i] = "counted" /\ rtPhase[i] = "Terminated"
        /\ rtWorker' = [rtWorker EXCEPT ![i] = "running"]
        /\ rtPhase' = [rtPhase EXCEPT ![i] = "Running"]
     \/ /\ ~raced
        /\ rtPhase' = [rtPhase EXCEPT ![i] =
                         IF @ = "Running" THEN IF graceful THEN "Draining" ELSE "Canceling"
                         ELSE "Canceling"]
        /\ UNCHANGED rtWorker
  /\ UNCHANGED <<rtMain, rtTask, rtFuture>>

\* The drain timer ends, or the loop finds no user work left.
RtCancels(i) ==
  /\ rtWorker[i] = "running" /\ ~rtKeepAlive[i]
  /\ rtPhase[i] \in {"Running", "Draining"}
  /\ \/ rtPhase[i] = "Draining"
     \/ \A t \in RtTasks : ~(rtTask[t].at = i /\ rtTask[t].st = "running")
  /\ rtPhase' = [rtPhase EXCEPT ![i] = "Canceling"]
  /\ UNCHANGED <<rtMain, rtCursor, rtWorker, rtKeepAlive, rtTask, rtFuture>>

\* Mutant of RtIdle: the loop leaves with work of its tasks in flight.
RtIdleAnyway(i) == ~rtKeepAlive[i]

\* idle(): nothing is ready, offloaded or in flight.  The remote queue is not asked, and a
\* task that is parked does not hold the loop.
RtIdle(i) ==
  ~rtKeepAlive[i] /\ \A t \in RtTasks : ~(rtTask[t].at = i /\ rtTask[t].st = "running")

\* run() returns and the thread ends.
RtExits(i) ==
  /\ rtWorker[i] = "running"
  /\ rtPhase[i] = "Canceling"
  /\ RtIdle(i)
  /\ rtWorker' = [rtWorker EXCEPT ![i] = "exited"]
  /\ rtPhase' = [rtPhase EXCEPT ![i] = "Terminated"]
  /\ UNCHANGED <<rtMain, rtCursor, rtKeepAlive, rtTask, rtFuture>>

\* join returns.
RtJoins ==
  /\ rtMain = "stopping" /\ rtCursor = RtThreads
  /\ \A i \in RtIds : rtWorker[i] = "exited"
  /\ rtMain' = "joined"
  /\ UNCHANGED <<rtCursor, rtWorker, rtPhase, rtKeepAlive, rtTask, rtFuture>>

RtNext ==
  \/ \E keepalive \in BOOLEAN : RtStart(keepalive)
  \/ RtStarted \/ RtStopBegins \/ RtJoins
  \/ \E i \in RtIds : RtCountsDown(i) \/ RtRuns(i) \/ RtCancels(i) \/ RtExits(i)
  \/ \E t \in RtTasks : RtSubmit(t) \/ RtHarvests(t) \/ RtParks(t) \/ RtWakes(t)
                        \/ \E out \in {"value", "exception"} : RtTaskEnds(t, out)
  \/ \E graceful, raced \in BOOLEAN : RtStopsOne(graceful, raced)

\* The threads run, and a task that is not left parked ends by itself.
RtFair ==
  /\ WF_rtVars(RtStarted) /\ WF_rtVars(RtJoins)
  /\ WF_rtVars(\E graceful \in BOOLEAN : RtStopsOne(graceful, FALSE))
  /\ \A i \in RtIds : /\ WF_rtVars(RtCountsDown(i)) /\ WF_rtVars(RtRuns(i))
                      /\ WF_rtVars(RtCancels(i)) /\ WF_rtVars(RtExits(i))
  /\ \A t \in RtTasks : SF_rtVars(\E out \in {"value", "exception"} : RtTaskEnds(t, out))

RtSpec == RtInit /\ [][RtNext]_rtVars

----------------------------------------------------------------------------
RtTypeOK ==
  /\ rtMain \in {"new", "starting", "up", "stopping", "joined"}
  /\ rtWorker \in [RtIds -> {"none", "init", "counted", "running", "exited"}]
  /\ rtPhase \in [RtIds -> {"Terminated", "Running", "Draining", "Canceling"}]

\* A future is done exactly when its task has ended, with the value or the exception
\* it ended with, so get() neither returns early nor hides an exception; and a worker's
\* thread does not end under a task that is ready, offloaded or in the kernel.  What
\* get() can still wait for in vain, once the workers are joined, is a task that no
\* context took from its queue, and one parked where no counter of its loop sees it.
RtFutures ==
  /\ \A t \in RtTasks : /\ rtFuture[t].done = (rtTask[t].st = "over")
                        /\ rtFuture[t].value = rtTask[t].out
  /\ \A t \in RtTasks :
        rtTask[t].st = "running" => rtWorker[rtTask[t].at] = "running"
  /\ rtMain = "joined" => \A t \in RtTasks : rtTask[t].st # "running"

\* Why RtFutures holds: a task only runs on a context select_context names, a worker
\* does not go back to an earlier stage, and join has seen every worker end.
RtInv ==
  /\ rtMain \in {"new", "starting", "up", "stopping", "joined"}
  /\ rtWorker \in [RtIds -> {"none", "init", "counted", "running", "exited"}]
  /\ rtTask \in [RtTasks -> [at : RtIds, st : {"none", "queued", "running", "parked", "over"},
                             out : {"none", "value", "exception"}]]
  /\ rtFuture \in [RtTasks -> [done : BOOLEAN, value : {"none", "value", "exception"}]]
  /\ rtMain = "new" => \A i \in RtIds : rtWorker[i] = "none"
  /\ rtMain = "joined" => \A i \in RtIds : rtWorker[i] = "exited"
  /\ \A t \in RtTasks : /\ rtFuture[t].done <=> rtTask[t].st = "over"
                        /\ rtFuture[t].value = rtTask[t].out
                        /\ rtTask[t].st # "over" => rtTask[t].out = "none"
                        /\ rtTask[t].st = "running" => rtWorker[rtTask[t].at] = "running"

\* shutdown_and_join and stop_and_join return, even for a worker that has counted
\* the latch down and not entered run(), and even when the request was missed.
RtJoinReturns == rtMain = "stopping" ~> rtMain = "joined"
============================================================================
