------------------------------ MODULE EventLoop ------------------------------
(***************************************************************************)
(* One context_t: its run loop, the scheduler cycle, the io_uring          *)
(* submission and completion queues, the executor's worker threads, the    *)
(* threads that call spawn_remote(), stop() and shutdown(), and the kernel *)
(* side of the operations in flight.                                       *)
(*                                                                         *)
(* A coroutine is one member of Coros; `loc' says where its handle or its  *)
(* awaited operation is.  Between two resumptions a user coroutine either  *)
(* awaits an io operation, awaits a job of the thread pool, or ends.  The  *)
(* framework's own coroutines are "watch" (watch_loop on the wakeup        *)
(* eventfd), "sweep" (cancel_sweep) and "drain" (the timer of shutdown()); *)
(* their operations are as_system, so they never count as user io.         *)
(***************************************************************************)
EXTENDS Integers, Sequences, FiniteSets, Functions

CONSTANTS
  Local,      \* user coroutines spawned on the owner thread before run()
  Remote,     \* user coroutines other threads hand in, a thread each
  Workers,    \* worker threads of the executor
  Requests,   \* which of the calls "stop" and "shutdown" are made, once each
  EarlyCalls, \* those calls may come before run() is past its exchange
  KeepAlive,  \* values of keep_alive_ before run()
  Kernel519,  \* values of kernel_ge_5_19_: one CANCEL_ANY, or a cancel per slot
  Batch,      \* cpu_batch_
  MaxTaskNr,  \* executor_t::max_task_nr
  MaxAwaits,  \* bound: suspensions of one user coroutine
  MaxCalls    \* bound: how many of the calls in Requests are made

Tasks   == Local \cup Remote
System  == {"watch", "sweep", "drain"}
Coros   == Tasks \cup System
Threads == Remote \cup Workers \cup Requests

\* Coroutines are frames of their own and there are finitely many; threads that spawn,
\* threads of the pool and threads that stop the context are different threads.
ASSUME ConstantsAssumption ==
  /\ IsFiniteSet(Tasks) /\ Local \cap Remote = {} /\ Tasks \cap System = {}
  /\ Remote \cap Workers = {} /\ (Remote \cup Workers) \cap Requests = {}
  /\ Requests \subseteq {"stop", "shutdown"}
  /\ EarlyCalls \in BOOLEAN
  /\ KeepAlive \subseteq BOOLEAN /\ Kernel519 \subseteq BOOLEAN
  /\ Batch \in Nat \ {0} /\ MaxTaskNr \in Nat
  /\ MaxAwaits \in Nat /\ MaxCalls \in Nat

VARIABLES
  state,      \* context_t::state_
  keepAlive,  \* context_t::keep_alive_
  parked,     \* context_t::parked_
  eventfd,    \* the wakeup eventfd is readable
  wake,       \* where each other thread stands in wakeup()
  call,       \* where each stop()/shutdown() call stands
  worker,     \* the jobs each worker thread has dequeued
  pc,         \* where the owner thread is in run() and sched()
  loc,        \* where each coroutine is
  res,        \* what the operation a coroutine awaited returned
  awaits,     \* suspensions left to each user coroutine
  ready,      \* scheduler_t::ready_tasks_
  resumed,    \* stats.tasks_resumed of this cycle
  sq,         \* submission queue entries not yet handed to the kernel
  cq,         \* the completion queue
  sweep,      \* cancel_inflight_, the slots a per-slot sweep has left to cancel and the
              \* one it is at, those that another generation holds by now, kernel_ge_5_19_
  tracker     \* task_tracker_t's counters

vars == <<state, keepAlive, parked, eventfd, wake, call, worker, pc, loc, res,
          awaits, ready, resumed, sq, cq, sweep, tracker>>

loopVars   == <<pc, resumed, ready, tracker, sweep, awaits, sq>>
threadVars == <<wake, call, worker>>

\* Where a coroutine can be; with the io awaiter armed and not resumed, with its
\* operation in the kernel or completed, and with its job in the thread pool.
Places    == {"new", "remote", "ready", "armed", "inflight", "canceled", "cq",
              "pool", "work", "completed", "done"}
Active    == {"armed", "inflight", "canceled", "cq"}
Submitted == {"inflight", "canceled", "cq"}
Pooled    == {"pool", "work", "completed"}
Counters  == [ready : Nat, cpu : Nat, userIo : Nat, ioInflight : Nat]

At(place) == {c \in Coros : loc[c] \in place}

\* What is dequeued from a queue of several producers: its handles, in some order.
Orders(handles) == Bijection(1..Cardinality(handles), handles)

TypeOK ==
  /\ state \in {"Running", "Draining", "Canceling", "Terminated"}
  /\ keepAlive \in BOOLEAN /\ parked \in BOOLEAN /\ eventfd \in BOOLEAN
  /\ wake \in [Threads -> {"out", "token", "poke"}]
  /\ call \in [Requests -> {"init", "cas", "fromDraining", "fromTerminated",
                            "post", "wakeup", "returned"}]
  /\ worker \in [Workers -> SUBSET Tasks]
  /\ pc \in {"spawn", "cas", "test", "sweep", "remote", "async", "resume1",
             "resume2", "recheckRemote", "recheckAsync", "flush", "enter",
             "wait", "unpark", "resume3", "cancel", "publish", "end"}
  /\ loc \in [Coros -> Places]
  /\ res \in [Coros -> {"start", "ok", "canceled", "none"}]
  /\ awaits \in [Tasks -> 0..MaxAwaits]
  /\ ready \in Seq(Coros) /\ sq \in Seq(Coros) /\ cq \in Seq(Coros)
  /\ resumed \in 0..Batch
  /\ sweep \in [inflight : BOOLEAN, todo : SUBSET Coros, aim : Coros,
                stale : SUBSET Coros, any : Kernel519]
  /\ tracker \in Counters

Init ==
  /\ state = "Terminated" /\ keepAlive \in KeepAlive
  /\ parked = FALSE /\ eventfd = FALSE
  /\ wake = [t \in Threads |-> "out"]
  /\ call = [r \in Requests |-> "init"]
  /\ worker = [w \in Workers |-> {}]
  /\ pc = "spawn"
  /\ loc = [c \in Coros |-> IF c \in Local THEN "ready" ELSE "new"]
  /\ res = [c \in Coros |-> "start"]
  /\ awaits = [t \in Tasks |-> MaxAwaits]
  /\ ready \in Orders(Local)
  /\ resumed = 0 /\ sq = <<>> /\ cq = <<>>
  /\ sweep \in [inflight : {FALSE}, todo : {{}}, aim : {"sweep"}, stale : {{}}, any : Kernel519]
  /\ tracker = [ready |-> Cardinality(Local), cpu |-> 0, userIo |-> 0,
                ioInflight |-> 0]

-----------------------------------------------------------------------------
(* Other threads *)

\* wakeup(): take the park token.
Exchange(t) ==
  /\ wake[t] = "token"
  /\ wake' = [wake EXCEPT ![t] = IF parked THEN "poke" ELSE "out"]
  /\ parked' = FALSE
  /\ UNCHANGED <<state, keepAlive, eventfd, call, worker, loc, res, cq, loopVars>>

\* wakeup(): the eventfd write, by whoever took the token.
Poke(t) ==
  /\ wake[t] = "poke"
  /\ eventfd' = TRUE
  /\ wake' = [wake EXCEPT ![t] = "out"]
  /\ UNCHANGED <<state, keepAlive, parked, call, worker, loc, res, cq, loopVars>>

\* spawn_remote(): schedule_remote(), then wakeup().
SpawnRemote(t) ==
  /\ loc[t] = "new"
  /\ loc' = [loc EXCEPT ![t] = "remote"]
  /\ wake' = [wake EXCEPT ![t] = "token"]
  /\ UNCHANGED <<state, keepAlive, parked, eventfd, call, worker, res, cq, loopVars>>

\* executor_t::worker(): dequeue up to eight jobs.
WorkerDequeue(w) ==
  /\ worker[w] = {} /\ wake[w] = "out"
  /\ \E jobs \in SUBSET At({"pool"}) :
       /\ Cardinality(jobs) \in 1..8
       /\ worker' = [worker EXCEPT ![w] = jobs]
       /\ loc' = [c \in Coros |-> IF c \in jobs THEN "work" ELSE loc[c]]
  /\ UNCHANGED <<state, keepAlive, parked, eventfd, wake, call, res, cq, loopVars>>

\* executor_t::worker(): the jobs have run; enqueue them all, then wakeup().
WorkerComplete(w) ==
  /\ worker[w] # {}
  /\ loc' = [c \in Coros |-> IF c \in worker[w] THEN "completed" ELSE loc[c]]
  /\ worker' = [worker EXCEPT ![w] = {}]
  /\ wake' = [wake EXCEPT ![w] = "token"]
  /\ UNCHANGED <<state, keepAlive, parked, eventfd, call, res, cq, loopVars>>

\* stop() and shutdown() first drop keep_alive_.
DropKeepAlive(r) ==
  /\ call[r] = "init"
  /\ EarlyCalls \/ pc \notin {"spawn", "cas"}
  /\ Cardinality({x \in Requests : call[x] # "init"}) < MaxCalls
  /\ keepAlive' = FALSE
  /\ call' = [call EXCEPT ![r] = "cas"]
  /\ UNCHANGED <<state, parked, eventfd, wake, worker, loc, res, cq, loopVars>>

\* Mutant: stop() gives up when the context is not Running.
StopCasMutant ==
  /\ call["stop"] = "cas"
  /\ state' = IF state = "Running" THEN "Canceling" ELSE state
  /\ call' = [call EXCEPT !["stop"] = "wakeup"]
  /\ UNCHANGED <<keepAlive, parked, eventfd, wake, worker, loc, res, cq, loopVars>>

\* stop(): Running -> Canceling; a failed exchange leaves what it saw.
StopCas ==
  /\ call["stop"] = "cas"
  /\ state' = IF state = "Running" THEN "Canceling" ELSE state
  /\ call' = [call EXCEPT !["stop"] =
                IF state = "Draining" THEN "fromDraining"
                ELSE IF state = "Terminated" THEN "fromTerminated"
                ELSE "wakeup"]
  /\ UNCHANGED <<keepAlive, parked, eventfd, wake, worker, loc, res, cq, loopVars>>

\* stop(): the second exchange, from the state the first one saw.
StopCasAgain ==
  /\ call["stop"] \in {"fromDraining", "fromTerminated"}
  /\ LET seen == IF call["stop"] = "fromDraining" THEN "Draining" ELSE "Terminated"
     IN state' = IF state = seen THEN "Canceling" ELSE state
  /\ call' = [call EXCEPT !["stop"] = "wakeup"]
  /\ UNCHANGED <<keepAlive, parked, eventfd, wake, worker, loc, res, cq, loopVars>>

\* stop() ends with wakeup().
StopWakeup ==
  /\ call["stop"] = "wakeup"
  /\ call' = [call EXCEPT !["stop"] = "returned"]
  /\ wake' = [wake EXCEPT !["stop"] = "token"]
  /\ UNCHANGED <<state, keepAlive, parked, eventfd, worker, loc, res, cq, loopVars>>

\* Mutant: shutdown() stores Draining without looking.
ShutdownCasMutant ==
  /\ call["shutdown"] = "cas"
  /\ state' = "Draining"
  /\ call' = [call EXCEPT !["shutdown"] = "post"]
  /\ UNCHANGED <<keepAlive, parked, eventfd, wake, worker, loc, res, cq, loopVars>>

\* shutdown(): Running -> Draining.
ShutdownCas ==
  /\ call["shutdown"] = "cas"
  /\ state' = IF state = "Running" THEN "Draining" ELSE state
  /\ call' = [call EXCEPT !["shutdown"] =
                IF state = "Running" THEN "post" ELSE "fromTerminated"]
  /\ UNCHANGED <<keepAlive, parked, eventfd, wake, worker, loc, res, cq, loopVars>>

\* shutdown(): not running (yet): Terminated -> Canceling, and return.
ShutdownEarly ==
  /\ call["shutdown"] = "fromTerminated"
  /\ state' = IF state = "Terminated" THEN "Canceling" ELSE state
  /\ call' = [call EXCEPT !["shutdown"] = "returned"]
  /\ UNCHANGED <<keepAlive, parked, eventfd, wake, worker, loc, res, cq, loopVars>>

\* shutdown(): spawn_remote() of the drain timer.
ShutdownPost ==
  /\ call["shutdown"] = "post"
  /\ call' = [call EXCEPT !["shutdown"] = "returned"]
  /\ loc' = [loc EXCEPT !["drain"] = "remote"]
  /\ wake' = [wake EXCEPT !["shutdown"] = "token"]
  /\ UNCHANGED <<state, keepAlive, parked, eventfd, worker, res, cq, loopVars>>

CallStep ==
  \/ "stop" \in Requests /\ (StopCas \/ StopCasAgain \/ StopWakeup)
  \/ "shutdown" \in Requests /\ (ShutdownCas \/ ShutdownEarly \/ ShutdownPost)

-----------------------------------------------------------------------------
(* The kernel *)

\* Post the completion of the operation that coroutine c awaits.
PostCqe(c, result) ==
  /\ loc' = [loc EXCEPT ![c] = "cq"]
  /\ res' = [res EXCEPT ![c] = result]
  /\ cq' = Append(cq, c)
  /\ UNCHANGED <<state, keepAlive, parked, threadVars, loopVars>>

\* An operation of a user coroutine completes by itself: it may never do so.
KernelComplete(t) ==
  /\ loc[t] = "inflight"
  /\ PostCqe(t, "ok")
  /\ UNCHANGED eventfd

\* An operation the sweep has cancelled posts its completion.
KernelCanceled(c) ==
  /\ loc[c] = "canceled"
  /\ PostCqe(c, "canceled")
  /\ UNCHANGED eventfd

\* The read of the eventfd completes and resets it.
KernelEventfd ==
  /\ loc["watch"] = "inflight" /\ eventfd
  /\ PostCqe("watch", "ok")
  /\ eventfd' = FALSE

\* The timer of shutdown() expires.
KernelTimer ==
  /\ loc["drain"] = "inflight"
  /\ PostCqe("drain", "ok")
  /\ UNCHANGED eventfd

KernelStep ==
  \/ \E t \in Tasks : KernelComplete(t)
  \/ \E c \in Coros : KernelCanceled(c)
  \/ KernelEventfd \/ KernelTimer

\* io_uring_submit(): the first n entries go to the kernel, in order.  The sweep's
\* cancel request is served on the spot, on what is in flight before it: CANCEL_ANY
\* takes every operation, a cancel by user_data the one of that generation, if it is
\* still there.
SubmitSq(n) ==
  LET sent   == Range(SubSeq(sq, 1, n))
      before == {c \in sent : \E i, j \in 1..n : i < j /\ sq[i] = c /\ sq[j] = "sweep"}
      aimed  == IF sweep.any THEN Coros ELSE {sweep.aim} \ sweep.stale
      hit    == {c \in At({"inflight"}) \cup before : "sweep" \in sent /\ c \in aimed}
  IN /\ loc' = [c \in Coros |-> IF c \in hit THEN "canceled"
                                ELSE IF c \notin sent THEN loc[c]
                                ELSE IF c = "sweep" THEN "cq" ELSE "inflight"]
     /\ res' = IF "sweep" \in sent
               THEN [res EXCEPT !["sweep"] = IF hit = {} THEN "none" ELSE "ok"]
               ELSE res
     /\ cq' = IF "sweep" \in sent THEN Append(cq, "sweep") ELSE cq
     /\ sq' = SubSeq(sq, n + 1, Len(sq))
     /\ tracker' = [tracker EXCEPT !.ioInflight = @ + n]

-----------------------------------------------------------------------------
(* The owner thread: run() and sched() *)

ownerFrame == <<keepAlive, eventfd, threadVars>>

\* Mutant: the jobs of the pool are forgotten.
UserIdleMutant == ~keepAlive /\ tracker.ready + tracker.userIo = 0

\* task_tracker_t
UserIdle ==
  ~keepAlive /\ tracker.ready + tracker.cpu + tracker.userIo = 0
Idle == UserIdle /\ tracker.ioInflight = 0

\* schedule(): push handles to the ready queue and count them.
Schedule(handles) ==
  /\ ready' = ready \o handles
  /\ loc' = [c \in Coros |-> IF c \in Range(handles) THEN "ready" ELSE loc[c]]

\* run(): spawn the watcher of the eventfd.
RunSpawn ==
  /\ pc = "spawn"
  /\ Schedule(<<"watch">>)
  /\ tracker' = [tracker EXCEPT !.ready = @ + 1]
  /\ pc' = "cas"
  /\ UNCHANGED <<state, parked, res, awaits, resumed, sq, cq, sweep, ownerFrame>>

\* run(): only a context still Terminated earns the Running phase.
RunCas ==
  /\ pc = "cas"
  /\ state' = IF state = "Terminated" THEN "Running" ELSE state
  /\ pc' = "test"
  /\ UNCHANGED <<parked, loc, res, awaits, ready, resumed, sq, cq, sweep, tracker, ownerFrame>>

\* run(): while (!idle()).
RunTest ==
  /\ pc = "test"
  /\ pc' = IF Idle THEN "publish" ELSE "sweep"
  /\ UNCHANGED <<state, parked, loc, res, awaits, ready, resumed, sq, cq, sweep, tracker, ownerFrame>>

\* run(): when Canceling, spawn cancel_sweep() if `latch' lets it.
SpawnSweep(latch) ==
  /\ pc = "sweep"
  /\ pc' = "remote"
  /\ IF state = "Canceling" /\ latch
     THEN /\ sweep' = [sweep EXCEPT !.inflight = TRUE]
          /\ Schedule(<<"sweep">>)
          /\ res' = [res EXCEPT !["sweep"] = "start"]
          /\ tracker' = [tracker EXCEPT !.ready = @ + 1]
     ELSE UNCHANGED <<sweep, ready, loc, res, tracker>>
  /\ UNCHANGED <<state, parked, awaits, resumed, sq, cq, ownerFrame>>

\* Mutant: the latch is tested the wrong way round.
RunSweepLatchMutant == SpawnSweep(sweep.inflight)

\* run(): one sweep at a time.
RunSweep == SpawnSweep(~sweep.inflight)

\* Mutant: handles of other threads are not counted.
HarvestRemoteMutant ==
  \E handles \in Orders(At({"remote"})) : Schedule(handles) /\ UNCHANGED tracker

\* sched(): harvest_remote(); the queue of several producers has no order.
HarvestRemote ==
  \E handles \in Orders(At({"remote"})) :
    /\ Schedule(handles)
    /\ tracker' = [tracker EXCEPT !.ready = @ + Len(handles)]

\* Mutant: a finished job is taken off the count twice.
HarvestAsyncMutant ==
  \E handles \in Orders(At({"completed"})) :
    /\ Schedule(handles)
    /\ tracker' = [tracker EXCEPT !.ready = @ + Len(handles), !.cpu = @ - 2 * Len(handles)]

\* sched(): harvest_async().
HarvestAsync ==
  \E handles \in Orders(At({"completed"})) :
    /\ Schedule(handles)
    /\ tracker' = [tracker EXCEPT !.ready = @ + Len(handles), !.cpu = @ - Len(handles)]

SchedRemote ==
  /\ pc = "remote"
  /\ HarvestRemote
  /\ resumed' = 0
  /\ pc' = "async"
  /\ UNCHANGED <<state, parked, res, awaits, sq, cq, sweep, ownerFrame>>

SchedAsync ==
  /\ pc = "async"
  /\ HarvestAsync
  /\ pc' = "resume1"
  /\ UNCHANGED <<state, parked, res, awaits, resumed, sq, cq, sweep, ownerFrame>>

-----------------------------------------------------------------------------
(* resume_ready(): what a coroutine does when it is resumed *)

Resuming == {"resume1", "resume2", "resume3"}

\* await_suspend of an io awaiter: an entry in the submission queue.
Arm(c) ==
  /\ loc' = [loc EXCEPT ![c] = "armed"]
  /\ sq' = Append(sq, c)

Finish(c) ==
  /\ loc' = [loc EXCEPT ![c] = "done"]
  /\ UNCHANGED sq

\* resume_task(): the head of the ready queue leaves it.
Popped == [tracker EXCEPT !.ready = @ - 1]

ResumeHead(c) ==
  /\ pc \in Resuming /\ resumed < Batch
  /\ ready # <<>> /\ c = Head(ready)
  /\ resumed' = resumed + 1
  /\ UNCHANGED <<parked, pc, res, cq, ownerFrame>>

\* c starts an operation: a sweep that has its former one on the list will miss it.
Anew(c) ==
  IF ~sweep.any /\ sweep.inflight /\ c \in sweep.todo \cup {sweep.aim}
  THEN [sweep EXCEPT !.stale = @ \cup {c}] ELSE sweep

\* A user coroutine runs to its end.
TaskEnds(t) ==
  /\ ResumeHead(t)
  /\ Finish(t)
  /\ ready' = Tail(ready) /\ tracker' = Popped
  /\ UNCHANGED <<state, awaits, sweep>>

\* A user coroutine awaits an io operation.
TaskStartsIo(t) ==
  /\ ResumeHead(t)
  /\ awaits[t] > 0
  /\ awaits' = [awaits EXCEPT ![t] = @ - 1]
  /\ Arm(t)
  /\ ready' = Tail(ready)
  /\ tracker' = [Popped EXCEPT !.userIo = @ + 1]
  /\ sweep' = Anew(t)
  /\ UNCHANGED state

\* add() refuses a job when more than max_task_nr are queued ...
PoolFull == Cardinality(At({"pool"})) > MaxTaskNr

\* ... and may refuse one behind others, when try_enqueue() finds no free block.
PoolRefuses == PoolFull \/ At({"pool"}) # {}

\* A user coroutine awaits async(); a pool that refuses the job sends it back to the
\* ready queue with the exception.
TaskStartsJob(t) ==
  /\ ResumeHead(t)
  /\ Workers # {} /\ awaits[t] > 0
  /\ awaits' = [awaits EXCEPT ![t] = @ - 1]
  /\ \/ /\ PoolRefuses
        /\ ready' = Append(Tail(ready), t)
        /\ UNCHANGED <<loc, tracker>>
     \/ /\ ~PoolFull
        /\ ready' = Tail(ready)
        /\ loc' = [loc EXCEPT ![t] = "pool"]
        /\ tracker' = [Popped EXCEPT !.cpu = @ + 1]
  /\ UNCHANGED <<state, sq, sweep>>

\* watch_loop(): read again, until it is to end.
WatchUntil(end) ==
  /\ ResumeHead("watch")
  /\ IF end THEN Finish("watch") ELSE Arm("watch")
  /\ ready' = Tail(ready) /\ tracker' = Popped
  /\ sweep' = Anew("watch")
  /\ UNCHANGED <<state, awaits>>

\* Mutant: the watcher reads once only.
WatchLoopOnceMutant == WatchUntil(res["watch"] # "start")

\* Only a cancelled read retires the watcher, whatever the phase.
WatchLoop == WatchUntil(res["watch"] = "canceled")

\* Mutant: the drain coroutine leaves the phase alone when its timer expires.
DrainTimerMutant ==
  /\ ResumeHead("drain")
  /\ IF res["drain"] = "start" THEN Arm("drain") ELSE Finish("drain")
  /\ ready' = Tail(ready) /\ tracker' = Popped
  /\ UNCHANGED <<state, awaits, sweep>>

\* shutdown()'s drain coroutine: sleep, then Draining -> Canceling.
DrainTimer ==
  /\ ResumeHead("drain")
  /\ IF res["drain"] = "start" THEN Arm("drain") ELSE Finish("drain")
  /\ state' = IF res["drain"] = "ok" /\ state = "Draining" THEN "Canceling" ELSE state
  /\ ready' = Tail(ready) /\ tracker' = Popped
  /\ UNCHANGED <<awaits, sweep>>

\* cancel_sweep() on a kernel with CANCEL_ANY: again until nothing is left.
SweepAny ==
  /\ sweep.any /\ ResumeHead("sweep")
  /\ IF res["sweep"] = "none"
     THEN /\ Finish("sweep")
          /\ sweep' = [sweep EXCEPT !.inflight = FALSE]
     ELSE /\ Arm("sweep")
          /\ UNCHANGED sweep
  /\ ready' = Tail(ready) /\ tracker' = Popped
  /\ UNCHANGED <<state, awaits>>

\* cancel_sweep() on an older kernel: one cancel for each slot and generation active
\* at the start, each awaited.
SweepOver(active) ==
  /\ ~sweep.any /\ ResumeHead("sweep")
  /\ LET starts == res["sweep"] = "start"
         left   == IF starts THEN active ELSE sweep.todo
     IN \/ /\ left = {}
           /\ Finish("sweep")
           /\ sweep' = [sweep EXCEPT !.inflight = FALSE, !.todo = {}, !.stale = {}]
        \/ \E c \in left :
             /\ Arm("sweep")
             /\ sweep' = [sweep EXCEPT !.todo = left \ {c}, !.aim = c,
                                       !.stale = IF starts THEN {} ELSE @]
  /\ ready' = Tail(ready) /\ tracker' = Popped
  /\ UNCHANGED <<state, awaits>>

\* A slot is active from prepare_into() to complete().
ActiveSlots == At(Active)

SweepSlots == SweepOver(ActiveSlots)

ResumeTask ==
  \/ \E t \in Tasks : TaskEnds(t) \/ TaskStartsIo(t) \/ TaskStartsJob(t)
  \/ WatchLoop \/ DrainTimer \/ SweepAny \/ SweepSlots

\* resume_ready() returns: queue empty, or the batch of this cycle used up.
Resumed(place) == pc = place /\ (ready = <<>> \/ resumed = Batch)

-----------------------------------------------------------------------------
(* sched(): completions, submission and the park block *)

\* Mutant: completed operations stay in the queue.
ReapAdvanceMutant ==
  /\ Schedule(cq)
  /\ UNCHANGED cq
  /\ tracker' = [tracker EXCEPT
       !.ready = @ + Len(cq), !.ioInflight = @ - Len(cq),
       !.userIo = @ - Cardinality(Range(cq) \cap Tasks)]

\* process_cqes() / peek_cqes(): complete() every operation in the queue.
Reap ==
  /\ Schedule(cq)
  /\ cq' = <<>>
  /\ tracker' = [tracker EXCEPT
       !.ready = @ + Len(cq), !.ioInflight = @ - Len(cq),
       !.userIo = @ - Cardinality(Range(cq) \cap Tasks)]

\* Peek only when the tracker knows of submitted operations.
SchedPeek ==
  /\ Resumed("resume1")
  /\ IF tracker.ioInflight > 0 THEN Reap ELSE UNCHANGED <<ready, loc, cq, tracker>>
  /\ pc' = "resume2"
  /\ UNCHANGED <<state, parked, res, awaits, resumed, sq, sweep, ownerFrame>>

\* uring.submit(), of a busy cycle or after a re-check that found work.  The kernel may
\* take some entries only, or none and fail: the others stay for the next submit.
SchedSubmit ==
  /\ pc = "flush" \/ (Resumed("resume2") /\ ready # <<>>)
  /\ \E n \in 0..Len(sq) : SubmitSq(n)
  /\ pc' = IF pc = "flush" THEN "unpark" ELSE "resume3"
  /\ UNCHANGED <<state, parked, awaits, ready, resumed, sweep, ownerFrame>>

\* Mutant: no park token.
SchedParkMutant ==
  /\ Resumed("resume2") /\ ready = <<>>
  /\ pc' = "recheckRemote"
  /\ UNCHANGED <<state, parked, loc, res, awaits, ready, resumed, sq, cq, sweep, tracker, ownerFrame>>

\* park_scope's constructor.
SchedPark ==
  /\ Resumed("resume2") /\ ready = <<>>
  /\ parked' = TRUE
  /\ pc' = "recheckRemote"
  /\ UNCHANGED <<state, loc, res, awaits, ready, resumed, sq, cq, sweep, tracker, ownerFrame>>

\* Mutant: the remote queue is not looked at again.
SchedRecheckRemoteMutant ==
  /\ pc = "recheckRemote"
  /\ pc' = "recheckAsync"
  /\ UNCHANGED <<state, parked, loc, res, awaits, ready, resumed, sq, cq, sweep, tracker, ownerFrame>>

SchedRecheckRemote ==
  /\ pc = "recheckRemote"
  /\ HarvestRemote
  /\ pc' = IF At({"remote"}) = {} THEN "recheckAsync" ELSE "flush"
  /\ UNCHANGED <<state, parked, res, awaits, resumed, sq, cq, sweep, ownerFrame>>

SchedRecheckAsync ==
  /\ pc = "recheckAsync"
  /\ HarvestAsync
  /\ pc' = IF At({"completed"}) = {} THEN "enter" ELSE "flush"
  /\ UNCHANGED <<state, parked, res, awaits, resumed, sq, cq, sweep, ownerFrame>>

\* submit_and_wait_cqes(): the entries are submitted, all of them ...
SchedEnter ==
  /\ pc = "enter"
  /\ SubmitSq(Len(sq))
  /\ pc' = "wait"
  /\ UNCHANGED <<state, parked, awaits, ready, resumed, sweep, ownerFrame>>

\* ... and the call returns with the completions there are ...
SchedWaitReap ==
  /\ pc = "wait" /\ cq # <<>>
  /\ Reap
  /\ pc' = "unpark"
  /\ UNCHANGED <<state, parked, res, awaits, resumed, sq, sweep, ownerFrame>>

\* ... or after io_wait_ without any (-ETIME).
SchedWaitTimeout ==
  /\ pc = "wait" /\ cq = <<>>
  /\ pc' = "unpark"
  /\ UNCHANGED <<state, parked, loc, res, awaits, ready, resumed, sq, cq, sweep, tracker, ownerFrame>>

\* park_scope's destructor.
SchedUnpark ==
  /\ pc = "unpark"
  /\ parked' = FALSE
  /\ pc' = "resume3"
  /\ UNCHANGED <<state, loc, res, awaits, ready, resumed, sq, cq, sweep, tracker, ownerFrame>>

\* run(): if (user_idle()) ...
RunAfter ==
  /\ Resumed("resume3")
  /\ pc' = IF UserIdle THEN "cancel" ELSE "test"
  /\ UNCHANGED <<state, parked, loc, res, awaits, ready, resumed, sq, cq, sweep, tracker, ownerFrame>>

\* ... switch_to(Canceling); and switch_to(Terminated) after the loop.
RunSwitch ==
  /\ pc \in {"cancel", "publish"}
  /\ state' = IF pc = "cancel" THEN "Canceling" ELSE "Terminated"
  /\ pc' = IF pc = "cancel" THEN "test" ELSE "end"
  /\ UNCHANGED <<parked, loc, res, awaits, ready, resumed, sq, cq, sweep, tracker, ownerFrame>>

OwnerStep ==
  \/ RunSpawn \/ RunCas \/ RunTest \/ RunSweep \/ RunAfter \/ RunSwitch
  \/ SchedRemote \/ SchedAsync \/ SchedPeek \/ SchedSubmit
  \/ ResumeTask
  \/ SchedPark \/ SchedRecheckRemote \/ SchedRecheckAsync \/ SchedUnpark
  \/ SchedEnter \/ SchedWaitReap

ThreadStep ==
  \/ \E t \in Threads : Exchange(t) \/ Poke(t)
  \/ \E w \in Workers : WorkerDequeue(w) \/ WorkerComplete(w)
  \/ CallStep

Next ==
  \/ OwnerStep \/ SchedWaitTimeout \/ ThreadStep \/ KernelStep
  \/ \E t \in Remote : SpawnRemote(t)
  \/ \E r \in Requests : DropKeepAlive(r)

Spec == Init /\ [][Next]_vars

\* The owner thread runs on, wakeup() calls, jobs and requests are carried
\* through, cancelled operations, eventfd reads and timers complete.  Nothing
\* is assumed of user io, of further spawns, nor of the io_wait_ timeout.
Fairness ==
  /\ WF_vars(OwnerStep)
  /\ \A t \in Threads : WF_vars(Exchange(t) \/ Poke(t))
  /\ \A w \in Workers : WF_vars(WorkerDequeue(w) \/ WorkerComplete(w))
  /\ WF_vars(CallStep)
  /\ \A c \in Coros : WF_vars(KernelCanceled(c))
  /\ WF_vars(KernelEventfd) /\ WF_vars(KernelTimer)

FairSpec == Spec /\ Fairness

\* The same, with a wait that times out as io_uring_enter does.
TimeoutFairSpec == FairSpec /\ WF_vars(SchedWaitTimeout)

-----------------------------------------------------------------------------
(* Properties *)

\* The tracker, the single source of truth for "is there work left", agrees
\* with where the coroutines are, at every step of every thread: ready_ with
\* the ready queue, cpu_ with the jobs of the pool, user_io_ with the user
\* operations prepared and not completed, io_inflight_ with the entries
\* submitted and not reaped.
TrackerExact ==
  /\ tracker.ready = Cardinality(At({"ready"}))
  /\ tracker.cpu = Cardinality(At(Pooled))
  /\ tracker.userIo = Cardinality(Tasks \cap At(Active))
  /\ tracker.ioInflight = Cardinality(At(Submitted))

\* A suspended coroutine is in one place and once: no handle sits twice in the
\* ready queue (it would be resumed while suspended somewhere else), and no
\* operation is submitted or completed twice.
HeldOnce ==
  /\ IsInjective(ready) /\ Range(ready) = At({"ready"})
  /\ IsInjective(sq) /\ Range(sq) = At({"armed"})
  /\ IsInjective(cq) /\ Range(cq) = At({"cq"})

\* run() returns only when the user coroutines it was given have ended: none
\* is left in the ready queue, in the ring or in the thread pool (idle():
\* "leaving the loop with io still in flight would tear the ring down").
\* Handles still in the remote queue were never admitted.
NoUserWorkLost ==
  pc \in {"publish", "end"} =>
    /\ Tasks \subseteq At({"new", "remote", "done"})
    /\ At(Submitted) = {}

\* While the loop sleeps in Running or Draining, the watcher's read of the
\* eventfd is in the kernel or already answered, so a wakeup() cannot be missed.
WatcherServes ==
  pc = "wait" /\ state \in {"Running", "Draining"} =>
    loc["watch"] \in {"inflight", "cq"}

\* A stop() that has returned was not dropped: the context is not (or no
\* longer) in a Running or Draining phase.
StopHonoured ==
  "stop" \in Requests /\ call["stop"] = "returned" =>
    state \in {"Canceling", "Terminated"}

\* Concurrent stop(), shutdown() and the loop itself never take a context back
\* from Canceling or Draining to an earlier phase.
NoRegress ==
  [][/\ state = "Canceling" => state' \in {"Canceling", "Terminated"}
     /\ state = "Draining" => state' # "Running"]_vars

\* The refinement mapping to ParkHandshake: what the two queues hold, whether a
\* notification is still to be consumed, and where the owner is in the park block.
ParkPending ==
  [q \in {"remote", "async"} |->
     Cardinality(At({IF q = "remote" THEN "remote" ELSE "completed"}))]

ParkNotified == eventfd \/ (loc["watch"] = "cq" /\ res["watch"] = "ok")

ParkOwner ==
  CASE pc = "recheckRemote" -> "parking"
    [] pc = "recheckAsync" -> "recheck"
    [] pc \in {"enter", "wait"} -> "waiting"
    [] pc \in {"flush", "unpark"} -> "leaving"
    [] OTHER -> "busy"

\* The loop parks the way ParkHandshake says, with every other thread as a
\* producer: so it never sleeps over handed-in work.
Park == INSTANCE ParkHandshake WITH
  Producers  <- Threads,
  MaxPending <- Cardinality(Coros),
  pending    <- ParkPending,
  notified   <- ParkNotified,
  prod       <- wake,
  owner      <- ParkOwner

ImplementsPark == Park!Spec

\* Handles in the remote queue and finished jobs of the pool.
HandedIn(c) == loc[c] \in {"remote", "completed"}

\* Work another thread hands in is taken up by the loop until a Canceling
\* phase begins: the wakeup() handshake alone sees to it, with no help from the
\* io_wait_ timeout.
WakeupSuffices ==
  \A t \in Tasks : HandedIn(t) ~> (~HandedIn(t) \/ state = "Canceling" \/ pc = "end")

\* With that timeout, it is taken up in every phase, unless run() returns; and
\* a job of the pool is waited for.
HandedInRuns ==
  \A t \in Tasks : HandedIn(t) ~> (~HandedIn(t) \/ (loc[t] = "remote" /\ pc = "end"))

\* Once Canceling, run() returns, whatever io the user coroutines had in
\* flight: the sweeps end all of it.
CancelingEnds == state = "Canceling" ~> pc = "end"

\* A stop() or shutdown() that has returned makes run() return.
RequestsEnd == (\E r \in Requests : call[r] = "returned") ~> pc = "end"

\* run() leaves the ring empty behind it: no framework entry waits in the
\* submission queue and the sweep and the watcher have ended (context.cc "sweep
\* and watchers have fully wound down").
CleanExit == pc = "end" => sq = <<>> /\ ~sweep.inflight /\ loc["watch"] = "done"

-----------------------------------------------------------------------------
(* Why the safety properties hold *)

\* The framework's coroutines are where their code can put them: the watcher is new
\* until run() spawns it, there is a sweep exactly while the latch is set, and the drain
\* timer is new until shutdown() hands it in.
SystemPlaces ==
  /\ loc["watch"] \in {"new", "ready", "armed", "inflight", "canceled", "cq", "done"}
  /\ loc["watch"] = "new" <=> pc = "spawn"
  /\ sweep.inflight => loc["sweep"] \in {"ready", "armed", "cq"}
  /\ ~sweep.inflight => loc["sweep"] \in {"new", "done"}
  /\ loc["drain"] \notin Pooled
  /\ ("shutdown" \in Requests => call["shutdown"] # "returned") => loc["drain"] = "new"

\* The jobs that run are those of the workers, and no job has two.
WorkersApart ==
  /\ \A w \in Workers : \A t \in worker[w] : loc[t] = "work"
  /\ \A t \in Coros : loc[t] = "work" => \E w \in Workers : t \in worker[w]
  /\ \A v, w \in Workers : v # w => worker[v] \cap worker[w] = {}

\* The park block is entered with an empty ready queue and waits with an empty
\* submission queue.
ParkBlock ==
  /\ pc \in {"recheckRemote", "recheckAsync", "enter", "wait"} => ready = <<>>
  /\ pc = "wait" => sq = <<>>

\* Nothing cancels the watcher before a Canceling phase begins.
WatcherAlive ==
  pc \in {"spawn", "cas"} \/ state \in {"Running", "Draining"} =>
    /\ loc["sweep"] = "new"
    /\ loc["watch"] \notin {"canceled", "done"} /\ res["watch"] # "canceled"

\* After the last test of idle() nothing comes back to life.
IdleStays ==
  pc \in {"publish", "end"} =>
    \A c \in Coros : loc[c] \in {"new", "remote", "done"} \/ (c \in System /\ loc[c] = "armed")

LoopInv ==
  /\ TypeOK /\ HeldOnce /\ TrackerExact
  /\ SystemPlaces /\ WorkersApart /\ ParkBlock /\ WatcherAlive /\ IdleStays

\* A thread that is about to hand something in is not inside wakeup().
CallersOut ==
  /\ \A t \in Remote : loc[t] = "new" => wake[t] = "out"
  /\ \A w \in Workers : worker[w] # {} => wake[w] = "out"
  /\ \A r \in Requests : call[r] # "returned" => wake[r] = "out"

\* stop() takes the context out of the phase it saw, whatever happens in between.
StopInv ==
  "stop" \in Requests =>
    /\ call["stop"] # "init" => pc \notin {"spawn", "cas"}
    /\ call["stop"] = "fromDraining" => state # "Running"
    /\ call["stop"] \in {"fromTerminated", "wakeup", "returned"} =>
         state \in {"Canceling", "Terminated"}
=============================================================================
