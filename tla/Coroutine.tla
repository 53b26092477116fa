----------------------------- MODULE Coroutine -----------------------------
(***************************************************************************)
(* coro_t (coroutine/coro.h): who owns a coroutine frame, who is resumed   *)
(* when it ends and when it is freed.  A root coroutine "m" that never     *)
(* dies runs children "a" and "b"; m and a have one wrapper variable each  *)
(* and await only what their own variable holds.                           *)
(***************************************************************************)
EXTENDS Integers

CoFrames == {"a", "b"}
CoSlots == {"m", "a"}   \* the coroutine whose frame has the wrapper variable

VARIABLES coState,      \* frame: none fresh running suspended awaiting done freed
          coDetached, coCont, coOut,
          coHold,       \* the handle in each wrapper variable, "null" when empty
          coRun,        \* who runs now: "m", a frame or the "loop"
          coCaller,     \* whom a suspension returns to: the loop, or m in resume()
          coM           \* m: "running", "awaiting" or what its co_await gave it

coVars == <<coState, coDetached, coCont, coOut, coHold, coRun, coCaller, coM>>

CoInit ==
  /\ coState = [f \in CoFrames |-> "none"]
  /\ coDetached = [f \in CoFrames |-> FALSE]
  /\ coCont = [f \in CoFrames |-> "none"]
  /\ coOut = [f \in CoFrames |-> "none"]
  /\ coHold = [s \in CoSlots |-> "null"]
  /\ coRun = "m" /\ coCaller = "loop" /\ coM = "running"

\* get_return_object after initial_suspend: s's variable owns a frame not yet run.
CoCreate(s, f) ==
  /\ coRun = s
  /\ coState[f] = "none" /\ f # s /\ coHold[s] = "null"
  /\ coState' = [coState EXCEPT ![f] = "fresh"]
  /\ coHold' = [coHold EXCEPT ![s] = f]
  /\ UNCHANGED <<coDetached, coCont, coOut, coRun, coCaller, coM>>

\* The frames a destroy() frees: the frame and, through its own wrapper, its child.
CoDoomed(f) ==
  IF f \notin CoFrames \/ coDetached[f] THEN {}
  ELSE {f} \cup (IF f \in CoSlots /\ coHold[f] \in CoFrames /\ ~coDetached[coHold[f]]
                 THEN {coHold[f]} ELSE {})

CoFreed(gone) == [f \in CoFrames |-> IF f \in gone THEN "freed" ELSE coState[f]]

\* ~basic_coro_t, or a move assignment over a wrapper that still owns a frame.
CoDestroy(s) ==
  LET gone == CoDoomed(coHold[s]) IN
  /\ coRun = s /\ coHold[s] \in CoFrames
  /\ coState' = CoFreed(gone)
  /\ coHold' = [t \in CoSlots |-> IF t = s \/ t \in gone THEN "null" ELSE coHold[t]]
  /\ UNCHANGED <<coDetached, coCont, coOut, coRun, coCaller, coM>>

\* Mutant of CoReleased: the wrapper keeps the handle of a detached coroutine.
CoReleasedKept(s) == coHold[s]

\* What detach leaves in the wrapper.
CoReleased(s) == "null"

\* detach: nothing on a done coroutine; else the frame owns itself and is scheduled.
CoDetach(s) ==
  LET f == coHold[s] IN
  /\ coRun = s /\ f \in CoFrames
  /\ coState[f] \in {"fresh", "done"} /\ ~coDetached[f]
  /\ IF coState[f] = "done" THEN UNCHANGED <<coDetached, coHold, coState>>
     ELSE /\ coDetached' = [coDetached EXCEPT ![f] = TRUE]
          /\ coHold' = [coHold EXCEPT ![s] = CoReleased(s)]
          /\ coState' = [coState EXCEPT ![f] = "suspended"]
  /\ UNCHANGED <<coCont, coOut, coRun, coCaller, coM>>

\* co_await: an empty wrapper throws, a done one gives its result, else the child
\* gets the parent as continuation and is entered by symmetric transfer.
CoAwait(s) ==
  LET f == coHold[s]
      ready == f = "null" \/ (f # "null" /\ coState[f] = "done")
  IN
  /\ coRun = s
  /\ f # "null" => ~coDetached[f] /\ coState[f] \in {"fresh", "suspended", "done"}
  /\ IF ready
     THEN /\ UNCHANGED <<coState, coCont, coRun>>
          /\ coM' = IF s = "m" THEN IF f = "null" THEN "logic_error" ELSE coOut[f] ELSE coM
     ELSE /\ coCont' = [coCont EXCEPT ![f] = s]
          /\ coState' = [g \in CoFrames |-> IF g = f THEN "running"
                                            ELSE IF g = s THEN "awaiting" ELSE coState[g]]
          /\ coRun' = f
          /\ coM' = IF s = "m" THEN "awaiting" ELSE coM
  /\ UNCHANGED <<coDetached, coOut, coHold, coCaller>>

\* wrapper.resume() by m: the child runs until it suspends, then m goes on.
CoResume ==
  LET f == coHold["m"] IN
  /\ coRun = "m" /\ f \in CoFrames
  /\ coState[f] \in {"fresh", "suspended"} /\ ~coDetached[f]
  /\ coState' = [coState EXCEPT ![f] = "running"]
  /\ coRun' = f /\ coCaller' = "m"
  /\ UNCHANGED <<coDetached, coCont, coOut, coHold, coM>>

\* The running frame suspends on an operation, or m goes back to the loop.
CoSuspend ==
  /\ coRun \in CoFrames \cup {"m"}
  /\ IF coRun = "m" THEN coM = "running" /\ coM' = "suspended" /\ coRun' = "loop"
                         /\ UNCHANGED <<coState, coCaller>>
     ELSE /\ coState' = [coState EXCEPT ![coRun] = "suspended"]
          /\ coRun' = coCaller /\ coCaller' = "loop" /\ UNCHANGED coM
  /\ UNCHANGED <<coDetached, coCont, coOut, coHold>>

\* The loop resumes a frame whose operation completed, or m.
CoLoopResumes(f) ==
  /\ coRun = "loop"
  /\ IF f = "m" THEN coM = "suspended" /\ coM' = "running" /\ UNCHANGED coState
     ELSE coState[f] = "suspended" /\ coState' = [coState EXCEPT ![f] = "running"] /\ UNCHANGED coM
  /\ coRun' = f
  /\ UNCHANGED <<coDetached, coCont, coOut, coHold, coCaller>>

\* return_value or unhandled_exception, the end of the locals, final_suspend: a
\* detached frame is destroyed, then the continuation runs.
CoEnds(out) ==
  LET f    == coRun
      gone == (IF f \in CoSlots THEN CoDoomed(coHold[f]) ELSE {})
      next == coCont[f]
  IN
  /\ f \in CoFrames
  /\ coState' = [g \in CoFrames |->
                   CASE g \in gone -> "freed"
                     [] g = f      -> IF coDetached[f] THEN "freed" ELSE "done"
                     [] g = next   -> "running"
                     [] OTHER      -> coState[g]]
  /\ coOut' = [coOut EXCEPT ![f] = out]
  /\ coHold' = [t \in CoSlots |-> IF t = f THEN "null" ELSE coHold[t]]
  /\ coRun' = IF next # "none" THEN next ELSE coCaller
  /\ coCaller' = IF next # "none" THEN coCaller ELSE "loop"
  /\ coM' = IF next = "m" THEN out ELSE coM
  /\ UNCHANGED <<coDetached, coCont>>

\* m has looked at what its co_await gave it.
CoGoesOn ==
  /\ coM \in {"value", "exception", "logic_error"}
  /\ coM' = "running"
  /\ UNCHANGED <<coState, coDetached, coCont, coOut, coHold, coRun, coCaller>>

CoNext ==
  \/ CoResume \/ CoSuspend \/ CoGoesOn
  \/ \E s \in CoSlots : CoDestroy(s) \/ CoDetach(s) \/ CoAwait(s)
                        \/ \E f \in CoFrames : CoCreate(s, f)
  \/ \E f \in CoFrames \cup {"m"} : CoLoopResumes(f)
  \/ \E out \in {"value", "exception"} : CoEnds(out)

----------------------------------------------------------------------------
CoTypeOK ==
  /\ coState \in [CoFrames -> {"none", "fresh", "running", "suspended", "awaiting", "done", "freed"}]
  /\ coHold \in [CoSlots -> CoFrames \cup {"null"}]
  /\ coRun \in CoFrames \cup {"m", "loop"}

\* A frame has one owner and is freed once: no wrapper names a frame that was freed
\* or that owns itself, two wrappers never share one, a frame that still can run
\* transfers at its end to a coroutine that is alive and waiting for it, and only
\* what lives is running.  A frame that can run and has no owner is detached.
CoOwned ==
  /\ \A s \in CoSlots : coHold[s] \in CoFrames =>
        coState[coHold[s]] # "freed" /\ ~coDetached[coHold[s]]
  /\ coHold["m"] # "null" => coHold["m"] # coHold["a"]
  /\ \A f \in CoFrames : coState[f] \in {"running", "suspended", "awaiting"} =>
        /\ coCont[f] \in CoFrames => coState[coCont[f]] = "awaiting"
        /\ coCont[f] = "m" => coM = "awaiting"
        /\ coDetached[f] \/ \E s \in CoSlots : coHold[s] = f
  /\ coRun \in CoFrames => coState[coRun] = "running"
============================================================================
