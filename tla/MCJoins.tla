------------------------------- MODULE MCJoins -------------------------------
(***************************************************************************)
(* What ends and what is waited for, for TLC: the event loop on its way    *)
(* out, and the components in which coroutines or threads wait for each    *)
(* other.  A behaviour picks one of them (focus) and runs it while the     *)
(* others stay in their initial states.                                    *)
(***************************************************************************)
EXTENDS MCEventLoop, Semaphore, Singleflight, WhenAllAny, Structured, CoroTimeout,
        Runtime

VARIABLE focus

Parts == {"loop", "semaphore", "singleflight", "when", "scope", "timeout", "runtime", "server"}

everything == <<focus, vars, semVars, sfVars, waVars, scVars, ctVars, rtVars, hvVars>>

Stay(part, own, component) == IF part = component THEN TRUE ELSE UNCHANGED own

Alone(part) ==
  /\ focus = part
  /\ UNCHANGED focus
  /\ Stay(part, vars, "loop")
  /\ Stay(part, semVars, "semaphore")
  /\ Stay(part, sfVars, "singleflight")
  /\ Stay(part, waVars, "when")
  /\ Stay(part, scVars, "scope")
  /\ Stay(part, ctVars, "timeout")
  /\ Stay(part, rtVars, "runtime")
  /\ Stay(part, hvVars, "server")

JoinsInit ==
  /\ focus \in Parts
  /\ Init
  \* one start is enough to stay in
  /\ focus = "loop" \/ (sweep.any /\ ready = CHOOSE s \in Orders(Local) : TRUE)
  /\ SemInit /\ SfInit /\ WaInit /\ ScInit /\ CtInit /\ RtInit /\ HvInit

JoinsNext ==
  \/ Alone("loop") /\ Next
  \/ Alone("semaphore") /\ SemNext
  \/ Alone("singleflight") /\ SfNext
  \/ Alone("when") /\ WaNext
  \/ Alone("scope") /\ ScNext
  \/ Alone("timeout") /\ CtNext
  \/ Alone("runtime") /\ RtNext
  \/ Alone("server") /\ HvNext

\* The loop and the kernel get on as in TimeoutFairSpec; schedulers run what is ready,
\* tasks and children end by themselves, and a deadline bounds the server's handshakes.
JoinsFairness ==
  /\ focus = "loop" => Fairness /\ WF_vars(SchedWaitTimeout)
  /\ WaFair /\ ScFair /\ RtFair /\ WF_hvVars(HvProgress)

JoinsSpec == JoinsInit /\ [][JoinsNext]_everything /\ JoinsFairness

-----------------------------------------------------------------------------
MCSemNeed == [w \in SemWaiters |-> CASE w = "s1" -> 2 [] w = "s4" -> 0 [] OTHER -> 1]

-----------------------------------------------------------------------------
\* Every component's variables have the values its code can give them.
JoinsTypeOK ==
  CASE focus = "loop"         -> TypeOK
    [] focus = "semaphore"    -> SemTypeOK
    [] focus = "singleflight" -> SfTypeOK
    [] focus = "when"         -> WaTypeOK
    [] focus = "scope"        -> ScTypeOK
    [] focus = "timeout"      -> CtTypeOK
    [] focus = "runtime"      -> RtTypeOK
    [] focus = "server"       -> HvTypeOK

\* Whoever waits for a group of coroutines gets on in the end: the coroutine that
\* awaits when_all, when_any or a task scope, the thread that joins the runtime's workers,
\* and the coroutine in serve() once the server was told to drain or stop and its
\* connections have ended.
JoinsReturn == WaReturns /\ ScReturns /\ RtJoinReturns /\ HvDrainReturns
=============================================================================
