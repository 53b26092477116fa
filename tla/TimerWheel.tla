---------------------------- MODULE TimerWheel ----------------------------
(***************************************************************************)
(* timer_wheel_t (src/timer_wheel.cc) and a deadline_t on it               *)
(* (concurrency/deadline.h) with the operations with_deadline runs under   *)
(* it.  Time is in milliseconds; the wheel is advanced by a runner         *)
(* coroutine that sleeps one tick at a time, exists only while a timer is  *)
(* armed, and may wake late.  A slot's list is the set of its nodes: the   *)
(* order in which a slot is walked changes nothing the callbacks do.       *)
(***************************************************************************)
EXTENDS Integers, FiniteSets

CONSTANTS TwSlots,      \* kSlots
          TwTick,       \* tick_, in milliseconds
          TwNodes,      \* timer_node_t objects; "dl" is the deadline's
          TwDelays,     \* delays and budgets asked for, in milliseconds
          TwLag,        \* bound: how far the cached clock falls behind
          TwEnd         \* bound: the clock stops here

ASSUME TwAssumption ==
  /\ TwSlots \in Nat /\ TwSlots > 1 /\ TwTick \in Nat /\ TwTick > 0
  /\ "dl" \in TwNodes /\ TwDelays \subseteq Int /\ TwEnd \in Nat

VARIABLES twNow,        \* real time
          twClock,      \* coarse_now_ns, refreshed once per loop iteration
          twNode,       \* slot (-1 when unarmed) and rounds of each node
          twCursor,     \* cursor_
          twRunning,    \* running_, cleared by stop()
          twPhase,      \* ctx.is_running(): the context is in its Running phase
          twRunner,     \* "none", "spawned" or "asleep"
          twWake,       \* when the sleep in flight is over
          twAsk,        \* history: when a node is due and how many ticks it is to wait
          twBroken,     \* history: a sleep failed and left armed timers behind
          dlBudget,     \* budget_ns_, 0 for none
          dlFired,      \* fired_
          dlOp,         \* the operation under with_deadline
          dlCapped      \* history: cap() was called for the next operation

twOnly == <<twNow, twClock, twNode, twCursor, twRunning, twPhase, twRunner, twWake, twAsk, twBroken>>
dlOnly == <<dlBudget, dlFired, dlOp, dlCapped>>
twVars == <<twOnly, dlOnly>>

TwUnarmed == [slot |-> -1, rounds |-> 0]
TwNotAsked == [due |-> 0, ticks |-> 0]

TwInit ==
  /\ twNow = 1
  /\ twClock = 1
  /\ twNode = [n \in TwNodes |-> TwUnarmed]
  /\ twCursor = 0
  /\ twRunning = TRUE
  /\ twPhase = TRUE
  /\ twRunner = "none"
  /\ twWake = 0
  /\ twAsk = [n \in TwNodes |-> TwNotAsked]
  /\ twBroken = FALSE
  /\ dlBudget = 0
  /\ dlFired = FALSE
  /\ dlOp = "none"
  /\ dlCapped = FALSE

TwArmed(nodes) == {n \in TwNodes : nodes[n].slot >= 0}

----------------------------------------------------------------------------
(* The wheel *)

TwTicks(d) == IF d <= 0 THEN 1 ELSE (d + TwTick - 1) \div TwTick

\* Mutant of TwPlace: an exact multiple of the wheel waits one lap too many.
TwPlaceLap(d) ==
  [slot |-> (twCursor + TwTicks(d)) % TwSlots, rounds |-> TwTicks(d) \div TwSlots]

\* arm: the slot and the laps to wait through.
TwPlace(d) ==
  [slot |-> (twCursor + TwTicks(d)) % TwSlots, rounds |-> (TwTicks(d) - 1) \div TwSlots]

\* Mutant of TwEnsureRunner: only the first timer ever armed starts a runner.
TwEnsureRunnerOnce == IF twRunner = "none" /\ twRunning /\ twCursor = 0 THEN "spawned" ELSE twRunner

\* ensure_runner: one runner at most, and none on a stopped wheel.
TwEnsureRunner == IF twRunner = "none" /\ twRunning THEN "spawned" ELSE twRunner

\* arm(node, delay), which also moves a node that is armed already.
TwArm(n, d) ==
  /\ twNode' = [twNode EXCEPT ![n] = TwPlace(d)]
  /\ twAsk' = [twAsk EXCEPT ![n] = [due |-> twNow + d, ticks |-> TwTicks(d)]]
  /\ twRunner' = TwEnsureRunner
  /\ UNCHANGED <<twNow, twClock, twCursor, twRunning, twPhase, twWake, twBroken>>

\* cancel(node)
TwCancel(n) ==
  /\ twNode' = [twNode EXCEPT ![n] = TwUnarmed]
  /\ twAsk' = [twAsk EXCEPT ![n] = TwNotAsked]
  /\ UNCHANGED <<twNow, twClock, twCursor, twRunning, twPhase, twRunner, twWake, twBroken>>

\* The head of run()'s loop: sleep one tick, or leave.  The sleep may fail to be
\* submitted, which ends the runner too.
TwLoop(nodes) ==
  \/ /\ TwArmed(nodes) # {} /\ twRunning /\ twPhase
     /\ twRunner' = "asleep"
     /\ twWake' = twNow + TwTick
     /\ UNCHANGED twBroken
  \/ /\ twRunner' = "none"
     /\ twBroken' = (twRunning /\ twPhase /\ TwArmed(nodes) # {})
     /\ twWake' = 0

TwRunnerStarts ==
  /\ twRunner = "spawned"
  /\ TwLoop(twNode)
  /\ UNCHANGED <<twNow, twClock, twNode, twCursor, twRunning, twPhase, twAsk>>
  /\ UNCHANGED dlOnly

\* advance(): the nodes of the slot the cursor reaches either wait another lap or
\* are unlinked and called back.  again says which callbacks re-arm their node.
TwAdvance(again) ==
  LET cur   == (twCursor + 1) % TwSlots
      here  == {n \in TwNodes : twNode[n].slot = cur}
      due   == {n \in here : twNode[n].rounds = 0}
      waits == [n \in TwNodes |-> [twAsk[n] EXCEPT !.ticks = @ - 1]]
      rearm == [slot |-> (cur + 1) % TwSlots, rounds |-> 0]
  IN  /\ again \subseteq due \ {"dl"}
      /\ twCursor' = cur
      /\ twNode' = [n \in TwNodes |->
           IF n \in again THEN rearm
           ELSE IF n \in due THEN TwUnarmed
           ELSE IF n \in here THEN [twNode[n] EXCEPT !.rounds = @ - 1]
           ELSE twNode[n]]
      /\ twAsk' = [n \in TwNodes |-> IF n \in again THEN [due |-> twNow + 1, ticks |-> 1]
                                     ELSE IF n \in due \/ twNode[n].slot < 0 THEN TwNotAsked
                                     ELSE waits[n]]
      /\ dlFired' = (dlFired \/ "dl" \in due)
      /\ dlOp' = IF "dl" \in due /\ dlOp = "inflight" THEN "killed" ELSE dlOp

\* The sleep is over, on time or late: advance, then the loop again.  Behind the sleep
\* only running_ is tested: a tick that ends after the context left its Running phase
\* still advances the wheel, once, and fires what is due.
TwTickOver(again) ==
  /\ twRunner = "asleep"
  /\ twNow >= twWake
  /\ twRunning
  /\ TwAdvance(again)
  /\ TwLoop(twNode')
  /\ UNCHANGED <<twNow, twClock, twRunning, twPhase, dlBudget, dlCapped>>

\* The runner finds the wheel stopped when its sleep is over, or the shutdown of the
\* context cancels the sleep.
TwRunnerLeaves ==
  /\ twRunner = "asleep"
  /\ (~twRunning /\ twNow >= twWake) \/ ~twPhase
  /\ twRunner' = "none"
  /\ twWake' = 0
  /\ UNCHANGED <<twNow, twClock, twNode, twCursor, twRunning, twPhase, twAsk, twBroken>>
  /\ UNCHANGED dlOnly

\* stop()
TwStop ==
  /\ twRunning
  /\ twRunning' = FALSE
  /\ UNCHANGED <<twNow, twClock, twNode, twCursor, twPhase, twRunner, twWake, twAsk, twBroken>>
  /\ UNCHANGED dlOnly

\* The context leaves its Running phase.
TwPhaseEnds ==
  /\ twPhase
  /\ twPhase' = FALSE
  /\ UNCHANGED <<twNow, twClock, twNode, twCursor, twRunning, twRunner, twWake, twAsk, twBroken>>
  /\ UNCHANGED dlOnly

\* An iteration of the run loop takes at most TwLag, so the cached clock lags no more.
TwElapse ==
  /\ twNow < TwEnd
  /\ twNow - twClock < TwLag
  /\ twNow' = twNow + 1
  /\ UNCHANGED <<twClock, twNode, twCursor, twRunning, twPhase, twRunner, twWake, twAsk, twBroken>>
  /\ UNCHANGED dlOnly

\* clock_cache_t::refresh, once per iteration of the run loop.
TwRefresh ==
  /\ twClock # twNow
  /\ twClock' = twNow
  /\ UNCHANGED <<twNow, twNode, twCursor, twRunning, twPhase, twRunner, twWake, twAsk, twBroken>>
  /\ UNCHANGED dlOnly

TwUserArms(n, d) == n # "dl" /\ TwArm(n, d) /\ UNCHANGED dlOnly
TwUserCancels(n) == n # "dl" /\ twNode[n].slot >= 0 /\ TwCancel(n) /\ UNCHANGED dlOnly

----------------------------------------------------------------------------
(* The deadline *)

\* fire() called inline: the latch and the canceler, never the wheel node.
DlFire ==
  /\ dlFired' = TRUE
  /\ UNCHANGED twOnly

\* set_budget(d), between operations.
DlSetBudget(d) ==
  /\ dlOp = "none"
  /\ ~dlFired
  /\ dlBudget' = IF d > 0 THEN twClock + d ELSE 0
  /\ IF d > 0 THEN TwArm("dl", d) ELSE TwCancel("dl")
  /\ dlCapped' = FALSE
  /\ UNCHANGED <<dlFired, dlOp>>

DlLeft == dlBudget - twClock + 1

\* cap(d): the shorter of d and what is left, or fire when nothing is.
DlCap(d) ==
  /\ dlOp = "none"
  /\ ~dlFired
  /\ IF dlBudget # 0 /\ twClock >= dlBudget
     THEN DlFire /\ UNCHANGED dlCapped
     ELSE /\ TwArm("dl", IF dlBudget # 0 /\ DlLeft < d THEN DlLeft ELSE d)
          /\ dlCapped' = TRUE
          /\ UNCHANGED dlFired
  /\ UNCHANGED <<dlBudget, dlOp>>

\* with_deadline(op): refused at once by a latched canceler, else in flight.
DlAwait ==
  /\ dlOp = "none"
  /\ dlOp' = IF dlFired THEN "killed" ELSE "inflight"
  /\ UNCHANGED <<dlBudget, dlFired, dlCapped>>
  /\ UNCHANGED twOnly

DlLands ==
  /\ dlOp = "inflight"
  /\ dlOp' = "landed"
  /\ UNCHANGED <<dlBudget, dlFired, dlCapped>>
  /\ UNCHANGED twOnly

\* Mutant of DlRestore: the window comes off the wheel and the era with it.
DlRestoreDrops ==
  IF dlFired THEN UNCHANGED <<twOnly, dlFired>>
  ELSE TwCancel("dl") /\ UNCHANGED dlFired

\* restore_after_op: back to the shared end of the era, or off the wheel.
DlRestore ==
  IF dlFired THEN UNCHANGED <<twOnly, dlFired>>
  ELSE IF dlBudget = 0 THEN TwCancel("dl") /\ UNCHANGED dlFired
  ELSE IF twClock >= dlBudget THEN DlFire
  ELSE TwArm("dl", DlLeft) /\ UNCHANGED dlFired

\* deadline_bound_awaiter::await_resume.
DlResume ==
  /\ dlOp \in {"landed", "killed"}
  /\ DlRestore
  /\ dlOp' = "none"
  /\ dlCapped' = FALSE
  /\ UNCHANGED dlBudget

\* reset(): refused with EBUSY while an operation is tracked.
DlReset ==
  /\ dlOp = "none"
  /\ TwCancel("dl")
  /\ dlBudget' = 0
  /\ dlFired' = FALSE
  /\ dlCapped' = FALSE
  /\ UNCHANGED dlOp

TwNext ==
  \/ TwRunnerStarts \/ TwRunnerLeaves \/ TwStop \/ TwPhaseEnds \/ TwElapse \/ TwRefresh
  \/ \E again \in SUBSET TwNodes : TwTickOver(again)
  \/ \E n \in TwNodes : TwUserCancels(n) \/ \E d \in TwDelays : TwUserArms(n, d)
  \/ \E d \in TwDelays : DlSetBudget(d) \/ DlCap(d)
  \/ DlSetBudget(0) \/ DlAwait \/ DlLands \/ DlResume \/ DlReset

TwSpec == TwInit /\ [][TwNext]_twVars

----------------------------------------------------------------------------
TwTypeOK ==
  /\ twNow \in 1..TwEnd /\ twClock \in 1..twNow
  /\ \A n \in TwNodes : twNode[n].slot \in -1..(TwSlots - 1) /\ twNode[n].rounds \in Nat
  /\ twCursor \in 0..(TwSlots - 1)
  /\ twRunner \in {"none", "spawned", "asleep"}
  /\ dlOp \in {"none", "inflight", "landed", "killed"}

\* A timer fires on exactly the tick its delay rounds up to, however many laps of the
\* wheel that takes.  The first of these ticks is what is left of the one the runner is
\* sleeping, so it may fire before its delay is over, by less than a tick: timer_wheel.h
\* says "fires within [D, D+tick)" and combinators.h "only ever fire late, never early".
TwOnItsTick ==
  [][\A n \in TwNodes :
       LET next == (twCursor + 1) % TwSlots
       IN  twCursor' = next /\ twNode[n].slot >= 0 =>
             IF twNode'[n].slot # twNode[n].slot
             THEN twAsk[n].ticks = 1 /\ twAsk[n].due - twNow <= TwTick
             ELSE twAsk[n].ticks > 1]_twVars

\* No armed timer is left without a runner on a running wheel, whatever order
\* arming, firing, re-arming and leaving come in; the one exception is a sleep that
\* could not be submitted or was reaped, after which run() simply returns.
TwRunnerLives ==
  TwArmed(twNode) # {} /\ twRunning /\ twPhase /\ ~twBroken => twRunner # "none"

\* A deadline that has not fired keeps its era on the wheel through every window
\* that was capped and restored, one without an era leaves nothing armed behind
\* its operation, and a fired one lets no operation run.
DlEraHolds ==
  /\ ~dlFired /\ dlBudget # 0 => twNode["dl"].slot >= 0
  /\ ~dlFired /\ dlBudget = 0 /\ ~dlCapped => twNode["dl"].slot = -1
  /\ dlFired => dlOp # "inflight"

\* Armed timers have a runner and eras stay armed.
TwSound == TwRunnerLives /\ DlEraHolds

\* An armed node's slot and laps are those of the ticks it still waits, and these last
\* until its delay is over, but for one: counted from the end of the sleep in flight.
TwWaits(n) ==
  /\ twAsk[n].ticks >= 1
  /\ twNode[n].slot = (twCursor + twAsk[n].ticks) % TwSlots
  /\ twNode[n].rounds = (twAsk[n].ticks - 1) \div TwSlots
  /\ twAsk[n].due <= twNow + (twAsk[n].ticks + 1) * TwTick
  /\ twRunner = "asleep" => \/ twAsk[n].due <= twNow + twAsk[n].ticks * TwTick
                            \/ twAsk[n].due <= twWake + twAsk[n].ticks * TwTick

\* Why TwSound and TwOnItsTick hold: what every armed node waits for, and who lets it.
TwWheel ==
  /\ twNow \in Nat /\ twClock \in Nat /\ twCursor \in 0..(TwSlots - 1) /\ twRunning \in BOOLEAN
  /\ twPhase \in BOOLEAN
  /\ twNode \in [TwNodes -> [slot : -1..(TwSlots - 1), rounds : Nat]]
  /\ twAsk \in [TwNodes -> [due : Int, ticks : Nat]]
  /\ twRunner \in {"none", "spawned", "asleep"} /\ twBroken \in BOOLEAN
  /\ twWake \in Nat /\ twWake <= twNow + TwTick
  /\ \A n \in TwNodes : twNode[n].slot >= 0 => TwWaits(n)
  /\ TwRunnerLives

TwInv ==
  /\ TwWheel
  /\ dlBudget \in Int /\ dlFired \in BOOLEAN /\ dlCapped \in BOOLEAN
  /\ DlEraHolds
============================================================================
