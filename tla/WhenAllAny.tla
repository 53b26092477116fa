---------------------------- MODULE WhenAllAny ----------------------------
(***************************************************************************)
(* when_all and when_any (concurrency/combinators.h): N wrapper coroutines *)
(* and the awaiting parent share one heap state by a plain reference       *)
(* count.  The finishing wrapper transfers to the parent at its final      *)
(* suspend, so the parent's await_resume and the end of its awaiter belong *)
(* to the same step.  The parent's frame may be destroyed while it waits.  *)
(***************************************************************************)
EXTENDS Integers, FiniteSets

CONSTANT WaKids         \* the coroutines handed in

\* With no coroutine at all await_ready() says so and nothing is ever awaited.
ASSUME WaAssumption == IsFiniteSet(WaKids) /\ WaKids # {} /\ "none" \notin WaKids

VARIABLES waMode,       \* "none", "all", "any", or "anyc": any with a canceler
          waState,      \* the shared when_all_state / when_any_state
          waRes,        \* its result slots
          waKid,        \* the wrapper coroutines
          waParent,     \* the awaiting coroutine
          waCanceler,   \* the canceler of the third overload, in the parent's frame
          waFirst       \* history: the first wrapper that ended

waVars == <<waMode, waState, waRes, waKid, waParent, waCanceler, waFirst>>

WaN == Cardinality(WaKids)

WaInit ==
  /\ waMode = "none"
  /\ waState = [mem |-> "none", remaining |-> WaN, refs |-> WaN + 1, done |-> FALSE,
                idx |-> "none", cont |-> FALSE]
  /\ waRes = [k \in WaKids |-> "none"]
  /\ waKid = [k \in WaKids |-> "none"]
  /\ waParent = "running"
  /\ waCanceler = "none"
  /\ waFirst = "none"

\* when_*(...): the state is built, with a reference for every wrapper to come, and an
\* awaiter that holds the coroutines.
WaBuilds(mode) ==
  /\ waMode = "none"
  /\ waMode' = mode
  /\ waState' = [waState EXCEPT !.mem = "live"]
  /\ waParent' = "holding"
  /\ waCanceler' = IF mode = "anyc" THEN "live" ELSE "none"
  /\ UNCHANGED <<waRes, waKid, waFirst>>

\* The three combinators a coroutine may call.
WaWhenAll == WaBuilds("all")

WaWhenAny == WaBuilds("any")

WaWhenAnyCanceler == WaBuilds("anyc")

\* await_suspend: the wrappers are spawned.
WaStart ==
  /\ waParent = "holding"
  /\ waState' = [waState EXCEPT !.cont = TRUE]
  /\ waKid' = [k \in WaKids |-> "running"]
  /\ waParent' = "waiting"
  /\ UNCHANGED <<waMode, waRes, waCanceler, waFirst>>

\* Mutant of WaUnref: the reference of the parent is not counted.
WaUnrefShort(s) == [s EXCEPT !.refs = @ - 1, !.mem = IF s.refs = 2 THEN "freed" ELSE @]

\* --refs, and delete at zero.
WaUnref(s) == [s EXCEPT !.refs = @ - 1, !.mem = IF s.refs = 1 THEN "freed" ELSE @]

\* ~awaiter: nobody may wake this frame any more, and its reference goes.
WaAwaiterEnds(s) == WaUnref([s EXCEPT !.cont = FALSE])

\* The tail of when_all_task and when_any_task for wrapper k.  wakes says that it
\* took the continuation out of the state, so that the parent runs next.
WaFinish(s, wakes) ==
  /\ waState' = IF wakes THEN WaAwaiterEnds(WaUnref([s EXCEPT !.cont = FALSE])) ELSE WaUnref(s)
  /\ waParent' = IF wakes THEN "resumed" ELSE waParent

\* when_all_task: the slot is written, the last one in wakes the parent.
WaAllEnds(k, out) ==
  LET s == [waState EXCEPT !.remaining = @ - 1]
  IN  /\ waMode = "all"
      /\ waRes' = [waRes EXCEPT ![k] = out]
      /\ WaFinish(s, s.remaining = 0 /\ s.cont)
      /\ UNCHANGED waCanceler

\* when_any_task: the first one in is recorded, wakes the parent and cancels; the
\* results of the others are dropped.
WaAnyEnds(k, out) ==
  LET s == [waState EXCEPT !.done = TRUE, !.idx = k]
  IN  /\ waMode \in {"any", "anyc"}
      /\ IF waState.done
         THEN WaFinish(waState, FALSE) /\ UNCHANGED <<waRes, waCanceler>>
         ELSE /\ waRes' = [waRes EXCEPT ![k] = out]
              /\ waCanceler' = CASE waCanceler = "live" -> "fired"
                                 [] waCanceler = "dead" -> "deadUsed"
                                 [] OTHER               -> waCanceler
              /\ WaFinish(s, s.cont)

\* A wrapper's coroutine returns or throws; a wrapper counts as in use of the
\* state until it has dropped its reference.
WaKidEnds(k, out) ==
  /\ waKid[k] = "running"
  /\ waKid' = [waKid EXCEPT ![k] = "over"]
  /\ WaAllEnds(k, out) \/ WaAnyEnds(k, out)
  /\ waFirst' = IF waFirst = "none" THEN k ELSE waFirst
  /\ UNCHANGED waMode

\* The parent's frame is destroyed while it is suspended, its canceler with it; the
\* state keeps pointing to that canceler, which the first wrapper to end then uses.
WaParentDies ==
  /\ waParent = "waiting"
  /\ waParent' = "dead"
  /\ waState' = WaAwaiterEnds(waState)
  /\ waCanceler' = IF waCanceler = "none" THEN "none" ELSE "dead"
  /\ UNCHANGED <<waMode, waRes, waKid, waFirst>>

\* The awaiter is dropped before it is awaited.  Its reference goes; those of the
\* wrappers, which nobody will spawn, stay.
WaDrops ==
  /\ waParent = "holding"
  /\ waParent' = "dropped"
  /\ waState' = WaAwaiterEnds(waState)
  /\ UNCHANGED <<waMode, waRes, waKid, waCanceler, waFirst>>

WaNext ==
  \/ WaWhenAll \/ WaWhenAny \/ WaWhenAnyCanceler \/ WaStart \/ WaDrops
  \/ \E k \in WaKids, out \in {"value", "EFAULT"} : WaKidEnds(k, out)
  \/ WaParentDies

\* Children run on the context and end; whether they do is theirs to keep.
WaFair == \A k \in WaKids : WF_waVars(\E out \in {"value", "EFAULT"} : WaKidEnds(k, out))

WaSpec == WaInit /\ [][WaNext]_waVars

----------------------------------------------------------------------------
WaTypeOK ==
  /\ waMode \in {"none", "all", "any", "anyc"}
  /\ waState.mem \in {"none", "live", "freed"}
  /\ waState.refs \in 0..(WaN + 1)
  /\ waParent \in {"running", "holding", "dropped", "waiting", "resumed", "dead"}

WaOver == {k \in WaKids : waKid[k] = "over"}

\* The shared state is alive exactly while a wrapper or the waiting parent can
\* still reach it, also when the parent was destroyed, and the parent holds its
\* results when it resumes: all of them for when_all, for when_any the index and
\* the slot of the very first wrapper to end.  An awaiter that was dropped before it
\* was awaited is the exception: the state then outlives everyone who could delete it.
WaSharedState ==
  /\ waMode # "none" /\ waParent \notin {"holding", "dropped"} =>
       /\ waState.mem = "live" <=> (WaOver # WaKids \/ waParent = "waiting")
       /\ waState.refs = Cardinality(WaKids \ WaOver) + (IF waParent = "waiting" THEN 1 ELSE 0)
  /\ waParent = "waiting" => IF waMode = "all" THEN WaOver # WaKids ELSE WaOver = {}
  /\ waParent = "resumed" =>
       IF waMode = "all" THEN \A k \in WaKids : waRes[k] # "none"
       ELSE waState.idx = waFirst /\ waRes[waFirst] # "none"
              /\ \A k \in WaKids \ {waFirst} : waRes[k] = "none"

WaStates == [mem : {"none", "live", "freed"}, remaining : Int, refs : Int, done : BOOLEAN,
             idx : WaKids \cup {"none"}, cont : BOOLEAN]

\* Why WaSharedState holds: the counts of the shared state are those of the wrappers
\* that have not ended, whoever waits can still be woken, and the flags and slots tell
\* how many have ended and which was the first.
WaInv ==
  /\ waMode \in {"none", "all", "any", "anyc"}
  /\ waState \in WaStates
  /\ waRes \in [WaKids -> {"none", "value", "EFAULT"}]
  /\ waKid \in [WaKids -> {"none", "running", "over"}]
  /\ waParent \in {"running", "holding", "dropped", "waiting", "resumed", "dead"}
  /\ waCanceler \in {"none", "live", "fired", "dead", "deadUsed"}
  /\ waFirst \in WaKids \cup {"none"}
  /\ waFirst = "none" <=> WaOver = {}
  /\ waFirst # "none" => waKid[waFirst] = "over"
  /\ waMode = "none" <=> waParent = "running"
  /\ waMode = "none" =>
       /\ ~waState.done /\ ~waState.cont
       /\ waState.remaining = WaN /\ waState.refs = WaN + 1
       /\ \A k \in WaKids : waKid[k] = "none" /\ waRes[k] = "none"
  /\ waParent \in {"holding", "dropped"} =>
       /\ ~waState.done /\ ~waState.cont /\ waState.mem = "live" /\ waState.remaining = WaN
       /\ waState.refs = WaN + (IF waParent = "holding" THEN 1 ELSE 0)
       /\ \A k \in WaKids : waKid[k] = "none" /\ waRes[k] = "none"
  /\ waMode # "none" /\ waParent \notin {"holding", "dropped"} =>
       /\ \A k \in WaKids : waKid[k] # "none"
       /\ waState.cont <=> waParent = "waiting"
       /\ waState.refs = Cardinality(WaKids \ WaOver) + (IF waParent = "waiting" THEN 1 ELSE 0)
       /\ waState.mem = IF waState.refs = 0 THEN "freed" ELSE "live"
  /\ waMode = "all" =>
       /\ waState.remaining = Cardinality(WaKids \ WaOver)
       /\ \A k \in WaOver : waRes[k] # "none"
       /\ waParent = "waiting" => WaOver # WaKids
       /\ waParent = "resumed" => WaOver = WaKids
  /\ waMode \in {"any", "anyc"} =>
       /\ waState.done <=> waFirst # "none"
       /\ waFirst # "none" => waState.idx = waFirst /\ waRes[waFirst] # "none"
       /\ \A k \in WaKids \ {waFirst} : waRes[k] = "none"
       /\ waParent = "waiting" => waFirst = "none"
       /\ waParent = "resumed" => waFirst # "none"

\* The awaiting coroutine goes on in the end, with whatever its children ended.
WaReturns == waParent = "waiting" ~> waParent \in {"resumed", "dead"}

============================================================================
