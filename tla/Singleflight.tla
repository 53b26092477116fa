--------------------------- MODULE Singleflight ---------------------------
(***************************************************************************)
(* singleflight_t::run (concurrency/singleflight.h) for one key: the first *)
(* caller leads and runs fn(), later callers park on its flight, and the   *)
(* flight_t is shared by raw pointer and freed by whoever uses it last.    *)
(* Leader and followers may be destroyed while they are suspended.         *)
(***************************************************************************)
EXTENDS Integers, FiniteSets

CONSTANTS SfCallers,    \* coroutines that call run() with this key
          SfFlights     \* bound: flights are numbered 1..SfFlights

ASSUME SfAssumption == IsFiniteSet(SfCallers) /\ SfFlights \in Nat

VARIABLES sfMap,        \* in_flight_[key], 0 when the key is absent
          sfFlight,     \* the flight_t objects; the order of a chain of waiters shows nowhere
          sfPc,         \* where each caller stands
          sfOf,         \* the flight a caller leads or follows, 0 for none
          sfGot         \* the outcome a caller returned

sfVars == <<sfMap, sfFlight, sfPc, sfOf, sfGot>>

SfNone == [mem |-> "unused", out |-> "none", waiters |-> {}, n |-> 0, done |-> FALSE]

SfInit ==
  /\ sfMap = 0
  /\ sfFlight = [f \in 1..SfFlights |-> SfNone]
  /\ sfPc = [c \in SfCallers |-> "idle"]
  /\ sfOf = [c \in SfCallers |-> 0]
  /\ sfGot = [c \in SfCallers |-> "none"]

SfUnused == {f \in 1..SfFlights : sfFlight[f].mem = "unused"}

\* await_suspend of a follower: linked into the chain and counted.
SfJoin(c, f) == [f EXCEPT !.waiters = @ \cup {c}, !.n = @ + 1]

\* run(): the key is in the map, so the caller parks on the flight it found.
SfFollow(c) ==
  /\ sfPc[c] = "idle"
  /\ sfMap # 0
  /\ sfOf' = [sfOf EXCEPT ![c] = sfMap]
  /\ sfPc' = [sfPc EXCEPT ![c] = "parked"]
  /\ sfFlight' = [sfFlight EXCEPT ![sfMap] = SfJoin(c, @)]
  /\ UNCHANGED <<sfMap, sfGot>>

\* run(): the key is absent, so the caller creates the flight and awaits fn().
SfLead(c) ==
  /\ sfPc[c] = "idle"
  /\ sfMap = 0
  /\ SfUnused # {}
  /\ LET f == CHOOSE f \in SfUnused : TRUE
     IN  /\ sfMap' = f
         /\ sfFlight' = [sfFlight EXCEPT ![f] = [SfNone EXCEPT !.mem = "live"]]
         /\ sfOf' = [sfOf EXCEPT ![c] = f]
  /\ sfPc' = [sfPc EXCEPT ![c] = "leading"]
  /\ UNCHANGED sfGot

\* What a flight is left as once it has landed.
SfLanded(f, out) ==
  [f EXCEPT !.out = out, !.done = TRUE, !.waiters = {}, !.mem = IF f.n = 0 THEN "freed" ELSE @]

\* leader_finish: the key is forgotten, every parked follower is scheduled, and a
\* flight that nobody follows is deleted.
SfFinish(c, out) ==
  LET f == sfOf[c]
      w == sfFlight[f].waiters
  IN  /\ sfMap' = 0
      /\ sfFlight' = [sfFlight EXCEPT ![f] = SfLanded(@, out)]
      /\ sfPc' = [x \in SfCallers |-> IF x \in w THEN "woken"
                                      ELSE IF x = c THEN "done" ELSE sfPc[x]]
      /\ sfOf' = [sfOf EXCEPT ![c] = 0]

\* fn() completed: the outcome is copied into the flight, the guard is defused.
SfLand(c, out) ==
  /\ sfPc[c] = "leading"
  /\ SfFinish(c, out)
  /\ sfGot' = [sfGot EXCEPT ![c] = out]

\* The leader's frame is destroyed: ~leader_guard_t broadcasts EOWNERDEAD.
SfLeaderDies(c) ==
  /\ sfPc[c] = "leading"
  /\ SfFinish(c, "ownerdead")
  /\ UNCHANGED sfGot

\* Mutant of SfRelease: the last follower deletes a flight that is not done.
SfReleaseAnyway(c, f) ==
  [f EXCEPT !.waiters = @ \ {c},
            !.n = @ - 1,
            !.mem = IF f.n = 1 THEN "freed" ELSE @]

\* ~follower_awaiter: unlink_waiter when still linked, then release_waiter.
SfRelease(c, f) ==
  [f EXCEPT !.waiters = @ \ {c},
            !.n = @ - 1,
            !.mem = IF f.n = 1 /\ f.done THEN "freed" ELSE @]

\* The scheduler resumes a woken follower: await_resume reads the flight, then
\* the awaiter goes out of scope.
SfResume(c) ==
  /\ sfPc[c] = "woken"
  /\ sfGot' = [sfGot EXCEPT ![c] = sfFlight[sfOf[c]].out]
  /\ sfFlight' = [sfFlight EXCEPT ![sfOf[c]] = SfRelease(c, @)]
  /\ sfPc' = [sfPc EXCEPT ![c] = "done"]
  /\ sfOf' = [sfOf EXCEPT ![c] = 0]
  /\ UNCHANGED sfMap

\* A follower's frame is destroyed, before or after the leader landed.
SfFollowerDies(c) ==
  /\ sfPc[c] \in {"parked", "woken"}
  /\ sfFlight' = [sfFlight EXCEPT ![sfOf[c]] = SfRelease(c, @)]
  /\ sfPc' = [sfPc EXCEPT ![c] = "done"]
  /\ sfOf' = [sfOf EXCEPT ![c] = 0]
  /\ UNCHANGED <<sfMap, sfGot>>

SfStep(c) ==
  \/ SfFollow(c)
  \/ SfLead(c)
  \/ \E out \in {"value", "error"} : SfLand(c, out)
  \/ SfLeaderDies(c)
  \/ SfResume(c)
  \/ SfFollowerDies(c)

SfNext == \E c \in SfCallers : SfStep(c)

SfSpec == SfInit /\ [][SfNext]_sfVars

----------------------------------------------------------------------------
SfTypeOK ==
  /\ sfMap \in 0..SfFlights
  /\ sfPc \in [SfCallers -> {"idle", "leading", "parked", "woken", "done"}]
  /\ sfOf \in [SfCallers -> 0..SfFlights]
  /\ sfGot \in [SfCallers -> {"none", "value", "error", "ownerdead"}]

\* A flight is alive exactly while somebody uses it: no caller ever reads a
\* deleted flight, no flight is deleted twice, and none outlives its users.  A
\* flight that landed is never found in the map again.
SfFlightLifetime ==
  /\ \A f \in 1..SfFlights :
       sfFlight[f].mem = "live" <=> \E c \in SfCallers : sfOf[c] = f
  /\ sfMap # 0 => ~sfFlight[sfMap].done

\* Followers share the leader's outcome and only a parked follower waits: a woken
\* one finds a flight that is done, a parked one is on the chain of a flight that
\* somebody still leads, so that nobody is left waiting for a dead leader.
SfNobodyStranded ==
  \A c \in SfCallers :
    /\ sfPc[c] = "woken" => sfFlight[sfOf[c]].done /\ sfFlight[sfOf[c]].out # "none"
    /\ sfPc[c] = "parked" =>
         /\ c \in sfFlight[sfOf[c]].waiters
         /\ sfMap = sfOf[c]
         /\ \E l \in SfCallers : sfPc[l] = "leading" /\ sfOf[l] = sfOf[c]

\* A flight lives as long as its callers, and every caller gets its outcome.
SfSound == SfFlightLifetime /\ SfNobodyStranded

SfObjects == [mem : {"unused", "live", "freed"}, out : {"none", "value", "error", "ownerdead"},
              waiters : SUBSET SfCallers, n : Int, done : BOOLEAN]

SfFollowers(f) == {c \in SfCallers : sfPc[c] \in {"parked", "woken"} /\ sfOf[c] = f}

\* Why SfSound holds: a flight's chain is made of its parked followers and its count of
\* all its followers, the key is in the map exactly while one caller leads, and nobody
\* is parked on any flight but that one.
SfInv ==
  /\ SfTypeOK
  /\ sfFlight \in [1..SfFlights -> SfObjects]
  /\ \A c \in SfCallers : sfOf[c] = 0 <=> sfPc[c] \in {"idle", "done"}
  /\ \A c \in SfCallers : sfPc[c] \in {"leading", "parked"} => sfOf[c] = sfMap
  /\ \A c \in SfCallers : sfPc[c] = "woken" => /\ sfFlight[sfOf[c]].done
                                               /\ sfFlight[sfOf[c]].out # "none"
  /\ sfMap # 0 => ~sfFlight[sfMap].done /\ \E c \in SfCallers : sfPc[c] = "leading"
  /\ \A c, d \in SfCallers : sfPc[c] = "leading" /\ sfPc[d] = "leading" => c = d
  /\ \A f \in 1..SfFlights :
       /\ sfFlight[f].mem = "live" <=> \E c \in SfCallers : sfOf[c] = f
       /\ sfFlight[f].mem = "unused" => sfFlight[f] = SfNone
       /\ sfFlight[f].n = Cardinality(SfFollowers(f))
       /\ sfFlight[f].waiters = {c \in SfCallers : sfPc[c] = "parked" /\ sfOf[c] = f}

============================================================================
