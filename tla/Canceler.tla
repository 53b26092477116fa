----------------------------- MODULE Canceler -----------------------------
(***************************************************************************)
(* canceler_t and cancellable_awaiter (coroutine/cancel.h, src/cancel.cc): *)
(* a tree of cancelers linked by first_child_ / sibling pointers, the list *)
(* of operations registered on each (as a set: nothing depends on its      *)
(* order), the count of frames that still point to it, and orphans that    *)
(* delete themselves.  0 stands for nullptr.                               *)
(***************************************************************************)
EXTENDS Integers, FiniteSets

CONSTANTS CnMax,        \* bound: the cancelers ever made
          CnOps         \* awaited operations

ASSUME CnAssumption == CnMax \in Nat /\ IsFiniteSet(CnOps)

CnIds == 1..CnMax

VARIABLES cnObj,        \* the canceler_t objects
          cnOp          \* the cancellable_awaiter of each operation

cnVars == <<cnObj, cnOp>>

CnFresh == [mem |-> "unused", cancelled |-> FALSE, tracked |-> 0, orphaned |-> FALSE,
            active |-> {}, parent |-> 0, first |-> 0, next |-> 0, prev |-> 0]
CnIdle  == [st |-> "idle", on |-> 0, asked |-> FALSE, missed |-> FALSE]

CnInit ==
  /\ cnObj = [c \in CnIds |-> CnFresh]
  /\ cnOp = [o \in CnOps |-> CnIdle]

CnLive(c) == c # 0 /\ cnObj[c].mem = "live"

\* Owners drop their pointer when they orphan a canceler.
CnOwned(c) == CnLive(c) /\ ~cnObj[c].orphaned

\* canceler_t(ctx) and canceler_t(ctx, parent): the child goes to the front of
\* its parent's list.  It does not take over the parent's cancelled_.
CnNew(c, p) ==
  /\ cnObj[c].mem = "unused"
  /\ \A x \in CnIds : x < c => cnObj[x].mem # "unused"
  /\ p = 0 \/ CnOwned(p)
  /\ LET born == [CnFresh EXCEPT !.mem = "live", !.parent = p,
                                 !.next = IF p = 0 THEN 0 ELSE cnObj[p].first]
     IN  cnObj' = [x \in CnIds |->
           IF x = c THEN born
           ELSE IF x = p THEN [cnObj[x] EXCEPT !.first = c]
           ELSE IF x = born.next THEN [cnObj[x] EXCEPT !.prev = c]
           ELSE cnObj[x]]
  /\ UNCHANGED cnOp

\* ~canceler_t on the objects obj: unlink from the siblings, then the memory goes.
CnDelete(obj, c) ==
  LET dead == obj[c]
  IN  [x \in CnIds |->
        IF x = c THEN [CnFresh EXCEPT !.mem = "freed"]
        ELSE [obj[x] EXCEPT
               !.next  = IF dead.parent # 0 /\ x = dead.prev THEN dead.next ELSE @,
               !.first = IF dead.parent # 0 /\ x = dead.parent /\ dead.prev = 0
                         THEN dead.next ELSE @,
               !.prev  = IF dead.parent # 0 /\ x = dead.next THEN dead.prev ELSE @]]

\* The owner deletes a canceler no frame and no child points to any more.
CnDestroy(c) ==
  /\ CnOwned(c)
  /\ cnObj[c].tracked = 0
  /\ cnObj[c].first = 0
  /\ cnObj' = CnDelete(cnObj, c)
  /\ UNCHANGED cnOp

\* The inner loop of cancel_subtree: the next sibling, of the node or of the
\* nearest ancestor below the root that has one.
CnClimb(root, c) ==
  LET climb[x \in CnIds \cup {0}] ==
        IF x = 0 \/ x = root THEN x
        ELSE IF cnObj[x].next # 0 THEN cnObj[x].next
        ELSE climb[cnObj[x].parent]
  IN  climb[c]

\* Mutant of CnSubtree: a node without children ends the walk.
CnSubtreeStops(root) ==
  LET walk[c \in CnIds] == {c} \cup (IF cnObj[c].first # 0 THEN walk[cnObj[c].first] ELSE {})
  IN  walk[root]

\* cancel_subtree: the cancelers the walk over the pointers visits.
CnSubtree(root) ==
  LET walk[c \in CnIds] ==
        LET up == IF cnObj[c].first # 0 THEN cnObj[c].first ELSE CnClimb(root, c)
        IN  {c} \cup (IF up \in {0, root} THEN {} ELSE walk[up])
  IN  walk[root]

CnSiblings(first) ==
  LET chain[c \in CnIds \cup {0}] == IF c = 0 THEN {} ELSE {c} \cup chain[cnObj[c].next]
  IN  chain[first]

\* cancel(): latch, then cancel_active_tasks for every newly latched canceler. An
\* operation that already landed has no token and gets no request; one for which
\* no submission entry is left (served says who got one) stays in flight.
CnCancel(c, served) ==
  /\ CnOwned(c)
  /\ ~cnObj[c].cancelled
  /\ LET reached == {c} \cup UNION {CnSubtree(k) : k \in CnSiblings(cnObj[c].first)}
         latched == {x \in reached : ~cnObj[x].cancelled}
         hit     == {o \in CnOps : /\ cnOp[o].st = "inflight"
                                   /\ \E x \in latched : o \in cnObj[x].active}
     IN  /\ served \subseteq hit
         /\ cnObj' = [x \in CnIds |-> IF x \in latched
                        THEN [cnObj[x] EXCEPT !.cancelled = TRUE, !.active = {}]
                        ELSE cnObj[x]]
         /\ cnOp' = [o \in CnOps |-> IF o \in hit
                       THEN [cnOp[o] EXCEPT !.asked = o \in served, !.missed = o \notin served]
                       ELSE cnOp[o]]

\* reset(): refused with EBUSY while a frame still points to the canceler.
CnReset(c) ==
  /\ CnOwned(c)
  /\ cnObj[c].tracked = 0
  /\ cnObj[c].cancelled
  /\ cnObj' = [cnObj EXCEPT ![c].cancelled = FALSE]
  /\ UNCHANGED cnOp

\* orphan(): the owner walks away, the last registrant deletes the canceler.
CnOrphan(c) ==
  /\ CnOwned(c)
  /\ cnObj[c].first = 0
  /\ LET o == [cnObj EXCEPT ![c].orphaned = TRUE]
     IN  cnObj' = IF cnObj[c].tracked = 0 THEN CnDelete(o, c) ELSE o
  /\ UNCHANGED cnOp

\* Mutant of CnResolved: the count is decremented only for a linked node.
CnResolvedIfLinked(o) ==
  LET c == cnOp[o].on
      u == IF o \in cnObj[c].active
           THEN [cnObj EXCEPT ![c].active = @ \ {o}, ![c].tracked = @ - 1]
           ELSE cnObj
  IN  IF u[c].tracked = 0 /\ u[c].orphaned THEN CnDelete(u, c) ELSE u

\* unlink_node, which leaves a detached node alone, then op_resolved.
CnResolved(o) ==
  LET c == cnOp[o].on
      u == [cnObj EXCEPT ![c].active = @ \ {o}, ![c].tracked = @ - 1]
  IN  IF u[c].tracked = 0 /\ u[c].orphaned THEN CnDelete(u, c) ELSE u

\* co_await on a canceler: refused with ECANCELED when it is latched, else linked
\* and submitted; a submission that fails is unlinked in the same call.
CnAwait(o, c) ==
  /\ cnOp[o].st = "idle"
  /\ CnLive(c)
  /\ \/ /\ ~cnObj[c].cancelled
        /\ cnOp' = [cnOp EXCEPT ![o].st = "inflight", ![o].on = c]
        /\ cnObj' = [cnObj EXCEPT ![c].active = @ \cup {o}, ![c].tracked = @ + 1]
     \/ /\ cnOp' = [cnOp EXCEPT ![o].st = "over"]
        /\ UNCHANGED cnObj

\* The completion is reaped: the slot is freed and the coroutine is scheduled.
CnLands(o) ==
  /\ cnOp[o].st = "inflight"
  /\ cnOp' = [cnOp EXCEPT ![o].st = "landed"]
  /\ UNCHANGED cnObj

\* await_resume of a landed operation, or ~cancellable_awaiter of a frame that is
\* destroyed while it is suspended.
CnEnds(o) ==
  /\ cnOp[o].st \in {"inflight", "landed"}
  /\ cnOp' = [cnOp EXCEPT ![o] = [CnIdle EXCEPT !.st = "over"]]
  /\ cnObj' = CnResolved(o)

CnNext ==
  \/ \E c \in CnIds, p \in CnIds \cup {0} : CnNew(c, p)
  \/ \E c \in CnIds : CnDestroy(c) \/ CnReset(c) \/ CnOrphan(c)
  \/ \E c \in CnIds, served \in SUBSET CnOps : CnCancel(c, served)
  \/ \E o \in CnOps, c \in CnIds : CnAwait(o, c)
  \/ \E o \in CnOps : CnLands(o) \/ CnEnds(o)

CnSpec == CnInit /\ [][CnNext]_cnVars

----------------------------------------------------------------------------
CnTypeOK ==
  /\ \A c \in CnIds : /\ cnObj[c].mem \in {"unused", "live", "freed"}
                      /\ cnObj[c].tracked \in 0..Cardinality(CnOps)
                      /\ cnObj[c].active \subseteq CnOps
  /\ \A o \in CnOps : cnOp[o].st \in {"idle", "inflight", "landed", "over"}

\* tracked_ops_ counts exactly the frames that point to the canceler, so that
\* reset() and the self-deletion of an orphan never happen under a frame that will
\* still unlink itself: every operation in flight refers to a live canceler, only
\* such operations are on a list, and an orphan without any is gone.
CnTrackedExact ==
  /\ \A o \in CnOps : cnOp[o].on # 0 => CnLive(cnOp[o].on)
  /\ \A c \in CnIds : CnLive(c) =>
       /\ cnObj[c].tracked = Cardinality({o \in CnOps : cnOp[o].on = c})
       /\ \A o \in cnObj[c].active : cnOp[o].on = c
       /\ cnObj[c].orphaned => cnObj[c].tracked > 0
       /\ cnObj[c].parent # 0 => CnLive(cnObj[c].parent)

CnBelow(d, c) ==
  LET below[x \in CnIds \cup {0}] == x # 0 /\ (cnObj[x].parent = c \/ below[cnObj[x].parent])
  IN  below[d]

\* A cancel() that latches a canceler latches all its live descendants in the same
\* call, whatever shape the tree has and whichever of them were latched before,
\* and leaves no operation of theirs without a request unless the ring was full.
CnCancelCoversTree ==
  [][\A c \in CnIds :
       ~cnObj[c].cancelled /\ cnObj'[c].cancelled =>
         /\ \A d \in CnIds : CnLive(d) /\ CnBelow(d, c) => cnObj'[d].cancelled
         /\ \A o \in CnOps : LET n == cnOp'[o]
                             IN  n.on = c /\ n.st = "inflight" => n.asked \/ n.missed]_cnVars
============================================================================
