----------------------------- MODULE ClientPool -----------------------------
(***************************************************************************)
(* client_pool_t and dns_cache_t (http/client/pool.cc): keep-alive         *)
(* connections by origin, the waiters of a full origin, the idle and the   *)
(* wait timers, peers that close, and requests whose frame is destroyed at *)
(* any of their suspension points.  A request is one coroutine that        *)
(* borrows a connection, uses it and gives it back; connection numbers are *)
(* handed out again once the connection is closed.                         *)
(***************************************************************************)
EXTENDS Integers, Sequences, FiniteSets, FiniteSetsExt, Functions

CONSTANTS CpOrigin,    \* the origin each request asks for
          CpPerHost,   \* max_conns_per_host
          CpMaxTotal,  \* max_total_conns
          CpIdleMax,   \* max_idle_per_host
          CpEntries    \* dns_cache_entries

ASSUME CpAssumption == CpPerHost \in Nat /\ IsFiniteSet(DOMAIN CpOrigin)

VARIABLES cpPc,        \* where each request stands
          cpHas,       \* the connection a request uses or was granted; 0: none
          cpIdle,      \* bucket.idle
          cpBusy,      \* bucket.busy
          cpWait,      \* bucket.waiters
          cpOpening,   \* bucket.opening
          cpTotal,     \* total_
          cpDown,      \* connections a peek finds closed or desynchronised
          cpReady,     \* waiters scheduled and not yet resumed
          cpDns,       \* the cached hosts, with the expired ones
          cpLost       \* history: busy connections whose request was destroyed

cpVars == <<cpPc, cpHas, cpIdle, cpBusy, cpWait, cpOpening, cpTotal, cpDown, cpReady, cpDns,
            cpLost>>

CpTasks   == DOMAIN CpOrigin
CpOrigins == {CpOrigin[t] : t \in CpTasks}
CpAlive   == UNION {cpBusy[o] \cup Range(cpIdle[o]) : o \in CpOrigins}
CpFresh   == Min((1..(Cardinality(CpAlive) + 1)) \ CpAlive)

CpInit ==
  /\ cpPc = [t \in CpTasks |-> "idle"]
  /\ cpHas = [t \in CpTasks |-> 0]
  /\ cpIdle = [o \in CpOrigins |-> <<>>]
  /\ cpBusy = [o \in CpOrigins |-> {}]
  /\ cpWait = [o \in CpOrigins |-> <<>>]
  /\ cpOpening = [o \in CpOrigins |-> 0]
  /\ cpTotal = 0
  /\ cpDown = {}
  /\ cpReady = <<>>
  /\ cpDns = [fresh |-> {}, stale |-> {}]
  /\ cpLost = {}

\* dns_.resolve up to its await: a live entry answers at once, an expired one is erased.
CpLookup(t) ==
  \/ /\ CpOrigin[t] \in cpDns.fresh
     /\ cpPc' = [cpPc EXCEPT ![t] = "opening"]
     /\ UNCHANGED cpDns
  \/ /\ CpOrigin[t] \notin cpDns.fresh
     /\ cpPc' = [cpPc EXCEPT ![t] = "resolving"]
     /\ cpDns' = [cpDns EXCEPT !.stale = @ \ {CpOrigin[t]}]

\* The pass of acquire's loop from its top: the youngest idle connection that is
\* still good (the stale ones behind it are closed), or room, or a wait.
CpLoop(t) ==
  LET o    == CpOrigin[t]
      idle == cpIdle[o]
      good == {i \in DOMAIN idle : idle[i] \notin cpDown}
      kept == IF good = {} THEN 0 ELSE Max(good)
      shut == {idle[i] : i \in (kept + 1)..Len(idle)}
      left == cpTotal - Cardinality(shut)
      room == Cardinality(cpBusy[o]) + cpOpening[o] < CpPerHost /\ left < CpMaxTotal
  IN  /\ cpTotal' = left
      /\ cpDown' = cpDown \ shut
      /\ cpIdle' = [cpIdle EXCEPT ![o] = SubSeq(idle, 1, kept - 1)]
      /\ \/ /\ kept > 0
            /\ cpBusy' = [cpBusy EXCEPT ![o] = @ \cup {idle[kept]}]
            /\ cpHas' = [cpHas EXCEPT ![t] = idle[kept]]
            /\ cpPc' = [cpPc EXCEPT ![t] = "using"]
            /\ UNCHANGED <<cpWait, cpOpening, cpDns>>
         \/ /\ kept = 0 /\ room
            /\ cpOpening' = [cpOpening EXCEPT ![o] = @ + 1]
            /\ CpLookup(t)
            /\ UNCHANGED <<cpBusy, cpHas, cpWait>>
         \/ /\ kept = 0 /\ ~room
            /\ cpWait' = [cpWait EXCEPT ![o] = Append(@, t)]
            /\ cpPc' = [cpPc EXCEPT ![t] = "parked"]
            /\ UNCHANGED <<cpBusy, cpHas, cpOpening, cpDns>>

CpAcquire(t) ==
  /\ cpPc[t] = "idle"
  /\ CpLoop(t)
  /\ UNCHANGED <<cpReady, cpLost>>

\* ~opening_guard_t
CpOpeningEnds(t) == cpOpening' = [cpOpening EXCEPT ![CpOrigin[t]] = @ - 1]

\* store: drop what has expired when the cache is full, and one entry when nothing has.
CpStored(host) ==
  LET full == Cardinality(cpDns.fresh \cup cpDns.stale) >= CpEntries
      room == IF full THEN [fresh |-> cpDns.fresh, stale |-> {}] ELSE cpDns
  IN  {[fresh |-> (room.fresh \ out) \cup {host}, stale |-> room.stale \ (out \cup {host})] :
         out \in IF Cardinality(room.fresh \cup room.stale) >= CpEntries
                 THEN {{h} : h \in room.fresh \cup room.stale} ELSE {{}}}

\* The resolver answers or fails.
CpResolved(t) ==
  /\ cpPc[t] = "resolving"
  /\ \/ /\ cpDns' \in IF CpEntries = 0 THEN {cpDns} ELSE CpStored(CpOrigin[t])
        /\ cpPc' = [cpPc EXCEPT ![t] = "opening"]
        /\ UNCHANGED cpOpening
     \/ /\ cpPc' = [cpPc EXCEPT ![t] = "idle"]
        /\ CpOpeningEnds(t)
        /\ UNCHANGED cpDns
  /\ UNCHANGED <<cpHas, cpIdle, cpBusy, cpWait, cpTotal, cpDown, cpReady, cpLost>>

\* client_connection_t::open comes back.  A failure leaves the waiters where they are.
CpOpened(t) ==
  /\ cpPc[t] = "opening"
  /\ CpOpeningEnds(t)
  /\ \/ /\ cpBusy' = [cpBusy EXCEPT ![CpOrigin[t]] = @ \cup {CpFresh}]
        /\ cpHas' = [cpHas EXCEPT ![t] = CpFresh]
        /\ cpPc' = [cpPc EXCEPT ![t] = "using"]
        /\ cpTotal' = cpTotal + 1
     \/ /\ cpPc' = [cpPc EXCEPT ![t] = "idle"]
        /\ UNCHANGED <<cpBusy, cpHas, cpTotal>>
  /\ UNCHANGED <<cpIdle, cpWait, cpDown, cpReady, cpDns, cpLost>>

\* The front waiter is dequeued, its timer cancelled, its handle scheduled.
CpWake(o, pc, granted) ==
  LET w == cpWait[o][1]
  IN  /\ cpWait' = [cpWait EXCEPT ![o] = Tail(@)]
      /\ cpPc' = [pc EXCEPT ![w] = "woken"]
      /\ cpHas' = [t \in CpTasks |-> IF t = w THEN granted
                                     ELSE IF pc[t] = "idle" THEN 0 ELSE cpHas[t]]
      /\ cpReady' = Append(cpReady, w)

CpQuiet(pc) ==
  /\ cpPc' = pc
  /\ cpHas' = [t \in CpTasks |-> IF pc[t] = "idle" THEN 0 ELSE cpHas[t]]
  /\ UNCHANGED <<cpWait, cpReady>>

\* conn->close() and --total_
CpShut(c) == cpTotal' = cpTotal - 1 /\ cpDown' = cpDown \ {c}

\* release(conn, false): a slot is freed, and the front waiter gets it.
CpDiscards(o, c, pc) ==
  /\ CpShut(c)
  /\ cpBusy' = [cpBusy EXCEPT ![o] = @ \ {c}]
  /\ UNCHANGED cpIdle
  /\ IF cpWait[o] # <<>> THEN CpWake(o, pc, 0) ELSE CpQuiet(pc)

\* Mutant of CpGrantOrPark: the connection is parked as well as granted.
CpGrantOrParkBoth(o, c, pc) ==
  /\ UNCHANGED <<cpBusy, cpTotal, cpDown>>
  /\ cpIdle' = [cpIdle EXCEPT ![o] = Append(@, c)]
  /\ IF cpWait[o] # <<>> THEN CpWake(o, pc, c) ELSE CpQuiet(pc)

\* grant_or_park: to the front waiter after a peek, else to the idle list if it has room.
CpGrantOrPark(o, c, pc) ==
  \/ /\ cpWait[o] # <<>> /\ c \in cpDown
     /\ CpDiscards(o, c, pc)
  \/ /\ cpWait[o] # <<>> /\ c \notin cpDown
     /\ CpWake(o, pc, c)
     /\ UNCHANGED <<cpBusy, cpIdle, cpTotal, cpDown>>
  \/ /\ cpWait[o] = <<>> /\ Len(cpIdle[o]) >= CpIdleMax
     /\ CpDiscards(o, c, pc)
  \/ /\ cpWait[o] = <<>> /\ Len(cpIdle[o]) < CpIdleMax
     /\ cpBusy' = [cpBusy EXCEPT ![o] = @ \ {c}]
     /\ cpIdle' = [cpIdle EXCEPT ![o] = Append(@, c)]
     /\ CpQuiet(pc)
     /\ UNCHANGED <<cpTotal, cpDown>>

CpRelease(t, reusable) ==
  /\ cpPc[t] = "using"
  /\ LET pc == [cpPc EXCEPT ![t] = "idle"]
     IN  IF reusable THEN CpGrantOrPark(CpOrigin[t], cpHas[t], pc)
                     ELSE CpDiscards(CpOrigin[t], cpHas[t], pc)
  /\ UNCHANGED <<cpOpening, cpDns, cpLost>>

\* The scheduler resumes a waiter: await_resume, and the rest of acquire's loop.
\* ~wait_awaiter leaves a scheduled handle in the ready queue, so a waiter destroyed
\* after it was woken is resumed in a frame that is gone: a ghost.
CpResume ==
  /\ cpReady # <<>>
  /\ cpReady' = Tail(cpReady)
  /\ LET t == Head(cpReady)
     IN  \/ /\ cpPc[t] = "woken" /\ cpHas[t] # 0
            /\ cpPc' = [cpPc EXCEPT ![t] = "using"]
            /\ UNCHANGED <<cpHas, cpIdle, cpBusy, cpWait, cpOpening, cpTotal, cpDown, cpDns>>
         \/ /\ cpPc[t] = "woken" /\ cpHas[t] = 0
            /\ CpLoop(t)
         \/ /\ cpPc[t] \in {"expired", "gone"}
            /\ cpPc' = [cpPc EXCEPT ![t] = IF @ = "expired" THEN "idle" ELSE "ghost"]
            /\ UNCHANGED <<cpHas, cpIdle, cpBusy, cpWait, cpOpening, cpTotal, cpDown, cpDns>>
  /\ UNCHANGED cpLost

\* vector::erase of the i-th element
CpErase(s, i) == SubSeq(s, 1, i - 1) \o SubSeq(s, i + 1, Len(s))

\* Mutant of CpUnlinked: the waiter stays in the queue.
CpUnlinkedNot(t) == cpWait[CpOrigin[t]]

\* queue.erase(remove(...)) by address: a waiter stands in the queue once, and the
\* call is a no-op for one no longer queued.
CpUnlinked(t) ==
  LET q == cpWait[CpOrigin[t]]
  IN  IF t \in Range(q) THEN CpErase(q, CHOOSE i \in DOMAIN q : q[i] = t) ELSE q

\* on_wait_expired
CpWaitExpires(t) ==
  /\ t \in Range(cpWait[CpOrigin[t]])
  /\ cpWait' = [cpWait EXCEPT ![CpOrigin[t]] = CpUnlinked(t)]
  /\ cpPc' = [cpPc EXCEPT ![t] = "expired"]
  /\ cpReady' = Append(cpReady, t)
  /\ UNCHANGED <<cpHas, cpIdle, cpBusy, cpOpening, cpTotal, cpDown, cpDns, cpLost>>

\* on_idle_expired, drop_idle
CpIdleExpires(o) ==
  /\ \E i \in DOMAIN cpIdle[o] :
        /\ cpIdle' = [cpIdle EXCEPT ![o] = CpErase(@, i)]
        /\ CpShut(cpIdle[o][i])
  /\ UNCHANGED <<cpPc, cpHas, cpBusy, cpWait, cpOpening, cpReady, cpDns, cpLost>>

\* Mutant of CpDestroy: no guard gives the opening slot back.
CpDestroyUnguarded(t) ==
  /\ cpPc[t] \in {"resolving", "opening"}
  /\ cpPc' = [cpPc EXCEPT ![t] = "gone"]
  /\ UNCHANGED <<cpHas, cpIdle, cpBusy, cpWait, cpOpening, cpTotal, cpDown, cpReady, cpDns, cpLost>>

\* The frame of a suspended request is destroyed.  opening_guard_t and
\* ~wait_awaiter clean up; a connection in use, or granted and not yet picked up,
\* stays in busy with nobody to release it.
CpDestroy(t) ==
  /\ cpPc[t] \in {"resolving", "opening", "parked", "woken", "expired", "using"}
  /\ cpPc' = [cpPc EXCEPT ![t] = "gone"]
  /\ cpHas' = [cpHas EXCEPT ![t] = 0]
  /\ IF cpPc[t] \in {"resolving", "opening"} THEN CpOpeningEnds(t) ELSE UNCHANGED cpOpening
  /\ cpWait' = [cpWait EXCEPT ![CpOrigin[t]] = CpUnlinked(t)]
  /\ cpLost' = cpLost \cup ({cpHas[t]} \ {0})
  /\ UNCHANGED <<cpIdle, cpBusy, cpTotal, cpDown, cpReady, cpDns>>

\* The environment: a peer closes or sends bytes nobody asked for; an entry ages.
CpPeerCloses ==
  /\ \E c \in CpAlive \ cpDown : cpDown' = cpDown \cup {c}
  /\ UNCHANGED <<cpPc, cpHas, cpIdle, cpBusy, cpWait, cpOpening, cpTotal, cpReady, cpDns, cpLost>>

CpDnsAges ==
  /\ \E h \in cpDns.fresh :
        cpDns' = [fresh |-> cpDns.fresh \ {h}, stale |-> cpDns.stale \cup {h}]
  /\ UNCHANGED <<cpPc, cpHas, cpIdle, cpBusy, cpWait, cpOpening, cpTotal, cpDown, cpReady, cpLost>>

\* clear() of a pool nobody waits in or opens through: idle and busy connections
\* are closed.  With a request parked or opening, clear() frees the bucket that
\* ~wait_awaiter and opening_guard_t still refer to.
CpClear ==
  /\ CpAlive # {}
  /\ \A t \in CpTasks : cpPc[t] \in {"idle", "gone", "ghost"}
  /\ cpIdle' = [o \in CpOrigins |-> <<>>]
  /\ cpBusy' = [o \in CpOrigins |-> {}]
  /\ cpTotal' = 0
  /\ cpDown' = {}
  /\ cpDns' = [fresh |-> {}, stale |-> {}]
  /\ cpLost' = {}
  /\ UNCHANGED <<cpPc, cpHas, cpWait, cpOpening, cpReady>>

CpNext ==
  \/ CpResume \/ CpPeerCloses \/ CpDnsAges \/ CpClear
  \/ \E o \in CpOrigins : CpIdleExpires(o)
  \/ \E t \in CpTasks :
        \/ CpAcquire(t) \/ CpResolved(t) \/ CpOpened(t) \/ CpWaitExpires(t) \/ CpDestroy(t)
        \/ \E reusable \in BOOLEAN : CpRelease(t, reusable)

CpSpec == CpInit /\ [][CpNext]_cpVars

-----------------------------------------------------------------------------
CpTypeOK ==
  /\ cpPc \in [CpTasks -> {"idle", "resolving", "opening", "parked", "woken", "expired",
                           "using", "gone", "ghost"}]
  /\ cpHas \in [CpTasks -> Nat]
  /\ cpTotal \in Nat /\ cpOpening \in [CpOrigins -> Nat]
  /\ cpDown \subseteq CpAlive
  /\ Cardinality(cpDns.fresh \cup cpDns.stale) <= CpEntries

\* The pool's books agree with what its requests hold, whatever was destroyed,
\* expired or closed in between: opening counts the requests suspended in an
\* open, total_ the connections in the lists, a busy connection has exactly one
\* request that will release it (or lost that request), an idle one has none, and
\* idle, busy and opening together stay within max_conns_per_host.
CpAccounts ==
  /\ cpTotal = Cardinality(CpAlive)
  /\ \A o \in CpOrigins :
        /\ Len(cpIdle[o]) + Cardinality(cpBusy[o]) + cpOpening[o] <= CpPerHost
        /\ cpOpening[o] =
             Cardinality({t \in CpTasks : CpOrigin[t] = o /\ cpPc[t] \in {"resolving", "opening"}})
        /\ \A c \in cpBusy[o] :
             \/ c \in cpLost
             \/ \E t \in CpTasks : CpOrigin[t] = o /\ {u \in CpTasks : cpHas[u] = c} = {t}
        /\ \A c \in Range(cpIdle[o]) : \A t \in CpTasks : cpHas[t] # c
  /\ \A t \in CpTasks : cpHas[t] # 0 => cpPc[t] \in {"using", "woken"}

\* A waiter is in its bucket's queue exactly while it is parked, and is scheduled
\* at most once: a grant, a freed slot and the wait timer never both reach it, and
\* no list of the pool keeps a waiter whose frame is gone (the ready queue may).
CpWaitersLinked ==
  /\ \A o \in CpOrigins :
        /\ IsInjective(cpWait[o])
        /\ Range(cpWait[o]) = {t \in CpTasks : CpOrigin[t] = o /\ cpPc[t] = "parked"}
  /\ IsInjective(cpReady)
  /\ \A t \in CpTasks : cpPc[t] \in {"woken", "expired"} => t \in Range(cpReady)

\* The books agree with what the requests hold and the waiters with the queues.
CpSound == CpAccounts /\ CpWaitersLinked

=============================================================================
