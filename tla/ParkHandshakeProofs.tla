------------------------ MODULE ParkHandshakeProofs ------------------------
(* Proof that the park token never loses a wakeup, for any set of producer *)
(* threads and any bound on the queues.                                    *)
EXTENDS ParkHandshake, TLAPS

LEMMA InitHandshake == Init => HandshakeInv
<1> SUFFICES ASSUME Init PROVE HandshakeInv
  OBVIOUS
<1>1. TypeOK
  <2>1. pending \in [Queues -> 0..MaxPending]
    <3>1. 0 \in 0..MaxPending
      BY MaxPendingAssumption
    <3> QED
      BY <3>1 DEF Init
  <2> QED
    BY <2>1 DEF Init, TypeOK
<1>2. owner = "busy"
  BY DEF Init
<1> QED
  BY <1>1, <1>2 DEF HandshakeInv

LEMMA TypePreserved == TypeOK /\ [Next]_vars => TypeOK'
<1> SUFFICES ASSUME TypeOK, [Next]_vars PROVE TypeOK'
  OBVIOUS
<1> USE MaxPendingAssumption DEF TypeOK, Queues
<1>1. ASSUME NEW p \in Producers, NEW q \in Queues, Enqueue(p, q)
      PROVE TypeOK'
  BY <1>1 DEF Enqueue
<1>2. ASSUME NEW p \in Producers, CallWakeup(p) \/ Exchange(p) \/ Poke(p)
      PROVE TypeOK'
  BY <1>2 DEF CallWakeup, Exchange, Poke
<1>3. ASSUME NEW q \in Queues, Harvest(q) PROVE TypeOK'
  BY <1>3 DEF Harvest
<1>4. CASE Consume \/ Park \/ Return \/ Unpark
  BY <1>4 DEF Consume, Park, Return, Unpark
<1>5. CASE RecheckRemote \/ RecheckAsync
  BY <1>5 DEF RecheckRemote, RecheckAsync
<1>6. CASE UNCHANGED vars
  BY <1>6 DEF vars
<1> QED
  BY <1>1, <1>2, <1>3, <1>4, <1>5, <1>6 DEF Next

LEMMA HandshakePreserved == HandshakeInv /\ [Next]_vars => HandshakeInv'
<1> SUFFICES ASSUME HandshakeInv, [Next]_vars PROVE HandshakeInv'
  OBVIOUS
<1>t. TypeOK'
  BY TypePreserved DEF HandshakeInv
<1> USE <1>t DEF HandshakeInv, WakeupComing, TypeOK, Queues
\* A producer that enqueues holds "token" afterwards: if the token is there
\* it is about to be taken, and if it is gone someone already pokes.
<1>1. ASSUME NEW p \in Producers, NEW q \in Queues, Enqueue(p, q)
      PROVE HandshakeInv'
  BY <1>1 DEF Enqueue
<1>2. ASSUME NEW p \in Producers, CallWakeup(p) PROVE HandshakeInv'
  BY <1>2 DEF CallWakeup
<1>3. ASSUME NEW p \in Producers, Exchange(p) PROVE HandshakeInv'
  BY <1>3 DEF Exchange
<1>4. ASSUME NEW p \in Producers, Poke(p) PROVE HandshakeInv'
  BY <1>4 DEF Poke
<1>5. ASSUME NEW q \in Queues, Harvest(q) PROVE HandshakeInv'
  BY <1>5 DEF Harvest
<1>6. CASE Consume \/ Park \/ Return \/ Unpark
  BY <1>6 DEF Consume, Park, Return, Unpark
<1>7. CASE RecheckRemote
  BY <1>7 DEF RecheckRemote
<1>8. CASE RecheckAsync
  BY <1>8 DEF RecheckAsync
<1>9. CASE UNCHANGED vars
  BY <1>9 DEF vars
<1> QED
  BY <1>1, <1>2, <1>3, <1>4, <1>5, <1>6, <1>7, <1>8, <1>9 DEF Next

\* Every reachable state of the park/wakeup protocol has the inductive
\* invariant: queue by queue, work that arrives after the owner's re-check
\* has a notification on its way.
THEOREM HandshakeAlways == Spec => []HandshakeInv
  BY InitHandshake, HandshakePreserved, PTL DEF Spec

\* sched() never blocks in submit_and_wait_cqes over work another thread
\* handed in without a notification sent or bound to be sent, however many
\* threads call spawn_remote() or finish executor jobs.
THEOREM NoLostWakeup == Spec => []NeverSleepsOverWork
<1>1. HandshakeInv => NeverSleepsOverWork
  BY DEF HandshakeInv, NeverSleepsOverWork, TypeOK, Queues
<1> QED
  BY <1>1, HandshakeAlways, PTL
=============================================================================
