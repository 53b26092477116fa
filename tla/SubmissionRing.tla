---------------------------- MODULE SubmissionRing ----------------------------
(***************************************************************************)
(* The submission queue as an array of entries that are reused, and the    *)
(* two ways of filling it: get_sqe() for one operation, get_sqes() for an  *)
(* operation linked to its timeout.  An entry is first taken and then      *)
(* filled in; until then it holds what its last user wrote.  io_uring      *)
(* hands everything taken so far to the kernel on submit, filled in or not.*)
(***************************************************************************)
EXTENDS Naturals

CONSTANTS
  Ops,        \* operations; each is awaited at most once
  Entries,    \* entries of the ring
  MaxTaken    \* bound: entries taken in all

VARIABLES
  mem,    \* what each entry of the ring holds
  head,   \* entries the kernel has consumed
  tail,   \* entries taken by io_uring_get_sqe()
  sent,   \* operations the kernel has been given
  await   \* how the await of each operation stands

ringVars == <<mem, head, tail, sent, await>>

\* An entry is an operation, the timeout linked to one, or a NOP.
Contents == {"nop", "timeout"} \cup Ops

RingTypeOK ==
  /\ mem \in [0..(Entries - 1) -> Contents]
  /\ head \in 0..MaxTaken /\ tail \in head..(head + Entries)
  /\ sent \subseteq Ops
  /\ await \in [Ops -> {"new", "suspended", "failed"}]

RingInit ==
  /\ mem = [i \in 0..(Entries - 1) |-> "nop"]
  /\ head = 0 /\ tail = 0
  /\ sent = {}
  /\ await = [o \in Ops |-> "new"]

Place(n) == n % Entries

-----------------------------------------------------------------------------
\* What io_uring_submit() hands over when it consumes the entries up to h.
Handed(h, t) == Ops \cap {mem[Place(n)] : n \in h..(t - 1)}

\* io_uring_submit(): the kernel consumes some of the entries taken, or none
\* when it is saturated.
Consumed == head..tail

\* submit()
RingSubmit ==
  /\ \E h \in Consumed \ {head} :
       /\ head' = h
       /\ sent' = sent \cup Handed(head, h)
  /\ UNCHANGED <<mem, tail, await>>

\* get_sqe(), then prepare_into(): a full ring is submitted first, and the
\* operation fails with ENOBUFS when that frees nothing.
AwaitOne(o) ==
  /\ await[o] = "new" /\ tail < MaxTaken
  /\ \E h \in IF tail - head < Entries THEN {head} ELSE Consumed :
       /\ head' = h
       /\ sent' = sent \cup Handed(head, h)
       /\ IF tail - h < Entries
          THEN /\ tail' = tail + 1
               /\ mem' = [mem EXCEPT ![Place(tail)] = o]
               /\ await' = [await EXCEPT ![o] = "suspended"]
          ELSE /\ await' = [await EXCEPT ![o] = "failed"]
               /\ UNCHANGED <<mem, tail>>

\* get_sqes(2): the first entry.  A full ring is submitted first.
FirstEntry == IF tail - head < Entries THEN {head} ELSE Consumed

\* get_sqes(2): the second, with the first taken and not yet filled in.
SecondEntry(h) == IF tail + 1 - h < Entries THEN {h} ELSE h..(tail + 1)

\* with_timeout(): get_sqes(2), then the operation into the first entry and its
\* linked timeout into the second.  Entries that cannot be used become NOPs.
AwaitLinked(o) ==
  /\ await[o] = "new" /\ tail + 1 < MaxTaken
  /\ \E h1 \in FirstEntry :
       IF tail - h1 = Entries
       THEN /\ head' = h1
            /\ sent' = sent \cup Handed(head, h1)
            /\ await' = [await EXCEPT ![o] = "failed"]
            /\ UNCHANGED <<mem, tail>>
       ELSE \E h2 \in SecondEntry(h1) :
            /\ head' = h2
            /\ sent' = sent \cup Handed(head, h2)
            /\ IF tail + 1 - h2 < Entries
               THEN /\ tail' = tail + 2
                    /\ mem' = [mem EXCEPT ![Place(tail)] = o,
                                          ![Place(tail + 1)] = "timeout"]
                    /\ await' = [await EXCEPT ![o] = "suspended"]
               ELSE /\ tail' = tail + 1
                    /\ mem' = [mem EXCEPT ![Place(tail)] = "nop"]
                    /\ await' = [await EXCEPT ![o] = "failed"]

RingNext ==
  \/ RingSubmit
  \/ \E o \in Ops : AwaitOne(o) \/ AwaitLinked(o)

RingSpec == RingInit /\ [][RingNext]_ringVars

-----------------------------------------------------------------------------
\* A coroutine is suspended only on a completion that can come: its operation
\* is in an entry the kernel is still to consume, or the kernel has it
\* (combinators.h "fail fast rather than suspend on a wakeup that will never
\* arrive").
SuspendedIsSent ==
  \A o \in Ops : await[o] = "suspended" =>
    o \in sent \/ \E n \in head..(tail - 1) : mem[Place(n)] = o
=============================================================================
