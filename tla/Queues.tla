------------------------------- MODULE Queues -------------------------------
(***************************************************************************)
(* The two queues of the repository: ring_queue_t, the growable ready      *)
(* queue of scheduler_t (scheduling/scheduler.h), and ringbuffer_t, the    *)
(* single producer single consumer ring of utils/ringbuffer.h.  Indices    *)
(* are size_t: they wrap at QuWrap, which stands for 2^64.                 *)
(***************************************************************************)
EXTENDS Integers, Sequences

CONSTANTS QuWrap,       \* bound: the modulus of the indices, a power of two
          RqCap,        \* bound: first capacity of ring_queue_t, 1024 in the code
          RqMax,        \* bound: entries queued at once
          SpSize,       \* ringbuffer_t's N, a power of two
          SpVals        \* values pushed through either queue

\* A number is a power of two when twice a proper divisor of it divides it too.
QuPowerOfTwo(w) == \A c \in 1..w : w % c = 0 /\ c # w => w % (2 * c) = 0

ASSUME QuAssumption ==
  /\ QuWrap \in Nat /\ RqCap \in 1..QuWrap /\ RqMax \in Nat /\ SpSize \in Nat \ {0}
  /\ QuPowerOfTwo(QuWrap) /\ QuWrap % RqCap = 0 /\ RqMax < QuWrap

VARIABLES rqBuf, rqHead, rqTail,
          rqGhost,      \* history: the handles pushed and not popped, in order
          spBuf, spRead, spWrite, spReadCache, spWriteCache,
          spProd,       \* program counter of push: "idle", "write", "publish"
          spCons,       \* program counter of pop: "idle", "read", "publish"
          spItem,       \* what the producer pushes, and what the consumer took
          spGhost       \* history: values published and not taken, in order

rqVars == <<rqBuf, rqHead, rqTail, rqGhost>>
spVars == <<spBuf, spRead, spWrite, spReadCache, spWriteCache, spProd, spCons, spItem, spGhost>>
quVars == <<rqVars, spVars>>

\* index & mask for a power-of-two size
QuAt(i, size) == i % size
QuInc(i) == (i + 1) % QuWrap

RqInit ==
  /\ rqBuf = [i \in 0..RqCap - 1 |-> "null"]
  /\ rqHead = 0 /\ rqTail = 0
  /\ rqGhost = <<>>

RqSizeOf(head, tail) == (tail - head + QuWrap) % QuWrap

\* Mutant of RqGrow: grow leaves the entries at their old places.
RqGrowInPlace(buf, cap) ==
  [i \in 0..2 * cap - 1 |-> IF i < cap THEN buf[i] ELSE "null"]

\* grow: entry i moves from i & mask_ to i & (new_cap - 1).
RqGrow(buf, cap) ==
  LET queued == {(rqHead + n) % QuWrap : n \in 0..RqSizeOf(rqHead, rqTail) - 1}
  IN  [j \in 0..2 * cap - 1 |->
         IF \E i \in queued : QuAt(i, 2 * cap) = j
         THEN buf[QuAt(CHOOSE i \in queued : QuAt(i, 2 * cap) = j, cap)]
         ELSE "null"]

\* The vector's size.
RqCapOf(buf) == CHOOSE n \in 1..QuWrap : DOMAIN buf = 0..n - 1

RqPush(v) ==
  LET cap  == RqCapOf(rqBuf)
      full == RqSizeOf(rqHead, rqTail) = cap
      buf  == IF full THEN RqGrow(rqBuf, cap) ELSE rqBuf
  IN  /\ Len(rqGhost) < RqMax
      /\ rqBuf' = [buf EXCEPT ![QuAt(rqTail, RqCapOf(buf))] = v]
      /\ rqTail' = QuInc(rqTail)
      /\ rqGhost' = Append(rqGhost, v)
      /\ UNCHANGED rqHead

\* The caller tested empty(); front() was read before.
RqPop ==
  /\ rqHead # rqTail
  /\ rqHead' = QuInc(rqHead)
  /\ rqGhost' = Tail(rqGhost)
  /\ UNCHANGED <<rqBuf, rqTail>>

----------------------------------------------------------------------------
SpInit ==
  /\ spBuf = [i \in 0..SpSize - 1 |-> "null"]
  /\ spRead = 0 /\ spWrite = 0 /\ spReadCache = 0 /\ spWriteCache = 0
  /\ spProd = "idle" /\ spCons = "idle"
  /\ spItem = [push |-> "null", pop |-> "null"]
  /\ spGhost = <<>>

SpNextOf(i) == (i + 1) % SpSize

\* push/emplace up to the test: the cached cursor first, the shared one only when
\* the ring looks full.
SpPushTests(v) ==
  /\ spProd = "idle"
  /\ spReadCache' = IF SpNextOf(spWrite) = spReadCache THEN spRead ELSE spReadCache
  /\ IF SpNextOf(spWrite) = spReadCache'
     THEN UNCHANGED <<spProd, spItem>>
     ELSE spProd' = "write" /\ spItem' = [spItem EXCEPT !.push = v]
  /\ UNCHANGED <<spBuf, spRead, spWrite, spWriteCache, spCons, spGhost>>

SpPushWrites ==
  /\ spProd = "write"
  /\ spBuf' = [spBuf EXCEPT ![spWrite] = spItem.push]
  /\ spProd' = "publish"
  /\ UNCHANGED <<spRead, spWrite, spReadCache, spWriteCache, spCons, spItem, spGhost>>

\* The release store of the back cursor.
SpPushPublishes ==
  /\ spProd = "publish"
  /\ spWrite' = SpNextOf(spWrite)
  /\ spProd' = "idle"
  /\ spGhost' = Append(spGhost, spItem.push)
  /\ spItem' = [spItem EXCEPT !.push = "null"]
  /\ UNCHANGED <<spBuf, spRead, spReadCache, spWriteCache, spCons>>

SpPopTests ==
  /\ spCons = "idle"
  /\ spWriteCache' = IF spRead = spWriteCache THEN spWrite ELSE spWriteCache
  /\ spCons' = IF spRead = spWriteCache' THEN "idle" ELSE "read"
  /\ UNCHANGED <<spBuf, spRead, spWrite, spReadCache, spProd, spItem, spGhost>>

\* The value is moved out and its slot destroyed.
SpPopReads ==
  /\ spCons = "read"
  /\ spItem' = [spItem EXCEPT !.pop = spBuf[spRead]]
  /\ spBuf' = [spBuf EXCEPT ![spRead] = "null"]
  /\ spCons' = "publish"
  /\ UNCHANGED <<spRead, spWrite, spReadCache, spWriteCache, spProd, spGhost>>

\* Mutant of SpPopPublishes: the consumer also drops the entry behind.
SpPopPublishesTwo ==
  /\ spCons = "publish"
  /\ spRead' = SpNextOf(SpNextOf(spRead))
  /\ spCons' = "idle"
  /\ spGhost' = Tail(spGhost)
  /\ spItem' = [spItem EXCEPT !.pop = "null"]
  /\ UNCHANGED <<spBuf, spWrite, spReadCache, spWriteCache, spProd>>

\* The release store of the front cursor.
SpPopPublishes ==
  /\ spCons = "publish"
  /\ spRead' = SpNextOf(spRead)
  /\ spCons' = "idle"
  /\ spGhost' = Tail(spGhost)
  /\ spItem' = [spItem EXCEPT !.pop = "null"]
  /\ UNCHANGED <<spBuf, spWrite, spReadCache, spWriteCache, spProd>>

QuInit == RqInit /\ SpInit
RqNext == RqPop \/ \E v \in SpVals : RqPush(v)
SpNext ==
  \/ SpPushWrites \/ SpPushPublishes \/ SpPopTests \/ SpPopReads \/ SpPopPublishes
  \/ \E v \in SpVals : SpPushTests(v)
RqOnly == RqNext /\ UNCHANGED spVars
SpOnly == SpNext /\ UNCHANGED rqVars
QuSpec == QuInit /\ [][RqOnly \/ SpOnly]_quVars

----------------------------------------------------------------------------
QuTypeOK ==
  /\ rqHead \in 0..QuWrap - 1 /\ rqTail \in 0..QuWrap - 1
  /\ {spRead, spWrite, spReadCache, spWriteCache} \subseteq 0..SpSize - 1

\* Both queues deliver every entry once and in order: the slots between the cursors
\* hold what was pushed and not popped, whatever growth happened in between, with
\* indices that wrapped, and whatever cached cursor each thread of the ring acts
\* on; neither thread touches a slot the other one is working on.
QuFifo ==
  /\ RqSizeOf(rqHead, rqTail) = Len(rqGhost)
  /\ \A n \in 1..Len(rqGhost) :
        rqBuf[QuAt((rqHead + n - 1) % QuWrap, RqCapOf(rqBuf))] = rqGhost[n]
  /\ Len(spGhost) = (spWrite - spRead + SpSize) % SpSize
  /\ \A n \in 1..Len(spGhost) :
        IF n = 1 /\ spCons = "publish" THEN spItem.pop = spGhost[1]
        ELSE spBuf[(spRead + n - 1) % SpSize] = spGhost[n]
  /\ spProd \in {"write", "publish"} /\ spCons \in {"read", "publish"} => spWrite # spRead

\* Why QuFifo holds of the ready queue: the capacity divides the modulus of the indices,
\* so that an index keeps its slot when it wraps, and holds all that is queued.
RqInv ==
  /\ rqHead \in 0..QuWrap - 1 /\ rqGhost \in Seq(SpVals) /\ Len(rqGhost) <= RqMax
  /\ rqTail = (rqHead + Len(rqGhost)) % QuWrap
  /\ \E cap \in 1..QuWrap :
        /\ QuWrap % cap = 0 /\ Len(rqGhost) <= cap
        /\ rqBuf \in [0..cap - 1 -> SpVals \cup {"null"}]
        /\ \A n \in 1..Len(rqGhost) : rqBuf[(rqHead + n - 1) % cap] = rqGhost[n]

\* Why it holds of the ring: each cached cursor is behind the cursor it caches, by no more
\* than leaves the ring a free slot, or an entry, for the thread that acts on it.
SpInv ==
  /\ spRead \in 0..SpSize - 1 /\ spGhost \in Seq(SpVals)
  /\ spBuf \in [0..SpSize - 1 -> SpVals \cup {"null"}]
  /\ spItem \in [push : SpVals \cup {"null"}, pop : SpVals \cup {"null"}]
  /\ spProd \in {"idle", "write", "publish"} /\ spCons \in {"idle", "read", "publish"}
  /\ spWrite = (spRead + Len(spGhost)) % SpSize
  /\ spReadCache \in 0..SpSize - 1
  /\ \E k \in 0..SpSize : /\ spRead = (spReadCache + k) % SpSize /\ k + Len(spGhost) < SpSize
                          /\ spProd # "idle" => k + Len(spGhost) + 1 < SpSize
  /\ \E k \in 0..Len(spGhost) : /\ spWriteCache = (spRead + k) % SpSize
                                /\ spCons # "idle" => k > 0
  /\ spProd # "idle" => spItem.push \in SpVals
  /\ spProd = "publish" => spBuf[spWrite] = spItem.push
  /\ spCons = "publish" => spItem.pop = spGhost[1]
  /\ \A n \in 1..Len(spGhost) :
        (n = 1 /\ spCons = "publish") \/ spBuf[(spRead + n - 1) % SpSize] = spGhost[n]

QuInv == RqInv /\ SpInv
=============================================================================
