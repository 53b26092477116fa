------------------------------- MODULE FramePool -------------------------------
(***************************************************************************)
(* The per-thread pools of coroutine frames.  A frame is allocated from    *)
(* the pool of the calling thread and freed by any thread: spawn_remote()  *)
(* builds its wrapper coroutine on the caller's thread and the context     *)
(* destroys it on its own.  The free list is a plain linked list, so every *)
(* load and store of its head is a step of its own; the inbound stack is   *)
(* an atomic pointer.  One size class; frames beyond it (alloc_global) do  *)
(* not touch a pool.                                                       *)
(***************************************************************************)
EXTENDS Naturals, SequencesExt

CONSTANTS
  Threads,   \* threads; a thread's pool is named by the thread
  Blocks,    \* blocks a chunk can be carved into
  NoBlock    \* the null pointer

VARIABLES
  chunk,      \* blocks not carved yet
  next,       \* the link of each block
  freelist,   \* the head of each pool's free list
  inbound,    \* each pool's inbound stack, top first (remote_head_)
  owner,      \* the pool in the header of each block
  frames,     \* how many live frames each block holds
  pc, reg     \* where each thread is, and the node_t* it holds

poolVars == <<chunk, next, freelist, inbound, owner, frames, pc, reg>>

PoolTypeOK ==
  /\ chunk \subseteq Blocks
  /\ next \in [Blocks -> Blocks \cup {NoBlock}]
  /\ freelist \in [Threads -> Blocks \cup {NoBlock}]
  /\ inbound \in [Threads -> Seq(Blocks)]
  /\ owner \in [Blocks -> Threads]
  /\ frames \in [Blocks -> Nat]
  /\ pc \in [Threads -> {"idle", "pop", "push"}]
  /\ reg \in [Threads -> Blocks \cup {NoBlock}]

PoolInit ==
  /\ chunk = Blocks
  /\ next = [b \in Blocks |-> NoBlock]
  /\ freelist = [t \in Threads |-> NoBlock]
  /\ inbound = [t \in Threads |-> <<>>]
  /\ owner \in [Blocks -> Threads]
  /\ frames = [b \in Blocks |-> 0]
  /\ pc = [t \in Threads |-> "idle"]
  /\ reg = [t \in Threads |-> NoBlock]

-----------------------------------------------------------------------------
\* drain_remote(): the inbound stack goes onto the free list node by node, so
\* the node drained last is the new head.
Drained(t) ==
  LET s == inbound[t]
      place(b) == CHOOSE i \in 1..Len(s) : s[i] = b
      below(b) == IF place(b) = 1 THEN freelist[t] ELSE s[place(b) - 1]
  IN  /\ next' = [b \in Blocks |-> IF Contains(s, b) THEN below(b) ELSE next[b]]
      /\ freelist' = [freelist EXCEPT ![t] = IF s = <<>> THEN @ ELSE Last(s)]
      /\ inbound' = [inbound EXCEPT ![t] = <<>>]

\* alloc(): drain the inbound stack and read the head of the free list.
AllocRead(t) ==
  /\ pc[t] = "idle"
  /\ Drained(t)
  /\ reg' = [reg EXCEPT ![t] = freelist'[t]]
  /\ pc' = [pc EXCEPT ![t] = "pop"]
  /\ UNCHANGED <<chunk, owner, frames>>

\* alloc(): unlink the node read, or carve a block when there was none; the
\* block gets this pool as its owner.
AllocPop(t) ==
  /\ pc[t] = "pop"
  /\ \E b \in IF reg[t] = NoBlock THEN chunk ELSE {reg[t]} :
       /\ frames' = [frames EXCEPT ![b] = @ + 1]
       /\ owner' = [owner EXCEPT ![b] = t]
       /\ chunk' = chunk \ {b}
  /\ freelist' = [freelist EXCEPT ![t] = IF reg[t] = NoBlock THEN @ ELSE next[reg[t]]]
  /\ pc' = [pc EXCEPT ![t] = "idle"]
  /\ reg' = [reg EXCEPT ![t] = NoBlock]
  /\ UNCHANGED <<next, inbound>>

\* free_local_or_remote() called on `pool` by thread t, up to the store of the
\* list head: either link the block below the head of the local free list, or
\* publish it on the owner's inbound stack.
FreeLocalOrRemote(pool, t, b) ==
  \/ /\ owner[b] = pool
     /\ next' = [next EXCEPT ![b] = freelist[pool]]
     /\ pc' = [pc EXCEPT ![t] = "push"]
     /\ reg' = [reg EXCEPT ![t] = b]
     /\ UNCHANGED <<freelist, inbound>>
  \/ /\ owner[b] # pool
     /\ inbound' = [inbound EXCEPT ![owner[b]] = <<b>> \o @]
     /\ UNCHANGED <<next, freelist, pc, reg>>

\* free(): the header's owner is the pool the free is done on.
FreeLink(t, b) ==
  /\ pc[t] = "idle" /\ frames[b] > 0
  /\ frames' = [frames EXCEPT ![b] = @ - 1]
  /\ FreeLocalOrRemote(owner[b], t, b)
  /\ UNCHANGED <<chunk, owner>>

\* free_local_or_remote(): the store of the list head.
FreePush(t) ==
  /\ pc[t] = "push"
  /\ freelist' = [freelist EXCEPT ![owner[reg[t]]] = reg[t]]
  /\ pc' = [pc EXCEPT ![t] = "idle"]
  /\ reg' = [reg EXCEPT ![t] = NoBlock]
  /\ UNCHANGED <<chunk, next, inbound, owner, frames>>

PoolNext ==
  \E t \in Threads :
    \/ AllocRead(t) \/ AllocPop(t) \/ FreePush(t)
    \/ \E b \in Blocks : FreeLink(t, b)

PoolSpec == PoolInit /\ [][PoolNext]_poolVars

-----------------------------------------------------------------------------
\* Two live coroutine frames are never in the same block, whichever threads
\* free frames while the owner allocates (frame_pool.h: "same thread pushes
\* locally, a foreign thread publishes on the owner's inbound stack").
OneFramePerBlock == \A b \in Blocks : frames[b] <= 1
=============================================================================
