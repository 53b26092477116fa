------------------------------- MODULE IoSlots -------------------------------
(***************************************************************************)
(* How a completion finds the operation it belongs to: io_slot_table_t,    *)
(* utask_t and the entries of the submission and completion queues.        *)
(*                                                                         *)
(* An operation (a utask_t awaiter inside a coroutine frame) takes a slot  *)
(* when it is prepared and writes the slot's token, its index and          *)
(* generation, into the entry.  Whoever destroys the frame first frees the *)
(* slot; the kernel still owes the completion, which must then find        *)
(* nobody, even if the slot has been given to another operation since.     *)
(***************************************************************************)
EXTENDS Naturals, FiniteSets

CONSTANTS
  Ops,        \* the operations; each is awaited at most once
  Capacity,   \* slots of a new table
  MaxCap,     \* bound: what the table may grow to
  GenLimit,   \* 2^32: the generations a slot can count
  SqEntries,  \* entries of the submission queue
  Nobody      \* nullptr

ASSUME SlotsAssumption ==
  /\ Capacity \in Nat \ {0} /\ MaxCap \in Nat /\ Capacity <= MaxCap
  /\ GenLimit \in Nat /\ GenLimit > 1
  /\ SqEntries \in Nat
  /\ Nobody \notin Ops

Indices == 0..(MaxCap - 1)
Gens    == 0..(GenLimit - 1)
Tokens  == Indices \X Gens     \* encode_slot(index, generation)

VARIABLES
  slots,    \* io_slot_table_t::slots_: task and generation
  size,     \* slots_.size()
  free,     \* free_list_, as a set
  op,       \* the life of each operation
  data,     \* utask_t::slot_data_, or <<>> for 0
  entry,    \* where the ring entry of each operation is
  token,    \* the user_data in that entry
  by        \* whose completion ended each operation

slotVars == <<slots, size, free>>
slotsVars == <<slots, size, free, op, data, entry, token, by>>

SlotsTypeOK ==
  /\ slots \in [Indices -> [task : Ops \cup {Nobody}, generation : Gens]]
  /\ size \in 1..MaxCap
  /\ free \subseteq Indices
  /\ op \in [Ops -> {"new", "waiting", "failed", "done", "destroyed"}]
  /\ data \in [Ops -> Tokens \cup {<<>>}]
  /\ entry \in [Ops -> {"none", "sq", "kernel", "cq", "reaped"}]
  /\ token \in [Ops -> Tokens \cup {<<>>}]
  /\ by \in [Ops -> Ops \cup {Nobody}]

SlotsInit ==
  /\ slots = [i \in Indices |-> [task |-> Nobody, generation |-> 1]]
  /\ size = Capacity
  /\ free = 0..(Capacity - 1)
  /\ op = [o \in Ops |-> "new"]
  /\ data = [o \in Ops |-> <<>>]
  /\ entry = [o \in Ops |-> "none"]
  /\ token = [o \in Ops |-> <<>>]
  /\ by = [o \in Ops |-> Nobody]

InSq == {o \in Ops : entry[o] = "sq"}

-----------------------------------------------------------------------------
\* Mutant: the new slots start one too early.
GrownEarlyMutant == (size - 1)..(2 * size - 1)

\* alloc() on an empty free list doubles the table.
Grown == size..(2 * size - 1)

\* alloc(): a free slot, of a table that grows when there is none.  The bounds:
\* the table fits MaxCap, and no slot is used so often that its generation
\* wraps.
Alloc(o, i) ==
  /\ IF free = {}
     THEN /\ 2 * size <= MaxCap
          /\ i \in Grown
          /\ size' = 2 * size
          /\ free' = Grown \ {i}
     ELSE /\ i \in free
          /\ free' = free \ {i}
          /\ UNCHANGED size
  /\ slots[i].generation + 1 < GenLimit
  /\ slots' = [slots EXCEPT ![i] = [task |-> o, generation |-> @.generation]]
  /\ data' = [data EXCEPT ![o] = <<i, slots[i].generation>>]

\* Mutant: a freed slot keeps its generation.
FreeMutant(o) ==
  /\ slots' = [slots EXCEPT ![data[o][1]].task = Nobody]
  /\ free' = free \cup {data[o][1]}
  /\ data' = [data EXCEPT ![o] = <<>>]
  /\ UNCHANGED size

\* free(): the generation moves on; slot_data_ = 0.
Free(o) ==
  LET i == data[o][1] IN
  /\ slots' = [slots EXCEPT ![i] = [task |-> Nobody,
                                    generation |-> (@.generation + 1) % GenLimit]]
  /\ free' = free \cup {i}
  /\ data' = [data EXCEPT ![o] = <<>>]
  /\ UNCHANGED size

\* lookup(): nobody for an index or a generation that does not match.
Lookup(t) ==
  IF t[1] < size /\ slots[t[1]].generation = t[2] THEN slots[t[1]].task ELSE Nobody

\* io_uring_submit() of all entries of the queue.
Submitted == [o \in Ops |-> IF entry[o] = "sq" THEN "kernel" ELSE entry[o]]

-----------------------------------------------------------------------------
\* await_suspend(): get_sqe(), with a forced submit on a full queue, then
\* prepare_into().
Suspend(o) ==
  /\ op[o] = "new"
  /\ LET flushed == IF Cardinality(InSq) < SqEntries THEN entry ELSE Submitted
     IN entry' = [flushed EXCEPT ![o] = "sq"]
  /\ \E i \in Indices :
       /\ Alloc(o, i)
       /\ token' = [token EXCEPT ![o] = <<i, slots[i].generation>>]
  /\ op' = [op EXCEPT ![o] = "waiting"]
  /\ UNCHANGED by

\* await_suspend(): the forced submit frees nothing: fail(ENOBUFS).
SuspendFails(o) ==
  /\ op[o] = "new"
  /\ Cardinality(InSq) >= SqEntries
  /\ op' = [op EXCEPT ![o] = "failed"]
  /\ UNCHANGED <<slotVars, data, entry, token, by>>

\* Mutant: the destructor leaves the slot taken.
AbandonMutant(o) ==
  /\ op[o] = "waiting"
  /\ op' = [op EXCEPT ![o] = "destroyed"]
  /\ UNCHANGED <<slotVars, data, entry, token, by>>

\* ~utask_t(): the frame of a waiting coroutine is destroyed.
Abandon(o) ==
  /\ op[o] = "waiting"
  /\ Free(o)
  /\ op' = [op EXCEPT ![o] = "destroyed"]
  /\ UNCHANGED <<entry, token, by>>

\* submit()
Submit ==
  /\ InSq # {}
  /\ entry' = Submitted
  /\ UNCHANGED <<slotVars, op, data, token, by>>

\* The kernel posts the completion of an operation.
KernelPosts(o) ==
  /\ entry[o] = "kernel"
  /\ entry' = [entry EXCEPT ![o] = "cq"]
  /\ UNCHANGED <<slotVars, op, data, token, by>>

\* process_utask(): a stale completion is dropped, any other complete()s the
\* operation its token finds.
Process(o) ==
  /\ entry[o] = "cq"
  /\ entry' = [entry EXCEPT ![o] = "reaped"]
  /\ LET task == Lookup(token[o]) IN
     IF task = Nobody
     THEN UNCHANGED <<slotVars, data, op, by>>
     ELSE /\ Free(task)
          /\ op' = [op EXCEPT ![task] = "done"]
          /\ by' = [by EXCEPT ![task] = o]
  /\ UNCHANGED token

SlotsNext ==
  \/ \E o \in Ops :
       \/ Suspend(o) \/ SuspendFails(o) \/ Abandon(o)
       \/ KernelPosts(o) \/ Process(o)
  \/ Submit

SlotsSpec == SlotsInit /\ [][SlotsNext]_slotsVars

-----------------------------------------------------------------------------
\* A completion ends only the operation whose entry it answers: a late one
\* whose operation was destroyed never resumes the next tenant of the slot
\* (docs/architecture.md: a generation mismatch identifies a stale CQE).
OwnCompletion == \A o \in Ops : by[o] \in {o, Nobody}

\* An operation that waits is still owed a completion that will find it: its
\* entry is somewhere in the ring, under the token of the slot it holds.
WaitingIsFound ==
  \A o \in Ops : op[o] = "waiting" =>
    /\ entry[o] \in {"sq", "kernel", "cq"}
    /\ token[o] = data[o]
    /\ Lookup(token[o]) = o

\* The slots are exactly divided between the free list and the operations that
\* wait: none leaks when a frame is destroyed, none is given out twice.
SlotsDivided ==
  /\ \A i \in 0..(size - 1) : (i \in free) <=> (slots[i].task = Nobody)
  /\ \A i \in 0..(size - 1) : slots[i].task # Nobody =>
       op[slots[i].task] = "waiting" /\ data[slots[i].task][1] = i
  /\ \A o \in Ops : (op[o] = "waiting") <=> (data[o] # <<>>)

\* What makes these inductive.  A completion still owed to an operation that is
\* gone carries a generation its slot has left behind; slots beyond the end of
\* the table are fresh; a slot in use is short of wrapping.
SlotsInv ==
  /\ SlotsTypeOK /\ OwnCompletion /\ WaitingIsFound /\ SlotsDivided
  /\ free \subseteq 0..(size - 1)
  /\ \A i \in Indices : i >= size => slots[i].task = Nobody
  /\ \A i \in Indices : slots[i].task # Nobody => slots[i].generation + 1 < GenLimit
  /\ \A o \in Ops : op[o] = "new" => entry[o] = "none"
  /\ \A o \in Ops : entry[o] # "none" =>
       /\ token[o] # <<>> /\ token[o][1] < size
       /\ op[o] # "waiting" => token[o][2] < slots[token[o][1]].generation
=============================================================================
