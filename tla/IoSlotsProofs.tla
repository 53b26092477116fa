--------------------------- MODULE IoSlotsProofs ---------------------------
(***************************************************************************)
(* SlotsInv is an inductive invariant of IoSlots, for every set of         *)
(* operations, table size and ring size: a late completion never reaches   *)
(* the wrong operation, and none is lost.                                  *)
(***************************************************************************)
EXTENDS IoSlots, Integers, TLAPS

\* A generation short of the limit moves on by one: free() does not wrap it.
LEMMA NextGeneration ==
  ASSUME NEW g \in Gens, g + 1 < GenLimit
  PROVE  (g + 1) % GenLimit = g + 1 /\ g + 1 \in Gens
<1>1. g \in Nat /\ GenLimit \in Nat
  BY SlotsAssumption DEF Gens
<1> QED BY <1>1, SMT DEF Gens

\* What free() does to the table, called with a slot in use.
LEMMA FreeEffect ==
  ASSUME SlotsInv, NEW o \in Ops, op[o] = "waiting", Free(o)
  PROVE  \E i \in 0..(size - 1), g \in Gens :
           /\ data[o] = <<i, g>> /\ token[o] = <<i, g>>
           /\ slots[i] = [task |-> o, generation |-> g]
           /\ i \in Indices /\ g + 1 \in Gens
           /\ slots' = [slots EXCEPT ![i] = [task |-> Nobody, generation |-> g + 1]]
           /\ free' = free \cup {i}
           /\ data' = [data EXCEPT ![o] = <<>>]
           /\ size' = size
<1>1. data[o] \in Tokens
  BY DEF SlotsInv, SlotsTypeOK, SlotsDivided
<1>2. PICK i \in Indices, g \in Gens : data[o] = <<i, g>>
  BY <1>1 DEF Tokens
<1>3. data[o][1] = i /\ data[o][2] = g
  BY <1>2
<1>4. token[o] = <<i, g>> /\ token[o][1] = i /\ token[o][2] = g
  BY <1>2 DEF SlotsInv, WaitingIsFound
<1>5. i < size /\ slots[i].generation = g /\ slots[i].task = o
  BY <1>4, SlotsAssumption DEF SlotsInv, WaitingIsFound, Lookup
<1>6. slots[i] = [task |-> o, generation |-> g]
  BY <1>5 DEF SlotsInv, SlotsTypeOK
<1>7. g + 1 < GenLimit
  BY <1>5, SlotsAssumption DEF SlotsInv
<1>8. (g + 1) % GenLimit = g + 1 /\ g + 1 \in Gens
  BY <1>7, NextGeneration
<1>9. i \in 0..(size - 1)
  BY <1>5 DEF Indices, SlotsInv, SlotsTypeOK
<1>10. slots' = [slots EXCEPT ![i] = [task |-> Nobody, generation |-> g + 1]]
  <2>1. slots' = [slots EXCEPT ![i] = [task |-> Nobody,
                                       generation |-> (slots[i].generation + 1) % GenLimit]]
    BY <1>3 DEF Free
  <2> QED BY <2>1, <1>5, <1>8, Zenon
<1> QED BY <1>2, <1>3, <1>4, <1>6, <1>8, <1>9, <1>10, Zenon DEF Free

\* The invariant holds at the start.
LEMMA SlotsInitInv == SlotsInit => SlotsInv
<1> SUFFICES ASSUME SlotsInit PROVE SlotsInv
  OBVIOUS
<1> USE SlotsAssumption
<1>1. SlotsTypeOK
  BY DEF SlotsInit, SlotsTypeOK, Indices, Gens
<1>2. OwnCompletion /\ WaitingIsFound /\ SlotsDivided
  BY DEF SlotsInit, OwnCompletion, WaitingIsFound, SlotsDivided, Indices
<1> QED BY <1>1, <1>2 DEF SlotsInit, SlotsInv, Indices

\* The slots of a table lie within the bound on tables.
LEMMA TableFits ==
  ASSUME NEW n \in 1..MaxCap
  PROVE  0..(n - 1) \subseteq Indices
<1> SUFFICES ASSUME NEW j \in 0..(n - 1) PROVE j \in 0..(MaxCap - 1)
  BY DEF Indices
<1>1. n \in Int /\ MaxCap \in Int /\ j \in Int
  BY SlotsAssumption
<1> QED BY <1>1

\* await_suspend() gives the operation a slot nobody holds, under a generation
\* no completion in the ring carries for it.
LEMMA SuspendKeeps ==
  ASSUME SlotsInv, NEW o \in Ops, Suspend(o)
  PROVE  SlotsInv'
<1> USE SlotsAssumption
<1>1. PICK i \in Indices : Alloc(o, i) /\ token' = [token EXCEPT ![o] = <<i, slots[i].generation>>]
  BY Zenon DEF Suspend
<1> DEFINE g == slots[i].generation
<1>2. g \in Gens /\ g + 1 < GenLimit /\ <<i, g>> \in Tokens /\ <<i, g>> # <<>>
  BY <1>1 DEF Alloc, SlotsInv, SlotsTypeOK, Tokens
<1>3. /\ size' \in 1..MaxCap /\ size <= size' /\ i < size'
      /\ slots[i].task = Nobody
      /\ free' \subseteq 0..(size' - 1) /\ i \notin free'
      /\ \A j \in 0..(size' - 1) : j # i => ((j \in free') <=> (slots[j].task = Nobody))
  <2>1. CASE free = {}
    <3>1. /\ 2 * size <= MaxCap /\ size' = 2 * size
          /\ i \in size..(2 * size - 1) /\ free' = (size..(2 * size - 1)) \ {i}
      BY <1>1, <2>1 DEF Alloc, Grown
    <3>2. \A j \in 0..(size - 1) : slots[j].task # Nobody
      BY <2>1 DEF SlotsInv, SlotsDivided
    <3>3. \A j \in Indices : j >= size => slots[j].task = Nobody
      BY DEF SlotsInv
    <3> QED BY <3>1, <3>2, <3>3 DEF Indices, SlotsInv, SlotsTypeOK
  <2>2. CASE free # {}
    <3>1. i \in free /\ free' = free \ {i} /\ size' = size
      BY <1>1, <2>2 DEF Alloc
    <3>2. free \subseteq 0..(size - 1) /\ size \in 1..MaxCap
      BY DEF SlotsInv, SlotsTypeOK
    <3>3. \A j \in 0..(size - 1) : (j \in free) <=> (slots[j].task = Nobody)
      BY DEF SlotsInv, SlotsDivided
    <3> QED BY <3>1, <3>2, <3>3
  <2> QED BY <2>1, <2>2
<1>4. size' \in 1..MaxCap
  BY <1>3
<1>5. 0..(size' - 1) \subseteq Indices
  BY <1>4, TableFits, Zenon
<1>6. /\ slots' = [slots EXCEPT ![i] = [task |-> o, generation |-> g]]
      /\ data' = [data EXCEPT ![o] = <<i, g>>]
      /\ token' = [token EXCEPT ![o] = <<i, g>>]
  BY <1>1 DEF Alloc
<1>7. /\ op[o] = "new" /\ op' = [op EXCEPT ![o] = "waiting"] /\ by' = by
      /\ entry'[o] = "sq"
      /\ entry' \in [Ops -> {"none", "sq", "kernel", "cq", "reaped"}]
      /\ \A p \in Ops \ {o} : \/ entry'[p] = entry[p]
                              \/ entry[p] = "sq" /\ entry'[p] = "kernel"
  BY DEF Suspend, Submitted, SlotsInv, SlotsTypeOK
<1>8. SlotsTypeOK'
  <2>1. slots' \in [Indices -> [task : Ops \cup {Nobody}, generation : Gens]]
    <3>1. [task |-> o, generation |-> g] \in [task : Ops \cup {Nobody}, generation : Gens]
      BY <1>2
    <3> QED BY <3>1, <1>6, Zenon DEF SlotsInv, SlotsTypeOK
  <2>2. free' \subseteq Indices
    BY <1>3, <1>5, Zenon
  <2>3. /\ data' \in [Ops -> Tokens \cup {<<>>}]
        /\ token' \in [Ops -> Tokens \cup {<<>>}]
    BY <1>2, <1>6 DEF SlotsInv, SlotsTypeOK
  <2>4. op' \in [Ops -> {"new", "waiting", "failed", "done", "destroyed"}]
    BY <1>7 DEF SlotsInv, SlotsTypeOK
  <2> QED BY <1>3, <1>7, <2>1, <2>2, <2>3, <2>4 DEF SlotsInv, SlotsTypeOK
<1>9. OwnCompletion'
  BY <1>7 DEF SlotsInv, OwnCompletion
\* The other operations that wait hold other slots.
<1>10. \A p \in Ops : op[p] = "waiting" => p # o /\ token[p][1] # i
  BY <1>3, <1>7 DEF SlotsInv, WaitingIsFound, Lookup
<1>11. \A p \in Ops \ {o} : op'[p] = op[p] /\ data'[p] = data[p] /\ token'[p] = token[p]
  BY <1>6, <1>7 DEF SlotsInv, SlotsTypeOK
<1>12. \A j \in Indices : j # i => slots'[j] = slots[j]
  BY <1>6 DEF SlotsInv, SlotsTypeOK
<1>13. /\ slots'[i].task = o /\ slots'[i].generation = g
       /\ data'[o] = <<i, g>> /\ token'[o] = <<i, g>> /\ op'[o] = "waiting"
  BY <1>6, <1>7, Zenon DEF SlotsInv, SlotsTypeOK
<1>14. WaitingIsFound'
  <2> SUFFICES ASSUME NEW p \in Ops, op'[p] = "waiting"
               PROVE  /\ entry'[p] \in {"sq", "kernel", "cq"}
                      /\ token'[p] = data'[p] /\ Lookup(token[p])' = p
    BY DEF WaitingIsFound
  <2>1. CASE p = o
    BY <2>1, <1>3, <1>7, <1>13 DEF Lookup
  <2>2. CASE p # o
    <3>1. /\ op[p] = "waiting" /\ token[p] = data[p] /\ Lookup(token[p]) = p
          /\ entry[p] \in {"sq", "kernel", "cq"} /\ token[p][1] # i
      BY <2>2, <1>10, <1>11, Zenon DEF SlotsInv, WaitingIsFound
    <3>2. token[p][1] \in Indices
      BY <3>1 DEF SlotsInv, SlotsDivided, SlotsTypeOK, Tokens
    <3>3. entry'[p] \in {"sq", "kernel", "cq"}
      BY <2>2, <3>1, <1>7
    <3>4. token'[p] = token[p] /\ token'[p] = data'[p]
      BY <2>2, <3>1, <1>11
    <3>5. slots'[token[p][1]] = slots[token[p][1]]
      BY <3>1, <3>2, <1>12
    <3>6. /\ token[p][1] < size /\ slots[token[p][1]].generation = token[p][2]
          /\ slots[token[p][1]].task = p
      BY <3>1, SlotsAssumption DEF Lookup
    <3>7. token[p][1] < size'
      BY <3>2, <3>6, <1>3 DEF Indices, SlotsInv, SlotsTypeOK
    <3>8. Lookup(token[p])' = p
      BY <3>4, <3>5, <3>6, <3>7 DEF Lookup
    <3> QED BY <3>3, <3>4, <3>8
  <2> QED BY <2>1, <2>2, Zenon
<1>15. SlotsDivided'
  <2>1. \A j \in 0..(size' - 1) : (j \in free') <=> (slots'[j].task = Nobody)
    BY <1>3, <1>12, <1>13, <1>5, Zenon
  <2>2. \A j \in 0..(size' - 1) : slots'[j].task # Nobody =>
          op'[slots'[j].task] = "waiting" /\ data'[slots'[j].task][1] = j
    <3> SUFFICES ASSUME NEW j \in 0..(size' - 1), slots'[j].task # Nobody
                 PROVE  op'[slots'[j].task] = "waiting" /\ data'[slots'[j].task][1] = j
      OBVIOUS
    <3>1. CASE j = i
      BY <3>1, <1>13
    <3>2. CASE j # i
      <4>1. slots'[j] = slots[j] /\ j \in Indices /\ slots[j].task \in Ops
        <5>1. j \in Indices
          BY <1>5
        <5>2. slots'[j] = slots[j]
          BY <5>1, <3>2, <1>12
        <5>3. slots[j] \in [task : Ops \cup {Nobody}, generation : Gens]
          BY <5>1 DEF SlotsInv, SlotsTypeOK
        <5> QED BY <5>1, <5>2, <5>3
      <4>2. j < size
        BY <4>1 DEF SlotsInv, SlotsTypeOK, Indices
      <4>3. op[slots[j].task] = "waiting" /\ data[slots[j].task][1] = j
        BY <4>1, <4>2 DEF SlotsInv, SlotsTypeOK, SlotsDivided
      <4> QED BY <4>1, <4>3, <1>7, <1>11
    <3> QED BY <3>1, <3>2, Zenon
  <2>3. \A p \in Ops : (op'[p] = "waiting") <=> (data'[p] # <<>>)
    BY <1>2, <1>11, <1>13 DEF SlotsInv, SlotsDivided
  <2> QED BY <2>1, <2>2, <2>3, Zenon DEF SlotsDivided
<1>16. \A j \in Indices : j >= size' => slots'[j].task = Nobody
  BY <1>3, <1>12 DEF SlotsInv, SlotsTypeOK, Indices
<1>17. \A j \in Indices : slots'[j].task # Nobody => slots'[j].generation + 1 < GenLimit
  BY <1>2, <1>12, <1>13, Zenon DEF SlotsInv
<1>18. \A p \in Ops : op'[p] = "new" => entry'[p] = "none"
  BY <1>7, <1>11, <1>13 DEF SlotsInv
<1>19. \A p \in Ops : entry'[p] # "none" =>
         /\ token'[p] # <<>> /\ token'[p][1] < size'
         /\ op'[p] # "waiting" => token'[p][2] < slots'[token'[p][1]].generation
  <2> SUFFICES ASSUME NEW p \in Ops, p # o, entry'[p] # "none"
               PROVE  /\ token'[p] # <<>> /\ token'[p][1] < size'
                      /\ op'[p] # "waiting" =>
                           token'[p][2] < slots'[token'[p][1]].generation
    BY <1>2, <1>3, <1>13
  <2>1. entry[p] # "none" /\ token'[p] = token[p] /\ op'[p] = op[p]
    BY <1>7, <1>11, Zenon
  <2>2. /\ token[p] # <<>> /\ token[p][1] < size
        /\ op[p] # "waiting" => token[p][2] < slots[token[p][1]].generation
    BY <2>1, Zenon DEF SlotsInv
  <2>3. token[p][1] \in Indices
    BY <2>2, Zenon DEF SlotsInv, SlotsTypeOK, Tokens
  <2>4. slots'[token[p][1]].generation = slots[token[p][1]].generation
    BY <2>3, <1>12, <1>13
  <2> QED BY <2>1, <2>2, <2>3, <2>4, <1>3 DEF SlotsInv, SlotsTypeOK, Indices
<1> QED BY <1>3, <1>8, <1>9, <1>14, <1>15, <1>16, <1>17, <1>18, <1>19, Zenon DEF SlotsInv

\* Freeing the slot of an operation that waits, whoever does it: the rest keep
\* their slots, and what is still owed to it becomes stale.
LEMMA FreeKeeps ==
  ASSUME SlotsInv, NEW o \in Ops, op[o] = "waiting", Free(o),
         NEW new \in {"done", "destroyed"}, op' = [op EXCEPT ![o] = new],
         token' = token, OwnCompletion',
         by' \in [Ops -> Ops \cup {Nobody}],
         entry' \in [Ops -> {"none", "sq", "kernel", "cq", "reaped"}],
         \A p \in Ops : (entry'[p] = "none") <=> (entry[p] = "none"),
         \A p \in Ops \ {o} :
           entry'[p] = entry[p] \/ (entry'[p] = "reaped" /\ op[p] # "waiting")
  PROVE  SlotsInv'
<1> USE SlotsAssumption
<1>1. PICK i \in 0..(size - 1), g \in Gens :
        /\ data[o] = <<i, g>> /\ token[o] = <<i, g>>
        /\ slots[i] = [task |-> o, generation |-> g]
        /\ i \in Indices /\ g + 1 \in Gens
        /\ slots' = [slots EXCEPT ![i] = [task |-> Nobody, generation |-> g + 1]]
        /\ free' = free \cup {i}
        /\ data' = [data EXCEPT ![o] = <<>>]
        /\ size' = size
  BY FreeEffect, Zenon
<1>2. size \in 1..MaxCap /\ 0..(size - 1) \subseteq Indices
  BY TableFits, Zenon DEF SlotsInv, SlotsTypeOK
<1>3. SlotsTypeOK'
  <2>1. [task |-> Nobody, generation |-> g + 1]
          \in [task : Ops \cup {Nobody}, generation : Gens]
    BY <1>1, Zenon
  <2>2. slots' \in [Indices -> [task : Ops \cup {Nobody}, generation : Gens]]
    BY <1>1, <2>1, Zenon DEF SlotsInv, SlotsTypeOK
  <2>3. free' \subseteq Indices
    BY <1>1, Zenon DEF SlotsInv, SlotsTypeOK
  <2>4. data' \in [Ops -> Tokens \cup {<<>>}]
    BY <1>1, Zenon DEF SlotsInv, SlotsTypeOK
  <2>5. op' \in [Ops -> {"new", "waiting", "failed", "done", "destroyed"}]
    BY Zenon DEF SlotsInv, SlotsTypeOK
  <2> QED BY <1>1, <2>2, <2>3, <2>4, <2>5, Zenon DEF SlotsInv, SlotsTypeOK
<1>4. \A p \in Ops \ {o} : op'[p] = op[p] /\ data'[p] = data[p]
  BY <1>1, Zenon DEF SlotsInv, SlotsTypeOK
<1>5. \A j \in Indices : j # i => slots'[j] = slots[j]
  BY <1>1, Zenon DEF SlotsInv, SlotsTypeOK
<1>6. /\ slots'[i].task = Nobody /\ slots'[i].generation = g + 1
      /\ slots[i].task = o /\ slots[i].generation = g
      /\ data'[o] = <<>> /\ op'[o] = new
  BY <1>1 DEF SlotsInv, SlotsTypeOK
<1>7. WaitingIsFound'
  <2> SUFFICES ASSUME NEW p \in Ops, op'[p] = "waiting"
               PROVE  /\ entry'[p] \in {"sq", "kernel", "cq"}
                      /\ token'[p] = data'[p] /\ Lookup(token[p])' = p
    BY Zenon DEF WaitingIsFound
  <2>1. p # o /\ op[p] = "waiting"
    BY <1>4, <1>6
  <2>2. /\ token[p] = data[p] /\ Lookup(token[p]) = p
        /\ entry[p] \in {"sq", "kernel", "cq"}
    BY <2>1, Zenon DEF SlotsInv, WaitingIsFound
  <2>3. token[p][1] \in Indices /\ token[p][1] # i
    BY <2>1, <2>2, <1>6 DEF SlotsInv, SlotsDivided, SlotsTypeOK, Tokens, Lookup
  <2> QED BY <2>1, <2>2, <2>3, <1>1, <1>4, <1>5 DEF Lookup
<1>8. SlotsDivided'
  <2>1. \A j \in 0..(size' - 1) : (j \in free') <=> (slots'[j].task = Nobody)
    BY <1>1, <1>2, <1>5, <1>6 DEF SlotsInv, SlotsDivided
  <2>2. \A j \in 0..(size' - 1) : slots'[j].task # Nobody =>
          op'[slots'[j].task] = "waiting" /\ data'[slots'[j].task][1] = j
    <3> SUFFICES ASSUME NEW j \in 0..(size - 1), slots'[j].task # Nobody
                 PROVE  op'[slots'[j].task] = "waiting" /\ data'[slots'[j].task][1] = j
      BY <1>1, Zenon
    <3>1. j # i /\ slots'[j] = slots[j] /\ j \in Indices
      BY <1>2, <1>5, <1>6, Zenon
    <3>2. /\ slots[j].task \in Ops
          /\ op[slots[j].task] = "waiting" /\ data[slots[j].task][1] = j
      BY <3>1 DEF SlotsInv, SlotsTypeOK, SlotsDivided
    <3>3. slots[j].task # o
      BY <3>1, <3>2, <1>1
    <3> QED BY <3>1, <3>2, <3>3, <1>4
  <2>3. \A p \in Ops : (op'[p] = "waiting") <=> (data'[p] # <<>>)
    BY <1>4, <1>6 DEF SlotsInv, SlotsDivided
  <2> QED BY <2>1, <2>2, <2>3, Zenon DEF SlotsDivided
<1>9. free' \subseteq 0..(size' - 1)
  BY <1>1, Zenon DEF SlotsInv
<1>10. \A j \in Indices : j >= size' => slots'[j].task = Nobody
  BY <1>1, <1>5, <1>6 DEF SlotsInv
<1>11. \A j \in Indices : slots'[j].task # Nobody => slots'[j].generation + 1 < GenLimit
  BY <1>5, <1>6 DEF SlotsInv
<1>12. \A p \in Ops : op'[p] = "new" => entry'[p] = "none"
  BY <1>4, <1>6 DEF SlotsInv
<1>13. \A p \in Ops : entry'[p] # "none" =>
         /\ token'[p] # <<>> /\ token'[p][1] < size'
         /\ op'[p] # "waiting" => token'[p][2] < slots'[token'[p][1]].generation
  <2> SUFFICES ASSUME NEW p \in Ops, entry[p] # "none"
               PROVE  /\ token[p] # <<>> /\ token[p][1] < size
                      /\ op'[p] # "waiting" =>
                           token[p][2] < slots'[token[p][1]].generation
    BY <1>1, Zenon
  <2>1. /\ token[p] # <<>> /\ token[p][1] < size
        /\ op[p] # "waiting" => token[p][2] < slots[token[p][1]].generation
    BY Zenon DEF SlotsInv
  <2>2. token[p][1] \in Indices /\ token[p][2] \in Nat
    BY <2>1 DEF SlotsInv, SlotsTypeOK, Tokens, Gens
  <2>3. CASE p = o
    BY <2>1, <2>3, <1>1, <1>6 DEF Gens
  <2>4. CASE p # o
    <3>1. op'[p] # "waiting" => token[p][2] < slots[token[p][1]].generation
      BY <2>1, <2>4, <1>4, Zenon
    <3>2. CASE token[p][1] = i
      BY <2>1, <2>2, <3>1, <3>2, <1>6 DEF Gens
    <3>3. CASE token[p][1] # i
      BY <2>1, <2>2, <3>1, <3>3, <1>5, Zenon
    <3> QED BY <3>2, <3>3, Zenon
  <2> QED BY <2>3, <2>4, Zenon
<1> QED BY <1>3, <1>7, <1>8, <1>9, <1>10, <1>11, <1>12, <1>13, Zenon DEF SlotsInv

\* ~utask_t() gives the slot back and leaves the completion to find it stale.
LEMMA AbandonKeeps ==
  ASSUME SlotsInv, NEW o \in Ops, Abandon(o)
  PROVE  SlotsInv'
<1>1. /\ op[o] = "waiting" /\ Free(o) /\ op' = [op EXCEPT ![o] = "destroyed"]
      /\ entry' = entry /\ token' = token /\ by' = by
  BY DEF Abandon
<1>2. OwnCompletion'
  BY <1>1, Zenon DEF SlotsInv, OwnCompletion
<1>3. /\ by' \in [Ops -> Ops \cup {Nobody}]
      /\ entry' \in [Ops -> {"none", "sq", "kernel", "cq", "reaped"}]
  BY <1>1, Zenon DEF SlotsInv, SlotsTypeOK
<1> QED BY <1>1, <1>2, <1>3, FreeKeeps, Zenon

\* A completion whose token finds an operation is that operation's own.
LEMMA FindsItsOwn ==
  ASSUME SlotsInv, NEW o \in Ops, entry[o] = "cq", Lookup(token[o]) # Nobody
  PROVE  Lookup(token[o]) = o /\ op[o] = "waiting"
<1> USE SlotsAssumption
<1>1. token[o] \in Tokens /\ token[o][1] < size
  BY Zenon DEF SlotsInv, SlotsTypeOK
<1>2. token[o][1] \in Indices /\ token[o][2] \in Gens
  BY <1>1 DEF Tokens
<1>3. slots[token[o][1]].generation = token[o][2]
  BY <1>1 DEF Lookup
<1>4. op[o] # "waiting" => token[o][2] < slots[token[o][1]].generation
  BY Zenon DEF SlotsInv
<1>5. op[o] = "waiting"
  BY <1>2, <1>3, <1>4 DEF Gens
<1> QED BY <1>5, Zenon DEF SlotsInv, WaitingIsFound

\* process_utask() completes the operation its completion answers, or nobody.
LEMMA ProcessKeeps ==
  ASSUME SlotsInv, NEW o \in Ops, Process(o)
  PROVE  SlotsInv'
<1>1. /\ entry[o] = "cq" /\ entry' = [entry EXCEPT ![o] = "reaped"] /\ token' = token
  BY DEF Process
<1>2. /\ entry' \in [Ops -> {"none", "sq", "kernel", "cq", "reaped"}]
      /\ entry'[o] = "reaped"
      /\ \A p \in Ops \ {o} : entry'[p] = entry[p]
      /\ \A p \in Ops : (entry'[p] = "none") <=> (entry[p] = "none")
  BY <1>1, Zenon DEF SlotsInv, SlotsTypeOK
<1>3. CASE Lookup(token[o]) = Nobody
  <2>1. UNCHANGED <<slots, size, free, data, op, by>>
    BY <1>3 DEF Process, slotVars
  <2>2. op[o] # "waiting"
    BY <1>3, SlotsAssumption, Zenon DEF SlotsInv, WaitingIsFound
  <2>3. SlotsTypeOK'
    BY <1>1, <1>2, <2>1, Zenon DEF SlotsInv, SlotsTypeOK
  <2>4. OwnCompletion' /\ SlotsDivided'
    BY <2>1, Zenon DEF SlotsInv, OwnCompletion, SlotsDivided
  <2>5. WaitingIsFound'
    BY <1>1, <1>2, <2>1, <2>2, Zenon DEF SlotsInv, WaitingIsFound, Lookup
  <2> QED BY <1>1, <1>2, <2>1, <2>3, <2>4, <2>5, Zenon DEF SlotsInv
<1>4. CASE Lookup(token[o]) # Nobody
  <2>1. Lookup(token[o]) = o /\ op[o] = "waiting"
    BY <1>1, <1>4, FindsItsOwn, Zenon
  <2>2. Free(o) /\ op' = [op EXCEPT ![o] = "done"] /\ by' = [by EXCEPT ![o] = o]
    BY <1>4, <2>1, Zenon DEF Process
  <2>3. OwnCompletion' /\ by' \in [Ops -> Ops \cup {Nobody}]
    BY <2>2, Zenon DEF SlotsInv, SlotsTypeOK, OwnCompletion
  <2> QED BY <1>1, <1>2, <2>1, <2>2, <2>3, FreeKeeps, Zenon
<1> QED BY <1>3, <1>4

\* The steps that only move entries through the ring.
LEMMA RingKeeps ==
  ASSUME SlotsInv, UNCHANGED <<slots, size, free, data, token, by>>,
         op' \in [Ops -> {"new", "waiting", "failed", "done", "destroyed"}],
         entry' \in [Ops -> {"none", "sq", "kernel", "cq", "reaped"}],
         \A p \in Ops : (entry'[p] = "none") <=> (entry[p] = "none"),
         \A p \in Ops : entry[p] \in {"sq", "kernel", "cq"}
                          => entry'[p] \in {"sq", "kernel", "cq"},
         \A p \in Ops : op'[p] = op[p] \/ (op[p] = "new" /\ op'[p] = "failed")
  PROVE  SlotsInv'
<1>1. SlotsTypeOK'
  BY Zenon DEF SlotsInv, SlotsTypeOK
<1>2. \A p \in Ops : (op'[p] = "waiting") <=> (op[p] = "waiting")
  BY Zenon
<1>3. OwnCompletion' /\ SlotsDivided'
  <2>1. \A j \in 0..(size - 1) : slots[j].task # Nobody =>
          op'[slots[j].task] = "waiting" /\ data[slots[j].task][1] = j
    <3> SUFFICES ASSUME NEW j \in 0..(size - 1), slots[j].task # Nobody
                 PROVE  op'[slots[j].task] = "waiting" /\ data[slots[j].task][1] = j
      BY Zenon
    <3>1. j \in Indices
      BY TableFits, Zenon DEF SlotsInv, SlotsTypeOK
    <3>2. slots[j].task \in Ops
      BY <3>1 DEF SlotsInv, SlotsTypeOK
    <3> QED BY <3>2, <1>2, Zenon DEF SlotsInv, SlotsDivided
  <2> QED BY <1>2, <2>1, Zenon DEF SlotsInv, OwnCompletion, SlotsDivided
<1>4. WaitingIsFound'
  BY <1>2, Zenon DEF SlotsInv, WaitingIsFound, Lookup
<1>5. \A p \in Ops : op'[p] = "new" => op[p] = "new"
  OBVIOUS
<1> QED BY <1>1, <1>2, <1>3, <1>4, <1>5, Zenon DEF SlotsInv

\* Every step keeps the invariant.
LEMMA SlotsStep == SlotsInv /\ [SlotsNext]_slotsVars => SlotsInv'
<1> SUFFICES ASSUME SlotsInv, [SlotsNext]_slotsVars PROVE SlotsInv'
  OBVIOUS
<1>1. ASSUME NEW o \in Ops, Suspend(o) PROVE SlotsInv'
  BY <1>1, SuspendKeeps
<1>2. ASSUME NEW o \in Ops, SuspendFails(o) PROVE SlotsInv'
  BY <1>2, RingKeeps, Zenon DEF SuspendFails, slotVars, SlotsInv, SlotsTypeOK
<1>3. ASSUME NEW o \in Ops, Abandon(o) PROVE SlotsInv'
  BY <1>3, AbandonKeeps
<1>4. ASSUME NEW o \in Ops, KernelPosts(o) PROVE SlotsInv'
  BY <1>4, RingKeeps, Zenon DEF KernelPosts, slotVars, SlotsInv, SlotsTypeOK
<1>5. ASSUME NEW o \in Ops, Process(o) PROVE SlotsInv'
  BY <1>5, ProcessKeeps
<1>6. CASE Submit
  BY <1>6, RingKeeps, Zenon DEF Submit, Submitted, slotVars, SlotsInv, SlotsTypeOK
<1>7. CASE UNCHANGED slotsVars
  BY <1>7, RingKeeps, Zenon DEF slotsVars, SlotsInv, SlotsTypeOK
<1> QED BY <1>1, <1>2, <1>3, <1>4, <1>5, <1>6, <1>7 DEF SlotsNext

\* For any number of operations, destroyed or completed in any order, a
\* completion ends only the operation it answers (io_slot_table_t::lookup()).
THEOREM NoStaleCompletion == SlotsSpec => []OwnCompletion
<1>1. SlotsInv => OwnCompletion
  BY Zenon DEF SlotsInv
<1> QED BY <1>1, SlotsInitInv, SlotsStep, PTL DEF SlotsSpec

\* No operation that waits is cut off from the completion it waits for, however
\* the table grows and its slots are reused (utask_t::prepare_into()).
THEOREM NoLostCompletion == SlotsSpec => []WaitingIsFound
<1>1. SlotsInv => WaitingIsFound
  BY DEF SlotsInv
<1> QED BY <1>1, SlotsInitInv, SlotsStep, PTL DEF SlotsSpec

\* No slot is leaked or given out twice, and the state keeps its type
\* (io_slot_table_t::alloc() and free()).
THEOREM NoSlotLeaked == SlotsSpec => [](SlotsTypeOK /\ SlotsDivided)
<1>1. SlotsInv => SlotsTypeOK /\ SlotsDivided
  BY DEF SlotsInv
<1> QED BY <1>1, SlotsInitInv, SlotsStep, PTL DEF SlotsSpec
=============================================================================
