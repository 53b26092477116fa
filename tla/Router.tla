------------------------------- MODULE Router -------------------------------
(***************************************************************************)
(* router_t: exact paths live in a table keyed by method and normalised    *)
(* path; paths with a ":name" or "*rest" segment live in a trie.  A node   *)
(* is named by its edges from the root: a literal, ":" or "*".  match()    *)
(* walks the trie with an explicit stack of untried alternatives.          *)
(* A path is the sequence of the texts between its slashes, empty ones     *)
(* included.  Registering one exact path twice is left out (see README).   *)
(***************************************************************************)
EXTENDS Naturals, Sequences, SequencesExt, FiniteSets

CONSTANTS RrRoutes,    \* <<method, pattern>> pairs the program registers
          RrParams,    \* the ":name" segments
          RrWilds,     \* the "*rest" segments
          RrMethods,
          RrPaths,     \* request paths
          RrSlots,     \* param_slots_t::kMax
          RrAdds       \* bound: registrations in one run

VARIABLES rrLog,       \* registrations in order (what the program asked for)
          rrExact,     \* impl_t::exact, as its set of keys
          rrNodes,     \* the nodes of the trie
          rrTable      \* node_t::routes: <<node, method>> -> param_names

rrVars == <<rrLog, rrExact, rrNodes, rrTable>>

RrSplit(path) == SelectSeq(path, LAMBDA s : s # "")

RrDynamic(segs) == \E i \in DOMAIN segs : segs[i] \in RrParams \cup RrWilds

RrEdge(s) == IF s \in RrParams THEN ":" ELSE IF s \in RrWilds THEN "*" ELSE s

\* add() breaks out of its loop after a wildcard.
RrUsed(segs) ==
  LET wild == {i \in DOMAIN segs : segs[i] \in RrWilds}
  IN  IF wild = {} THEN segs ELSE SubSeq(segs, 1, CHOOSE i \in wild : \A j \in wild : i <= j)

RrNode(segs) == [i \in DOMAIN RrUsed(segs) |-> RrEdge(RrUsed(segs)[i])]

RrNames(segs) == SelectSeq(RrUsed(segs), LAMBDA s : s \in RrParams \cup RrWilds)

RrInit == rrLog = <<>> /\ rrExact = {} /\ rrNodes = {<<>>} /\ rrTable = <<>>

RrAdd(m, path) ==
  LET segs == RrSplit(path)
      node == RrNode(segs)
      key  == <<node, m>>
  IN  /\ Len(rrLog) < RrAdds
      /\ rrLog' = Append(rrLog, <<m, path>>)
      /\ \/ /\ ~RrDynamic(segs)
            /\ <<m, segs>> \notin rrExact
            /\ rrExact' = rrExact \cup {<<m, segs>>}
            /\ UNCHANGED <<rrNodes, rrTable>>
         \/ /\ RrDynamic(segs)
            /\ rrNodes' = rrNodes \cup {SubSeq(node, 1, i) : i \in DOMAIN node}
            /\ rrTable' = [k \in DOMAIN rrTable \cup {key} |->
                             IF k = key THEN RrNames(segs) ELSE rrTable[k]]
            /\ UNCHANGED rrExact

\* The text from segment i to the end of the path, empty segments included.
RrRest(path, i) ==
  LET full == {j \in DOMAIN path : path[j] # ""}
      from == CHOOSE j \in full : Cardinality({k \in full : k <= j}) = i
  IN  SubSeq(path, from, Len(path))

RrCapture(caps, value) == IF Len(caps) < RrSlots THEN Append(caps, value) ELSE caps

RrHas(node, edge) == Append(node, edge) \in rrNodes

\* Mutant of RrFrame: a node with a parameter child forgets its wildcard.
RrFrameOnce(node, i, caps, alts) ==
  IF RrHas(node, ":")
    THEN IF "param" \in alts THEN <<[node |-> node, i |-> i, caps |-> caps, alt |-> "param"]>> ELSE <<>>
  ELSE IF RrHas(node, "*")
    THEN <<[node |-> node, i |-> i, caps |-> caps, alt |-> "wildcard"]>>
  ELSE <<>>

\* The alternative a frame leaves untried at a node: ":name" before "*rest".
RrFrame(node, i, caps, alts) ==
  IF "param" \in alts /\ RrHas(node, ":")
    THEN <<[node |-> node, i |-> i, caps |-> caps, alt |-> "param"]>>
  ELSE IF RrHas(node, "*")
    THEN <<[node |-> node, i |-> i, caps |-> caps, alt |-> "wildcard"]>>
  ELSE <<>>

\* try_descend() and the backtracking loop around it: the node reached, with
\* the captured values, or {} when every alternative dead-ends.
RECURSIVE RrWalk(_, _, _, _, _)
RrWalk(path, node, i, caps, stack) ==
  LET segs == RrSplit(path)
      wild(f) == RrWalk(path, Append(f.node, "*"), Len(segs) + 1,
                        RrCapture(f.caps, RrRest(path, f.i)), f.stack)
      param(f) == RrWalk(path, Append(f.node, ":"), f.i + 1,
                         RrCapture(f.caps, <<segs[f.i]>>),
                         f.stack \o RrFrame(f.node, f.i, f.caps, {"wildcard"}))
      here == [node |-> node, i |-> i, caps |-> caps, stack |-> stack]
      top  == [node |-> Last(stack).node, i |-> Last(stack).i, caps |-> Last(stack).caps,
               stack |-> Front(stack)]
  IN  CASE i > Len(segs) -> [node |-> node, caps |-> caps]
        [] i <= Len(segs) /\ RrHas(node, segs[i]) ->
             RrWalk(path, Append(node, segs[i]), i + 1, caps,
                    stack \o RrFrame(node, i, caps, {"param", "wildcard"}))
        [] i <= Len(segs) /\ ~RrHas(node, segs[i]) /\ RrHas(node, ":") -> param(here)
        [] i <= Len(segs) /\ ~RrHas(node, segs[i]) /\ ~RrHas(node, ":") /\ RrHas(node, "*") -> wild(here)
        [] OTHER -> IF stack = <<>> THEN [node |-> <<"none">>, caps |-> <<>>]
                    ELSE IF Last(stack).alt = "param" THEN param(top) ELSE wild(top)

\* match(): the route's node with its bound parameters; "absent" and whether
\* the node has a route for another method otherwise.
RrMatch(m, path) ==
  LET hit == RrWalk(path, <<>>, 1, <<>>, <<>>)
      key == <<hit.node, m>>
      names == rrTable[key]
      n == IF Len(names) < Len(hit.caps) THEN Len(names) ELSE Len(hit.caps)
  IN  IF <<m, RrSplit(path)>> \in rrExact
        THEN [at |-> RrSplit(path), bound |-> <<>>, mismatch |-> FALSE]
      ELSE IF key \in DOMAIN rrTable
        THEN [at |-> hit.node, bound |-> [k \in 1..n |-> <<names[k], hit.caps[k]>>], mismatch |-> FALSE]
      ELSE [at |-> <<"none">>, bound |-> <<>>,
            mismatch |-> \E k \in DOMAIN rrTable : k[1] = hit.node]

RrNext == \E r \in RrRoutes : RrAdd(r[1], r[2])

-----------------------------------------------------------------------------
RrTypeOK ==
  /\ rrLog \in Seq(RrRoutes) /\ Len(rrLog) <= RrAdds
  /\ <<>> \in rrNodes /\ \A k \in DOMAIN rrTable : k[1] \in rrNodes

\* The reference: a registered pattern fits a path when it has as many
\* segments, each equal or a parameter, or ends in a wildcard with at least
\* one segment left for it.
RrFits(node, segs) ==
  /\ Len(node) <= Len(segs)
  /\ Len(node) = Len(segs) \/ (node # <<>> /\ Last(node) = "*")
  /\ \A i \in DOMAIN node : node[i] \in {segs[i], ":"} \/ (i = Len(node) /\ node[i] = "*")

RrRank(edge) == IF edge = ":" THEN 1 ELSE IF edge = "*" THEN 2 ELSE 0

\* a is more specific than b at the first segment in which they differ.
RrBefore(a, b) ==
  \E i \in DOMAIN a \cap DOMAIN b :
    RrRank(a[i]) < RrRank(b[i]) /\ SubSeq(a, 1, i - 1) = SubSeq(b, 1, i - 1)

\* match() agrees with the list of registrations.  An exact registration of the method
\* wins; otherwise the answer is the last registration for the method under the most
\* specific pattern that fits the path ("a specific route is never shadowed by a general
\* one"), with its names bound to the segments they name, and "another method" when that
\* pattern has only others.  In two cases the code finds less than its documentation
\* promises, and the property says exactly when: a beginning of some pattern that fits the
\* path, has no route of its own and is more specific than every pattern that fits ends
\* the search with nothing, and exact registrations of other methods are not looked at.
RrMatchesRegistrations ==
  \A m \in RrMethods, path \in RrPaths :
    LET segs  == RrSplit(path)
        got   == RrMatch(m, path)
        dyn   == {k \in DOMAIN rrLog : RrDynamic(RrSplit(rrLog[k][2]))}
        shape(k) == RrNode(RrSplit(rrLog[k][2]))
        fits  == {p \in {shape(k) : k \in dyn} : RrFits(p, segs)}
        best  == CHOOSE p \in fits : \A q \in fits \ {p} : RrBefore(p, q)
        stubs == UNION {{SubSeq(shape(k), 1, i) : i \in DOMAIN shape(k)} : k \in dyn} \ fits
        shadowed == \E p \in stubs : RrFits(p, segs) /\ \A q \in fits : RrBefore(p, q)
        mine  == {k \in dyn : rrLog[k][1] = m /\ shape(k) = best}
        last  == CHOOSE k \in mine : \A j \in mine : j <= k
        names == RrNames(RrSplit(rrLog[last][2]))
        slots == SetToSortSeq({i \in DOMAIN best : best[i] \in {":", "*"}}, LAMBDA i, j : i < j)
        value(i) == IF best[i] = "*" THEN RrRest(path, i) ELSE <<segs[i]>>
        bound == [k \in {n \in DOMAIN slots : n <= RrSlots} |-> <<names[k], value(slots[k])>>]
    IN  IF \E k \in DOMAIN rrLog : rrLog[k][1] = m /\ k \notin dyn /\ RrSplit(rrLog[k][2]) = segs
          THEN got = [at |-> segs, bound |-> <<>>, mismatch |-> FALSE]
        ELSE IF fits = {} \/ shadowed THEN got.at = <<"none">> /\ ~got.mismatch
        ELSE IF mine # {} THEN got = [at |-> best, bound |-> bound, mismatch |-> FALSE]
        ELSE got.at = <<"none">> /\ got.mismatch
=============================================================================
