-------------------------- MODULE CallGraphProofs ---------------------------
(***************************************************************************)
(* Proofs about dot and percent of cmd/callgraph, for every list of        *)
(* functions, naming, limit and set of covered names: what the edges, the  *)
(* nodes and the statistics are.                                           *)
(***************************************************************************)
EXTENDS CallGraph, TLAPS, SequenceTheorems, FiniteSetTheorems

-----------------------------------------------------------------------------
(* The invariant. *)

ListsInv ==
    /\ list \in Lists
    /\ name \in [1..Len(list) -> Names]
    /\ maxLevel \in Nat
    /\ at \in {"add", "delete", "done"}
    /\ n \in 1..(Len(list) + 1)

(* parentMap has, since the last function at depth 1, the last function of *)
(* each depth.                                                             *)
ParentInv ==
    /\ \A d \in DOMAIN parentMap : parentMap[d] \in Shown /\ list[parentMap[d]].depth = d
    /\ at = "add" =>
          /\ \A d \in DOMAIN parentMap : \A k \in (parentMap[d] + 1)..(n - 1) : list[k].depth # 1
          /\ \A p \in Shown :
                (\A m \in (p + 1)..(n - 1) : list[m].depth # list[p].depth /\ list[m].depth # 1)
                   => list[p].depth \in DOMAIN parentMap /\ parentMap[list[p].depth] = p

EndsOf(es) == {e[1] : e \in es} \cup {e[2] : e \in es}

(* While nodes are deleted, those are left that have an edge or are still  *)
(* to come.                                                                *)
NodesInv ==
    /\ uniqFunc = {name[k] : k \in Shown}
    /\ edges \subseteq uniqFunc \X uniqFunc
    /\ nodeWithEdges = EndsOf(edges)
    /\ at = "add" => nodes = uniqFunc
    /\ at = "delete" =>
          nodes = {f \in uniqFunc : f \in nodeWithEdges \/ \A k \in 1..(n - 1) : name[k] # f}
    /\ at = "done" => nodes = nodeWithEdges

CoveredAt(d) == {k \in ShownAt(d) : name[k] \in covered}

(* With names that are used once, the counts are numbers of functions.     *)
StatsInv ==
    /\ DOMAIN stats = {list[k].depth : k \in Seen}
    /\ \A d \in DOMAIN stats :
          /\ stats[d] \in [covered : Nat, total : Nat]
          /\ at = "add" => stats[d].covered < n /\ stats[d].total < n
          /\ stats[d].covered <= Len(list) /\ stats[d].total <= Len(list)
          /\ UniqueNames => /\ stats[d].total = Cardinality(ShownAt(d))
                            /\ stats[d].covered = Cardinality(CoveredAt(d))

PercentsInv ==
    \A d \in DOMAIN percents :
        /\ at = "done" /\ d \in DOMAIN stats /\ ~TooDeep(d)
        /\ percents[d] \in Percents(stats[d].covered, stats[d].total)

-----------------------------------------------------------------------------
(* Types. *)

LEMMA ListType ==
    ASSUME list \in Lists
    PROVE  /\ Len(list) \in Nat
           /\ \A k \in 1..Len(list) : list[k] \in [depth : Nat \ {0}, encl : Nat]
<1>1. list \in Seq([depth : Nat \ {0}, encl : Nat])
  BY GraphAssumption
<1> QED
  BY <1>1, LenProperties, ElementOfSeq

(* What is in and what is around a function, in the list.                  *)
LEMMA EnclType ==
    ASSUME list \in Lists, NEW k \in 1..Len(list)
    PROVE  LET p == list[k].encl
           IN  /\ p \in Nat /\ p < k
               /\ p # 0 => \A m \in (p + 1)..k : list[m].depth > list[p].depth
BY GraphAssumption, ListType

LEMMA ListsStep == ListsInv /\ [Next]_vars => ListsInv'
<1> SUFFICES ASSUME ListsInv, [Next]_vars PROVE ListsInv'
  OBVIOUS
<1>1. Len(list) \in Nat
  BY ListType DEF ListsInv
<1>2. list' = list /\ name' = name /\ maxLevel' = maxLevel
  BY DEF Next, SkipFunc, AddFunc, EndOfFuncs, DeleteNode, PrintStats, vars, flags
<1>3. at' \in {"add", "delete", "done"}
  BY DEF ListsInv, Next, SkipFunc, AddFunc, EndOfFuncs, DeleteNode, PrintStats, vars
<1>4. n' \in 1..(Len(list) + 1)
  BY <1>1 DEF ListsInv, Next, SkipFunc, AddFunc, EndOfFuncs, DeleteNode, PrintStats, vars
<1> QED
  BY <1>2, <1>3, <1>4 DEF ListsInv

(* What was seen and is shown, in a step. *)
LEMMA SeenInStep ==
    ASSUME ListsInv, list' = list, maxLevel' = maxLevel
    PROVE  /\ at = "add" /\ n <= Len(list) /\ at' = "add" /\ n' = n + 1
                => Seen' = Seen \cup {n} /\ n \notin Seen
           /\ at = "add" /\ n > Len(list) /\ at' = "delete" => Seen' = Seen
           /\ at # "add" /\ at' # "add" => Seen' = Seen
           /\ at' = at /\ n' = n => Seen' = Seen
           /\ Seen \subseteq 1..Len(list)
           /\ at = "add" => \A k \in Seen : k < n
           /\ Shown' = {k \in Seen' : ~TooDeep(list[k].depth)}
<1>1. Len(list) \in Nat /\ n \in 1..(Len(list) + 1)
  BY ListType DEF ListsInv
<1>2. at = "add" => Seen = 1..(n - 1)
  BY DEF Seen
<1>3. at = "add" /\ n <= Len(list) /\ at' = "add" /\ n' = n + 1
         => Seen' = Seen \cup {n} /\ n \notin Seen
  BY <1>1 DEF Seen
<1>4. at = "add" /\ n > Len(list) /\ at' = "delete" => Seen' = Seen
  BY <1>1 DEF Seen
<1>5. (at # "add" /\ at' # "add") \/ (at' = at /\ n' = n) => Seen' = Seen
  BY DEF Seen
<1>6. Seen \subseteq 1..Len(list) /\ (at = "add" => \A k \in Seen : k < n)
  BY <1>1 DEF Seen
<1>7. Shown' = {k \in Seen' : ~TooDeep(list[k].depth)}
  BY DEF Shown, TooDeep
<1> QED
  BY <1>3, <1>4, <1>5, <1>6, <1>7

(* The functions that are shown, in a step of the first loop. *)
LEMMA AddType ==
    ASSUME ListsInv, AddFunc
    PROVE  /\ at = "add" /\ at' = "add" /\ n' = n + 1 /\ n \in 1..Len(list) /\ n \in Nat
           /\ list' = list /\ name' = name /\ maxLevel' = maxLevel /\ covered' = covered
           /\ percents' = percents
           /\ list[n].depth \in Nat \ {0} /\ ~TooDeep(list[n].depth)
           /\ Shown' = Shown \cup {n} /\ n \notin Shown /\ Seen' = Seen \cup {n}
           /\ Shown \subseteq 1..Len(list) /\ \A k \in Shown : k < n
<1>1. /\ at = "add" /\ at' = "add" /\ n' = n + 1 /\ n <= Len(list)
      /\ list' = list /\ name' = name /\ maxLevel' = maxLevel /\ covered' = covered
      /\ percents' = percents /\ ~TooDeep(list[n].depth)
  BY DEF AddFunc, flags
<1>2. n \in 1..Len(list) /\ n \in Nat /\ list[n].depth \in Nat \ {0}
  <2>1. n \in 1..Len(list) /\ n \in Nat
    BY <1>1, ListType DEF ListsInv
  <2>2. list[n] \in [depth : Nat \ {0}, encl : Nat]
    BY <2>1, ListType DEF ListsInv
  <2> QED
    BY <2>1, <2>2
<1>3. /\ Seen' = Seen \cup {n} /\ n \notin Seen /\ Seen \subseteq 1..Len(list)
      /\ \A k \in Seen : k < n
      /\ Shown' = {k \in Seen' : ~TooDeep(list[k].depth)}
  BY <1>1, SeenInStep
<1> QED
  BY <1>1, <1>2, <1>3 DEF Shown

LEMMA SkipType ==
    ASSUME ListsInv, SkipFunc
    PROVE  /\ at = "add" /\ at' = "add" /\ n' = n + 1 /\ n \in 1..Len(list) /\ n \in Nat
           /\ list' = list /\ name' = name /\ maxLevel' = maxLevel /\ covered' = covered
           /\ percents' = percents /\ parentMap' = parentMap /\ uniqFunc' = uniqFunc
           /\ nodes' = nodes /\ edges' = edges /\ nodeWithEdges' = nodeWithEdges
           /\ list[n].depth \in Nat \ {0} /\ list[n].depth # 1 /\ TooDeep(list[n].depth)
           /\ Shown' = Shown /\ Seen' = Seen \cup {n} /\ n \notin Seen
           /\ Shown \subseteq 1..Len(list) /\ \A k \in Shown : k < n
<1>1. /\ at = "add" /\ at' = "add" /\ n' = n + 1 /\ n <= Len(list)
      /\ list' = list /\ name' = name /\ maxLevel' = maxLevel /\ covered' = covered
      /\ percents' = percents /\ parentMap' = parentMap /\ uniqFunc' = uniqFunc
      /\ nodes' = nodes /\ edges' = edges /\ nodeWithEdges' = nodeWithEdges
      /\ TooDeep(list[n].depth)
  BY DEF SkipFunc, flags, graph
<1>2. n \in 1..Len(list) /\ n \in Nat /\ list[n].depth \in Nat \ {0} /\ list[n].depth # 1
  <2>1. n \in 1..Len(list) /\ n \in Nat
    BY <1>1, ListType DEF ListsInv
  <2>2. list[n] \in [depth : Nat \ {0}, encl : Nat]
    BY <2>1, ListType DEF ListsInv
  <2>3. list[n].depth # 1
    BY <1>1, <2>2 DEF TooDeep, ListsInv
  <2> QED
    BY <2>1, <2>2, <2>3
<1>3. /\ Seen' = Seen \cup {n} /\ n \notin Seen /\ Seen \subseteq 1..Len(list)
      /\ \A k \in Seen : k < n
      /\ Shown' = {k \in Seen' : ~TooDeep(list[k].depth)}
  BY <1>1, SeenInStep
<1> QED
  BY <1>1, <1>2, <1>3 DEF Shown

(* Steps of the second loop and after it. *)
LEMMA LaterType ==
    ASSUME ListsInv, EndOfFuncs \/ DeleteNode \/ PrintStats \/ UNCHANGED vars
    PROVE  /\ list' = list /\ name' = name /\ maxLevel' = maxLevel /\ covered' = covered
           /\ parentMap' = parentMap /\ uniqFunc' = uniqFunc /\ stats' = stats
           /\ edges' = edges /\ nodeWithEdges' = nodeWithEdges
           /\ Shown' = Shown /\ Seen' = Seen
           /\ at' = "add" => at = "add" /\ n' = n
<1>1. /\ list' = list /\ name' = name /\ maxLevel' = maxLevel /\ covered' = covered
      /\ parentMap' = parentMap /\ uniqFunc' = uniqFunc /\ stats' = stats
      /\ edges' = edges /\ nodeWithEdges' = nodeWithEdges
  BY DEF EndOfFuncs, DeleteNode, PrintStats, vars, flags, graph
<1>2. \/ at = "add" /\ n > Len(list) /\ at' = "delete"
      \/ at # "add" /\ at' # "add"
      \/ at' = at /\ n' = n
  BY DEF EndOfFuncs, DeleteNode, PrintStats, vars
<1>3. Seen' = Seen /\ Shown' = {k \in Seen' : ~TooDeep(list[k].depth)}
  BY <1>1, <1>2, SeenInStep
<1> QED
  BY <1>1, <1>2, <1>3 DEF Shown

-----------------------------------------------------------------------------
(* The parents. *)

LEMMA ParentInit == Init => ParentInv
<1> SUFFICES ASSUME Init PROVE ParentInv
  OBVIOUS
<1>1. DOMAIN parentMap = {} /\ at = "add" /\ n = 1
  BY DEF Init
<1>2. Shown = {}
  BY <1>1 DEF Shown, Seen
<1> QED
  BY <1>1, <1>2 DEF ParentInv

LEMMA AddParents ==
    ASSUME ListsInv, ParentInv, AddFunc
    PROVE  ParentInv'
<1> DEFINE d == list[n].depth
<1>1. /\ n \in Nat /\ n' = n + 1 /\ at = "add" /\ list' = list /\ d \in Nat \ {0}
      /\ Shown' = Shown \cup {n} /\ Shown \subseteq 1..Len(list) /\ \A k \in Shown : k < n
  BY AddType
<1>2. parentMap' = With(Known(d), d, n)
  BY DEF AddFunc, Slot
<1>3. /\ DOMAIN parentMap' = DOMAIN Known(d) \cup {d} /\ parentMap'[d] = n
      /\ \A e \in DOMAIN Known(d) : e # d => parentMap'[e] = Known(d)[e]
  <2> DEFINE f == Known(d)
  <2>1. parentMap' = With(f, d, n)
    BY <1>2
  <2> HIDE DEF f, d
  <2>2. /\ DOMAIN With(f, d, n) = DOMAIN f \cup {d} /\ With(f, d, n)[d] = n
        /\ \A e \in DOMAIN f : e # d => With(f, d, n)[e] = f[e]
    BY DEF With
  <2>3. /\ DOMAIN parentMap' = DOMAIN f \cup {d} /\ parentMap'[d] = n
        /\ \A e \in DOMAIN f : e # d => parentMap'[e] = f[e]
    BY <2>1, <2>2
  <2> QED
    BY <2>3 DEF f
<1>4. /\ DOMAIN Known(d) \subseteq DOMAIN parentMap
      /\ \A e \in DOMAIN Known(d) : Known(d)[e] = parentMap[e] /\ d # 1
      /\ d # 1 => Known(d) = parentMap
  BY DEF Known
<1>5. \A k \in Shown : k \in Nat
  BY <1>1
<1>6. \A e \in DOMAIN parentMap' :
          \/ e = d /\ parentMap'[e] = n
          \/ e # d /\ e \in DOMAIN parentMap /\ parentMap'[e] = parentMap[e] /\ d # 1
  BY <1>3, <1>4
<1> HIDE DEF d
<1>7. \A e \in DOMAIN parentMap' : parentMap'[e] \in Shown' /\ list[parentMap'[e]].depth = e
  BY <1>1, <1>6 DEF ParentInv, d
<1>8. ASSUME NEW e \in DOMAIN parentMap', NEW k \in (parentMap'[e] + 1)..n
      PROVE  list[k].depth # 1
  <2>1. CASE e = d
    BY <2>1, <1>1, <1>6
  <2>2. CASE e # d
    <3>1. /\ e \in DOMAIN parentMap /\ parentMap'[e] = parentMap[e] /\ d # 1
          /\ parentMap[e] \in Nat
      BY <2>2, <1>1, <1>5, <1>6 DEF ParentInv
    <3>2. k \in (parentMap[e] + 1)..(n - 1) \/ k = n
      BY <3>1, <1>1
    <3> QED
      BY <3>1, <3>2, <1>1 DEF ParentInv, d
  <2> QED
    BY <2>1, <2>2
<1>9. ASSUME NEW p \in Shown',
             \A m \in (p + 1)..n : list[m].depth # list[p].depth /\ list[m].depth # 1
      PROVE  list[p].depth \in DOMAIN parentMap' /\ parentMap'[list[p].depth] = p
  <2>1. CASE p = n
    BY <2>1, <1>3 DEF d
  <2>2. CASE p \in Shown
    <3>1. p \in Nat /\ p < n /\ n \in (p + 1)..n
      BY <2>2, <1>1, <1>5
    <3>2. d # list[p].depth /\ d # 1
      BY <3>1, <1>9 DEF d
    <3>3. list[p].depth \in DOMAIN parentMap /\ parentMap[list[p].depth] = p
      <4>1. \A m \in (p + 1)..(n - 1) : m \in (p + 1)..n
        BY <3>1, <1>1
      <4> QED
        BY <4>1, <2>2, <1>1, <1>9 DEF ParentInv
    <3> QED
      BY <3>2, <3>3, <1>3, <1>4
  <2> QED
    BY <2>1, <2>2, <1>1
<1>10. n' - 1 = n
  BY <1>1
<1> QED
  BY <1>1, <1>7, <1>8, <1>9, <1>10 DEF ParentInv

LEMMA SkipParents ==
    ASSUME ListsInv, ParentInv, SkipFunc
    PROVE  ParentInv'
<1>1. /\ n \in Nat /\ n' = n + 1 /\ n' - 1 = n /\ at = "add" /\ list' = list /\ list[n].depth # 1
      /\ Shown' = Shown /\ Shown \subseteq 1..Len(list) /\ \A k \in Shown : k < n
      /\ parentMap' = parentMap
  BY SkipType
<1>2. \A k \in Shown : k \in Nat
  BY <1>1
<1>3. ASSUME NEW e \in DOMAIN parentMap, NEW k \in (parentMap[e] + 1)..n
      PROVE  list[k].depth # 1
  <2>1. parentMap[e] \in Nat
    BY <1>1, <1>2 DEF ParentInv
  <2>2. k \in (parentMap[e] + 1)..(n - 1) \/ k = n
    BY <2>1, <1>1
  <2> QED
    BY <2>2, <1>1 DEF ParentInv
<1>4. ASSUME NEW p \in Shown,
             \A m \in (p + 1)..n : list[m].depth # list[p].depth /\ list[m].depth # 1
      PROVE  list[p].depth \in DOMAIN parentMap /\ parentMap[list[p].depth] = p
  <2>1. \A m \in (p + 1)..(n - 1) : m \in (p + 1)..n
    BY <1>1, <1>2
  <2> QED
    BY <2>1, <1>1, <1>4 DEF ParentInv
<1> QED
  BY <1>1, <1>3, <1>4 DEF ParentInv

LEMMA ParentStep == ListsInv /\ ParentInv /\ [Next]_vars => ParentInv'
<1> SUFFICES ASSUME ListsInv, ParentInv, [Next]_vars PROVE ParentInv'
  OBVIOUS
<1>1. CASE EndOfFuncs \/ DeleteNode \/ PrintStats \/ UNCHANGED vars
  BY <1>1, LaterType DEF ParentInv
<1> QED
  BY <1>1, AddParents, SkipParents DEF Next

-----------------------------------------------------------------------------
(* The edges. *)

GraphParent == Parent(Known(list[n].depth), list[n].depth)

(* What the loop takes for a parent comes after the last function at depth *)
(* 1, or is that one.                                                      *)
LEMMA ParentType ==
    ASSUME ListsInv, ParentInv, AddFunc, GraphParent # 0
    PROVE  /\ GraphParent \in Shown
           /\ list[n].depth - list[GraphParent].depth \in {1, 2}
           /\ \A k \in (GraphParent + 1)..n : list[k].encl = 0 => list[k].depth > 1
<1> DEFINE d == list[n].depth
           p == GraphParent
<1>1. /\ at = "add" /\ n \in Nat /\ d \in Nat \ {0}
      /\ Shown \subseteq 1..Len(list) /\ \A k \in Shown : k < n
  BY AddType
<1>2. /\ DOMAIN Known(d) \subseteq DOMAIN parentMap
      /\ \A e \in DOMAIN Known(d) : Known(d)[e] = parentMap[e] /\ d # 1
  BY DEF Known
<1>3. PICK e \in {d - 1, d - 2} : e \in DOMAIN Known(d) /\ p = Known(d)[e]
  BY DEF GraphParent, Parent
<1>4. e \in DOMAIN parentMap /\ p = parentMap[e] /\ d # 1
  BY <1>2, <1>3
<1>5. p \in Shown /\ list[p].depth = e /\ \A k \in (p + 1)..(n - 1) : list[k].depth # 1
  BY <1>1, <1>4 DEF ParentInv
<1>6. p \in Nat
  BY <1>1, <1>5
<1>7. d - list[p].depth \in {1, 2}
  <2> HIDE DEF d, p
  <2> QED
    BY <1>1, <1>3, <1>5
<1>8. ASSUME NEW k \in (p + 1)..n
      PROVE  list[k].depth > 1
  <2>1. k \in (p + 1)..(n - 1) \/ k = n
    BY <1>1, <1>6
  <2>2. list[k].depth # 1
    BY <2>1, <1>4, <1>5
  <2>3. k \in 1..Len(list) /\ list \in Lists
    BY <1>1, <1>6, AddType, ListType DEF ListsInv
  <2>4. list[k].depth \in Nat \ {0}
    BY <2>3, ListType
  <2> QED
    BY <2>2, <2>4
<1> QED
  BY <1>5, <1>7, <1>8

LEMMA NewEdges ==
    ASSUME AddFunc
    PROVE  /\ GraphParent = 0 => edges' = edges /\ nodeWithEdges' = nodeWithEdges
           /\ GraphParent # 0 =>
                 /\ edges' = edges \cup {<<name[GraphParent], name[n]>>}
                 /\ nodeWithEdges' = nodeWithEdges \cup {name[GraphParent], name[n]}
BY DEF AddFunc, GraphParent, Ends

LEMMA EdgesInit == Init => EdgesLeaveOnlyForNamespaces
BY DEF Init, EdgesLeaveOnlyForNamespaces

LEMMA EdgesStep == ListsInv /\ ParentInv /\ EdgesLeaveOnlyForNamespaces /\ [Next]_vars => EdgesLeaveOnlyForNamespaces'
<1> SUFFICES ASSUME ListsInv, ParentInv, EdgesLeaveOnlyForNamespaces, [Next]_vars
             PROVE  EdgesLeaveOnlyForNamespaces'
  OBVIOUS
<1>1. CASE AddFunc
  <2>1. list' = list /\ name' = name /\ Shown' = Shown \cup {n} /\ \A k \in Shown : k < n
    BY <1>1, AddType
  <2>2. CASE GraphParent = 0
    <3>1. edges' = edges
      BY <2>2, <1>1, NewEdges
    <3> QED
      BY <3>1, <2>1 DEF EdgesLeaveOnlyForNamespaces
  <2>3. CASE GraphParent # 0
    <3>1. edges' = edges \cup {<<name[GraphParent], name[n]>>}
      BY <2>3, <1>1, NewEdges
    <3>2. /\ GraphParent \in Shown
          /\ list[n].depth - list[GraphParent].depth \in {1, 2}
          /\ \A k \in (GraphParent + 1)..n : list[k].encl = 0 => list[k].depth > 1
      BY <2>3, <1>1, ParentType
    <3> DEFINE q == GraphParent
    <3>3. /\ edges' = edges \cup {<<name[q], name[n]>>}
          /\ q \in Shown /\ q < n
          /\ list[n].depth - list[q].depth \in {1, 2}
          /\ \A k \in (q + 1)..n : list[k].encl = 0 => list[k].depth > 1
      BY <3>1, <3>2, <2>1
    <3> HIDE DEF q
    <3>4. ASSUME NEW e \in edges'
          PROVE  \E p, c \in Shown' :
                    /\ e = <<name[p], name[c]>>
                    /\ p < c /\ list[c].depth - list[p].depth \in {1, 2}
                    /\ \A k \in (p + 1)..c : list[k].encl = 0 => list[k].depth > 1
      <4>1. CASE e \in edges
        BY <4>1, <2>1 DEF EdgesLeaveOnlyForNamespaces
      <4>2. CASE e = <<name[q], name[n]>>
        <5>1. q \in Shown' /\ n \in Shown'
          BY <3>3, <2>1
        <5> QED
          BY <4>2, <5>1, <3>3
      <4> QED
        BY <4>1, <4>2, <3>3
    <3> QED
      BY <3>4, <2>1 DEF EdgesLeaveOnlyForNamespaces
  <2> QED
    BY <2>2, <2>3
<1>2. CASE SkipFunc
  <2>1. list' = list /\ name' = name /\ Shown' = Shown /\ edges' = edges
    BY <1>2, SkipType
  <2> QED
    BY <2>1 DEF EdgesLeaveOnlyForNamespaces
<1>3. CASE EndOfFuncs \/ DeleteNode \/ PrintStats \/ UNCHANGED vars
  <2>1. list' = list /\ name' = name /\ Shown' = Shown /\ edges' = edges
    BY <1>3, LaterType
  <2> QED
    BY <2>1 DEF EdgesLeaveOnlyForNamespaces
<1> QED
  BY <1>1, <1>2, <1>3 DEF Next

LEMMA ListsInit == Init => ListsInv
<1> SUFFICES ASSUME Init PROVE ListsInv
  OBVIOUS
<1>1. list \in Lists /\ n = 1 /\ maxLevel \in Nat
  BY GraphAssumption DEF Init
<1> QED
  BY <1>1, ListType DEF Init, ListsInv

(* An edge leaves an outermost function only for those in a namespace or a *)
(* class: at every function of depth 1 the guessing starts anew            *)
(* (callgraph.go:166-168).                                                 *)
THEOREM EdgesLeave == Spec => []EdgesLeaveOnlyForNamespaces
BY ListsInit, ListsStep, ParentInit, ParentStep, EdgesInit, EdgesStep, PTL DEF Spec

-----------------------------------------------------------------------------
(* The nesting. *)

(* Without blocks, the parent that is guessed is the function around.      *)
LEMMA ParentIsEncl ==
    ASSUME ListsInv, ParentInv, AddFunc, Direct
    PROVE  GraphParent = list[n].encl /\ (list[n].encl # 0 => list[n].encl \in Shown)
<1> DEFINE d == list[n].depth
           q == list[n].encl
<1>1. /\ at = "add" /\ n \in Nat /\ n \in 1..Len(list) /\ d \in Nat \ {0} /\ ~TooDeep(d)
      /\ list \in Lists /\ Len(list) \in Nat /\ maxLevel \in Nat
  BY AddType, ListType DEF ListsInv
<1>2. q \in Nat /\ q < n /\ (q # 0 => \A m \in (q + 1)..n : list[m].depth > list[q].depth)
  BY <1>1, EnclType
<1>3. d = 1 + (IF q = 0 THEN 0 ELSE list[q].depth)
  BY <1>1 DEF Direct
<1>4. CASE q = 0
  <2>1. d = 1
    BY <1>3, <1>4
  <2>2. DOMAIN Known(d) = {}
    BY <2>1 DEF Known
  <2> QED
    BY <2>2, <1>4 DEF GraphParent, Parent
<1>5. CASE q # 0
  <2>1. q \in 1..Len(list) /\ list[q].depth \in Nat \ {0}
    <3>1. q \in 1..Len(list)
      BY <1>1, <1>2, <1>5
    <3>2. list[q] \in [depth : Nat \ {0}, encl : Nat]
      BY <3>1, <1>1, ListType
    <3> QED
      BY <3>1, <3>2
  <2>2. d = 1 + list[q].depth /\ d # 1 /\ d - 1 = list[q].depth
    BY <2>1, <1>3, <1>5
  <2>3. q \in Shown
    <3>1. q \in Seen
      BY <1>1, <1>2, <2>1 DEF Seen
    <3>2. ~TooDeep(list[q].depth)
      <4> HIDE DEF q, d
      <4> QED
        BY <1>1, <2>1, <2>2 DEF TooDeep
    <3> QED
      BY <3>1, <3>2 DEF Shown
  <2>4. \A m \in (q + 1)..(n - 1) : list[m].depth # list[q].depth /\ list[m].depth # 1
    <3> SUFFICES ASSUME NEW m \in (q + 1)..(n - 1)
                 PROVE  list[m].depth # list[q].depth /\ list[m].depth # 1
      OBVIOUS
    <3>1. m \in (q + 1)..n /\ m \in 1..Len(list)
      BY <1>1, <1>2, <2>1
    <3>2. list[m].depth > list[q].depth
      BY <3>1, <1>2, <1>5
    <3>3. list[m] \in [depth : Nat \ {0}, encl : Nat]
      BY <3>1, <1>1, ListType
    <3>4. list[m].depth \in Nat
      BY <3>3
    <3> QED
      BY <3>2, <3>4, <2>1
  <2>5. list[q].depth \in DOMAIN parentMap /\ parentMap[list[q].depth] = q
    BY <2>3, <2>4, <1>1 DEF ParentInv
  <2>6. Known(d) = parentMap
    BY <2>2 DEF Known
  <2>7. d - 1 \in DOMAIN Known(d) /\ Known(d)[d - 1] = q
    BY <2>2, <2>5, <2>6
  <2> QED
    BY <2>3, <2>7 DEF GraphParent, Parent
<1> QED
  BY <1>4, <1>5

LEMMA NestingStep ==
    ListsInv /\ ParentInv /\ DirectNestingIsDrawn /\ [Next]_vars => DirectNestingIsDrawn'
<1> SUFFICES ASSUME ListsInv, ParentInv, DirectNestingIsDrawn, [Next]_vars, Direct'
             PROVE  edges' = Nesting'
  BY DEF DirectNestingIsDrawn
<1>1. list' = list /\ name' = name
  BY DEF Next, AddFunc, SkipFunc, EndOfFuncs, DeleteNode, PrintStats, vars, flags
<1>2. Direct /\ edges = Nesting
  BY <1>1 DEF Direct, DirectNestingIsDrawn
<1>3. Nesting' = {<<name[list[k].encl], name[k]>> : k \in {m \in Shown' : list[m].encl # 0}}
  BY <1>1 DEF Nesting
<1>4. CASE AddFunc
  <2>1. Shown' = Shown \cup {n}
    BY <1>4, AddType
  <2>2. GraphParent = list[n].encl
    BY <1>2, <1>4, ParentIsEncl
  <2>3. CASE list[n].encl = 0
    <3>1. edges' = edges
      BY <2>2, <2>3, <1>4, NewEdges
    <3>2. {m \in Shown' : list[m].encl # 0} = {m \in Shown : list[m].encl # 0}
      BY <2>1, <2>3
    <3> QED
      BY <3>1, <3>2, <1>2, <1>3 DEF Nesting
  <2>4. CASE list[n].encl # 0
    <3>1. edges' = edges \cup {<<name[list[n].encl], name[n]>>}
      BY <2>2, <2>4, <1>4, NewEdges
    <3>2. {m \in Shown' : list[m].encl # 0} = {m \in Shown : list[m].encl # 0} \cup {n}
      BY <2>1, <2>4
    <3> QED
      BY <3>1, <3>2, <1>2, <1>3 DEF Nesting
  <2> QED
    BY <2>3, <2>4
<1>5. CASE SkipFunc
  BY <1>2, <1>3, <1>5, SkipType DEF Nesting
<1>6. CASE EndOfFuncs \/ DeleteNode \/ PrintStats \/ UNCHANGED vars
  BY <1>2, <1>3, <1>6, LaterType DEF Nesting
<1> QED
  BY <1>4, <1>5, <1>6 DEF Next

(* Of functions that are nested directly, the edges are the nesting and    *)
(* nothing else, for every list in the order of the tree.                  *)
THEOREM NestingIsDrawn == Spec => []DirectNestingIsDrawn
<1>1. Init => DirectNestingIsDrawn
  <2> SUFFICES ASSUME Init PROVE DirectNestingIsDrawn
    OBVIOUS
  <2>1. Shown = {} /\ edges = {}
    BY DEF Init, Shown, Seen
  <2> QED
    BY <2>1 DEF DirectNestingIsDrawn, Nesting
<1> QED
  BY <1>1, ListsInit, ListsStep, ParentInit, ParentStep, NestingStep, PTL DEF Spec

-----------------------------------------------------------------------------
(* The nodes. *)

LEMMA NodesInit == Init => NodesInv
<1> SUFFICES ASSUME Init PROVE NodesInv
  OBVIOUS
<1>1. Shown = {}
  BY DEF Init, Shown, Seen
<1> QED
  BY <1>1 DEF Init, NodesInv, EndsOf

LEMMA AddNodes ==
    ASSUME ListsInv, ParentInv, NodesInv, AddFunc
    PROVE  NodesInv'
<1>1. /\ at = "add" /\ at' = "add" /\ name' = name /\ Shown' = Shown \cup {n}
  BY AddType
<1>2. uniqFunc' = uniqFunc \cup {name[n]} /\ nodes' = nodes \cup {name[n]}
  BY DEF AddFunc
<1>3. uniqFunc' = {name[k] : k \in Shown'}
  BY <1>1, <1>2 DEF NodesInv
<1>4. /\ edges' \subseteq uniqFunc' \X uniqFunc'
      /\ nodeWithEdges' = EndsOf(edges')
  <2>1. CASE GraphParent = 0
    BY <2>1, <1>2, NewEdges DEF NodesInv
  <2>2. CASE GraphParent # 0
    <3> DEFINE a == name[GraphParent]
               b == name[n]
    <3>1. edges' = edges \cup {<<a, b>>} /\ nodeWithEdges' = nodeWithEdges \cup {a, b}
      BY <2>2, NewEdges
    <3>2. a \in uniqFunc /\ b \in uniqFunc'
      BY <2>2, <1>2, ParentType DEF NodesInv
    <3> HIDE DEF a, b
    <3>3. <<a, b>>[1] = a /\ <<a, b>>[2] = b
      OBVIOUS
    <3>4. EndsOf(edges') = EndsOf(edges) \cup {a, b}
      BY <3>1, <3>3 DEF EndsOf
    <3> QED
      BY <3>1, <3>2, <3>4, <1>2 DEF NodesInv
  <2> QED
    BY <2>1, <2>2
<1>5. EndsOf(edges)' = EndsOf(edges')
  BY DEF EndsOf
<1> QED
  BY <1>1, <1>2, <1>3, <1>4, <1>5 DEF NodesInv

LEMMA NodesStep == ListsInv /\ ParentInv /\ NodesInv /\ [Next]_vars => NodesInv'
<1> SUFFICES ASSUME ListsInv, ParentInv, NodesInv, [Next]_vars PROVE NodesInv'
  OBVIOUS
<1> DEFINE Same == /\ name' = name /\ uniqFunc' = uniqFunc /\ Shown' = Shown
                   /\ edges' = edges /\ nodeWithEdges' = nodeWithEdges
<1>1. Same => /\ uniqFunc' = {name[k] : k \in Shown}' /\ (edges \subseteq uniqFunc \X uniqFunc)'
              /\ nodeWithEdges' = EndsOf(edges)'
  BY DEF NodesInv, EndsOf
<1>2. CASE AddFunc
  BY <1>2, AddNodes
<1>3. CASE SkipFunc
  <2>1. Same /\ at = "add" /\ at' = "add" /\ nodes' = nodes
    BY <1>3, SkipType
  <2> QED
    BY <2>1, <1>1 DEF NodesInv
<1>4. CASE EndOfFuncs
  <2>1. Same /\ at = "add" /\ at' = "delete" /\ nodes' = nodes /\ n' = 1
    BY <1>4, LaterType DEF EndOfFuncs, graph
  <2>2. \A f : \A k \in 1..(n' - 1) : name[k] # f
    BY <2>1
  <2> QED
    BY <2>1, <2>2, <1>1 DEF NodesInv
<1>5. CASE DeleteNode
  <2>1. /\ Same /\ at = "delete" /\ at' = "delete" /\ n' = n + 1 /\ n \in Nat \ {0}
        /\ nodes' = IF name[n] \in nodeWithEdges THEN nodes ELSE nodes \ {name[n]}
    BY <1>5, LaterType DEF DeleteNode, ListsInv
  <2>2. nodes = {f \in uniqFunc : f \in nodeWithEdges \/ \A k \in 1..(n - 1) : name[k] # f}
    BY <2>1 DEF NodesInv
  <2>3. \A f : (\A k \in 1..(n' - 1) : name[k] # f) <=> (\A k \in 1..(n - 1) : name[k] # f) /\ name[n] # f
    <3>1. \A k : k \in 1..(n' - 1) <=> k \in 1..(n - 1) \/ k = n
      BY <2>1
    <3> QED
      BY <3>1
  <2>4. nodes' = {f \in uniqFunc : f \in nodeWithEdges \/ \A k \in 1..(n' - 1) : name[k] # f}
    BY <2>1, <2>2, <2>3
  <2> QED
    BY <2>1, <2>4, <1>1 DEF NodesInv
<1>6. CASE PrintStats
  <2>1. /\ Same /\ at = "delete" /\ at' = "done" /\ nodes' = nodes /\ n > Len(list) /\ n \in Nat
        /\ Len(list) \in Nat
    <3>1. Same
      BY <1>6, LaterType
    <3>2. at = "delete" /\ at' = "done" /\ nodes' = nodes /\ n > Len(list)
      BY <1>6 DEF PrintStats, graph
    <3>3. n \in Nat /\ Len(list) \in Nat
      BY ListType DEF ListsInv
    <3> QED
      BY <3>1, <3>2, <3>3
  <2>2. nodes = {f \in uniqFunc : f \in nodeWithEdges \/ \A k \in 1..(n - 1) : name[k] # f}
    BY <2>1 DEF NodesInv
  <2>3. \A f \in uniqFunc : ~(\A k \in 1..(n - 1) : name[k] # f)
    <3>1. \A k \in Shown : k \in 1..(n - 1)
      BY <2>1, SeenInStep DEF Shown, Seen
    <3> QED
      BY <3>1 DEF NodesInv
  <2>4. nodeWithEdges \subseteq uniqFunc
    BY DEF NodesInv, EndsOf
  <2>5. nodes = nodeWithEdges
    BY <2>2, <2>3, <2>4
  <2> QED
    BY <2>1, <2>5, <1>1 DEF NodesInv
<1>7. CASE UNCHANGED vars
  <2>1. Same /\ at' = at /\ nodes' = nodes /\ n' = n
    BY <1>7, LaterType DEF vars, graph
  <2> QED
    BY <2>1, <1>1 DEF NodesInv
<1> QED
  BY <1>2, <1>3, <1>4, <1>5, <1>6, <1>7 DEF Next

(* In the end the graph has the ends of its edges and no other node,       *)
(* however names are shared (callgraph.go:223-233).                        *)
THEOREM NodesEnd == Spec => []NodesAreEnds
<1>1. NodesInv => NodesAreEnds
  BY DEF NodesInv, NodesAreEnds, EndsOf
<1> QED
  BY <1>1, ListsInit, ListsStep, ParentInit, ParentStep, NodesInit, NodesStep, PTL DEF Spec

-----------------------------------------------------------------------------
(* The statistics. *)

LEMMA StatsInit == Init => StatsInv
<1> SUFFICES ASSUME Init PROVE StatsInv
  OBVIOUS
<1>1. DOMAIN stats = {} /\ Seen = {}
  BY DEF Init, Seen
<1> QED
  BY <1>1 DEF StatsInv

LEMMA StatType ==
    ASSUME ListsInv, StatsInv, at = "add", n <= Len(list)
    PROVE  LET s == Stat(list[n].depth)
           IN  /\ s \in [covered : Nat, total : Nat]
               /\ s.covered < n /\ s.total < n
<1> DEFINE d == list[n].depth
<1>1. n \in Nat \ {0}
  BY DEF ListsInv
<1>2. CASE d \in DOMAIN stats
  BY <1>2 DEF StatsInv, Stat
<1>3. CASE d \notin DOMAIN stats
  BY <1>1, <1>3 DEF Stat
<1> QED
  BY <1>2, <1>3

(* The functions of one depth that are shown. *)
LEMMA ShownAtFinite ==
    ASSUME ListsInv, NEW d
    PROVE  /\ IsFiniteSet(ShownAt(d)) /\ IsFiniteSet(CoveredAt(d))
           /\ Cardinality(ShownAt(d)) \in Nat /\ Cardinality(CoveredAt(d)) \in Nat
<1>1. Len(list) \in Nat /\ n \in 1..(Len(list) + 1)
  BY ListType DEF ListsInv
<1>2. IsFiniteSet(1..Len(list))
  BY <1>1, FS_Interval
<1>3. ShownAt(d) \subseteq 1..Len(list)
  BY <1>1 DEF ShownAt, Shown, Seen
<1>4. CoveredAt(d) \subseteq 1..Len(list)
  BY <1>3 DEF CoveredAt
<1> QED
  BY <1>2, <1>3, <1>4, FS_Subset, FS_CardinalityType

(* A depth that was not met has no functions that are shown. *)
LEMMA StatCounts ==
    ASSUME ListsInv, StatsInv, UniqueNames, NEW d
    PROVE  /\ Stat(d).total = Cardinality(ShownAt(d))
           /\ Stat(d).covered = Cardinality(CoveredAt(d))
<1>1. CASE d \in DOMAIN stats
  BY <1>1 DEF StatsInv, Stat
<1>2. CASE d \notin DOMAIN stats
  <2>1. ShownAt(d) = {}
    BY <1>2 DEF StatsInv, ShownAt, Shown
  <2>2. CoveredAt(d) = {}
    BY <2>1 DEF CoveredAt
  <2> QED
    BY <1>2, <2>1, <2>2, FS_EmptySet DEF Stat
<1> QED
  BY <1>1, <1>2

LEMMA AddStats ==
    ASSUME ListsInv, NodesInv, StatsInv, AddFunc
    PROVE  StatsInv'
<1>0. PICK d : d = list[n].depth
  OBVIOUS
<1> DEFINE s == Stat(d)
           new == [covered |-> s.covered + (IF Covered(name[n]) THEN 1 ELSE 0),
                   total   |-> s.total + (IF Counted(name[n]) THEN 1 ELSE 0)]
<1>1. /\ at = "add" /\ at' = "add" /\ n' = n + 1 /\ n \in 1..Len(list) /\ n \in Nat
      /\ list' = list /\ name' = name /\ covered' = covered
      /\ Shown' = Shown \cup {n} /\ n \notin Shown /\ Seen' = Seen \cup {n}
      /\ Shown \subseteq 1..Len(list) /\ Len(list) \in Nat
  BY AddType, ListType DEF ListsInv
<1>2. stats' = With(stats, d, new)
  BY <1>0 DEF AddFunc
<1>3. s \in [covered : Nat, total : Nat] /\ s.covered < n /\ s.total < n
  BY <1>0, <1>1, StatType
<1>4. new \in [covered : Nat, total : Nat] /\ new.covered < n + 1 /\ new.total < n + 1
  <2> HIDE DEF s
  <2> QED
    BY <1>1, <1>3
<1>5. ASSUME UniqueNames
      PROVE  /\ new.total = Cardinality(ShownAt(d)')
             /\ new.covered = Cardinality(CoveredAt(d)')
  <2>1. Counted(name[n])
    BY <1>1, <1>5 DEF Counted, NodesInv, UniqueNames
  <2>2. s.total = Cardinality(ShownAt(d)) /\ s.covered = Cardinality(CoveredAt(d))
    BY <1>5, StatCounts
  <2>3. ShownAt(d)' = ShownAt(d) \cup {n} /\ n \notin ShownAt(d)
    BY <1>0, <1>1 DEF ShownAt
  <2>4. /\ Covered(name[n]) => CoveredAt(d)' = CoveredAt(d) \cup {n}
        /\ ~Covered(name[n]) => CoveredAt(d)' = CoveredAt(d)
        /\ n \notin CoveredAt(d)
    BY <1>1, <2>3 DEF CoveredAt, Covered
  <2>5. /\ Cardinality(ShownAt(d) \cup {n}) = Cardinality(ShownAt(d)) + 1
        /\ Cardinality(CoveredAt(d) \cup {n}) = Cardinality(CoveredAt(d)) + 1
    BY <2>3, <2>4, ShownAtFinite, FS_AddElement
  <2>6. new.total = s.total + 1 /\ new.covered = IF Covered(name[n]) THEN s.covered + 1 ELSE s.covered
    <3>1. s.total \in Nat /\ s.covered \in Nat
      BY <1>3
    <3> HIDE DEF s
    <3> QED
      BY <2>1, <3>1
  <2> HIDE DEF new, s
  <2> QED
    BY <2>2, <2>3, <2>4, <2>5, <2>6
<1>6. /\ DOMAIN stats' = DOMAIN stats \cup {d} /\ stats'[d] = new
      /\ \A e \in DOMAIN stats : e # d => stats'[e] = stats[e]
  <2> HIDE DEF new
  <2> QED
    BY <1>2 DEF With
<1>7. DOMAIN stats' = {list[k].depth : k \in Seen'}
  BY <1>0, <1>1, <1>6 DEF StatsInv
<1>8. \A e : e # d => ShownAt(e)' = ShownAt(e) /\ CoveredAt(e)' = CoveredAt(e)
  BY <1>0, <1>1 DEF ShownAt, CoveredAt
<1> HIDE DEF new, s
<1>9. ASSUME NEW e \in DOMAIN stats'
      PROVE  /\ stats'[e] \in [covered : Nat, total : Nat]
             /\ stats'[e].covered < n + 1 /\ stats'[e].total < n + 1
             /\ stats'[e].covered <= Len(list) /\ stats'[e].total <= Len(list)
             /\ UniqueNames => /\ stats'[e].total = Cardinality(ShownAt(e)')
                               /\ stats'[e].covered = Cardinality(CoveredAt(e)')
  <2>1. CASE e = d
    <3>1. new.covered <= Len(list) /\ new.total <= Len(list)
      BY <1>1, <1>4
    <3>2. ShownAt(e)' = ShownAt(d)' /\ CoveredAt(e)' = CoveredAt(d)'
      BY <2>1
    <3> QED
      BY <2>1, <3>1, <3>2, <1>4, <1>5, <1>6
  <2>2. CASE e # d
    <3>1. e \in DOMAIN stats /\ stats'[e] = stats[e]
      BY <2>2, <1>6
    <3>2. /\ stats[e] \in [covered : Nat, total : Nat]
          /\ stats[e].covered < n /\ stats[e].total < n
          /\ stats[e].covered <= Len(list) /\ stats[e].total <= Len(list)
          /\ UniqueNames => /\ stats[e].total = Cardinality(ShownAt(e))
                            /\ stats[e].covered = Cardinality(CoveredAt(e))
      BY <3>1, <1>1 DEF StatsInv
    <3> QED
      BY <2>2, <3>1, <3>2, <1>1, <1>8
  <2> QED
    BY <2>1, <2>2
<1>10. UniqueNames' <=> UniqueNames
  BY <1>1 DEF UniqueNames
<1> QED
  BY <1>1, <1>7, <1>9, <1>10 DEF StatsInv

LEMMA SkipStats ==
    ASSUME ListsInv, StatsInv, SkipFunc
    PROVE  StatsInv'
<1>0. PICK d : d = list[n].depth
  OBVIOUS
<1>1. /\ at = "add" /\ at' = "add" /\ n' = n + 1 /\ n \in 1..Len(list) /\ n \in Nat
      /\ list' = list /\ name' = name /\ covered' = covered
      /\ Shown' = Shown /\ Seen' = Seen \cup {n} /\ Len(list) \in Nat
  BY SkipType, ListType DEF ListsInv
<1>2. stats' = With(stats, d, Stat(d))
  BY <1>0 DEF SkipFunc
<1>3. /\ Stat(d) \in [covered : Nat, total : Nat]
      /\ Stat(d).covered < n /\ Stat(d).total < n
  BY <1>0, <1>1, StatType
<1>4. UniqueNames => /\ Stat(d).total = Cardinality(ShownAt(d))
                     /\ Stat(d).covered = Cardinality(CoveredAt(d))
  BY StatCounts
<1>5. /\ DOMAIN stats' = DOMAIN stats \cup {d}
      /\ \A e \in DOMAIN stats' : stats'[e] = Stat(e)
  BY <1>2 DEF With, Stat
<1>6. DOMAIN stats' = {list[k].depth : k \in Seen'}
  BY <1>0, <1>1, <1>5 DEF StatsInv
<1>7. \A e : ShownAt(e)' = ShownAt(e) /\ CoveredAt(e)' = CoveredAt(e)
  BY <1>1 DEF ShownAt, CoveredAt
<1>8. ASSUME NEW e \in DOMAIN stats'
      PROVE  /\ stats'[e] \in [covered : Nat, total : Nat]
             /\ stats'[e].covered < n + 1 /\ stats'[e].total < n + 1
             /\ stats'[e].covered <= Len(list) /\ stats'[e].total <= Len(list)
             /\ UniqueNames => /\ stats'[e].total = Cardinality(ShownAt(e)')
                               /\ stats'[e].covered = Cardinality(CoveredAt(e)')
  <2>1. Stat(e) \in [covered : Nat, total : Nat] /\ Stat(e).covered < n /\ Stat(e).total < n
    <3>1. CASE e = d
      BY <3>1, <1>3
    <3>2. CASE e # d
      BY <3>2, <1>1, <1>5 DEF Stat, StatsInv
    <3> QED
      BY <3>1, <3>2
  <2>2. UniqueNames => /\ Stat(e).total = Cardinality(ShownAt(e))
                       /\ Stat(e).covered = Cardinality(CoveredAt(e))
    BY StatCounts
  <2>3. stats'[e] = Stat(e)
    BY <1>5
  <2> QED
    BY <1>1, <1>7, <2>1, <2>2, <2>3
<1>9. UniqueNames' <=> UniqueNames
  BY <1>1 DEF UniqueNames
<1> QED
  BY <1>1, <1>6, <1>8, <1>9 DEF StatsInv

LEMMA StatsStep == ListsInv /\ NodesInv /\ StatsInv /\ [Next]_vars => StatsInv'
<1> SUFFICES ASSUME ListsInv, NodesInv, StatsInv, [Next]_vars PROVE StatsInv'
  OBVIOUS
<1>1. CASE EndOfFuncs \/ DeleteNode \/ PrintStats \/ UNCHANGED vars
  <2>1. /\ list' = list /\ name' = name /\ covered' = covered /\ stats' = stats
        /\ Shown' = Shown /\ Seen' = Seen
        /\ at' = "add" => at = "add" /\ n' = n
    BY <1>1, LaterType
  <2>2. \A e : ShownAt(e)' = ShownAt(e) /\ CoveredAt(e)' = CoveredAt(e)
    BY <2>1 DEF ShownAt, CoveredAt
  <2>3. UniqueNames' <=> UniqueNames
    BY <2>1 DEF UniqueNames
  <2> QED
    BY <2>1, <2>2, <2>3 DEF StatsInv
<1> QED
  BY <1>1, AddStats, SkipStats DEF Next

(* 100 stands for all: of fewer it is capped, and of all it is exact.      *)
LEMMA HundredOfAll ==
    ASSUME NEW c \in Nat, NEW t \in Nat, c <= t, t # 0, NEW f \in Percents(c, t)
    PROVE  f = 100 <=> c = t
<1>1. CASE c < t
  BY <1>1 DEF Percents
<1>2. CASE c = t
  <2>1. t % t = 0
    OBVIOUS
  <2>2. 100 * t + t - 1 = 100 * t + (t - 1)
    OBVIOUS
  <2>3. (100 * t + t - 1) \div t = 100
    BY <2>2
  <2> QED
    BY <1>2, <2>1, <2>3 DEF Percents
<1> QED
  BY <1>1, <1>2

LEMMA PercentsInit == Init => PercentsInv
BY DEF Init, PercentsInv

LEMMA PercentsStep == ListsInv /\ PercentsInv /\ [Next]_vars => PercentsInv'
<1> SUFFICES ASSUME ListsInv, PercentsInv, [Next]_vars PROVE PercentsInv'
  OBVIOUS
<1>1. CASE PrintStats
  <2> DEFINE depths == IF covered = {} THEN {} ELSE {d \in DOMAIN stats : ~TooDeep(d)}
  <2>1. PICK ps \in [depths -> UNION {Percents(stats[d].covered, stats[d].total) : d \in depths}] :
           /\ \A d \in depths : ps[d] \in Percents(stats[d].covered, stats[d].total)
           /\ percents' = ps
    BY <1>1 DEF PrintStats
  <2>2. at' = "done" /\ stats' = stats /\ maxLevel' = maxLevel
    BY <1>1 DEF PrintStats, flags
  <2>3. \A d \in DOMAIN percents' : d \in DOMAIN stats /\ ~TooDeep(d)
    BY <2>1
  <2>4. \A d \in DOMAIN percents' : percents'[d] \in Percents(stats[d].covered, stats[d].total)
    BY <2>1
  <2> QED
    BY <2>2, <2>3, <2>4 DEF PercentsInv, TooDeep
<1>2. CASE ~PrintStats /\ DOMAIN percents = {}
  <2>1. percents' = percents
    BY <1>2 DEF Next, SkipFunc, AddFunc, EndOfFuncs, DeleteNode, vars
  <2> QED
    BY <1>2, <2>1 DEF PercentsInv
<1>3. CASE ~PrintStats /\ DOMAIN percents # {}
  <2>1. at = "done"
    BY <1>3 DEF PercentsInv
  <2>2. UNCHANGED vars
    BY <1>3, <2>1 DEF Next, SkipFunc, AddFunc, EndOfFuncs, DeleteNode
  <2> QED
    BY <2>2 DEF PercentsInv, vars, flags, TooDeep
<1> QED
  BY <1>1, <1>2, <1>3

LEMMA CountedInv == ListsInv /\ StatsInv /\ PercentsInv => HundredMeansAll
<1> SUFFICES ASSUME ListsInv, StatsInv, PercentsInv, UniqueNames, NEW d \in DOMAIN percents
             PROVE  percents[d] = 100 <=> \A k \in ShownAt(d) : name[k] \in covered
  BY DEF HundredMeansAll
<1> DEFINE c == stats[d].covered
           t == stats[d].total
<1>1. at = "done" /\ d \in DOMAIN stats /\ ~TooDeep(d) /\ percents[d] \in Percents(c, t)
  BY DEF PercentsInv
<1>2. c \in Nat /\ t \in Nat /\ t = Cardinality(ShownAt(d)) /\ c = Cardinality(CoveredAt(d))
  BY <1>1 DEF StatsInv
<1>3. ShownAt(d) # {}
  BY <1>1 DEF StatsInv, ShownAt, Shown
<1>4. IsFiniteSet(ShownAt(d)) /\ CoveredAt(d) \subseteq ShownAt(d)
  BY ShownAtFinite DEF CoveredAt
<1>5. t # 0
  BY <1>2, <1>3, <1>4, FS_EmptySet
<1>6. c <= t /\ (c = t => CoveredAt(d) = ShownAt(d))
  BY <1>2, <1>4, FS_Subset
<1>7. percents[d] = 100 <=> c = t
  BY <1>1, <1>2, <1>5, <1>6, HundredOfAll
<1>8. c = t <=> CoveredAt(d) = ShownAt(d)
  BY <1>2, <1>6
<1> QED
  BY <1>7, <1>8 DEF CoveredAt

(* Where no name comes twice, a depth is at 100 percent exactly when all   *)
(* of its functions are covered (callgraph.go:169-186, 240-265).           *)
THEOREM HundredIsAll == Spec => []HundredMeansAll
BY ListsInit, ListsStep, ParentInit, ParentStep, NodesInit, NodesStep, StatsInit, StatsStep,
   PercentsInit, PercentsStep, CountedInv, PTL DEF Spec

-----------------------------------------------------------------------------
LEMMA AllTyped == ListsInv /\ ParentInv /\ NodesInv /\ StatsInv => TypeOK
<1> SUFFICES ASSUME ListsInv, ParentInv, NodesInv, StatsInv PROVE TypeOK
  OBVIOUS
<1>1. Len(list) \in Nat /\ Shown \subseteq 1..Len(list)
  BY ListType, SeenInStep DEF ListsInv, Shown, Seen
<1>2. uniqFunc = {name[k] : k \in Shown} /\ uniqFunc \subseteq Names
  BY <1>1 DEF ListsInv, NodesInv
<1>3. edges \subseteq uniqFunc \X uniqFunc /\ nodeWithEdges \subseteq uniqFunc
  BY DEF NodesInv, EndsOf
<1>4. nodes \subseteq uniqFunc
  BY <1>3 DEF ListsInv, NodesInv
<1>5. edges \subseteq Names \X Names
  BY <1>2, <1>3
<1>6. \A d \in DOMAIN stats :
         stats[d].covered \in 0..Len(list) /\ stats[d].total \in 0..Len(list)
  BY <1>1 DEF StatsInv
<1> QED
  BY <1>2, <1>3, <1>4, <1>5, <1>6 DEF ListsInv, ParentInv, TypeOK

(* The state keeps its type: parentMap has functions that are shown, at    *)
(* their depth, and uniqFunc exactly their names (callgraph.go:145-196).   *)
THEOREM TypeCorrect == Spec => []TypeOK
BY ListsInit, ListsStep, ParentInit, ParentStep, NodesInit, NodesStep, StatsInit, StatsStep,
   AllTyped, PTL DEF Spec
=============================================================================
