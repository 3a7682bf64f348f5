------------------------------ MODULE CallGraph ------------------------------
(***************************************************************************)
(* dot and percent of cmd/callgraph (callgraph.go): the list of functions  *)
(* FindAllFuncs returns becomes a graph with an edge from each function to *)
(* those inlined in it, and statistics of the covered ones per depth.      *)
(*                                                                         *)
(* dot only sees the depth of a function, its level in the tree of         *)
(* entries, blocks and namespaces included.  The listed function next      *)
(* around it, which it has to guess, is the field encl (0: none); what is  *)
(* listed between the two is inside it too.                                *)
(***************************************************************************)
EXTENDS Integers, Sequences, FiniteSets, FiniteSetsExt

CONSTANTS
    Lists,       \* lists of functions: sequences of [depth, encl]
    Names,       \* names of functions
    MaxLevels,   \* values of the flag -l, 0 being no limit
    Covereds     \* what the file of covered functions may name

ASSUME GraphAssumption ==
    /\ MaxLevels \subseteq Nat
    /\ Covereds \subseteq SUBSET Names
    /\ \A l \in Lists :
          /\ l \in Seq([depth : Nat \ {0}, encl : Nat])
          /\ \A k \in 1..Len(l) :
                LET p == l[k].encl
                IN  /\ p < k
                    /\ p # 0 => \A m \in (p + 1)..k : l[m].depth > l[p].depth

VARIABLES
    list, name,     \* the functions and their names
    maxLevel,       \* the flag -l
    covered,        \* coveredFuncs
    at,             \* the loop dot is in
    n,              \* the function the loop is at
    parentMap,      \* the last function of each depth
    uniqFunc,       \* the names seen
    stats,          \* per depth: [covered, total]
    nodes, edges,   \* the graph; an edge is a pair of names
    nodeWithEdges,  \* the names on edges
    percents        \* what is printed per depth

flags == <<list, name, maxLevel, covered>>
graph == <<nodes, edges, nodeWithEdges>>
vars == <<flags, at, n, parentMap, uniqFunc, stats, graph, percents>>

Init ==
    /\ list \in Lists
    /\ name \in [1..Len(list) -> Names]
    /\ maxLevel \in MaxLevels
    /\ covered \in Covereds
    /\ at = "add"
    /\ n = 1
    /\ parentMap = << >>
    /\ uniqFunc = {}
    /\ stats = << >>
    /\ nodes = {} /\ edges = {} /\ nodeWithEdges = {}
    /\ percents = << >>

With(f, key, value) == [k \in DOMAIN f \cup {key} |-> IF k = key THEN value ELSE f[k]]

-----------------------------------------------------------------------------
(* Variants of definitions below, each with one plausible bug; only the    *)
(* mutation runs use them.                                                 *)

NeverReset(d) == parentMap

GrandparentFirst(known, d) ==
    CASE d - 2 \in DOMAIN known -> known[d - 2]
      [] d - 2 \notin DOMAIN known /\ d - 1 \in DOMAIN known -> known[d - 1]
      [] OTHER -> 0

SlotBelow(d) == d + 1

CallerOnly(p, c) == {p}

CoveredIfAny(f) == covered # {}

-----------------------------------------------------------------------------
(* The loop over funcs. *)

TooDeep(d) == maxLevel # 0 /\ d > maxLevel

(* A function at depth 1 starts anew. *)
Known(d) == IF d = 1 THEN << >> ELSE parentMap

(* The last function one level up, or else two ("find grandparent if no    *)
(* parent").                                                               *)
Parent(known, d) ==
    CASE d - 1 \in DOMAIN known -> known[d - 1]
      [] d - 1 \notin DOMAIN known /\ d - 2 \in DOMAIN known -> known[d - 2]
      [] OTHER -> 0

Slot(d) == d

Ends(p, c) == {p, c}

(* Total counts a name where it comes first, Covered every time it comes.  *)
Counted(f) == f \notin uniqFunc

Covered(f) == f \in covered

Stat(d) == IF d \in DOMAIN stats THEN stats[d] ELSE [covered |-> 0, total |-> 0]

SkipFunc ==
    /\ at = "add" /\ n <= Len(list)
    /\ TooDeep(list[n].depth)
    /\ stats' = With(stats, list[n].depth, Stat(list[n].depth))
    /\ n' = n + 1
    /\ UNCHANGED <<flags, at, parentMap, uniqFunc, graph, percents>>

AddFunc ==
    /\ at = "add" /\ n <= Len(list)
    /\ LET d == list[n].depth
           f == name[n]
           p == Parent(Known(d), d)
       IN  /\ ~TooDeep(d)
           /\ stats' = With(stats, d,
                  [covered |-> Stat(d).covered + (IF Covered(f) THEN 1 ELSE 0),
                   total   |-> Stat(d).total + (IF Counted(f) THEN 1 ELSE 0)])
           /\ uniqFunc' = uniqFunc \cup {f}
           /\ nodes' = nodes \cup {f}
           /\ IF p = 0
              THEN UNCHANGED <<edges, nodeWithEdges>>
              ELSE /\ edges' = edges \cup {<<name[p], f>>}
                   /\ nodeWithEdges' = nodeWithEdges \cup Ends(name[p], f)
           /\ parentMap' = With(Known(d), Slot(d), n)
    /\ n' = n + 1
    /\ UNCHANGED <<flags, at, percents>>

EndOfFuncs ==
    /\ at = "add" /\ n > Len(list)
    /\ at' = "delete"
    /\ n' = 1
    /\ UNCHANGED <<flags, parentMap, uniqFunc, stats, graph, percents>>

(* The second loop over funcs: nodes without an edge are deleted. *)
DeleteNode ==
    /\ at = "delete" /\ n <= Len(list)
    /\ nodes' = IF name[n] \in nodeWithEdges THEN nodes ELSE nodes \ {name[n]}
    /\ n' = n + 1
    /\ UNCHANGED <<flags, at, parentMap, uniqFunc, stats, edges, nodeWithEdges, percents>>

(* percent: covered of total, rounded up, but 100 only for all of them; of *)
(* no total, the conversion of NaN or +Inf to an int, which Go leaves      *)
(* open: -1.  (Where the quotient is no float64, one that is whole in      *)
(* percent may come out above that and be rounded up.)                     *)
Percents(c, t) ==
    LET up == (100 * c + t - 1) \div t
        ups == IF (100 * c) % t = 0 /\ c % t # 0 THEN {up, up + 1} ELSE {up}
    IN  IF t = 0 THEN {-1} ELSE {IF f = 100 /\ c < t THEN 99 ELSE f : f \in ups}

(* With -stat and covered functions, a line per depth. *)
PrintStats ==
    /\ at = "delete" /\ n > Len(list)
    /\ LET depths == IF covered = {} THEN {} ELSE {d \in DOMAIN stats : ~TooDeep(d)}
       IN  \E ps \in [depths -> UNION {Percents(stats[d].covered, stats[d].total) : d \in depths}] :
              /\ \A d \in depths : ps[d] \in Percents(stats[d].covered, stats[d].total)
              /\ percents' = ps
    /\ at' = "done"
    /\ UNCHANGED <<flags, n, parentMap, uniqFunc, stats, graph>>

-----------------------------------------------------------------------------
Next == SkipFunc \/ AddFunc \/ EndOfFuncs \/ DeleteNode \/ PrintStats

Spec == Init /\ [][Next]_vars

-----------------------------------------------------------------------------
(* Properties. *)

Seen == IF at = "add" THEN 1..(n - 1) ELSE 1..Len(list)
Shown == {k \in Seen : ~TooDeep(list[k].depth)}
ShownAt(d) == {k \in Shown : list[k].depth = d}

TypeOK ==
    /\ at \in {"add", "delete", "done"}
    /\ n \in 1..(Len(list) + 1)
    /\ \A d \in DOMAIN parentMap : parentMap[d] \in Shown /\ list[parentMap[d]].depth = d
    /\ uniqFunc = {name[k] : k \in Shown}
    /\ \A d \in DOMAIN stats : stats[d].covered \in 0..Len(list) /\ stats[d].total \in 0..Len(list)
    /\ nodes \subseteq Names /\ edges \subseteq Names \X Names /\ nodeWithEdges \subseteq Names

(* An edge goes one or two levels down, and it leaves the outermost        *)
(* function it starts in only for outermost functions that are not at      *)
(* depth 1: those in a namespace or a class, which start nothing anew      *)
(* (callgraph.go:166-168), so that they and what is in them may get an     *)
(* edge from a function listed before.  In a list without those, both ends *)
(* of an edge are in one outermost function, whatever blocks stand between *)
(* the levels.                                                             *)
EdgesLeaveOnlyForNamespaces ==
    \A e \in edges : \E p, c \in Shown :
        /\ e = <<name[p], name[c]>>
        /\ p < c /\ list[c].depth - list[p].depth \in {1, 2}
        /\ \A k \in (p + 1)..c : list[k].encl = 0 => list[k].depth > 1

(* The function around each is one level up, as without blocks between.    *)
Direct ==
    \A k \in 1..Len(list) :
        list[k].depth = 1 + (IF list[k].encl = 0 THEN 0 ELSE list[list[k].encl].depth)

Nesting == {<<name[list[k].encl], name[k]>> : k \in {m \in Shown : list[m].encl # 0}}

(* Where functions are nested directly, the edges are the nesting, all of  *)
(* it and nothing else.                                                    *)
DirectNestingIsDrawn == Direct => edges = Nesting

(* Where inlined functions stand in blocks, and all others at depth 1, an  *)
(* edge still goes to a function from the one around it or from the next   *)
(* around that, as callgraph.go:64-71 and 191 mean it.  The code does not  *)
(* keep this.                                                              *)
Around(p, k) == list[k].encl # 0 /\ (p = list[k].encl \/ p = list[list[k].encl].encl)
EdgesAreNesting ==
    (\A k \in 1..Len(list) : list[k].encl = 0 => list[k].depth = 1) =>
        \A e \in edges : \E p, k \in Shown : e = <<name[p], name[k]>> /\ Around(p, k)

(* At the end the graph has the nodes that are on an edge and no other,    *)
(* and no edge has lost one of its ends.                                   *)
NodesAreEnds ==
    at = "done" => nodes = {e[1] : e \in edges} \cup {e[2] : e \in edges}

UniqueNames == \A k, m \in 1..Len(list) : name[k] = name[m] => k = m

(* If no name comes twice, a depth is at 100% exactly when all functions   *)
(* of it are covered.  (If names do come twice it is not so: Covered       *)
(* counts a function each time it comes, Total once.)                      *)
HundredMeansAll ==
    UniqueNames =>
        \A d \in DOMAIN percents : percents[d] = 100 <=> \A k \in ShownAt(d) : name[k] \in covered
=============================================================================
