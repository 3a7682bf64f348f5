-------------------------- MODULE WorkerPoolProofs --------------------------
(***************************************************************************)
(* Proofs about WorkerPool for any number of goroutines, any batch size    *)
(* and any list: IndInv is inductive, and from it follow the invariants    *)
(* the run WorkerPool checks and the implementation of SymbolizeAll.       *)
(***************************************************************************)
EXTENDS WorkerPool, TLAPS, FiniteSetTheorems, FunctionTheorems, SequenceTheorems

(***************************************************************************)
(* Taking the head off a channel.                                          *)
(***************************************************************************)
LEMMA TailFacts ==
    ASSUME NEW S, NEW s \in Seq(S), s # << >>
    PROVE  /\ Head(s) = s[1] /\ Head(s) \in S
           /\ Tail(s) \in Seq(S)
           /\ Len(s) \in Nat \ {0}
           /\ Len(Tail(s)) = Len(s) - 1
           /\ \A k \in 1..Len(Tail(s)) : Tail(s)[k] = s[k + 1]
  BY HeadTailProperties

LEMMA AppendFacts ==
    ASSUME NEW S, NEW s \in Seq(S), NEW e \in S
    PROVE  /\ Append(s, e) \in Seq(S)
           /\ Len(s) \in Nat
           /\ Len(Append(s, e)) = Len(s) + 1
           /\ \A k \in 1..Len(s) : Append(s, e)[k] = s[k]
           /\ Append(s, e)[Len(s) + 1] = e
  BY AppendProperties

LEMMA ProcsType == Procs \in Nat \ {0}
  BY PoolAssumption, FS_CardinalityType, FS_EmptySet DEF Procs

(* The workers that are gone number at most Procs. *)
LEMMA GoneFacts ==
    /\ IsFiniteSet(Gone)
    /\ Cardinality(Gone) \in Nat
    /\ Cardinality(Gone) <= Procs
    /\ Cardinality(Gone) = Procs => Gone = Workers
  BY PoolAssumption, FS_Subset, FS_CardinalityType DEF Gone, Procs

LEMMA InitInd == ASSUME Init PROVE IndInv
<1>1. TypeOK
  <2>1. /\ npcs \in 0..MaxPCs /\ fed \in 0..npcs
        /\ got \in 0..Procs
        /\ handled \in [PCs -> Nat]
    BY ProcsType, PoolAssumption DEF Init
  <2>2. /\ pcchan \in Seq(Batches) /\ Len(pcchan) <= Procs
        /\ errC \in Seq({"nil", "err"}) /\ Len(errC) <= Procs
    BY ProcsType, EmptySeq DEF Init
  <2>3. NoBatch \in Batches
    BY DEF NoBatch, Batches
  <2> QED
    BY <2>1, <2>2, <2>3 DEF Init, TypeOK
<1>2. QueueInv /\ HeldInv /\ WorkInv
  BY DEF Init, QueueInv, HeldInv, WorkInv, NoBatch, Precedes, HasTodo
<1>6. PlaceInv
  BY DEF Init, PlaceInv, NoBatch, Span, PCs
<1>3. Gone = {}
  BY DEF Init, Gone
<1>4. Cardinality(Gone) = got + Len(errC)
  BY <1>3, FS_EmptySet DEF Init
<1>5. MainInv
  BY <1>4 DEF Init, MainInv, ErrSent
<1> QED
  BY <1>1, <1>2, <1>5, <1>6 DEF IndInv

-----------------------------------------------------------------------------
(* Steps of main. *)

LEMMA ListPCsInd == ASSUME IndInv, ListPCs PROVE IndInv'
<1> USE DEF IndInv, ListPCs
<1>1. TypeOK'
  BY DEF TypeOK, MainInv
<1>2. QueueInv' /\ HeldInv'
  BY DEF QueueInv, HeldInv, Precedes
<1>3. PlaceInv'
  BY DEF PlaceInv, Span
<1>4. WorkInv'
  BY DEF WorkInv, HasTodo, ErrSent
<1>5. MainInv'
  BY DEF MainInv, HasTodo, ErrSent, Gone
<1> QED
  BY <1>1, <1>2, <1>3, <1>4, <1>5

LEMMA FeedInd == ASSUME IndInv, Feed PROVE IndInv'
<1> USE DEF IndInv
<1> DEFINE end == Least(fed + BatchSize, npcs)
           b == [first |-> fed + 1, last |-> end]
<1>1. /\ main = "feeding" /\ fed < npcs /\ Len(pcchan) < Procs
      /\ pcchan' = Append(pcchan, b) /\ fed' = end
      /\ UNCHANGED <<legacy, npcs, main, closed, work, todo, errC, got, handled, silent>>
  BY DEF Feed, ChanCap
<1>2. /\ fed \in Nat /\ npcs \in Nat /\ end \in Nat
      /\ fed < end /\ end <= npcs
      /\ b \in Batches /\ b.first = fed + 1 /\ b.last = end
  BY <1>1, PoolAssumption DEF TypeOK, Least, Batches
<1> HIDE DEF end, b
<1>3. /\ pcchan' \in Seq(Batches) /\ Len(pcchan) \in Nat
      /\ Len(pcchan') = Len(pcchan) + 1
      /\ \A k \in 1..Len(pcchan) : pcchan'[k] = pcchan[k] /\ pcchan[k] \in Batches
      /\ pcchan'[Len(pcchan) + 1] = b
  BY <1>1, <1>2, AppendFacts DEF TypeOK
<1>4. TypeOK'
  BY <1>1, <1>2, <1>3, ProcsType DEF TypeOK
<1>5. QueueInv'
  <2> SUFFICES ASSUME NEW j \in 1..Len(pcchan')
               PROVE  /\ pcchan'[j].first <= pcchan'[j].last
                      /\ pcchan'[j].last <= fed'
                      /\ \A k \in 1..Len(pcchan') : j < k => pcchan'[j].last < pcchan'[k].first
    BY DEF QueueInv, Precedes
  <2>1. CASE j = Len(pcchan) + 1
    BY <2>1, <1>1, <1>2, <1>3
  <2>2. CASE j \in 1..Len(pcchan)
    <3>1. /\ pcchan'[j].first <= pcchan'[j].last
          /\ pcchan'[j].last <= fed
          /\ pcchan'[j].last \in Nat
      BY <2>2, <1>3 DEF QueueInv, Batches
    <3>2. \A k \in 1..Len(pcchan) : j < k => pcchan'[j].last < pcchan'[k].first
      BY <2>2, <1>3 DEF QueueInv, Precedes
    <3> QED
      BY <2>2, <3>1, <3>2, <1>1, <1>2, <1>3
  <2> QED
    BY <2>1, <2>2, <1>3
<1>6. HeldInv'
  <2> SUFFICES ASSUME NEW w \in Workers
               PROVE  /\ todo[w].last <= end
                      /\ \A j \in 1..Len(pcchan') : todo[w].last < pcchan'[j].first
    BY <1>1 DEF HeldInv, Precedes
  <2>1. todo[w].last <= fed /\ todo[w].last \in Nat
    BY DEF HeldInv, TypeOK, Batches
  <2> QED
    BY <2>1, <1>1, <1>2, <1>3 DEF HeldInv, Precedes
<1>7. PlaceInv'
  <2> SUFFICES ASSUME NEW p \in PCs
               PROVE  /\ handled[p] \in {0, 1}
                      /\ handled[p] = 1 =>
                            /\ p <= end
                            /\ \A w \in Workers : p \notin Span(todo[w])
                            /\ \A j \in 1..Len(pcchan') : p \notin Span(pcchan'[j])
                      /\ handled[p] = 0 /\ p <= end =>
                            \/ \E w \in Workers : p \in Span(todo[w])
                            \/ \E j \in 1..Len(pcchan') : p \in Span(pcchan'[j])
    BY <1>1 DEF PlaceInv
  <2>1. p \in Nat
    BY DEF PCs
  <2>2. handled[p] = 1 => \A j \in 1..Len(pcchan') : p \notin Span(pcchan'[j])
    BY <2>1, <1>2, <1>3 DEF PlaceInv, Span
  <2>3. CASE p <= fed
    BY <2>3, <2>1, <2>2, <1>2, <1>3 DEF PlaceInv
  <2>4. CASE p > fed
    <3>1. handled[p] # 1
      BY <2>4, <2>1, <1>2 DEF PlaceInv
    <3>2. p <= end => p \in Span(pcchan'[Len(pcchan) + 1])
      BY <2>4, <2>1, <1>2, <1>3 DEF Span
    <3> QED
      BY <3>1, <3>2, <1>3 DEF PlaceInv
  <2> QED
    BY <2>1, <2>3, <2>4, <1>2
<1>8. WorkInv'
  BY <1>1 DEF WorkInv, MainInv, HasTodo, ErrSent
<1>9. MainInv'
  BY <1>1 DEF MainInv, HasTodo, ErrSent, Gone
<1> QED
  BY <1>4, <1>5, <1>6, <1>7, <1>8, <1>9

LEMMA ClosePCsInd == ASSUME IndInv, ClosePCs PROVE IndInv'
<1> USE DEF IndInv, ClosePCs
<1>1. TypeOK'
  BY DEF TypeOK
<1>2. QueueInv' /\ HeldInv'
  BY DEF QueueInv, HeldInv, Precedes
<1>3. PlaceInv'
  BY DEF PlaceInv, Span
<1>4. WorkInv'
  BY DEF WorkInv, MainInv, HasTodo, ErrSent
<1>5. MainInv'
  BY DEF MainInv, TypeOK, HasTodo, ErrSent, Gone
<1> QED
  BY <1>1, <1>2, <1>3, <1>4, <1>5

LEMMA CollectInd == ASSUME IndInv, Collect PROVE IndInv'
<1> USE DEF IndInv
<1>1. /\ main = "collecting" /\ errC # << >> /\ errC' = Tail(errC)
      /\ \/ /\ Head(errC) = "err" /\ main' = "failed" /\ got' = got
         \/ /\ Head(errC) # "err" /\ got' = got + 1
            /\ main' = IF got' = Procs THEN "done" ELSE main
      /\ UNCHANGED <<legacy, npcs, fed, pcchan, closed, work, todo, handled, silent>>
  BY DEF Collect
<1>2. /\ Head(errC) = errC[1] /\ Head(errC) \in {"nil", "err"}
      /\ errC' \in Seq({"nil", "err"})
      /\ Len(errC) \in Nat \ {0} /\ Len(errC') = Len(errC) - 1
      /\ \A k \in 1..Len(errC') : errC'[k] = errC[k + 1]
  BY <1>1, TailFacts DEF TypeOK
<1>3. /\ Cardinality(Gone) = got + Len(errC)
      /\ got \in Nat /\ Procs \in Nat \ {0}
      /\ Cardinality(Gone) <= Procs
      /\ Cardinality(Gone) = Procs => Gone = Workers
  BY <1>1, ProcsType, GoneFacts DEF MainInv, TypeOK
<1>4. Gone' = Gone
  BY <1>1 DEF Gone
<1>5. TypeOK'
  BY <1>1, <1>2, <1>3 DEF TypeOK
<1>6. QueueInv' /\ HeldInv' /\ PlaceInv'
  <2>1. QueueInv' /\ HeldInv'
    BY <1>1 DEF QueueInv, HeldInv, Precedes
  <2>2. PlaceInv'
    BY <1>1 DEF PlaceInv, Span
  <2> QED
    BY <2>1, <2>2
(* An "err" in the channel is either still there or the one received. *)
<1>7. ErrSent => ErrSent' \/ main' = "failed"
  <2> SUFFICES ASSUME NEW k \in 1..Len(errC), errC[k] = "err", Head(errC) # "err"
               PROVE  ErrSent'
    BY <1>1 DEF ErrSent
  <2>1. k - 1 \in 1..Len(errC') /\ errC'[k - 1] = "err"
    BY <1>2
  <2> QED
    BY <2>1 DEF ErrSent
<1>8. ErrSent' => ErrSent
  BY <1>2 DEF ErrSent
<1>9. WorkInv'
  <2>1. main # "failed" /\ main # "crashed"
    BY <1>1
  <2> QED
    BY <2>1, <1>1, <1>7 DEF WorkInv, HasTodo
<1>10. MainInv'
  <2>1. closed /\ fed = npcs
    BY <1>1 DEF MainInv
  <2>2. main' = "failed" \/ ErrSent' => \E w \in Workers : work[w] = "gone" /\ HasTodo(w)
    <3>1. main' = "failed" => ErrSent
      BY <1>1, <1>2 DEF ErrSent
    <3> QED
      BY <3>1, <1>8 DEF MainInv
  <2>3. main' = "done" => \A w \in Workers : work[w] = "gone" /\ ~HasTodo(w)
    <3> SUFFICES ASSUME main' = "done"
                 PROVE  \A w \in Workers : work[w] = "gone" /\ ~HasTodo(w)
      OBVIOUS
    <3>1. Head(errC) # "err" /\ got' = got + 1 /\ got' = Procs
      BY <1>1
    <3>2. Len(errC) = 1 /\ Gone = Workers
      BY <3>1, <1>2, <1>3
    <3>3. ~ErrSent
      BY <3>1, <3>2, <1>2 DEF ErrSent
    <3> QED
      BY <3>2, <3>3, <1>1 DEF WorkInv, Gone
  <2>4. main' = "collecting" => Cardinality(Gone') = got' + Len(errC')
    BY <1>1, <1>2, <1>3, <1>4
  <2>5. main' \in {"failed", "done", "collecting"}
    BY <1>1
  <2> QED
    BY <1>1, <2>1, <2>2, <2>3, <2>4, <2>5 DEF MainInv, HasTodo
<1> QED
  BY <1>5, <1>6, <1>9, <1>10

-----------------------------------------------------------------------------
(* Steps of a worker. *)

LEMMA ReceiveInd == ASSUME IndInv, NEW w \in Workers, Receive(w) PROVE IndInv'
<1> USE DEF IndInv
<1>1. /\ Running /\ work[w] = "receiving" /\ pcchan # << >>
      /\ todo' = [todo EXCEPT ![w] = Head(pcchan)] /\ pcchan' = Tail(pcchan)
      /\ work' = [work EXCEPT ![w] = "working"]
      /\ UNCHANGED <<legacy, npcs, main, fed, closed, errC, got, handled, silent>>
  BY DEF Receive
<1>2. /\ Head(pcchan) = pcchan[1] /\ Head(pcchan) \in Batches
      /\ pcchan' \in Seq(Batches)
      /\ Len(pcchan) \in Nat \ {0} /\ Len(pcchan') = Len(pcchan) - 1
      /\ \A k \in 1..Len(pcchan') : pcchan'[k] = pcchan[k + 1] /\ k + 1 \in 1..Len(pcchan)
  BY <1>1, TailFacts DEF TypeOK
<1>3. /\ todo \in [Workers -> Batches] /\ todo' \in [Workers -> Batches]
      /\ todo'[w] = pcchan[1]
      /\ \A v \in Workers \ {w} : todo'[v] = todo[v]
      /\ work' \in [Workers -> {"receiving", "working", "printing", "nil", "err", "gone"}]
      /\ work'[w] = "working"
      /\ \A v \in Workers \ {w} : work'[v] = work[v]
  BY <1>1, <1>2 DEF TypeOK
<1>4. /\ pcchan[1].first <= pcchan[1].last /\ pcchan[1].last <= fed
      /\ \A k \in 1..Len(pcchan) : 1 < k => Precedes(pcchan[1], pcchan[k])
  BY <1>2 DEF QueueInv
<1>5. TypeOK'
  BY <1>1, <1>2, <1>3, ProcsType DEF TypeOK
<1>6. QueueInv'
  BY <1>1, <1>2 DEF QueueInv, Precedes
<1>7. HeldInv'
  <2> SUFFICES ASSUME NEW v \in Workers
               PROVE  /\ todo'[v].last <= fed
                      /\ \A j \in 1..Len(pcchan') : Precedes(todo'[v], pcchan'[j])
                      /\ \A u \in Workers : u # v =>
                            Precedes(todo'[v], todo'[u]) \/ Precedes(todo'[u], todo'[v])
    BY <1>1 DEF HeldInv, Precedes
  <2>1. CASE v = w
    <3>1. \A u \in Workers : u # v => Precedes(todo'[u], todo'[v])
      BY <2>1, <1>2, <1>3 DEF HeldInv
    <3>2. \A j \in 1..Len(pcchan') : Precedes(todo'[v], pcchan'[j])
      BY <2>1, <1>2, <1>3, <1>4
    <3> QED
      BY <2>1, <3>1, <3>2, <1>3, <1>4
  <2>2. CASE v # w
    <3>1. /\ todo'[v].last <= fed
          /\ \A j \in 1..Len(pcchan') : Precedes(todo'[v], pcchan'[j])
      BY <2>2, <1>2, <1>3 DEF HeldInv
    <3>2. \A u \in Workers : u # v =>
             Precedes(todo'[v], todo'[u]) \/ Precedes(todo'[u], todo'[v])
      BY <2>2, <1>2, <1>3 DEF HeldInv
    <3> QED
      BY <3>1, <3>2
  <2> QED
    BY <2>1, <2>2
<1>8. PlaceInv'
  <2> SUFFICES ASSUME NEW p \in PCs
               PROVE  /\ handled[p] \in {0, 1}
                      /\ handled[p] = 1 =>
                            /\ p <= fed
                            /\ \A v \in Workers : p \notin Span(todo'[v])
                            /\ \A j \in 1..Len(pcchan') : p \notin Span(pcchan'[j])
                      /\ handled[p] = 0 /\ p <= fed =>
                            \/ \E v \in Workers : p \in Span(todo'[v])
                            \/ \E j \in 1..Len(pcchan') : p \in Span(pcchan'[j])
    BY <1>1 DEF PlaceInv, Span
  <2>1. CASE handled[p] = 1
    BY <2>1, <1>2, <1>3 DEF PlaceInv
  <2>2. CASE handled[p] = 0 /\ p <= fed
    <3>1. CASE \E v \in Workers : p \in Span(todo[v])
      <4> PICK v \in Workers : p \in Span(todo[v])
        BY <3>1
      <4>1. v # w
        BY <1>1, <1>3 DEF WorkInv, HasTodo, Span, PCs, Batches
      <4> QED
        BY <4>1, <2>2, <1>3
    <3>2. CASE \E j \in 1..Len(pcchan) : p \in Span(pcchan[j])
      <4> PICK j \in 1..Len(pcchan) : p \in Span(pcchan[j])
        BY <3>2
      <4>1. CASE j = 1
        BY <4>1, <2>2, <1>3
      <4>2. CASE j # 1
        <5>1. j - 1 \in 1..Len(pcchan') /\ pcchan'[j - 1] = pcchan[j]
          BY <4>2, <1>2
        <5> QED
          BY <5>1, <2>2
      <4> QED
        BY <4>1, <4>2
    <3> QED
      BY <2>2, <3>1, <3>2 DEF PlaceInv
  <2>3. handled[p] \in {0, 1}
    BY DEF PlaceInv
  <2> QED
    BY <2>1, <2>2, <2>3
<1>9. WorkInv'
  <2>1. HasTodo(w)'
    BY <1>3, <1>4 DEF HasTodo
  <2>2. \A v \in Workers \ {w} : HasTodo(v)' <=> HasTodo(v)
    BY <1>3 DEF HasTodo
  <2>3. ErrSent' <=> ErrSent
    BY <1>1 DEF ErrSent
  <2>4. \A v \in Workers : ~(work[v] = "nil" \/ (work[v] = "gone" /\ ~HasTodo(v)))
    BY <1>1 DEF WorkInv
  <2> QED
    BY <2>1, <2>2, <2>3, <2>4, <1>1, <1>3 DEF WorkInv
<1>10. MainInv'
  <2>1. Gone' = Gone
    BY <1>1, <1>3 DEF Gone
  <2>2. main \in {"feeding", "collecting"} /\ main' = main
    BY <1>1 DEF Running
  <2>3. (\E v \in Workers : work[v] = "gone" /\ HasTodo(v))
           => \E v \in Workers : work'[v] = "gone" /\ HasTodo(v)'
    BY <1>1, <1>3 DEF HasTodo
  <2>4. ErrSent' <=> ErrSent
    BY <1>1 DEF ErrSent
  <2> QED
    BY <2>1, <2>2, <2>3, <2>4, <1>1 DEF MainInv
<1> QED
  BY <1>5, <1>6, <1>7, <1>8, <1>9, <1>10
(* Both ways of handling a pc. *)
LEMMA HandleFirstInd ==
    ASSUME IndInv, NEW w \in Workers, Running,
           work[w] \in {"working", "printing"}, HandleFirst(w),
           UNCHANGED <<legacy, npcs, main, fed, pcchan, closed, errC, got>>,
           silent' = silent \/ silent' = silent \cup {todo[w].first}
    PROVE  IndInv'
<1> USE DEF IndInv
<1> DEFINE f == todo[w].first
           l == todo[w].last
<1>1. /\ todo \in [Workers -> Batches]
      /\ f \in Nat \ {0} /\ l \in Nat /\ f <= l /\ l <= fed
      /\ fed \in Nat /\ npcs \in Nat /\ fed <= npcs /\ npcs <= MaxPCs
  BY PoolAssumption DEF TypeOK, Batches, WorkInv, HasTodo, HeldInv
<1>2. f \in PCs
  BY <1>1, PoolAssumption DEF PCs
<1>3. /\ todo' \in [Workers -> Batches]
      /\ todo'[w].first = f + 1 /\ todo'[w].last = l
      /\ \A v \in Workers \ {w} : todo'[v] = todo[v]
  BY <1>1 DEF HandleFirst, Batches
<1>4. handled[f] = 0
  <2>1. f \in Span(todo[w])
    BY <1>1 DEF Span
  <2> QED
    BY <1>2, <2>1 DEF PlaceInv
<1>5. /\ handled' \in [PCs -> Nat]
      /\ handled'[f] = 1
      /\ \A p \in PCs \ {f} : handled'[p] = handled[p]
  BY <1>2, <1>4 DEF HandleFirst, TypeOK
<1>6. /\ work' \in [Workers -> {"receiving", "working", "printing", "nil", "err", "gone"}]
      /\ work'[w] = IF f = l THEN "receiving" ELSE work[w]
      /\ \A v \in Workers \ {w} : work'[v] = work[v]
  BY DEF HandleFirst, TypeOK
<1>7. TypeOK'
  BY <1>2, <1>3, <1>5, <1>6 DEF TypeOK
<1>8. QueueInv'
  BY DEF QueueInv, Precedes
<1>9. HeldInv'
  <2>1. /\ \A v \in Workers : todo'[v].last = todo[v].last
        /\ \A v \in Workers : todo[v].first <= todo'[v].first
        /\ \A v \in Workers : todo[v].first \in Nat /\ todo[v].last \in Nat /\ todo'[v].first \in Nat
    BY <1>1, <1>3 DEF Batches
  <2>2. \A u, v \in Workers : Precedes(todo[u], todo[v]) => Precedes(todo'[u], todo'[v])
    BY <2>1 DEF Precedes
  <2>3. \A v \in Workers : \A j \in 1..Len(pcchan) :
           Precedes(todo[v], pcchan[j]) => Precedes(todo[v], pcchan[j])'
    BY <2>1 DEF Precedes
  <2> QED
    BY <2>1, <2>2, <2>3 DEF HeldInv
<1>10. PlaceInv'
  <2> SUFFICES ASSUME NEW p \in PCs
               PROVE  /\ handled'[p] \in {0, 1}
                      /\ handled'[p] = 1 =>
                            /\ p <= fed
                            /\ \A v \in Workers : p \notin Span(todo'[v])
                            /\ \A j \in 1..Len(pcchan) : p \notin Span(pcchan[j])
                      /\ handled'[p] = 0 /\ p <= fed =>
                            \/ \E v \in Workers : p \in Span(todo'[v])
                            \/ \E j \in 1..Len(pcchan) : p \in Span(pcchan[j])
    BY DEF PlaceInv, Span
  <2>1. p \in Nat
    BY DEF PCs
  <2>2. CASE p = f
    <3>1. p \notin Span(todo'[w])
      BY <2>2, <1>1, <1>3 DEF Span
    <3>2. \A v \in Workers \ {w} : p \notin Span(todo'[v])
      <4> SUFFICES ASSUME NEW v \in Workers \ {w} PROVE p \notin Span(todo[v])
        BY <1>3
      <4>1. todo[w].last < todo[v].first \/ todo[v].last < todo[w].first
        BY DEF HeldInv, Precedes
      <4> QED
        BY <4>1, <2>2, <1>1 DEF Span, Batches
    <3>3. \A j \in 1..Len(pcchan) : p \notin Span(pcchan[j])
      <4> SUFFICES ASSUME NEW j \in 1..Len(pcchan) PROVE p \notin Span(pcchan[j])
        OBVIOUS
      <4>1. todo[w].last < pcchan[j].first /\ pcchan[j] \in Batches
        BY DEF HeldInv, Precedes, TypeOK
      <4> QED
        BY <4>1, <2>2, <1>1 DEF Span, Batches
    <3> QED
      BY <2>2, <3>1, <3>2, <3>3, <1>1, <1>5
  <2>3. CASE p # f
    <3>1. \A v \in Workers : p \in Span(todo'[v]) <=> p \in Span(todo[v])
      <4>1. p \in Span(todo'[w]) <=> p \in Span(todo[w])
        BY <2>1, <2>3, <1>1, <1>3 DEF Span
      <4> QED
        BY <4>1, <1>3
    <3> QED
      BY <2>3, <3>1, <1>5 DEF PlaceInv
  <2> QED
    BY <2>2, <2>3
<1>11. \A v \in Workers \ {w} : HasTodo(v)' <=> HasTodo(v)
  BY <1>3 DEF HasTodo
<1>12. /\ HasTodo(w)' <=> f # l
       /\ HasTodo(w)
  BY <1>1, <1>3 DEF HasTodo
<1>13. ErrSent' <=> ErrSent
  BY DEF ErrSent
<1>14. WorkInv'
  BY <1>6, <1>11, <1>12, <1>13 DEF WorkInv
<1>15. MainInv'
  <2>1. Gone' = Gone
    BY <1>6 DEF Gone
  <2>2. main \in {"feeding", "collecting"}
    BY DEF Running
  <2>3. (\E v \in Workers : work[v] = "gone" /\ HasTodo(v))
           => \E v \in Workers : work'[v] = "gone" /\ HasTodo(v)'
    BY <1>6, <1>11
  <2> QED
    BY <2>1, <2>2, <2>3, <1>13 DEF MainInv
<1> QED
  BY <1>7, <1>8, <1>9, <1>10, <1>14, <1>15

(* The steps that only move a worker on: nothing changes hands. *)
LEMMA MoveInd ==
    ASSUME IndInv, NEW w \in Workers, Running,
           NEW to \in {"printing", "nil", "err"},
           work[w] \in {"receiving", "working"},
           to \in {"printing", "err"} => HasTodo(w),
           to = "nil" => ~HasTodo(w) /\ closed /\ pcchan = << >>,
           work' = [work EXCEPT ![w] = to],
           UNCHANGED <<legacy, npcs, main, fed, pcchan, closed, todo, errC, got, handled, silent>>
    PROVE  IndInv'
<1> USE DEF IndInv
<1>1. /\ work' \in [Workers -> {"receiving", "working", "printing", "nil", "err", "gone"}]
      /\ work'[w] = to
      /\ \A v \in Workers \ {w} : work'[v] = work[v]
  BY DEF TypeOK
<1>2. TypeOK'
  BY <1>1 DEF TypeOK
<1>3. QueueInv' /\ HeldInv'
  BY DEF QueueInv, HeldInv, Precedes
<1>4. PlaceInv'
  BY DEF PlaceInv, Span
<1>5. /\ \A v \in Workers : HasTodo(v)' <=> HasTodo(v)
      /\ ErrSent' <=> ErrSent
  BY DEF HasTodo, ErrSent
<1>6. WorkInv'
  BY <1>1, <1>5 DEF WorkInv
<1>7. MainInv'
  <2>1. Gone' = Gone
    BY <1>1 DEF Gone
  <2>2. main \in {"feeding", "collecting"}
    BY DEF Running
  <2>3. (\E v \in Workers : work[v] = "gone" /\ HasTodo(v))
           => \E v \in Workers : work'[v] = "gone" /\ HasTodo(v)'
    BY <1>1, <1>5
  <2> QED
    BY <2>1, <2>2, <2>3, <1>5 DEF MainInv
<1> QED
  BY <1>2, <1>3, <1>4, <1>6, <1>7

LEMMA PanicInd == ASSUME IndInv, NEW w \in Workers, Addr2linePanic(w) PROVE IndInv'
<1> USE DEF IndInv
<1>1. /\ Running /\ work[w] = "working" /\ main' = "crashed"
      /\ UNCHANGED <<legacy, npcs, fed, pcchan, closed, work, todo, errC, got, handled, silent>>
  BY DEF Addr2linePanic
<1>2. TypeOK'
  BY <1>1 DEF TypeOK
<1>3. QueueInv' /\ HeldInv'
  BY <1>1 DEF QueueInv, HeldInv, Precedes
<1>4. PlaceInv'
  BY <1>1 DEF PlaceInv, Span
<1>5. WorkInv'
  BY <1>1 DEF WorkInv, HasTodo
<1>6. MainInv'
  <2>1. HasTodo(w)
    BY <1>1 DEF WorkInv
  <2> QED
    BY <1>1, <2>1 DEF MainInv, HasTodo, ErrSent
<1> QED
  BY <1>2, <1>3, <1>4, <1>5, <1>6

LEMMA ReportInd == ASSUME IndInv, NEW w \in Workers, Report(w) PROVE IndInv'
<1> USE DEF IndInv
<1>1. /\ Running /\ work[w] \in {"nil", "err"} /\ Len(errC) < Procs
      /\ errC' = Append(errC, work[w])
      /\ work' = [work EXCEPT ![w] = "gone"]
      /\ UNCHANGED <<legacy, npcs, main, fed, pcchan, closed, todo, got, handled, silent>>
  BY DEF Report, ErrCap
<1>2. /\ errC' \in Seq({"nil", "err"})
      /\ Len(errC) \in Nat /\ Len(errC') = Len(errC) + 1
      /\ \A k \in 1..Len(errC) : errC'[k] = errC[k]
      /\ errC'[Len(errC) + 1] = work[w]
  BY <1>1, AppendFacts DEF TypeOK
<1>3. /\ work' \in [Workers -> {"receiving", "working", "printing", "nil", "err", "gone"}]
      /\ work'[w] = "gone"
      /\ \A v \in Workers \ {w} : work'[v] = work[v]
  BY <1>1 DEF TypeOK
<1>4. TypeOK'
  BY <1>1, <1>2, <1>3, ProcsType DEF TypeOK
<1>5. QueueInv' /\ HeldInv'
  BY <1>1 DEF QueueInv, HeldInv, Precedes
<1>6. PlaceInv'
  BY <1>1 DEF PlaceInv, Span
<1>7. \A v \in Workers : HasTodo(v)' <=> HasTodo(v)
  BY <1>1 DEF HasTodo
<1>8. ErrSent => ErrSent'
  BY <1>2 DEF ErrSent
<1>9. work[w] = "err" => ErrSent'
  <2>1. Len(errC) + 1 \in 1..Len(errC')
    BY <1>2
  <2> QED
    BY <2>1, <1>2 DEF ErrSent
<1>10. ErrSent' => ErrSent \/ work[w] = "err"
  BY <1>2 DEF ErrSent
<1>11. WorkInv'
  <2>1. HasTodo(w) => work[w] = "err"
    BY <1>1 DEF WorkInv
  <2> QED
    BY <2>1, <1>1, <1>3, <1>7, <1>8, <1>9 DEF WorkInv
<1>12. MainInv'
  <2>1. /\ Gone' = Gone \cup {w} /\ w \notin Gone
        /\ IsFiniteSet(Gone)
    BY <1>1, <1>3, GoneFacts DEF Gone
  <2>2. Cardinality(Gone') = Cardinality(Gone) + 1
    BY <2>1, FS_AddElement
  <2>3. Cardinality(Gone) = got + Len(errC) /\ got \in Nat
    BY <1>1, ProcsType DEF MainInv, Running, TypeOK
  <2>4. Cardinality(Gone') = got' + Len(errC')
    BY <2>2, <2>3, <1>1, <1>2
  <2>5. ErrSent' => \E v \in Workers : work'[v] = "gone" /\ HasTodo(v)'
    <3>1. work[w] = "err" => work'[w] = "gone" /\ HasTodo(w)'
      BY <1>3, <1>7 DEF WorkInv
    <3>2. ErrSent => \E v \in Workers : work'[v] = "gone" /\ HasTodo(v)'
      BY <1>1, <1>3, <1>7 DEF MainInv
    <3> QED
      BY <3>1, <3>2, <1>10
  <2> QED
    BY <2>4, <2>5, <1>1 DEF MainInv, Running
<1> QED
  BY <1>4, <1>5, <1>6, <1>11, <1>12
-----------------------------------------------------------------------------
LEMMA NextInd == ASSUME IndInv, [Next]_vars PROVE IndInv'
<1>1. CASE ListPCs
  BY <1>1, ListPCsInd
<1>2. CASE Feed
  BY <1>2, FeedInd
<1>3. CASE ClosePCs
  BY <1>3, ClosePCsInd
<1>4. CASE Collect
  BY <1>4, CollectInd
<1>5. ASSUME NEW w \in Workers, Receive(w) PROVE IndInv'
  BY <1>5, ReceiveInd
<1>6. ASSUME NEW w \in Workers, EndOfPCs(w) PROVE IndInv'
  <2>1. ~HasTodo(w)
    BY <1>6 DEF EndOfPCs, IndInv, WorkInv
  <2> QED
    BY <1>6, <2>1, MoveInd DEF EndOfPCs
<1>7. ASSUME NEW w \in Workers, Addr2line(w) PROVE IndInv'
  BY <1>7, HandleFirstInd DEF Addr2line
<1>8. ASSUME NEW w \in Workers, SymbolizeError(w) PROVE IndInv'
  <2>1. HasTodo(w)
    BY <1>8 DEF SymbolizeError, IndInv, WorkInv
  <2> QED
    BY <1>8, <2>1, MoveInd DEF SymbolizeError
<1>9. ASSUME NEW w \in Workers, Addr2linePanic(w) PROVE IndInv'
  BY <1>9, PanicInd
<1>10. ASSUME NEW w \in Workers, SymbolizeArray(w) PROVE IndInv'
  <2>1. HasTodo(w)
    BY <1>10 DEF SymbolizeArray, IndInv, WorkInv
  <2> QED
    BY <1>10, <2>1, MoveInd DEF SymbolizeArray
<1>11. ASSUME NEW w \in Workers, PrintLegacy(w) PROVE IndInv'
  BY <1>11, HandleFirstInd DEF PrintLegacy
<1>12. ASSUME NEW w \in Workers, Report(w) PROVE IndInv'
  BY <1>12, ReportInd
<1>13. CASE UNCHANGED vars
  <2>1. TypeOK' /\ QueueInv' /\ HeldInv'
    BY <1>13 DEF vars, IndInv, TypeOK, QueueInv, HeldInv, Precedes
  <2>2. PlaceInv'
    BY <1>13 DEF vars, IndInv, PlaceInv, Span
  <2>3. WorkInv' /\ MainInv'
    BY <1>13 DEF vars, IndInv, WorkInv, MainInv, HasTodo, ErrSent, Gone
  <2> QED
    BY <2>1, <2>2, <2>3 DEF IndInv
<1> QED
  BY <1>1, <1>2, <1>3, <1>4, <1>5, <1>6, <1>7, <1>8, <1>9, <1>10, <1>11, <1>12, <1>13
  DEF Next, MainStep, WorkerStep

(* IndInv holds in every reachable state of the pool. *)
THEOREM Inductive == Spec => []IndInv
<1>1. Init => IndInv
  BY InitInd
<1>2. IndInv /\ [Next]_vars => IndInv'
  BY NextInd
<1> QED
  BY <1>1, <1>2, PTL DEF Spec

(* The channels hold what their capacities allow and every variable of the *)
(* pool keeps its type.                                                    *)
THEOREM TypeCorrect == Spec => []TypeOK
<1>1. IndInv => TypeOK
  BY DEF IndInv
<1> QED
  BY <1>1, Inductive, PTL

-----------------------------------------------------------------------------
LEMMA OnePlace == ASSUME IndInv PROVE EveryPCAccountedFor
<1> USE DEF IndInv
<1> SUFFICES ASSUME NEW p \in 1..npcs
             PROVE  handled[p] + (IF p > fed THEN 1 ELSE 0)
                       + Cardinality(Queued(p)) + Cardinality(Holders(p)) = 1
  BY DEF EveryPCAccountedFor
<1>1. p \in PCs /\ p \in Nat /\ fed \in Nat
  BY PoolAssumption DEF PCs, TypeOK
<1>2. \A w \in Workers : todo[w].last <= fed /\ todo[w] \in Batches
  BY DEF HeldInv, TypeOK
<1>3. \A j \in 1..Len(pcchan) : pcchan[j].last <= fed /\ pcchan[j] \in Batches
  BY DEF QueueInv, TypeOK
<1>4. Cardinality({}) = 0 /\ \A x : Cardinality({x}) = 1
  BY FS_EmptySet, FS_Singleton
<1>5. CASE p > fed
  <2>1. Queued(p) = {}
    BY <1>1, <1>3, <1>5 DEF Queued, Span, Batches
  <2>2. Holders(p) = {}
    BY <1>1, <1>2, <1>5 DEF Holders, Span, Batches
  <2>3. handled[p] = 0
    BY <1>1, <1>5 DEF PlaceInv
  <2> QED
    BY <2>1, <2>2, <2>3, <1>4, <1>5
<1>6. CASE p <= fed /\ handled[p] = 1
  <2>1. Queued(p) = {} /\ Holders(p) = {}
    BY <1>1, <1>6 DEF PlaceInv, Queued, Holders
  <2> QED
    BY <2>1, <1>1, <1>4, <1>6
<1>7. CASE p <= fed /\ handled[p] = 0
  <2>1. CASE \E w \in Workers : p \in Span(todo[w])
    <3> PICK w \in Workers : p \in Span(todo[w])
      BY <2>1
    <3>1. Queued(p) = {}
      <4> SUFFICES ASSUME NEW j \in 1..Len(pcchan) PROVE p \notin Span(pcchan[j])
        BY DEF Queued
      <4>1. todo[w].last < pcchan[j].first
        BY DEF HeldInv, Precedes
      <4> QED
        BY <4>1, <1>1, <1>2, <1>3 DEF Span, Batches
    <3>2. Holders(p) = {w}
      <4> SUFFICES ASSUME NEW v \in Workers, v # w PROVE p \notin Span(todo[v])
        BY DEF Holders
      <4>1. todo[w].last < todo[v].first \/ todo[v].last < todo[w].first
        BY DEF HeldInv, Precedes
      <4> QED
        BY <4>1, <1>1, <1>2 DEF Span, Batches
    <3>3. Cardinality(Queued(p)) = 0 /\ Cardinality(Holders(p)) = 1
      BY <3>1, <3>2, <1>4
    <3> QED
      BY <3>3, <1>1, <1>7
  <2>2. CASE \A w \in Workers : p \notin Span(todo[w])
    <3>1. Holders(p) = {}
      BY <2>2 DEF Holders
    <3> PICK j \in 1..Len(pcchan) : p \in Span(pcchan[j])
      BY <2>2, <1>1, <1>7 DEF PlaceInv
    <3>2. Queued(p) = {j}
      <4> SUFFICES ASSUME NEW k \in 1..Len(pcchan), k # j PROVE p \notin Span(pcchan[k])
        BY DEF Queued
      <4>1. pcchan[j].last < pcchan[k].first \/ pcchan[k].last < pcchan[j].first
        BY DEF QueueInv, Precedes
      <4> QED
        BY <4>1, <1>1, <1>3 DEF Span, Batches
    <3>3. Cardinality(Queued(p)) = 1 /\ Cardinality(Holders(p)) = 0
      BY <3>1, <3>2, <1>4
    <3> QED
      BY <3>3, <1>1, <1>7
  <2> QED
    BY <2>1, <2>2
<1> QED
  BY <1>1, <1>5, <1>6, <1>7 DEF PlaceInv

(* Slicing the list into batches and handing them over neither loses nor   *)
(* repeats a pc: each is waiting, queued, held by one goroutine or handled *)
(* once (addr2line.go:189-209).                                            *)
THEOREM Accounted == Spec => []EveryPCAccountedFor
  BY OnePlace, Inductive, PTL

(* A goroutine that is done can send its result at once, so it is never    *)
(* left blocked on errC (addr2line.go:161, 174, 192, 199).                 *)
THEOREM ReportsGetThrough == Spec => []ReportNeverBlocks
<1>1. IndInv => ReportNeverBlocks
  <2> SUFFICES ASSUME IndInv, NEW w \in Workers, Running, work[w] \in {"nil", "err"}
               PROVE  Len(errC) < Procs
    BY DEF ReportNeverBlocks, ErrCap
  <2>1. Gone # Workers
    BY DEF Gone
  <2>2. Cardinality(Gone) < Procs /\ Cardinality(Gone) \in Nat
    BY <2>1, GoneFacts, ProcsType
  <2>3. Cardinality(Gone) = got + Len(errC) /\ got \in Nat /\ Len(errC) \in Nat
    BY ProcsType, EmptySeq DEF IndInv, MainInv, Running, TypeOK
  <2> QED
    BY <2>2, <2>3, ProcsType
<1> QED
  BY <1>1, Inductive, PTL
-----------------------------------------------------------------------------
(* Batches are slices at the multiples of BatchSize. *)

OnBoundary(k) == k % BatchSize = 0

LEMMA Quotient ==
    ASSUME NEW n \in Nat \ {0}, NEW a \in Nat
    PROVE  a \div n \in Nat /\ a % n \in 0..(n - 1) /\ a = n * (a \div n) + (a % n)
<1>1. a % n \in 0..(n - 1)
  OBVIOUS
<1>2. a \div n \in Nat
  OBVIOUS
<1>3. a = n * (a \div n) + (a % n)
  OBVIOUS
<1> QED
  BY <1>1, <1>2, <1>3

LEMMA Multiple == \A n \in Nat \ {0}, q \in Nat : (n * q) % n = 0
OBVIOUS

LEMMA Between ==
    ASSUME NEW n \in Nat \ {0}, NEW a \in Nat, NEW b \in Nat, a <= b, a \div n = b \div n,
           NEW c \in Nat, a <= c, c <= b
    PROVE  c \div n = a \div n
OBVIOUS

LEMMA BoundaryFacts ==
    /\ OnBoundary(0)
    /\ \A k \in Nat : OnBoundary(k) => OnBoundary(k + BatchSize)
<1>1. BatchSize \in Nat \ {0}
  BY PoolAssumption
<1>2. OnBoundary(0)
  BY <1>1 DEF OnBoundary
<1>3. ASSUME NEW k \in Nat, OnBoundary(k) PROVE OnBoundary(k + BatchSize)
  <2>1. PICK q \in Nat : k = BatchSize * q
    <3>1. k \div BatchSize \in Nat /\ k = BatchSize * (k \div BatchSize) + 0
      BY <1>1, <1>3, Quotient DEF OnBoundary
    <3>2. BatchSize * (k \div BatchSize) \in Nat
      BY <1>1, <3>1
    <3> QED
      BY <3>1, <3>2
  <2>2. k + BatchSize = BatchSize * (q + 1)
    BY <1>1, <2>1
  <2>3. (BatchSize * (q + 1)) % BatchSize = 0
    BY <1>1, Multiple
  <2> QED
    BY <2>2, <2>3 DEF OnBoundary
<1> QED
  BY <1>2, <1>3

(* No pc before the first of a batch is of the same batch, and pcs between *)
(* two of a batch are of it.                                               *)
LEMMA BatchFacts ==
    /\ \A p, q \in Nat \ {0} : OnBoundary(p - 1) /\ q < p => ~SameBatch(q, p)
    /\ \A p, q \in Nat \ {0} : q <= p /\ SameBatch(q, p + 1) => SameBatch(q, p)
<1>1. BatchSize \in Nat \ {0}
  BY PoolAssumption
<1>2. ASSUME NEW p \in Nat \ {0}, NEW q \in Nat \ {0}, OnBoundary(p - 1), q < p, SameBatch(q, p)
      PROVE  FALSE
  <2> DEFINE k == (p - 1) \div BatchSize
             r == (q - 1) % BatchSize
  <2>1. p - 1 \in Nat /\ q - 1 \in Nat
    OBVIOUS
  <2>2. k \in Nat /\ p - 1 = BatchSize * k + 0
    <3>1. k \in Nat /\ p - 1 = BatchSize * k + ((p - 1) % BatchSize)
      BY <1>1, <2>1, Quotient
    <3>2. (p - 1) % BatchSize = 0
      BY <1>2 DEF OnBoundary
    <3> QED
      BY <3>1, <3>2
  <2>3. r \in Nat /\ q - 1 = BatchSize * k + r
    <3>1. (q - 1) \div BatchSize = k
      BY <1>2 DEF SameBatch
    <3>2. r \in 0..(BatchSize - 1) /\ q - 1 = BatchSize * ((q - 1) \div BatchSize) + r
      BY <1>1, <2>1, Quotient
    <3> QED
      BY <1>1, <3>1, <3>2
  <2>4. BatchSize * k \in Nat
    BY <1>1, <2>2
  <2> HIDE DEF k, r
  <2> QED
    BY <1>2, <2>1, <2>2, <2>3, <2>4
<1>4. ASSUME NEW p \in Nat \ {0}, NEW q \in Nat \ {0}, q <= p, SameBatch(q, p + 1)
      PROVE  SameBatch(q, p)
  <2>1. q - 1 \in Nat /\ p - 1 \in Nat /\ p \in Nat /\ q - 1 <= p - 1 /\ p - 1 <= p /\ p + 1 - 1 = p
    BY <1>4
  <2>2. (q - 1) \div BatchSize = p \div BatchSize
    BY <1>4, <2>1 DEF SameBatch
  <2>3. (q - 1) \div BatchSize = (p - 1) \div BatchSize
    <3>1. PICK a \in Nat, c \in Nat : a = q - 1 /\ c = p - 1
      BY <2>1
    <3>2. a <= c /\ c <= p /\ a <= p /\ a \div BatchSize = p \div BatchSize
      BY <3>1, <2>1, <2>2
    <3>3. a \div BatchSize = c \div BatchSize
      BY <3>2, <2>1, <1>1, Between
    <3> QED
      BY <3>1, <3>3
  <2> QED
    BY <2>3 DEF SameBatch
<1> QED
  BY <1>2, <1>4

(* A boundary of the list parts its batches.                               *)
LEMMA BatchesApart ==
    ASSUME NEW k \in Nat, OnBoundary(k),
           NEW p \in Nat \ {0}, NEW q \in Nat \ {0}, p <= k, k < q
    PROVE  ~SameBatch(p, q) /\ ~SameBatch(q, p)
<1>1. BatchSize \in Nat \ {0}
  BY PoolAssumption
<1>2. SUFFICES ASSUME SameBatch(p, q) PROVE FALSE
  BY DEF SameBatch
<1>3. PICK a \in Nat, c \in Nat : a = p - 1 /\ c = q - 1
  <2>1. p - 1 \in Nat /\ q - 1 \in Nat
    OBVIOUS
  <2> QED
    BY <2>1
<1>4. a <= k /\ k <= c /\ a <= c /\ a \div BatchSize = c \div BatchSize
  BY <1>2, <1>3 DEF SameBatch
<1>5. a \div BatchSize = k \div BatchSize
  BY <1>1, <1>4, Between
<1>6. k + 1 \in Nat \ {0} /\ k + 1 - 1 = k /\ p < k + 1
  OBVIOUS
<1>7. SameBatch(p, k + 1)
  BY <1>3, <1>5, <1>6 DEF SameBatch
<1> QED
  BY <1>6, <1>7, BatchFacts

(* What is handed over ends at a boundary or with the list, what waits     *)
(* begins at one; and of a batch begun, all that came before is handled.   *)
WholeSlice(b) == OnBoundary(b.first - 1) /\ (b.last = npcs \/ OnBoundary(b.last))
SliceInv ==
    /\ fed = npcs \/ OnBoundary(fed)
    /\ \A j \in 1..Len(pcchan) : WholeSlice(pcchan[j])
    /\ \A w \in Workers : HasTodo(w) =>
          /\ todo[w].last = npcs \/ OnBoundary(todo[w].last)
          /\ legacy /\ work[w] \in {"working", "err", "gone"} => WholeSlice(todo[w])
          /\ \A q \in PCs : q < todo[w].first /\ SameBatch(q, todo[w].first) => handled[q] = 1

LEMMA SliceInit == Init => SliceInv
BY BoundaryFacts, EmptySeq DEF Init, SliceInv, HasTodo, NoBatch

(* A goroutine leaves its batch as it is.                                  *)
LEMMA SliceMove ==
    ASSUME SliceInv, NEW w \in Workers,
           work[w] \in {"working", "err"} \/ ~HasTodo(w),
           \A v \in Workers : v # w => work'[v] = work[v],
           UNCHANGED <<legacy, npcs, fed, pcchan, todo, handled, silent>>
    PROVE  SliceInv'
<1>1. \A v \in Workers : HasTodo(v)' <=> HasTodo(v)
  BY DEF HasTodo
<1>2. \A v \in Workers : HasTodo(v) /\ legacy /\ work'[v] \in {"working", "err", "gone"}
         => WholeSlice(todo[v])
  BY DEF SliceInv
<1> QED
  BY <1>1, <1>2 DEF SliceInv, WholeSlice

LEMMA SliceListPCs == ASSUME IndInv, SliceInv, ListPCs PROVE SliceInv'
<1>1. main = "listing" /\ fed = 0 /\ fed' = 0 /\ UNCHANGED <<pcchan, todo>>
  BY DEF ListPCs, IndInv, MainInv
<1>2. \A w \in Workers : ~HasTodo(w)'
  BY <1>1 DEF IndInv, HeldInv, TypeOK, Batches, HasTodo
<1>3. ASSUME NEW j \in 1..Len(pcchan) PROVE FALSE
  <2>1. pcchan[j] \in Batches
    BY ElementOfSeq DEF IndInv, TypeOK
  <2>2. pcchan[j].first <= pcchan[j].last /\ pcchan[j].last <= fed
    BY DEF IndInv, QueueInv
  <2> QED
    BY <2>1, <2>2, <1>1 DEF Batches
<1> QED
  BY <1>1, <1>2, <1>3, BoundaryFacts DEF SliceInv

LEMMA SliceFeed == ASSUME IndInv, SliceInv, Feed PROVE SliceInv'
<1> DEFINE end == Least(fed + BatchSize, npcs)
           b == [first |-> fed + 1, last |-> end]
<1>1. /\ fed < npcs /\ pcchan' = Append(pcchan, b) /\ fed' = end
      /\ UNCHANGED <<legacy, npcs, work, todo, handled, silent>>
  BY DEF Feed
<1>2. /\ fed \in Nat /\ npcs \in Nat /\ fed + 1 - 1 = fed /\ end \in Nat /\ end # 0
      /\ end = npcs \/ end = fed + BatchSize
  BY <1>1, PoolAssumption DEF IndInv, TypeOK, Least
<1>3. OnBoundary(fed)
  BY <1>1, <1>2 DEF SliceInv
<1>4. end = npcs \/ OnBoundary(end)
  BY <1>2, <1>3, BoundaryFacts
<1>5. b \in Batches /\ b.first = fed + 1 /\ b.last = end
  BY <1>2 DEF Batches
<1> HIDE DEF end, b
<1>6. WholeSlice(b)
  BY <1>2, <1>3, <1>4, <1>5 DEF WholeSlice
<1>7. /\ Len(pcchan) \in Nat /\ Len(pcchan') = Len(pcchan) + 1
      /\ \A k \in 1..Len(pcchan) : pcchan'[k] = pcchan[k]
      /\ pcchan'[Len(pcchan) + 1] = b
  BY <1>1, <1>5, AppendFacts DEF IndInv, TypeOK
<1>8. ASSUME NEW j \in 1..Len(pcchan') PROVE WholeSlice(pcchan'[j])
  <2>1. CASE j \in 1..Len(pcchan)
    BY <2>1, <1>7 DEF SliceInv
  <2>2. CASE j = Len(pcchan) + 1
    BY <2>2, <1>6, <1>7
  <2> QED
    BY <2>1, <2>2, <1>7
<1> QED
  BY <1>1, <1>4, <1>8 DEF SliceInv, WholeSlice, HasTodo

LEMMA SliceReceive == ASSUME IndInv, SliceInv, NEW w \in Workers, Receive(w) PROVE SliceInv'
<1>1. /\ pcchan # << >> /\ pcchan' = Tail(pcchan)
      /\ todo' = [todo EXCEPT ![w] = Head(pcchan)]
      /\ work' = [work EXCEPT ![w] = "working"]
      /\ UNCHANGED <<legacy, npcs, fed, handled, silent>>
  BY DEF Receive
<1>2. /\ Head(pcchan) = pcchan[1] /\ pcchan[1] \in Batches
      /\ Len(pcchan) \in Nat \ {0} /\ Len(pcchan') = Len(pcchan) - 1
      /\ \A k \in 1..Len(pcchan') : k + 1 \in 1..Len(pcchan) /\ pcchan'[k] = pcchan[k + 1]
      /\ 1 \in 1..Len(pcchan)
  BY <1>1, TailFacts DEF IndInv, TypeOK
<1>3. WholeSlice(pcchan[1])
  BY <1>2 DEF SliceInv
<1>4. \A j \in 1..Len(pcchan') : WholeSlice(pcchan'[j])
  BY <1>2 DEF SliceInv
<1>5. /\ todo'[w] = pcchan[1] /\ work'[w] = "working"
      /\ \A v \in Workers : v # w => todo'[v] = todo[v] /\ work'[v] = work[v]
  BY <1>1, <1>2 DEF IndInv, TypeOK
<1>6. \A q \in PCs : q < pcchan[1].first => ~SameBatch(q, pcchan[1].first)
  BY <1>2, <1>3, PoolAssumption, BatchFacts DEF WholeSlice, Batches, PCs
<1>7. \A v \in Workers : v # w => (HasTodo(v)' <=> HasTodo(v))
  BY <1>5 DEF HasTodo
<1> QED
  BY <1>1, <1>3, <1>4, <1>5, <1>6, <1>7 DEF SliceInv, WholeSlice

(* Both ways of handling a pc, which is the next one of its batch.         *)
LEMMA PrintNext ==
    ASSUME IndInv, SliceInv, NEW w \in Workers,
           work[w] \in {"working", "printing"}, HandleFirst(w)
    PROVE  /\ todo[w].first \in PCs /\ HasTodo(w)
           /\ handled'[todo[w].first] = 1 /\ handled[todo[w].first] = 0
           /\ \A p \in PCs : p # todo[w].first => handled'[p] = handled[p]
           /\ \A p \in PCs : handled[p] = 1 => handled'[p] = 1
<1>1. HasTodo(w) /\ todo[w].first \in Nat \ {0}
  BY DEF IndInv, WorkInv, TypeOK, Batches
<1>2. todo[w].first \in PCs /\ todo[w].first \in Span(todo[w])
  BY <1>1, PoolAssumption DEF IndInv, HasTodo, HeldInv, TypeOK, Batches, PCs, Span
<1>3. handled[todo[w].first] = 0 /\ handled \in [PCs -> Nat]
  BY <1>2 DEF IndInv, PlaceInv, TypeOK
<1>4. handled' = [handled EXCEPT ![todo[w].first] = 1]
  BY <1>2, <1>3 DEF HandleFirst
<1> QED
  BY <1>1, <1>2, <1>3, <1>4

LEMMA SlicePrint ==
    ASSUME IndInv, SliceInv, NEW w \in Workers,
           work[w] = "printing" \/ (work[w] = "working" /\ ~legacy), HandleFirst(w),
           UNCHANGED <<legacy, npcs, fed, pcchan>>
    PROVE  SliceInv'
<1> DEFINE f == todo[w].first
<1>1. /\ f \in PCs /\ f \in Nat \ {0} /\ HasTodo(w) /\ handled'[f] = 1
      /\ \A p \in PCs : handled[p] = 1 => handled'[p] = 1
  BY PrintNext, PoolAssumption DEF PCs
<1>2. /\ todo'[w].first = f + 1 /\ todo'[w].last = todo[w].last
      /\ \A v \in Workers : v # w => todo'[v] = todo[v] /\ work'[v] = work[v]
      /\ work'[w] = work[w] \/ work'[w] = "receiving"
  BY DEF HandleFirst, IndInv, TypeOK, Batches
<1>3. ASSUME NEW q \in PCs, q < f + 1, SameBatch(q, f + 1) PROVE handled'[q] = 1
  <2>1. q \in Nat \ {0} /\ q <= f
    BY <1>1, <1>3, PoolAssumption DEF PCs
  <2>2. SameBatch(q, f)
    BY <1>1, <1>3, <2>1, BatchFacts
  <2>3. CASE q = f
    BY <2>3, <1>1
  <2>4. CASE q < f
    BY <2>2, <2>4, <1>1 DEF SliceInv
  <2> QED
    BY <1>1, <2>1, <2>3, <2>4
<1>4. \A v \in Workers : v # w => (HasTodo(v)' <=> HasTodo(v))
  BY <1>2 DEF HasTodo
<1>5. todo[w].last = npcs \/ OnBoundary(todo[w].last)
  BY <1>1 DEF SliceInv
<1>6. ~(legacy /\ work'[w] \in {"working", "err", "gone"})
  BY <1>2
<1> HIDE DEF f
<1> QED
  BY <1>1, <1>2, <1>3, <1>4, <1>5, <1>6 DEF SliceInv, WholeSlice

LEMMA SliceStep == ASSUME IndInv, SliceInv, [Next]_vars PROVE SliceInv'
<1>1. CASE ListPCs
  BY <1>1, SliceListPCs
<1>2. CASE Feed
  BY <1>2, SliceFeed
<1>3. CASE ClosePCs \/ Collect \/ UNCHANGED vars
  BY <1>3 DEF ClosePCs, Collect, vars, SliceInv, WholeSlice, HasTodo
<1>4. ASSUME NEW w \in Workers, Receive(w) PROVE SliceInv'
  BY <1>4, SliceReceive
<1>5. ASSUME NEW w \in Workers, Addr2line(w) \/ PrintLegacy(w) PROVE SliceInv'
  BY <1>5, SlicePrint DEF Addr2line, PrintLegacy
<1>6. ASSUME NEW w \in Workers, Addr2linePanic(w) PROVE SliceInv'
  BY <1>6 DEF Addr2linePanic, SliceInv, WholeSlice, HasTodo
<1>7. ASSUME NEW w \in Workers,
             EndOfPCs(w) \/ SymbolizeError(w) \/ SymbolizeArray(w) \/ Report(w)
      PROVE  SliceInv'
  <2>1. work[w] \in {"working", "err"} \/ ~HasTodo(w)
    BY <1>7 DEF EndOfPCs, SymbolizeError, SymbolizeArray, Report, IndInv, WorkInv
  <2>2. /\ \A v \in Workers : v # w => work'[v] = work[v]
        /\ UNCHANGED <<legacy, npcs, fed, pcchan, todo, handled, silent>>
    BY <1>7 DEF EndOfPCs, SymbolizeError, SymbolizeArray, Report, IndInv, TypeOK
  <2> QED
    BY <2>1, <2>2, SliceMove
<1> QED
  BY <1>1, <1>2, <1>3, <1>4, <1>5, <1>6, <1>7 DEF Next, MainStep, WorkerStep

(* A slice that holds a pc holds all pcs of the list in its batch.         *)
LEMMA SliceHoldsBatch ==
    ASSUME NEW b \in Batches, WholeSlice(b), npcs \in Nat,
           NEW p \in 1..npcs, NEW q \in 1..npcs, SameBatch(p, q), q \in Span(b)
    PROVE  p \in Span(b)
<1>1. b.first \in Nat \ {0} /\ b.last \in Nat /\ b.first <= q /\ q <= b.last
  BY DEF Batches, Span
<1>2. p \in Nat \ {0} /\ q \in Nat \ {0} /\ SameBatch(q, p)
  BY DEF SameBatch
<1>3. OnBoundary(b.first - 1) /\ (b.last = npcs \/ OnBoundary(b.last))
  BY DEF WholeSlice
<1>4. b.first <= p
  BY <1>1, <1>2, <1>3, BatchesApart
<1>5. p <= b.last
  BY <1>1, <1>2, <1>3, BatchesApart
<1> QED
  BY <1>1, <1>2, <1>4, <1>5 DEF Span

(* With -legacy part of a batch is on the output only while, or where, a   *)
(* goroutine is in the loop that prints it (addr2line.go:177-187): what    *)
(* waits, and what a goroutine left on an error of its own, is a whole     *)
(* slice of the list.                                                      *)
THEOREM LegacyParts == Spec => []PartOfBatchOnlyWhilePrinting
<1>1. IndInv /\ SliceInv => PartOfBatchOnlyWhilePrinting
  <2> SUFFICES ASSUME IndInv, SliceInv, legacy, NEW p \in 1..npcs, NEW q \in 1..npcs,
                      SameBatch(p, q), handled[p] = 1, handled[q] = 0
               PROVE  \E w \in Workers : work[w] = "printing" /\ q \in Span(todo[w])
    BY DEF PartOfBatchOnlyWhilePrinting
  <2>1. /\ npcs \in Nat /\ fed \in Nat /\ p \in PCs /\ q \in PCs
        /\ p \in Nat \ {0} /\ q \in Nat \ {0} /\ q <= npcs
    BY PoolAssumption DEF IndInv, TypeOK, PCs
  <2>2. /\ p <= fed
        /\ \A w \in Workers : p \notin Span(todo[w])
        /\ \A j \in 1..Len(pcchan) : p \notin Span(pcchan[j])
    BY <2>1 DEF IndInv, PlaceInv
  <2>3. q <= fed
    BY <2>1, <2>2, BatchesApart DEF SliceInv
  <2>4. ASSUME NEW j \in 1..Len(pcchan), q \in Span(pcchan[j]) PROVE FALSE
    <3>1. pcchan[j] \in Batches /\ WholeSlice(pcchan[j])
      BY ElementOfSeq DEF IndInv, TypeOK, SliceInv
    <3> QED
      BY <3>1, <2>1, <2>2, <2>4, SliceHoldsBatch
  <2>5. PICK w \in Workers : q \in Span(todo[w])
    BY <2>1, <2>3, <2>4 DEF IndInv, PlaceInv
  <2>6. HasTodo(w) /\ todo[w] \in Batches
    BY <2>1, <2>5 DEF IndInv, TypeOK, HasTodo, Span, Batches
  <2>7. ~WholeSlice(todo[w])
    BY <2>1, <2>2, <2>5, <2>6, SliceHoldsBatch
  <2>8. work[w] = "printing"
    BY <2>6, <2>7 DEF SliceInv, IndInv, WorkInv, TypeOK
  <2> QED
    BY <2>5, <2>8
<1> QED
  BY <1>1, Inductive, SliceInit, SliceStep, PTL DEF Spec

(* A pc is handled when all pcs of its batch that come before it in the    *)
(* list are (addr2line.go:177-196).                                        *)
THEOREM BatchInOrder == Spec => InOrderWithinBatch
<1> DEFINE InOrder == \A p, q \in PCs :
              (q < p /\ SameBatch(p, q) /\ handled'[p] # handled[p]) => handled[q] = 1
<1>1. ASSUME IndInv, SliceInv, [Next]_vars PROVE [InOrder]_vars
  <2>1. ASSUME UNCHANGED handled PROVE InOrder
    BY <2>1
  <2>2. ASSUME NEW w \in Workers, Addr2line(w) \/ PrintLegacy(w) PROVE InOrder
    <3>1. work[w] \in {"working", "printing"} /\ HandleFirst(w)
      BY <2>2 DEF Addr2line, PrintLegacy
    <3>2. HasTodo(w) /\ \A p \in PCs : handled'[p] # handled[p] => p = todo[w].first
      BY <1>1, <3>1, PrintNext
    <3>3. \A p, q \in PCs : SameBatch(p, q) => SameBatch(q, p)
      BY DEF SameBatch
    <3> QED
      BY <1>1, <3>2, <3>3 DEF SliceInv
  <2>3. UNCHANGED handled \/ \E w \in Workers : Addr2line(w) \/ PrintLegacy(w)
    BY <1>1 DEF Next, MainStep, WorkerStep, ListPCs, Feed, ClosePCs, Collect, Receive, EndOfPCs,
           SymbolizeError, Addr2linePanic, SymbolizeArray, Report, vars
  <2> QED
    BY <2>1, <2>2, <2>3
<1> QED
  BY <1>1, Inductive, SliceInit, SliceStep, PTL DEF Spec, InOrderWithinBatch

-----------------------------------------------------------------------------
(* The pool implements SymbolizeAll. *)

(* Only the loop of -legacy passes over a pc, and a pc once. *)
SilentInv ==
    /\ \A p \in silent : handled[p] = 1
    /\ \A w \in Workers : work[w] = "printing" => legacy

LEMMA SilentInit == Init => SilentInv
BY DEF Init, SilentInv

LEMMA SilentStep == ASSUME IndInv, SliceInv, SilentInv, [Next]_vars PROVE SilentInv'
<1>1. work \in [Workers -> {"receiving", "working", "printing", "nil", "err", "gone"}]
      /\ silent \in SUBSET PCs
  BY DEF IndInv, TypeOK
<1>2. CASE ListPCs \/ Feed \/ ClosePCs \/ Collect \/ UNCHANGED vars
  BY <1>2 DEF ListPCs, Feed, ClosePCs, Collect, vars, SilentInv
<1>3. ASSUME NEW w \in Workers,
             \/ Receive(w) \/ EndOfPCs(w) \/ SymbolizeError(w)
             \/ Addr2linePanic(w) \/ SymbolizeArray(w) \/ Report(w)
      PROVE  SilentInv'
  <2>1. UNCHANGED <<legacy, handled, silent>>
    BY <1>3 DEF Receive, EndOfPCs, SymbolizeError, Addr2linePanic, SymbolizeArray, Report
  <2>2. ASSUME NEW v \in Workers, work'[v] = "printing" PROVE legacy
    BY <1>1, <1>3, <2>2
    DEF Receive, EndOfPCs, SymbolizeError, Addr2linePanic, SymbolizeArray, Report, SilentInv
  <2> QED
    BY <2>1, <2>2 DEF SilentInv
<1>4. ASSUME NEW w \in Workers, Addr2line(w) \/ PrintLegacy(w) PROVE SilentInv'
  <2> DEFINE f == todo[w].first
  <2>1. work[w] \in {"working", "printing"} /\ HandleFirst(w) /\ legacy' = legacy
        /\ (silent' = silent \/ silent' = silent \cup {f})
    BY <1>4 DEF Addr2line, PrintLegacy
  <2>2. handled'[f] = 1 /\ \A p \in PCs : handled[p] = 1 => handled'[p] = 1
    BY <2>1, PrintNext
  <2>3. \A v \in Workers : work'[v] = "printing" => work[v] = "printing"
    BY <1>1, <2>1 DEF HandleFirst
  <2> HIDE DEF f
  <2> QED
    BY <1>1, <2>1, <2>2, <2>3 DEF SilentInv
<1> QED
  BY <1>2, <1>3, <1>4 DEF Next, MainStep, WorkerStep

(* A pc still waits in SymbolizeAll when no worker is done with it.        *)
LEMMA OpenUnhandled ==
    ASSUME IndInv, SilentInv, NEW p \in PCs
    PROVE  Abstract!Open(p) <=> handled[p] = 0
<1>1. Printed[p] = IF p \in silent THEN 0 ELSE handled[p]
  BY DEF Printed
<1>2. handled[p] \in {0, 1}
  BY DEF IndInv, PlaceInv
<1> QED
  BY <1>1, <1>2 DEF Abstract!Open, SilentInv

(* Something of the list is held by a worker, which is not done with it. *)
LEMMA HeldIsUnhandled ==
    ASSUME IndInv, SilentInv, NEW w \in Workers, HasTodo(w)
    PROVE  \E p \in 1..npcs : Abstract!Open(p)
<1> DEFINE f == todo[w].first
<1>1. /\ f \in 1..npcs /\ f \in PCs /\ f \in Span(todo[w])
  BY PoolAssumption DEF IndInv, HasTodo, HeldInv, TypeOK, Batches, PCs, Span
<1>2. handled[f] = 0
  BY <1>1 DEF IndInv, PlaceInv
<1> QED
  BY <1>1, <1>2, OpenUnhandled

LEMMA PrintAbstract ==
    ASSUME IndInv, SilentInv, NEW w \in Workers, Addr2line(w) \/ PrintLegacy(w)
    PROVE  \E p \in PCs : Abstract!Output(p) \/ Abstract!PassOver(p)
<1> DEFINE f == todo[w].first
<1>0. /\ Running /\ work[w] \in {"working", "printing"} /\ HandleFirst(w)
      /\ UNCHANGED <<legacy, npcs, main>>
      /\ silent' = silent \/ (legacy /\ silent' = silent \cup {f})
  BY DEF Addr2line, PrintLegacy, SilentInv
<1>1. HasTodo(w) /\ f \in Nat
  BY <1>0 DEF IndInv, WorkInv, TypeOK, Batches
<1>2. f \in PCs /\ f <= npcs /\ f \in Span(todo[w])
  BY <1>1, PoolAssumption DEF IndInv, HasTodo, HeldInv, TypeOK, Batches, PCs, Span
<1>3. handled[f] = 0 /\ handled \in [PCs -> Nat]
  BY <1>2 DEF IndInv, PlaceInv, TypeOK
<1>4. handled' = [handled EXCEPT ![f] = 1]
  BY <1>0, <1>2, <1>3 DEF HandleFirst
<1>5. Phase = "running" /\ Phase' = "running"
  BY <1>0 DEF Phase, Running
<1>6. Abstract!Open(f) /\ f \notin silent
  BY <1>2, <1>3, OpenUnhandled DEF SilentInv
<1> HIDE DEF f
<1>7. CASE silent' = silent
  <2>1. Printed' = [Printed EXCEPT ![f] = 1]
    BY <1>2, <1>3, <1>4, <1>6, <1>7 DEF Printed
  <2>2. Abstract!Output(f)
    BY <1>0, <1>2, <1>5, <1>6, <1>7, <2>1 DEF Abstract!Output
  <2> QED
    BY <1>2, <2>2
<1>8. CASE legacy /\ silent' = silent \cup {f}
  <2>1. Printed' = Printed
    BY <1>2, <1>3, <1>4, <1>6, <1>8 DEF Printed
  <2>2. Abstract!PassOver(f)
    BY <1>0, <1>2, <1>5, <1>6, <1>8, <2>1 DEF Abstract!PassOver
  <2> QED
    BY <1>2, <2>2
<1> QED
  BY <1>0, <1>7, <1>8

(* A step that keeps the list, the output and the phase is a stutter of SymbolizeAll. *)
LEMMA StutterAbstract ==
    ASSUME UNCHANGED <<legacy, npcs, handled, silent>>, Phase' = Phase
    PROVE  UNCHANGED Abstract!vars
  BY DEF Abstract!vars, Printed

LEMMA CollectAbstract ==
    ASSUME IndInv, IndInv', SilentInv, Collect PROVE [Abstract!Next]_(Abstract!vars)
<1>1. main = "collecting" /\ UNCHANGED <<legacy, npcs, handled, silent, fed, todo, pcchan>>
      /\ main' \in {"failed", "done", "collecting"}
  BY DEF Collect
<1>2. Phase = "running"
  BY <1>1 DEF Phase, Running
<1>3. CASE main' = "failed"
  <2>1. \E w \in Workers : HasTodo(w)'
    BY <1>3 DEF IndInv, MainInv
  <2>2. \E w \in Workers : HasTodo(w)
    BY <2>1, <1>1 DEF HasTodo
  <2>3. \E p \in 1..npcs : Abstract!Open(p)
    BY <2>2, HeldIsUnhandled
  <2>4. Printed' = Printed
    BY <1>1 DEF Printed
  <2>5. Abstract!GiveUp
    BY <2>3, <2>4, <1>1, <1>2, <1>3 DEF Abstract!GiveUp, Phase, Running
  <2> QED
    BY <2>5 DEF Abstract!Next
<1>4. CASE main' = "done"
  <2>1. /\ \A w \in Workers : work'[w] = "gone" /\ ~HasTodo(w)'
        /\ closed' /\ fed' = npcs'
    BY <1>4 DEF IndInv, MainInv
  <2>2. pcchan' = << >>
    BY <2>1, PoolAssumption DEF IndInv, WorkInv
  <2>3. \A p \in 1..npcs : handled[p] = 1
    <3> SUFFICES ASSUME NEW p \in 1..npcs PROVE handled'[p] = 1
      BY <1>1
    <3>1. p \in PCs /\ p \in Nat /\ p <= fed'
      BY <2>1, <1>1, PoolAssumption DEF IndInv, TypeOK, PCs
    <3>2. \A w \in Workers : p \notin Span(todo'[w])
      BY <2>1, <3>1 DEF HasTodo, Span, IndInv, TypeOK, Batches
    <3>3. \A j \in 1..Len(pcchan') : p \notin Span(pcchan'[j])
      BY <2>2
    <3> QED
      BY <3>1, <3>2, <3>3 DEF IndInv, PlaceInv, Span
  <2>4. \A p \in 1..npcs : ~Abstract!Open(p)
    <3>1. \A p \in 1..npcs : p \in PCs
      BY PoolAssumption DEF IndInv, TypeOK, PCs
    <3>2. \A p \in 1..npcs : handled[p] # 0
      BY <2>3
    <3> QED
      BY <3>1, <3>2, OpenUnhandled
  <2>5. Printed' = Printed
    BY <1>1 DEF Printed
  <2>6. Abstract!Finish
    BY <2>4, <2>5, <1>1, <1>2, <1>4 DEF Abstract!Finish, Phase, Running
  <2> QED
    BY <2>6 DEF Abstract!Next
<1>5. CASE main' = "collecting"
  BY <1>1, <1>5, StutterAbstract DEF Phase, Running
<1> QED
  BY <1>1, <1>3, <1>4, <1>5

(* Every run of the pool is a run of SymbolizeAll: each pc is printed at   *)
(* most once, main returns without an error only when all were printed or, *)
(* with -legacy, had no frames (symbolizer.go:177, 203-205), and it gives  *)
(* up only while one is neither (addr2line.go:160-216).                    *)
THEOREM Implements == Spec => AbstractSpec
<1>1. Init => Abstract!Init
  BY DEF Init, Abstract!Init, Phase, Running, Printed, PCs, Abstract!PCs
<1>2. IndInv /\ IndInv' /\ SilentInv /\ [Next]_vars => [Abstract!Next]_(Abstract!vars)
  <2> SUFFICES ASSUME IndInv, IndInv', SilentInv, [Next]_vars
               PROVE  [Abstract!Next]_(Abstract!vars)
    OBVIOUS
  <2>1. CASE ListPCs
    <3>1. Abstract!List
      BY <2>1 DEF ListPCs, Abstract!List, Phase, Running, Printed
    <3> QED
      BY <3>1 DEF Abstract!Next
  <2>2. CASE Feed
    BY <2>2, StutterAbstract DEF Feed, Phase, Running
  <2>3. CASE ClosePCs
    BY <2>3, StutterAbstract DEF ClosePCs, Phase, Running
  <2>4. CASE Collect
    BY <2>4, CollectAbstract
  <2>5. ASSUME NEW w \in Workers, Addr2line(w) \/ PrintLegacy(w)
        PROVE  [Abstract!Next]_(Abstract!vars)
    <3>1. \E p \in PCs : Abstract!Output(p) \/ Abstract!PassOver(p)
      BY <2>5, PrintAbstract
    <3> QED
      BY <3>1 DEF Abstract!Next, PCs, Abstract!PCs
  <2>6. ASSUME NEW w \in Workers, Addr2linePanic(w)
        PROVE  [Abstract!Next]_(Abstract!vars)
    <3>1. HasTodo(w)
      BY <2>6 DEF Addr2linePanic, IndInv, WorkInv
    <3>2. \E p \in 1..npcs : Abstract!Open(p)
      BY <3>1, HeldIsUnhandled
    <3>3. Abstract!GiveUp
      BY <3>2, <2>6 DEF Printed, Addr2linePanic, Abstract!GiveUp, Phase, Running
    <3> QED
      BY <3>3 DEF Abstract!Next
  <2>7. ASSUME NEW w \in Workers,
               Receive(w) \/ EndOfPCs(w) \/ SymbolizeError(w) \/ SymbolizeArray(w) \/ Report(w)
        PROVE  [Abstract!Next]_(Abstract!vars)
    BY <2>7, StutterAbstract
    DEF Receive, EndOfPCs, SymbolizeError, SymbolizeArray, Report, Phase, Running
  <2>8. CASE UNCHANGED vars
    BY <2>8, StutterAbstract DEF vars, Phase, Running
  <2> QED
    BY <2>1, <2>2, <2>3, <2>4, <2>5, <2>6, <2>7, <2>8 DEF Next, MainStep, WorkerStep
<1> QED
  BY <1>1, <1>2, Inductive, SliceInit, SliceStep, SilentInit, SilentStep, PTL
  DEF Spec, AbstractSpec, Abstract!Spec

-----------------------------------------------------------------------------
(* The pool that has stopped.                                              *)

(* main collects until it has a result of every goroutine.                 *)
GotInv ==
    /\ main \in {"listing", "feeding"} => got = 0
    /\ main = "collecting" => got # Procs

LEMMA GotInit == Init => GotInv
BY DEF Init, GotInv

LEMMA GotStep == ASSUME IndInv, GotInv, [Next]_vars PROVE GotInv'
<1>1. Procs \in Nat \ {0}
  BY ProcsType
<1>2. CASE ListPCs \/ Feed \/ ClosePCs
  BY <1>1, <1>2 DEF ListPCs, Feed, ClosePCs, GotInv
<1>3. CASE Collect
  BY <1>3 DEF Collect, GotInv
<1>4. ASSUME NEW w \in Workers, WorkerStep(w) PROVE GotInv'
  BY <1>4 DEF WorkerStep, Receive, EndOfPCs, Addr2line, SymbolizeError, Addr2linePanic,
     SymbolizeArray, PrintLegacy, Report, GotInv
<1>5. CASE UNCHANGED vars
  BY <1>5 DEF vars, GotInv
<1> QED
  BY <1>2, <1>3, <1>4, <1>5 DEF Next, MainStep

(* The multiples of the batch size up to n are numbered from 1.            *)
LEMMA MultipleFacts ==
    ASSUME NEW n \in Nat \ {0}, NEW a \in Nat \ {0}, a % n = 0, NEW b \in Nat, a <= b
    PROVE  a \div n \in 1..(b \div n) /\ a = n * (a \div n)
<1>1. /\ a \div n \in Nat /\ a = n * (a \div n) + 0
      /\ b \div n \in Nat /\ b % n \in 0..(n - 1) /\ b = n * (b \div n) + (b % n)
  BY Quotient
<1> DEFINE q == a \div n
           r == b \div n
           m == b % n
<1>2. q \in Nat /\ r \in Nat /\ m \in Nat /\ m < n /\ a = n * q /\ b = n * r + m
  BY <1>1
<1> HIDE DEF q, r, m
<1>3. q # 0
  BY <1>2
<1>4. ASSUME r < q PROVE FALSE
  <2>1. PICK d \in Nat : q = r + 1 + d
    <3>1. q - r - 1 \in Nat /\ q = r + 1 + (q - r - 1)
      BY <1>2, <1>4
    <3> QED
      BY <3>1
  <2>2. n * q = n * r + n + n * d
    BY <1>2, <2>1
  <2>3. n * d \in Nat /\ n * r \in Nat
    BY <1>2, <2>1
  <2> QED
    BY <1>2, <2>2, <2>3
<1>5. q \in 1..r /\ a = n * q
  BY <1>2, <1>3, <1>4
<1> QED
  BY <1>5 DEF q, r

(* As many distinct multiples of the batch size up to fed as there are     *)
(* goroutines and places in the channel.                                   *)
LEMMA ManyBatches ==
    ASSUME NEW e \in [Workers -> Nat], NEW c \in [1..Procs -> Nat],
           NEW n \in Nat,
           \A w \in Workers : e[w] \in 1..n,
           \A j \in 1..Procs : c[j] \in 1..n,
           \A v, w \in Workers : e[v] = e[w] => v = w,
           \A i, j \in 1..Procs : c[i] = c[j] => i = j,
           \A w \in Workers, j \in 1..Procs : e[w] # c[j]
    PROVE  2 * Procs <= n
<1> DEFINE E == {e[w] : w \in Workers}
           C == {c[j] : j \in 1..Procs}
<1>1. Procs \in Nat \ {0} /\ IsFiniteSet(1..Procs) /\ Cardinality(1..Procs) = Procs
  <2>1. Procs \in Nat \ {0}
    BY ProcsType
  <2> QED
    BY <2>1, FS_Interval
<1>2. IsFiniteSet(Workers) /\ Cardinality(Workers) = Procs
  BY PoolAssumption DEF Procs
<1>3. IsFiniteSet(E) /\ Cardinality(E) = Procs
  <2>1. e \in [Workers -> E] /\ \A t \in E : \E w \in Workers : e[w] = t
    OBVIOUS
  <2>2. e \in Bijection(Workers, E)
    BY <2>1, Fun_IsBij
  <2>3. ExistsBijection(Workers, E)
    BY <2>2, Fun_ExistsBij
  <2> QED
    BY <1>2, <2>3, FS_Bijection
<1>4. IsFiniteSet(C) /\ Cardinality(C) = Procs
  <2>1. c \in [1..Procs -> C] /\ \A t \in C : \E w \in 1..Procs : c[w] = t
    OBVIOUS
  <2>2. c \in Bijection(1..Procs, C)
    BY <2>1, Fun_IsBij
  <2>3. ExistsBijection(1..Procs, C)
    BY <2>2, Fun_ExistsBij
  <2> QED
    BY <1>1, <2>3, FS_Bijection
<1>5. E \cap C = {} /\ E \cup C \in SUBSET (1..n)
  OBVIOUS
<1> HIDE DEF E, C
<1>6. Cardinality(E \cup C) = Procs + Procs
  <2>1. Cardinality(E \cup C) = Cardinality(E) + Cardinality(C) - Cardinality(E \cap C)
    BY <1>3, <1>4, FS_Union
  <2>2. Cardinality(E \cap C) = 0
    BY <1>5, FS_EmptySet
  <2> QED
    BY <1>1, <1>3, <1>4, <2>1, <2>2
<1>7. IsFiniteSet(1..n) /\ Cardinality(1..n) = n
  BY FS_Interval
<1>8. Cardinality(E \cup C) <= Cardinality(1..n)
  BY <1>5, <1>7, FS_Subset
<1> QED
  BY <1>1, <1>6, <1>7, <1>8

(* main cannot be stopped while it collects: a goroutine that is not gone  *)
(* can go on, and when all are gone there is a result left to receive.     *)
LEMMA NotCollecting == ASSUME IndInv, GotInv, Running, Blocked PROVE main = "feeding"
<1> SUFFICES ASSUME main = "collecting" PROVE FALSE
  BY DEF Running
<1>1. errC = << >> /\ Len(errC) = 0 /\ closed /\ Procs \in Nat \ {0}
  BY EmptySeq, ProcsType DEF Blocked, IndInv, MainInv
<1>2. ASSUME NEW w \in Workers PROVE work[w] = "gone"
  BY <1>1 DEF Blocked, ErrCap, IndInv, TypeOK
<1>3. Gone = Workers
  BY <1>2 DEF Gone
<1>4. Cardinality(Gone) = got + Len(errC) /\ got \in Nat
  BY ProcsType DEF IndInv, MainInv, TypeOK
<1>5. got = Procs
  BY <1>1, <1>3, <1>4 DEF Procs
<1> QED
  BY <1>5 DEF GotInv

LEMMA AllGone ==
    ASSUME IndInv, Running, Blocked, main = "feeding", ReportNeverBlocks, NEW w \in Workers
    PROVE  work[w] = "gone" /\ HasTodo(w)
<1>1. pcchan # << >> /\ ~closed
  <2>1. Len(pcchan) >= Procs /\ Procs \in Nat \ {0} /\ Len(pcchan) \in Nat
    BY ProcsType, EmptySeq DEF Blocked, ChanCap, IndInv, TypeOK
  <2> QED
    BY <2>1, EmptySeq DEF IndInv, MainInv
<1>2. work[w] \notin {"nil", "err"}
  <2>1. Len(errC) \in Nat /\ ErrCap \in Nat
    BY ProcsType, EmptySeq DEF ErrCap, IndInv, TypeOK
  <2> QED
    BY <2>1 DEF ReportNeverBlocks, Blocked
<1>3. work[w] = "gone"
  BY <1>1, <1>2 DEF Blocked, IndInv, TypeOK
<1> QED
  BY <1>1, <1>3 DEF IndInv, WorkInv

(* The ends of the batches the goroutines left and of those in the channel *)
(* are multiples of the batch size, all different and none after fed.      *)
LEMMA StuckTakesMany ==
    ASSUME IndInv, SliceInv, Running, Blocked, main = "feeding", ReportNeverBlocks
    PROVE  npcs > 2 * Procs * BatchSize
<1> DEFINE B == BatchSize
           n == fed \div B
           e == [w \in Workers |-> todo[w].last \div B]
           c == [j \in 1..Procs |-> pcchan[j].last \div B]
<1>1. /\ B \in Nat \ {0} /\ Procs \in Nat \ {0} /\ fed \in Nat /\ npcs \in Nat
      /\ fed < npcs /\ Len(pcchan) = Procs /\ n \in Nat
  <2>1. /\ B \in Nat \ {0} /\ Procs \in Nat \ {0} /\ fed \in Nat /\ npcs \in Nat
        /\ fed < npcs /\ Len(pcchan) >= Procs /\ Len(pcchan) <= Procs /\ Len(pcchan) \in Nat
    BY PoolAssumption, ProcsType, EmptySeq DEF IndInv, TypeOK, Blocked, ChanCap
  <2>2. fed \div B \in Nat
    BY <2>1 DEF IndInv
  <2> QED
    BY <2>1, <2>2
<1>2. ASSUME NEW w \in Workers
      PROVE  /\ todo[w].last \in Nat \ {0} /\ todo[w].last <= fed /\ todo[w].last % B = 0
             /\ \A j \in 1..Procs : todo[w].last < pcchan[j].last
             /\ \A v \in Workers : v # w => todo[v].last # todo[w].last
  <2>1. HasTodo(w) /\ \A v \in Workers : HasTodo(v)
    BY AllGone
  <2>2. todo[w] \in Batches /\ \A v \in Workers : todo[v] \in Batches
    BY DEF IndInv, TypeOK
  <2>3. todo[w].last \in Nat \ {0} /\ todo[w].last <= fed
    BY <2>1, <2>2 DEF HasTodo, Batches, IndInv, HeldInv
  <2>4. todo[w].last % B = 0
    BY <1>1, <2>1, <2>3 DEF SliceInv, OnBoundary
  <2>5. ASSUME NEW j \in 1..Procs PROVE todo[w].last < pcchan[j].last
    <3>1. pcchan[j] \in Batches /\ j \in 1..Len(pcchan)
      BY <1>1, ElementOfSeq DEF IndInv, TypeOK
    <3> QED
      BY <2>3, <3>1 DEF IndInv, HeldInv, QueueInv, Precedes, Batches
  <2>6. ASSUME NEW v \in Workers, v # w PROVE todo[v].last # todo[w].last
    BY <2>1, <2>2, <2>6 DEF IndInv, HeldInv, Precedes, HasTodo, Batches
  <2> QED
    BY <2>3, <2>4, <2>5, <2>6
<1>3. ASSUME NEW j \in 1..Procs
      PROVE  /\ pcchan[j].last \in Nat \ {0} /\ pcchan[j].last <= fed /\ pcchan[j].last % B = 0
             /\ \A k \in 1..Procs : k # j => pcchan[k].last # pcchan[j].last
  <2>1. \A k \in 1..Procs : k \in 1..Len(pcchan) /\ pcchan[k] \in Batches
    BY <1>1, ElementOfSeq DEF IndInv, TypeOK
  <2>2. \A k \in 1..Procs : pcchan[k].first <= pcchan[k].last /\ pcchan[k].last <= fed
    BY <2>1 DEF IndInv, QueueInv
  <2>3. pcchan[j].last \in Nat \ {0} /\ pcchan[j].last <= fed
    BY <2>1, <2>2 DEF Batches
  <2>4. pcchan[j].last % B = 0
    BY <1>1, <2>1, <2>3 DEF SliceInv, WholeSlice, OnBoundary
  <2>5. ASSUME NEW k \in 1..Procs, k # j PROVE pcchan[k].last # pcchan[j].last
    <3>1. Precedes(pcchan[k], pcchan[j]) \/ Precedes(pcchan[j], pcchan[k])
      <4>1. j \in Nat /\ k \in Nat /\ (j < k \/ k < j)
        BY <1>1, <2>5
      <4> QED
        BY <2>1, <4>1 DEF IndInv, QueueInv
    <3> QED
      BY <2>1, <2>2, <3>1 DEF Precedes, Batches
  <2> QED
    BY <2>3, <2>4, <2>5
<1>4. ASSUME NEW w \in Workers
      PROVE  e[w] \in 1..n /\ todo[w].last = B * e[w] /\ e[w] \in Nat
  <2>1. todo[w].last \in Nat \ {0} /\ todo[w].last <= fed /\ todo[w].last % B = 0
    BY <1>2
  <2>2. PICK a \in Nat \ {0} : a = todo[w].last
    BY <2>1
  <2>3. B \in Nat \ {0} /\ fed \in Nat /\ a % B = 0 /\ a <= fed
    BY <1>1, <2>1, <2>2
  <2>4. a \div B \in 1..(fed \div B) /\ a = B * (a \div B)
    BY <2>3, MultipleFacts
  <2>5. e[w] = a \div B
    BY <2>2
  <2> QED
    BY <1>1, <2>2, <2>4, <2>5
<1>5. ASSUME NEW j \in 1..Procs
      PROVE  c[j] \in 1..n /\ pcchan[j].last = B * c[j] /\ c[j] \in Nat
  <2>1. pcchan[j].last \in Nat \ {0} /\ pcchan[j].last <= fed /\ pcchan[j].last % B = 0
    BY <1>3
  <2>2. PICK a \in Nat \ {0} : a = pcchan[j].last
    BY <2>1
  <2>3. B \in Nat \ {0} /\ fed \in Nat /\ a % B = 0 /\ a <= fed
    BY <1>1, <2>1, <2>2
  <2>4. a \div B \in 1..(fed \div B) /\ a = B * (a \div B)
    BY <2>3, MultipleFacts
  <2>5. c[j] = a \div B
    BY <2>2
  <2> QED
    BY <1>1, <2>2, <2>4, <2>5
<1>6. e \in [Workers -> Nat] /\ c \in [1..Procs -> Nat]
  BY <1>4, <1>5
<1> HIDE DEF e, c
<1>7. \A v, w \in Workers : e[v] = e[w] => v = w
  BY <1>2, <1>4
<1>8. \A i, j \in 1..Procs : c[i] = c[j] => i = j
  BY <1>3, <1>5
<1>9. \A w \in Workers, j \in 1..Procs : e[w] # c[j]
  <2>1. \A w \in Workers, j \in 1..Procs : todo[w].last # pcchan[j].last
    <3>1. ASSUME NEW w \in Workers, NEW j \in 1..Procs PROVE todo[w].last # pcchan[j].last
      <4>1. todo[w].last < pcchan[j].last /\ todo[w].last \in Nat /\ pcchan[j].last \in Nat
        BY <1>2, <1>3
      <4> QED
        BY <4>1
    <3> QED
      BY <3>1
  <2> QED
    BY <1>4, <1>5, <2>1
<1>10. 2 * Procs <= n
  BY <1>1, <1>4, <1>5, <1>6, <1>7, <1>8, <1>9, ManyBatches
<1>11. B * n <= fed
  <2>1. fed % B \in 0..(B - 1) /\ fed = B * n + (fed % B)
    BY <1>1, Quotient
  <2>2. B * n \in Nat
    BY <1>1
  <2> HIDE DEF n
  <2> QED
    BY <1>1, <2>1, <2>2
<1>12. PICK d \in Nat : n = 2 * Procs + d
  <2>1. n - 2 * Procs \in Nat /\ n = 2 * Procs + (n - 2 * Procs)
    BY <1>1, <1>10
  <2> QED
    BY <2>1
<1>13. B * n = 2 * Procs * B + B * d /\ B * d \in Nat /\ 2 * Procs * B \in Nat
  <2> HIDE DEF n
  <2>1. B * (2 * Procs + d) = 2 * Procs * B + B * d
    BY <1>1
  <2> QED
    BY <1>1, <1>12, <2>1
<1> HIDE DEF n
<1> QED
  BY <1>1, <1>11, <1>13

(* The pool can come to a stop only with main waiting to hand over a batch *)
(* (addr2line.go:207) and every goroutine gone on an error, and only with  *)
(* a list longer than the goroutines and the channel hold.                 *)
THEOREM StoppedWhenAllLost == Spec => [](Running /\ Blocked => AllLost)
<1>1. ASSUME IndInv, SliceInv, GotInv, ReportNeverBlocks, Running, Blocked PROVE AllLost
  <2>1. main = "feeding"
    BY <1>1, NotCollecting
  <2>2. \A w \in Workers : work[w] = "gone" /\ HasTodo(w)
    BY <1>1, <2>1, AllGone
  <2>3. \A w \in Workers : Lost(w)
    BY <1>1, <2>2 DEF Lost, Span, HasTodo, IndInv, TypeOK, Batches
  <2> QED
    BY <1>1, <2>1, <2>2, <2>3, StuckTakesMany DEF AllLost
<1>2. Spec => []GotInv
  BY GotInit, GotStep, Inductive, PTL DEF Spec
<1>3. Spec => []SliceInv
  BY Inductive, SliceInit, SliceStep, PTL DEF Spec
<1> QED
  BY <1>1, <1>2, <1>3, Inductive, ReportsGetThrough, PTL

(* A pool that has stopped stays so: where nobody can step by Blocked,     *)
(* and when the program has ended, nothing changes any more.               *)
THEOREM BlockedForGood == Spec => [][main = "listing" \/ (Running /\ ~Blocked)]_vars
<1>1. ASSUME IndInv, Next PROVE main = "listing" \/ (Running /\ ~Blocked)
  <2>1. fed \in Nat /\ npcs \in Nat /\ Len(pcchan) \in Nat /\ Len(errC) \in Nat /\ Procs \in Nat
    <3>1. TypeOK
      BY <1>1 DEF IndInv
    <3>2. pcchan \in Seq(Batches) /\ errC \in Seq({"nil", "err"})
      BY <3>1 DEF TypeOK
    <3>3. fed \in Nat /\ npcs \in Nat
      BY <3>1, PoolAssumption DEF TypeOK
    <3> QED
      BY <3>2, <3>3, ProcsType
  <2>2. CASE ListPCs
    BY <2>2 DEF ListPCs
  <2>3. CASE Feed \/ ClosePCs
    <3>1. main = "feeding" /\ ~(fed < npcs /\ Len(pcchan) >= ChanCap)
      BY <2>1, <2>3 DEF Feed, ClosePCs, ChanCap
    <3> QED
      BY <3>1 DEF Running, Blocked
  <2>4. CASE Collect
    BY <2>4 DEF Collect, Running, Blocked
  <2>5. ASSUME NEW w \in Workers, WorkerStep(w) PROVE Running /\ ~Blocked
    <3>1. /\ Running
          /\ \/ work[w] \in {"working", "printing"}
             \/ work[w] = "receiving" /\ (pcchan # << >> \/ closed)
             \/ work[w] \in {"nil", "err"} /\ Len(errC) < ErrCap
      BY <2>5 DEF WorkerStep, Receive, EndOfPCs, Addr2line, SymbolizeError, Addr2linePanic,
         SymbolizeArray, PrintLegacy, Report
    <3> QED
      BY <2>1, <3>1 DEF Blocked, ErrCap
  <2> QED
    BY <1>1, <2>2, <2>3, <2>4, <2>5 DEF Next, MainStep
<1> QED
  BY <1>1, Inductive, PTL DEF Spec

-----------------------------------------------------------------------------
(* The work that is left.  Of a pc: to hand it over, to receive it, to ask *)
(* for it and to print it; of a goroutine: to leave its loop and to        *)
(* report; of main: to receive a result of each, and its stages.           *)
Unfed == {p \in PCs : main = "listing" \/ p \in (fed + 1)..npcs}
Untaken == {p \in PCs : p \in Unfed \/ \E j \in 1..Len(pcchan) : p \in Span(pcchan[j])}
Unasked == {p \in PCs : handled[p] = 0 /\ \A w \in Workers : work[w] = "printing" => p \notin Span(todo[w])}
Unhandled == {p \in PCs : handled[p] = 0}
Looping == {w \in Workers : work[w] \in {"receiving", "working", "printing"}}
Unreported == {w \in Workers : work[w] # "gone"}
Uncollected == (got + 1)..Procs
Stages == CASE main = "listing"    -> 1..3
            [] main = "feeding"    -> 1..2
            [] main = "collecting" -> 1..1
            [] OTHER               -> {}

Left ==
    ({"feed"} \X Unfed) \cup ({"take"} \X Untaken) \cup ({"ask"} \X Unasked)
        \cup ({"print"} \X Unhandled)
        \cup ({"loop"} \X Looping) \cup ({"report"} \X Unreported)
        \cup ({"collect"} \X Uncollected) \cup ({"stage"} \X Stages)

LEMMA LeftFacts ==
    /\ \A x : <<"feed", x>> \in Left <=> x \in Unfed
    /\ \A x : <<"take", x>> \in Left <=> x \in Untaken
    /\ \A x : <<"ask", x>> \in Left <=> x \in Unasked
    /\ \A x : <<"print", x>> \in Left <=> x \in Unhandled
    /\ \A x : <<"loop", x>> \in Left <=> x \in Looping
    /\ \A x : <<"report", x>> \in Left <=> x \in Unreported
    /\ \A x : <<"collect", x>> \in Left <=> x \in Uncollected
    /\ \A x : <<"stage", x>> \in Left <=> x \in Stages
BY DEF Left

LEMMA LeftFactsNext ==
    /\ \A x : <<"feed", x>> \in Left' <=> x \in Unfed'
    /\ \A x : <<"take", x>> \in Left' <=> x \in Untaken'
    /\ \A x : <<"ask", x>> \in Left' <=> x \in Unasked'
    /\ \A x : <<"print", x>> \in Left' <=> x \in Unhandled'
    /\ \A x : <<"loop", x>> \in Left' <=> x \in Looping'
    /\ \A x : <<"report", x>> \in Left' <=> x \in Unreported'
    /\ \A x : <<"collect", x>> \in Left' <=> x \in Uncollected'
    /\ \A x : <<"stage", x>> \in Left' <=> x \in Stages'
BY DEF Left

(* Nothing is added, and something is taken away. *)
OfNone ==
    /\ Unfed' \subseteq Unfed /\ Untaken' \subseteq Untaken
    /\ Unasked' \subseteq Unasked /\ Unhandled' \subseteq Unhandled
    /\ Looping' \subseteq Looping /\ Unreported' \subseteq Unreported
    /\ Uncollected' \subseteq Uncollected /\ Stages' \subseteq Stages
OfSome ==
    \/ \E x \in Unfed : x \notin Unfed'
    \/ \E x \in Untaken : x \notin Untaken'
    \/ \E x \in Unasked : x \notin Unasked'
    \/ \E x \in Unhandled : x \notin Unhandled'
    \/ \E x \in Looping : x \notin Looping'
    \/ \E x \in Unreported : x \notin Unreported'
    \/ \E x \in Uncollected : x \notin Uncollected'
    \/ \E x \in Stages : x \notin Stages'

LEMMA LeftShrinks == ASSUME OfNone, OfSome PROVE Left' \subseteq Left /\ Left' # Left
<1>1. Left' \subseteq Left
  BY DEF OfNone, Left
<1>2. \E x : x \in Left /\ x \notin Left'
  BY LeftFacts, LeftFactsNext DEF OfSome
<1> QED
  BY <1>1, <1>2

LEMMA LeftIsFinite == ASSUME TypeOK PROVE IsFiniteSet(Left)
<1> DEFINE Tags == {"feed", "take", "ask", "print", "loop", "report", "collect", "stage"}
           Things == PCs \cup Workers \cup (1..Procs) \cup (1..3)
<1>1. IsFiniteSet(PCs) /\ IsFiniteSet(1..Procs) /\ IsFiniteSet(1..3) /\ IsFiniteSet(Workers)
  <2>1. 1 \in Int /\ MaxPCs \in Int /\ Procs \in Int /\ 3 \in Int
    BY ProcsType, PoolAssumption
  <2>2. \A n \in Int : IsFiniteSet(1..n)
    BY FS_Interval
  <2>3. IsFiniteSet(1..MaxPCs) /\ IsFiniteSet(1..Procs) /\ IsFiniteSet(1..3)
    BY <2>1, <2>2
  <2> QED
    BY <2>3, PoolAssumption DEF PCs
<1>2. IsFiniteSet(Things)
  <2>1. IsFiniteSet(PCs \cup Workers)
    BY <1>1, FS_Union
  <2>2. IsFiniteSet((PCs \cup Workers) \cup (1..Procs))
    BY <1>1, <2>1, FS_Union
  <2> QED
    BY <1>1, <2>2, FS_Union
<1>3. IsFiniteSet(Tags)
  <2>1. Tags = {"feed"} \cup {"take"} \cup {"ask"} \cup {"print"} \cup {"loop"} \cup {"report"}
                  \cup {"collect"} \cup {"stage"}
    OBVIOUS
  <2>2. \A x : IsFiniteSet({x})
    BY FS_Singleton
  <2> HIDE DEF Tags
  <2>3. IsFiniteSet({"feed"} \cup {"take"})
    BY <2>2, FS_Union
  <2>4. IsFiniteSet({"feed"} \cup {"take"} \cup {"ask"})
    BY <2>2, <2>3, FS_Union
  <2>5. IsFiniteSet({"feed"} \cup {"take"} \cup {"ask"} \cup {"print"})
    BY <2>2, <2>4, FS_Union
  <2>6. IsFiniteSet({"feed"} \cup {"take"} \cup {"ask"} \cup {"print"} \cup {"loop"})
    BY <2>2, <2>5, FS_Union
  <2>7. IsFiniteSet({"feed"} \cup {"take"} \cup {"ask"} \cup {"print"} \cup {"loop"} \cup {"report"})
    BY <2>2, <2>6, FS_Union
  <2>8. IsFiniteSet({"feed"} \cup {"take"} \cup {"ask"} \cup {"print"} \cup {"loop"} \cup {"report"}
                       \cup {"collect"})
    BY <2>2, <2>7, FS_Union
  <2> QED
    BY <2>1, <2>2, <2>8, FS_Union
<1>4. IsFiniteSet(Tags \X Things)
  BY <1>2, <1>3, FS_Product
<1>5. Uncollected \subseteq 1..Procs /\ Stages \subseteq 1..3
  <2>1. got \in Nat
    BY ProcsType DEF TypeOK
  <2> QED
    BY <2>1, ProcsType DEF Uncollected, Stages
<1>6. Left \subseteq Tags \X Things
  BY <1>5 DEF Left, Unfed, Untaken, Unasked, Unhandled, Looping, Unreported
<1> QED
  BY <1>4, <1>6, FS_Subset

LEMMA MainShrinks == ASSUME IndInv, ListPCs \/ ClosePCs \/ Collect PROVE OfNone /\ OfSome
<1>1. /\ pcchan' = pcchan /\ work' = work /\ todo' = todo /\ handled' = handled
      /\ main' # "listing" /\ fed' = fed
      /\ (main # "listing" => npcs' = npcs)
  BY DEF ListPCs, ClosePCs, Collect
<1>2. Unfed' \subseteq Unfed
  BY <1>1 DEF Unfed
<1>3. /\ Untaken' \subseteq Untaken /\ Unasked' = Unasked /\ Unhandled' = Unhandled
      /\ Looping' = Looping /\ Unreported' = Unreported
  BY <1>1, <1>2 DEF Untaken, Unasked, Unhandled, Looping, Unreported
<1>4. got \in Nat /\ Procs \in Nat /\ (got' = got \/ got' = got + 1)
  BY ProcsType DEF ListPCs, ClosePCs, Collect, IndInv, TypeOK
<1>5. Uncollected' \subseteq Uncollected
  BY <1>4 DEF Uncollected
<1>6. Stages' \subseteq Stages
  BY DEF ListPCs, ClosePCs, Collect, Stages
<1>7. OfSome
  <2>1. CASE ListPCs
    <3>1. 3 \in Stages /\ 3 \notin Stages'
      BY <2>1 DEF ListPCs, Stages
    <3> QED
      BY <3>1 DEF OfSome
  <2>2. CASE ClosePCs
    <3>1. 2 \in Stages /\ 2 \notin Stages'
      BY <2>2 DEF ClosePCs, Stages
    <3> QED
      BY <3>1 DEF OfSome
  <2>3. CASE Collect /\ Head(errC) = "err"
    <3>1. 1 \in Stages /\ 1 \notin Stages'
      BY <2>3 DEF Collect, Stages
    <3> QED
      BY <3>1 DEF OfSome
  <2>4. CASE Collect /\ Head(errC) # "err"
    <3>1. got' = got + 1 /\ main = "collecting"
      BY <2>4 DEF Collect
    <3>2. got < Procs
      <4>1. Cardinality(Gone) = got + Len(errC) /\ errC # << >> /\ errC \in Seq({"nil", "err"})
        BY <2>4 DEF Collect, IndInv, MainInv, TypeOK
      <4>2. Len(errC) \in Nat \ {0}
        BY <4>1, EmptySeq
      <4> QED
        BY <1>4, <4>1, <4>2, GoneFacts
    <3>3. (got + 1) \in Uncollected /\ (got + 1) \notin Uncollected'
      BY <1>4, <3>1, <3>2 DEF Uncollected
    <3> QED
      BY <3>3 DEF OfSome
  <2> QED
    BY <2>1, <2>2, <2>3, <2>4
<1> QED
  BY <1>2, <1>3, <1>5, <1>6, <1>7 DEF OfNone

LEMMA FeedShrinks == ASSUME IndInv, Feed PROVE OfNone /\ OfSome
<1> DEFINE end == Least(fed + BatchSize, npcs)
           b == [first |-> fed + 1, last |-> end]
<1>1. /\ main = "feeding" /\ main' = "feeding" /\ fed < npcs
      /\ pcchan' = Append(pcchan, b) /\ fed' = end
      /\ UNCHANGED <<npcs, work, todo, got, handled, silent>>
  BY DEF Feed
<1>2. /\ fed \in Nat /\ npcs \in Nat /\ end \in Nat /\ fed < end /\ end <= npcs /\ npcs <= MaxPCs
      /\ b \in Batches /\ b.first = fed + 1 /\ b.last = end
  BY <1>1, PoolAssumption DEF IndInv, TypeOK, Least, Batches
<1> HIDE DEF end, b
<1>3. /\ Len(pcchan) \in Nat /\ Len(pcchan') = Len(pcchan) + 1
      /\ \A k \in 1..Len(pcchan) : pcchan'[k] = pcchan[k]
      /\ pcchan'[Len(pcchan) + 1] = b
  BY <1>1, <1>2, AppendFacts DEF IndInv, TypeOK
<1>4. Unfed' \subseteq Unfed
  BY <1>1, <1>2 DEF Unfed, PCs
<1>5. Untaken' \subseteq Untaken
  <2> SUFFICES ASSUME NEW p \in Untaken' PROVE p \in Untaken
    OBVIOUS
  <2>1. p \in PCs /\ (p \in Unfed' \/ \E j \in 1..Len(pcchan') : p \in Span(pcchan'[j]))
    BY DEF Untaken
  <2>2. CASE p \in Unfed'
    BY <2>1, <2>2, <1>4 DEF Untaken
  <2>3. ASSUME NEW j \in 1..Len(pcchan'), p \in Span(pcchan'[j]) PROVE p \in Untaken
    <3>1. CASE j \in 1..Len(pcchan)
      BY <2>1, <2>3, <3>1, <1>3 DEF Untaken, Span
    <3>2. CASE j = Len(pcchan) + 1
      <4>1. p \in (fed + 1)..npcs
        BY <2>3, <3>2, <1>2, <1>3 DEF Span
      <4> QED
        BY <2>1, <4>1 DEF Untaken, Unfed
    <3> QED
      BY <3>1, <3>2, <1>3
  <2> QED
    BY <2>1, <2>2, <2>3
<1>6. /\ Unasked' = Unasked /\ Unhandled' = Unhandled /\ Looping' = Looping
      /\ Unreported' = Unreported /\ Uncollected' = Uncollected /\ Stages' = Stages
  BY <1>1 DEF Unasked, Unhandled, Looping, Unreported, Uncollected, Stages, Span
<1>7. (fed + 1) \in Unfed /\ (fed + 1) \notin Unfed'
  BY <1>1, <1>2, PoolAssumption DEF Unfed, PCs
<1> QED
  BY <1>4, <1>5, <1>6, <1>7 DEF OfNone, OfSome

LEMMA HeldFirst ==
    ASSUME IndInv, NEW w \in Workers, work[w] \in {"working", "printing"}
    PROVE  todo[w].first \in PCs /\ todo[w].first \in Span(todo[w])
<1>1. /\ todo[w] \in Batches /\ todo[w].first <= todo[w].last /\ todo[w].last <= fed
      /\ fed \in Nat /\ npcs \in Nat /\ fed <= npcs /\ npcs <= MaxPCs
  BY PoolAssumption DEF IndInv, TypeOK, WorkInv, HasTodo, HeldInv
<1> QED
  BY <1>1, PoolAssumption DEF Batches, PCs, Span

LEMMA WorkerShrinks ==
    ASSUME IndInv, NEW w \in Workers, WorkerStep(w)
    PROVE  OfNone /\ OfSome
<1>1. TypeOK
  BY DEF IndInv
<1>2. /\ fed' = fed /\ npcs' = npcs /\ got' = got /\ Running
      /\ main' = main \/ main' = "crashed"
  BY DEF WorkerStep, Receive, EndOfPCs, Addr2line, SymbolizeError, Addr2linePanic,
     SymbolizeArray, PrintLegacy, Report, HandleFirst
<1>3. Unfed' \subseteq Unfed /\ Uncollected' = Uncollected /\ Stages' \subseteq Stages
  BY <1>2 DEF Unfed, Uncollected, Stages, Running
<1>4. CASE Receive(w)
  <2>1. /\ work[w] = "receiving" /\ pcchan # << >>
        /\ todo' = [todo EXCEPT ![w] = Head(pcchan)] /\ pcchan' = Tail(pcchan)
        /\ work' = [work EXCEPT ![w] = "working"] /\ handled' = handled /\ main' = main
    BY <1>4 DEF Receive
  <2>2. /\ Len(pcchan) \in Nat \ {0} /\ Len(pcchan') = Len(pcchan) - 1
        /\ \A k \in 1..Len(pcchan') : pcchan'[k] = pcchan[k + 1]
    BY <1>1, <2>1, TailFacts DEF TypeOK
  <2>3. Untaken' \subseteq Untaken
    <3> SUFFICES ASSUME NEW p \in Untaken' PROVE p \in Untaken
      OBVIOUS
    <3>1. p \in PCs /\ (p \in Unfed' \/ \E j \in 1..Len(pcchan') : p \in Span(pcchan'[j]))
      BY DEF Untaken
    <3>2. ASSUME NEW j \in 1..Len(pcchan'), p \in Span(pcchan'[j]) PROVE p \in Untaken
      <4>1. j + 1 \in 1..Len(pcchan) /\ p \in Span(pcchan[j + 1])
        BY <3>2, <2>2 DEF Span
      <4> QED
        BY <3>1, <4>1 DEF Untaken
    <3> QED
      BY <3>1, <3>2, <1>3 DEF Untaken
  <2>4. Unasked' \subseteq Unasked
    <3> SUFFICES ASSUME NEW p \in PCs, handled[p] = 0,
                        \A v \in Workers : work'[v] = "printing" => p \notin Span(todo'[v]),
                        NEW v \in Workers, work[v] = "printing"
                 PROVE  p \notin Span(todo[v])
      BY <2>1 DEF Unasked, Span
    <3>1. v # w /\ work'[v] = "printing" /\ todo'[v] = todo[v]
      BY <2>1, <1>1 DEF TypeOK
    <3> QED
      BY <3>1 DEF Span
  <2>5. /\ Unhandled' = Unhandled /\ Looping' \subseteq Looping /\ Unreported' \subseteq Unreported
    BY <2>1, <1>1 DEF Unhandled, Looping, Unreported, TypeOK
  <2>6. OfSome
    <3> DEFINE p == pcchan[1].first
    <3>1. 1 \in 1..Len(pcchan) /\ pcchan[1] \in Batches /\ pcchan[1].first <= pcchan[1].last
          /\ pcchan[1].last <= fed /\ fed <= npcs /\ npcs <= MaxPCs /\ fed \in Nat /\ npcs \in Nat
      BY <2>2, <1>1, PoolAssumption DEF TypeOK, IndInv, QueueInv
    <3>2. p \in PCs /\ p \in Span(pcchan[1]) /\ p <= fed
      BY <3>1, PoolAssumption DEF PCs, Span, Batches
    <3>3. \A j \in 1..Len(pcchan') : p \notin Span(pcchan'[j])
      <4> SUFFICES ASSUME NEW j \in 1..Len(pcchan') PROVE p \notin Span(pcchan[j + 1])
        BY <2>2 DEF Span
      <4>1. j + 1 \in 1..Len(pcchan) /\ 1 < j + 1
        BY <2>2
      <4>2. pcchan[1].last < pcchan[j + 1].first
        BY <3>1, <4>1 DEF IndInv, QueueInv, Precedes
      <4>3. pcchan[j + 1] \in Batches
        BY <4>1, <1>1 DEF TypeOK
      <4> QED
        BY <3>1, <4>2, <4>3 DEF Span, Batches
    <3>4. main # "listing" /\ p \notin Unfed'
      BY <1>2, <2>1, <3>1, <3>2, PoolAssumption DEF Running, Unfed, PCs
    <3>5. p \in Untaken
      BY <3>1, <3>2 DEF Untaken
    <3>6. p \notin Untaken'
      BY <3>3, <3>4 DEF Untaken
    <3> QED
      BY <3>5, <3>6 DEF OfSome
  <2> QED
    BY <1>3, <2>3, <2>4, <2>5, <2>6 DEF OfNone
<1>5. CASE EndOfPCs(w) \/ SymbolizeError(w)
  <2>1. /\ work[w] \in {"receiving", "working"} /\ pcchan' = pcchan /\ todo' = todo
        /\ handled' = handled /\ main' = main
        /\ work' = [work EXCEPT ![w] = "nil"] \/ work' = [work EXCEPT ![w] = "err"]
    BY <1>5 DEF EndOfPCs, SymbolizeError
  <2>2. \A v \in Workers : v # w => work'[v] = work[v]
    BY <2>1, <1>1 DEF TypeOK
  <2>3. work'[w] \in {"nil", "err"}
    BY <2>1, <1>1 DEF TypeOK
  <2>4. /\ Untaken' \subseteq Untaken /\ Unhandled' = Unhandled
        /\ Looping' \subseteq Looping /\ Unreported' \subseteq Unreported
    BY <1>3, <2>1, <2>2, <2>3 DEF Untaken, Unhandled, Looping, Unreported, Span
  <2>5. Unasked' \subseteq Unasked
    BY <2>1, <2>2 DEF Unasked, Span
  <2>6. w \in Looping /\ w \notin Looping'
    BY <2>1, <2>3 DEF Looping
  <2> QED
    BY <1>3, <2>4, <2>5, <2>6 DEF OfNone, OfSome
<1>6. CASE Report(w)
  <2>1. /\ work[w] \in {"nil", "err"} /\ pcchan' = pcchan /\ todo' = todo
        /\ handled' = handled /\ main' = main
        /\ work' = [work EXCEPT ![w] = "gone"]
    BY <1>6 DEF Report
  <2>2. \A v \in Workers : v # w => work'[v] = work[v]
    BY <2>1, <1>1 DEF TypeOK
  <2>3. work'[w] = "gone"
    BY <2>1, <1>1 DEF TypeOK
  <2>4. /\ Untaken' \subseteq Untaken /\ Unhandled' = Unhandled
        /\ Looping' \subseteq Looping /\ Unreported' \subseteq Unreported
    BY <1>3, <2>1, <2>2, <2>3 DEF Untaken, Unhandled, Looping, Unreported, Span
  <2>5. Unasked' \subseteq Unasked
    BY <2>1, <2>2 DEF Unasked, Span
  <2>6. w \in Unreported /\ w \notin Unreported'
    BY <2>1, <2>3 DEF Unreported
  <2> QED
    BY <1>3, <2>4, <2>5, <2>6 DEF OfNone, OfSome
<1>7. CASE Addr2linePanic(w)
  <2>1. /\ main' = "crashed" /\ UNCHANGED <<pcchan, work, todo, handled, silent>>
    BY <1>7 DEF Addr2linePanic
  <2>2. /\ Untaken' \subseteq Untaken /\ Unhandled' = Unhandled /\ Unasked' = Unasked
        /\ Looping' = Looping /\ Unreported' = Unreported
    BY <1>3, <2>1 DEF Untaken, Unasked, Unhandled, Looping, Unreported, Span
  <2>3. 1 \in Stages /\ 1 \notin Stages'
    BY <1>2, <2>1 DEF Stages, Running
  <2> QED
    BY <1>3, <2>2, <2>3 DEF OfNone, OfSome
<1>8. CASE SymbolizeArray(w)
  <2>1. /\ work[w] = "working" /\ UNCHANGED <<main, pcchan, todo, handled, silent>>
        /\ work' = [work EXCEPT ![w] = "printing"]
    BY <1>8 DEF SymbolizeArray
  <2>2. (\A v \in Workers : v # w => work'[v] = work[v]) /\ work'[w] = "printing"
    BY <2>1, <1>1 DEF TypeOK
  <2>3. /\ Untaken' \subseteq Untaken /\ Unhandled' = Unhandled
        /\ Looping' \subseteq Looping /\ Unreported' \subseteq Unreported
    BY <1>3, <2>1, <2>2 DEF Untaken, Unhandled, Looping, Unreported, Span
  <2>4. Unasked' \subseteq Unasked
    BY <2>1, <2>2 DEF Unasked, Span
  <2>5. todo[w].first \in PCs /\ todo[w].first \in Span(todo[w])
    BY <2>1, HeldFirst
  <2>6. handled[todo[w].first] = 0
    BY <2>5, <1>1 DEF IndInv, PlaceInv
  <2>7. todo[w].first \in Unasked
    <3> SUFFICES ASSUME NEW v \in Workers, work[v] = "printing", todo[w].first \in Span(todo[v])
                 PROVE  FALSE
      BY <2>5, <2>6 DEF Unasked
    <3>1. v # w
      BY <2>1
    <3>2. Precedes(todo[w], todo[v]) \/ Precedes(todo[v], todo[w])
      BY <3>1 DEF IndInv, HeldInv
    <3>3. todo[v] \in Batches /\ todo[w] \in Batches
      BY <1>1 DEF TypeOK
    <3> QED
      BY <2>5, <3>2, <3>3 DEF Precedes, Span, Batches
  <2>8. todo[w].first \notin Unasked'
    BY <2>1, <2>2, <2>5 DEF Unasked, Span
  <2> QED
    BY <1>3, <2>3, <2>4, <2>7, <2>8 DEF OfNone, OfSome
<1>9. CASE Addr2line(w) \/ PrintLegacy(w)
  <2> DEFINE p == todo[w].first
  <2>1. /\ work[w] \in {"working", "printing"} /\ UNCHANGED <<main, pcchan>>
        /\ HandleFirst(w)
    BY <1>9 DEF Addr2line, PrintLegacy
  <2>2. p \in PCs /\ p \in Span(todo[w]) /\ handled[p] = 0
    <3>1. p \in PCs /\ p \in Span(todo[w])
      BY <2>1, HeldFirst
    <3> QED
      BY <3>1 DEF IndInv, PlaceInv
  <2>3. /\ handled' = [handled EXCEPT ![p] = @ + 1]
        /\ \A v \in Workers : v # w => work'[v] = work[v] /\ todo'[v] = todo[v]
        /\ work'[w] = "receiving" \/ (work'[w] = work[w] /\ todo[w].first # todo[w].last)
        /\ todo[w].first = todo[w].last => work'[w] = "receiving"
        /\ todo'[w] = [first |-> p + 1, last |-> todo[w].last] /\ todo[w] \in Batches
    BY <2>1, <1>1 DEF HandleFirst, TypeOK, Batches
  <2>4. \A q \in PCs : q # p => handled'[q] = handled[q]
    BY <2>3, <1>1 DEF TypeOK
  <2>5. handled'[p] = 1
    BY <2>2, <2>3, <1>1 DEF TypeOK
  <2> HIDE DEF p
  <2>6. /\ Untaken' \subseteq Untaken
        /\ Looping' \subseteq Looping /\ Unreported' \subseteq Unreported
    BY <1>3, <2>1, <2>3 DEF Untaken, Looping, Unreported, Span
  <2>7. Unhandled' \subseteq Unhandled /\ p \in Unhandled /\ p \notin Unhandled'
    BY <2>2, <2>4, <2>5 DEF Unhandled
  <2>8. Unasked' \subseteq Unasked
    <3> SUFFICES ASSUME NEW q \in PCs, handled'[q] = 0,
                        \A v \in Workers : work'[v] = "printing" => q \notin Span(todo'[v]),
                        NEW v \in Workers, work[v] = "printing", q \in Span(todo[v])
                 PROVE  FALSE
      BY <2>4, <2>5 DEF Unasked, Span
    <3>1. v = w
      BY <2>3 DEF Span
    <3>2. q # p
      BY <2>5
    <3>3. q \in (p + 1)..todo[w].last
      BY <3>1, <3>2, <2>3 DEF p, Span, Batches
    <3>4. todo[w].first # todo[w].last
      BY <3>3, <2>3 DEF p, Batches
    <3>5. q \in Span(todo'[w])
      BY <3>3, <2>3 DEF Span
    <3>6. work'[w] # "printing"
      BY <3>5
    <3>7. work'[w] = IF todo[w].first = todo[w].last THEN "receiving" ELSE work[w]
      BY <2>1, <1>1 DEF HandleFirst, TypeOK
    <3> QED
      BY <3>1, <3>4, <3>6, <3>7
  <2> QED
    BY <1>3, <2>6, <2>7, <2>8 DEF OfNone, OfSome
<1> QED
  BY <1>4, <1>5, <1>6, <1>7, <1>8, <1>9 DEF WorkerStep

(* Every step of main or of a goroutine uses up some of the work that is   *)
(* left, which is finite, and none adds to it: whatever the scheduling and *)
(* the errors, the pool does no more than a bounded number of steps; with  *)
(* StoppedWhenAllLost, it ends or has lost every goroutine.                *)
THEOREM EveryStepCounts ==
    Spec => [](IsFiniteSet(Left)) /\ [][Left' \subseteq Left /\ Left' # Left]_vars
<1>1. IndInv => IsFiniteSet(Left)
  BY LeftIsFinite DEF IndInv
<1>2. ASSUME IndInv, Next PROVE Left' \subseteq Left /\ Left' # Left
  BY <1>2, MainShrinks, FeedShrinks, WorkerShrinks, LeftShrinks DEF Next, MainStep
<1> QED
  BY <1>1, <1>2, Inductive, PTL DEF Spec

=============================================================================
