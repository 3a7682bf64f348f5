------------------------- MODULE ParserCachesProofs -------------------------
(***************************************************************************)
(* Proofs about the caches of the package, for every number of callers and *)
(* calls, every set of files and numbers of units and subprograms.         *)
(***************************************************************************)
EXTENDS ParserCaches, TLAPS, SequenceTheorems, FiniteSetTheorems

-----------------------------------------------------------------------------
(* The keys. *)

Letters == Nat \cup UNION {{p[k] : k \in DOMAIN p} : p \in Paths}

LEMMA PathType == \A p \in Paths : p \in Seq(Letters)
<1> SUFFICES ASSUME NEW p \in Paths PROVE p \in Seq(Letters)
  OBVIOUS
<1>1. p \in Seq({p[k] : k \in DOMAIN p})
  BY CachesAssumption
<1>2. {p[k] : k \in DOMAIN p} \subseteq Letters
  BY DEF Letters
<1> QED
  BY <1>1, <1>2, SeqMonotonic

LEMMA LastLetter ==
    \A s, t \in Seq(Letters), e, f \in Letters : Append(s, e) = Append(t, f) => s = t /\ e = f
BY AppendInjective

LEMMA Associative ==
    \A s, t, u \in Seq(Letters) : (s \o t) \o u = s \o (t \o u)
BY ConcatAssociative

LEMMA UnitsAreLetters == CUs \subseteq Letters /\ SPs \subseteq Letters
BY CachesAssumption DEF CUs, SPs, Letters

LEMMA CUKeyType ==
    ASSUME NEW p \in Paths, NEW c \in CUs
    PROVE  /\ CUKey(p, c) \in Seq(Letters)
           /\ CUKey(p, c) = Append(p, c)
           /\ Len(CUKey(p, c)) = Len(p) + 1
<1>1. p \in Seq(Letters) /\ c \in Letters
  BY PathType, UnitsAreLetters
<1>2. CUKey(p, c) = Append(p, c)
  BY <1>1, AppendIsConcat DEF CUKey
<1> QED
  BY <1>1, <1>2, AppendProperties

LEMMA SPKeyType ==
    ASSUME NEW p \in Paths, NEW c \in CUs, NEW s \in SPs
    PROVE  /\ SPKey(p, c, s) = Append(CUKey(p, c), s)
           /\ Len(SPKey(p, c, s)) = Len(p) + 2
<1>1. p \in Seq(Letters) /\ c \in Letters /\ s \in Letters /\ Len(p) \in Nat
  BY PathType, UnitsAreLetters, LenProperties
<1>2. <<c>> \in Seq(Letters) /\ <<s>> \in Seq(Letters) /\ <<c, s>> = <<c>> \o <<s>>
  <2>1. /\ <<c>> \in Seq(Letters) /\ <<s>> \in Seq(Letters) /\ <<c, s>> \in Seq(Letters)
        /\ Len(<<c>>) = 1 /\ Len(<<s>>) = 1 /\ Len(<<c, s>>) = 2
    BY <1>1
  <2> DEFINE two == <<c>> \o <<s>>
  <2>2. two \in Seq(Letters) /\ Len(two) = 2 /\ two[1] = c /\ two[2] = s
    BY <2>1, ConcatProperties
  <2> HIDE DEF two
  <2>3. \A i \in 1..Len(<<c, s>>) : <<c, s>>[i] = two[i]
    BY <2>1, <2>2
  <2>4. <<c, s>> = two
    BY <2>1, <2>2, <2>3, SeqEqual
  <2> QED
    BY <2>1, <2>4 DEF two
<1>3. SPKey(p, c, s) = CUKey(p, c) \o <<s>>
  <2>1. (p \o <<c>>) \o <<s>> = p \o (<<c>> \o <<s>>)
    BY <1>1, <1>2, Associative, Zenon
  <2> QED
    BY <1>2, <2>1, Zenon DEF SPKey, CUKey
<1>4. CUKey(p, c) \in Seq(Letters) /\ Len(CUKey(p, c)) = Len(p) + 1
  BY CUKeyType
<1>5. SPKey(p, c, s) = Append(CUKey(p, c), s)
  BY <1>1, <1>3, <1>4, AppendIsConcat
<1>6. Len(Append(CUKey(p, c), s)) = Len(CUKey(p, c)) + 1
  BY <1>1, <1>4, AppendProperties
<1> QED
  BY <1>1, <1>4, <1>5, <1>6

(* The keys of files, units and subprograms are all different.             *)
LEMMA KeysDiffer ==
    ASSUME NEW p \in Paths, NEW q \in Paths, NEW c \in CUs, NEW d \in CUs,
           NEW s \in SPs, NEW r \in SPs
    PROVE  /\ p # CUKey(q, d) /\ p # SPKey(q, d, r) /\ CUKey(p, c) # SPKey(q, d, r)
           /\ CUKey(p, c) = CUKey(q, d) => p = q /\ c = d
           /\ SPKey(p, c, s) = SPKey(q, d, r) => p = q /\ c = d /\ s = r
<1>1. p \in Seq(Letters) /\ q \in Seq(Letters) /\ Len(p) \in Nat /\ Len(q) \in Nat
  BY PathType, LenProperties
<1>2. c \in Letters /\ d \in Letters /\ s \in Letters /\ r \in Letters
  BY UnitsAreLetters
<1>3. /\ CUKey(p, c) = Append(p, c) /\ CUKey(q, d) = Append(q, d)
      /\ CUKey(p, c) \in Seq(Letters) /\ CUKey(q, d) \in Seq(Letters)
      /\ Len(CUKey(q, d)) = Len(q) + 1
  BY CUKeyType
<1>4. /\ SPKey(p, c, s) = Append(CUKey(p, c), s) /\ SPKey(q, d, r) = Append(CUKey(q, d), r)
      /\ Len(SPKey(q, d, r)) = Len(q) + 2
  BY SPKeyType
<1>5. p # CUKey(q, d)
  <2>1. CASE p = q
    BY <2>1, <1>1, <1>3
  <2>2. CASE p # q
    BY <2>2, CachesAssumption
  <2> QED
    BY <2>1, <2>2
<1>6. p # SPKey(q, d, r)
  <2>1. CASE p = q
    BY <2>1, <1>1, <1>4
  <2>2. CASE p # q
    BY <2>2, CachesAssumption
  <2> QED
    BY <2>1, <2>2
<1>7. CUKey(p, c) = CUKey(q, d) => p = q /\ c = d
  BY <1>1, <1>2, <1>3, LastLetter, Zenon
<1> DEFINE k == CUKey(p, c)
           m == CUKey(q, d)
<1>8. k = SPKey(q, d, r) => p = m
  <2>1. Append(p, c) = Append(m, r) => p = m
    BY <1>1, <1>2, <1>3, LastLetter, Zenon
  <2> QED
    BY <1>3, <1>4, <2>1, Zenon
<1>9. SPKey(p, c, s) = SPKey(q, d, r) => k = m /\ s = r
  <2>1. Append(k, s) = Append(m, r) => k = m /\ s = r
    <3>1. k \in Seq(Letters) /\ m \in Seq(Letters)
      BY <1>3
    <3> HIDE DEF k, m
    <3> QED
      BY <3>1, <1>2, LastLetter
  <2> QED
    BY <1>4, <2>1, Zenon
<1> QED
  BY <1>5, <1>6, <1>7, <1>8, <1>9

-----------------------------------------------------------------------------
(* The invariant. *)

Stages == {"idle", "getFuncs", "getUnits", "getDwarf", "open", "parseUnits",
           "startScans", "collect", "getCU", "findCU", "getSP", "findSP"}

TypesInv ==
    /\ file \in [Paths -> {"fine", "elf", "top"}]
    /\ bad \in [Paths -> SUBSET CUs]
    /\ dwarf \subseteq Paths /\ units \subseteq dwarf
    /\ calls \in 0..MaxCalls
    /\ nth \in [Callers -> 0..calls]
    /\ call \in [Callers -> Calls]
    /\ at \in [Callers -> Stages]
    /\ DOMAIN acc = Callers /\ DOMAIN result = Callers
    /\ scanning \subseteq CallIds \X CUs
    /\ funcC \in [CallIds -> Seq(CUs)]

(* What is known of a call at each of its places. *)
StagesInv ==
    \A t \in Callers :
        /\ at[t] \in {"getFuncs", "startScans", "collect"} => call[t].op = "AllFuncs"
        /\ at[t] \in {"getCU", "findCU"} => call[t].op = "FuncsInCU"
        /\ at[t] \in {"getSP", "findSP"} => call[t].op = "Frames"
        /\ at[t] \in {"findCU", "findSP"} => call[t].cu # 0
        /\ at[t] = "parseUnits" => call[t].path \in dwarf
        /\ at[t] # "idle" => nth[t] # 0 /\ result[t] = NoResult
        /\ at[t] # "collect" => acc[t] = << >>

Before == {"getFuncs", "getUnits", "getDwarf", "open", "parseUnits", "startScans"}

(* No goroutine of call i was started. *)
Fresh(i) == funcC[i] = << >> /\ \A c \in CUs : <<i, c>> \notin scanning

(* What was gathered of a file before an error is of its good units. *)
GoodPieces(p) == {<<c>> : c \in CUs \ bad[p]}

(* A unit of a call is at most once in one of three places: being scanned, *)
(* in the channel, gathered.                                               *)
ScansInv ==
    /\ \A t, u \in Callers : nth[t] = nth[u] /\ nth[t] # 0 => t = u
    /\ \A i \in CallIds :
          /\ i > calls => Fresh(i)
          /\ Len(funcC[i]) <= NumCUs
          /\ \A j, k \in 1..Len(funcC[i]) : funcC[i][j] = funcC[i][k] => j = k
          /\ \A k \in 1..Len(funcC[i]) : <<i, funcC[i][k]>> \notin scanning
    /\ \A t \in Callers : at[t] \in Before => Fresh(nth[t])

GatheredOf(s, n, p) ==
    /\ s \in Seq(GoodPieces(p)) /\ Len(s) <= NumCUs
    /\ \A j, k \in 1..Len(s) : s[j] = s[k] => j = k
    /\ \A j \in 1..Len(s) : \A c \in CUs :
          s[j] = <<c>> => /\ <<n, c>> \notin scanning
                          /\ \A k \in 1..Len(funcC[n]) : funcC[n][k] # c

GatheredInv ==
    \A t \in Callers : at[t] = "collect" => GatheredOf(acc[t], nth[t], call[t].path)

UnitKeyFits ==
    \A p \in Paths, c \in CUs :
        CUKey(p, c) \in DOMAIN funcs => \E d \in CUs \ bad[p] : funcs[CUKey(p, c)] = << <<d>> >>

ListsInv == \A k \in DOMAIN funcs : funcs[k] \in Seq(Pieces)

FuncsInv == ListsInv /\ FileKeyIsWhole /\ UnitKeyFits /\ SubprogramKeyIsOwn

-----------------------------------------------------------------------------
(* Types. *)

LEMMA CallType ==
    ASSUME NEW c \in Calls
    PROVE  /\ c.path \in Paths
           /\ c.op \in {"AllFuncs", "FuncsInCU", "Frames"}
           /\ c.op # "AllFuncs" => c.cu \in CUs \cup {0}
           /\ c.op = "Frames" => c.sp \in SPs
BY DEF Calls

LEMMA TypesInit == Init => TypesInv
<1> SUFFICES ASSUME Init PROVE TypesInv
  OBVIOUS
<1>1. PICK p \in Paths : TRUE
  BY CachesAssumption
<1>2. [op |-> "AllFuncs", path |-> p] \in Calls
  BY DEF Calls
<1>3. (CHOOSE c \in Calls : TRUE) \in Calls
  BY <1>2
<1> QED
  BY <1>3, CachesAssumption DEF Init, TypesInv, Stages

(* A step of a caller is its own. *)
LEMMA CallerStepType ==
    ASSUME TypesInv, NEW t \in Callers, CallerStep(t)
    PROVE  /\ file' = file /\ bad' = bad /\ calls' = calls /\ nth' = nth /\ call' = call
           /\ at[t] # "idle" /\ at' \in [Callers -> Stages]
           /\ DOMAIN acc' = Callers /\ DOMAIN result' = Callers
           /\ \A u \in Callers \ {t} : at'[u] = at[u] /\ acc'[u] = acc[u] /\ result'[u] = result[u]
<1>1. /\ file' = file /\ bad' = bad /\ calls' = calls /\ nth' = nth /\ call' = call
      /\ at[t] # "idle"
  BY DEF CallerStep, GetFuncs, GetUnits, GetDwarf, Open, ParseUnits, StartScans, CollectFuncs,
         StoreFuncs, GetCU, FindCU, GetSP, FindSP, disk, caches
<1>2. \E l \in Stages : Goto(t, l)
  <2>1. AfterUnits(t) \in Stages
    BY CallType DEF AfterUnits, Stages, TypesInv
  <2> QED
    BY <2>1 DEF CallerStep, GetFuncs, GetUnits, GetDwarf, Open, ParseUnits, StartScans,
         CollectFuncs, StoreFuncs, GetCU, FindCU, GetSP, FindSP, Return, Goto, TypesInv, Stages
<1>3. \/ acc' = acc
      \/ \E a : acc' = [acc EXCEPT ![t] = a]
  BY DEF CallerStep, GetFuncs, GetUnits, GetDwarf, Open, ParseUnits, StartScans, CollectFuncs,
         StoreFuncs, GetCU, FindCU, GetSP, FindSP, Return
<1>4. \/ result' = result
      \/ \E r : result' = [result EXCEPT ![t] = r]
  BY DEF CallerStep, GetFuncs, GetUnits, GetDwarf, Open, ParseUnits, StartScans, CollectFuncs,
         StoreFuncs, GetCU, FindCU, GetSP, FindSP, Return
<1>5. at' \in [Callers -> Stages] /\ \A u \in Callers \ {t} : at'[u] = at[u]
  BY <1>2 DEF Goto, TypesInv
<1>6. DOMAIN acc' = Callers /\ \A u \in Callers \ {t} : acc'[u] = acc[u]
  BY <1>3 DEF TypesInv
<1>7. DOMAIN result' = Callers /\ \A u \in Callers \ {t} : result'[u] = result[u]
  BY <1>4 DEF TypesInv
<1> QED
  BY <1>1, <1>5, <1>6, <1>7

(* The operations that have nothing to do with the goroutines of a scan.   *)
LEMMA QuietStepType ==
    ASSUME TypesInv, NEW t \in Callers, CallerStep(t), ~StartScans(t), ~CollectFuncs(t)
    PROVE  /\ scanning' = scanning /\ funcC' = funcC
           /\ at'[t] # "collect"
           /\ at'[t] \in Before => at[t] \in Before
<1>1. scanning' = scanning /\ funcC' = funcC
  BY DEF CallerStep, GetFuncs, GetUnits, GetDwarf, Open, ParseUnits, StoreFuncs, GetCU, FindCU,
         GetSP, FindSP
<1>2. AfterUnits(t) \in {"startScans", "getCU", "getSP"}
  BY CallType DEF AfterUnits, TypesInv
<1>3. at'[t] # "collect" /\ (at'[t] \in Before => at[t] \in Before)
  BY <1>2 DEF CallerStep, GetFuncs, GetUnits, GetDwarf, Open, ParseUnits, StoreFuncs, GetCU, FindCU,
         GetSP, FindSP, Return, Goto, TypesInv, Before
<1> QED
  BY <1>1, <1>3

LEMMA EnterType ==
    ASSUME TypesInv, NEW t \in Callers, Enter(t)
    PROVE  /\ file' = file /\ bad' = bad /\ dwarf' = dwarf /\ units' = units /\ funcs' = funcs
           /\ acc' = acc /\ scanning' = scanning /\ funcC' = funcC
           /\ calls \in Nat /\ calls' = calls + 1 /\ calls' \in 1..MaxCalls
           /\ nth' \in [Callers -> 0..calls'] /\ nth'[t] = calls'
           /\ call' \in [Callers -> Calls]
           /\ at[t] = "idle" /\ at' \in [Callers -> Stages]
           /\ at'[t] = IF call'[t].op = "AllFuncs" THEN "getFuncs" ELSE "getUnits"
           /\ DOMAIN result' = Callers /\ result'[t] = NoResult
           /\ \A u \in Callers \ {t} : /\ nth'[u] = nth[u] /\ call'[u] = call[u]
                                       /\ at'[u] = at[u] /\ result'[u] = result[u]
<1>1. /\ file' = file /\ bad' = bad /\ dwarf' = dwarf /\ units' = units /\ funcs' = funcs
      /\ acc' = acc /\ scanning' = scanning /\ funcC' = funcC
  BY DEF Enter, disk, caches
<1>2. calls \in Nat /\ calls' = calls + 1 /\ calls' \in 1..MaxCalls
  BY CachesAssumption DEF Enter, TypesInv
<1>3. /\ nth' \in [Callers -> 0..calls'] /\ nth'[t] = calls'
      /\ \A u \in Callers \ {t} : nth'[u] = nth[u]
  BY <1>2 DEF Enter, TypesInv
<1>4. PICK c \in Calls :
         /\ call' = [call EXCEPT ![t] = c]
         /\ Goto(t, IF c.op = "AllFuncs" THEN "getFuncs" ELSE "getUnits")
  BY DEF Enter
<1>5. call' \in [Callers -> Calls] /\ call'[t] = c /\ \A u \in Callers \ {t} : call'[u] = call[u]
  BY <1>4 DEF TypesInv
<1>6. /\ at[t] = "idle" /\ at' \in [Callers -> Stages]
      /\ at'[t] = IF c.op = "AllFuncs" THEN "getFuncs" ELSE "getUnits"
      /\ \A u \in Callers \ {t} : at'[u] = at[u]
  BY <1>4 DEF Enter, Goto, TypesInv, Stages
<1>7. /\ DOMAIN result' = Callers /\ result'[t] = NoResult
      /\ \A u \in Callers \ {t} : result'[u] = result[u]
  BY DEF Enter, TypesInv
<1> QED
  BY <1>1, <1>2, <1>3, <1>5, <1>6, <1>7

LEMMA ScanType ==
    ASSUME TypesInv, NEW i \in CallIds, NEW c \in CUs, Scan(i, c)
    PROVE  /\ file' = file /\ bad' = bad /\ dwarf' = dwarf /\ units' = units /\ funcs' = funcs
           /\ calls' = calls /\ nth' = nth /\ call' = call /\ at' = at /\ acc' = acc
           /\ result' = result
           /\ <<i, c>> \in scanning /\ scanning' = scanning \ {<<i, c>>}
           /\ Len(funcC[i]) < NumCUs
           /\ funcC' \in [CallIds -> Seq(CUs)] /\ funcC'[i] = Append(funcC[i], c)
           /\ \A m \in CallIds \ {i} : funcC'[m] = funcC[m]
<1>1. Append(funcC[i], c) \in Seq(CUs)
  BY DEF TypesInv
<1> QED
  BY <1>1 DEF Scan, FuncCap, disk, caches, TypesInv

LEMMA CollectType ==
    ASSUME TypesInv, StagesInv, NEW t \in Callers, CollectFuncs(t)
    PROVE  LET i == nth[t]
               c == Head(funcC[i])
               p == call[t].path
           IN  /\ at[t] = "collect" /\ call[t].op = "AllFuncs" /\ i \in CallIds /\ p \in Paths
               /\ Len(acc[t]) + 1 <= NumCUs
               /\ funcC[i] # << >> /\ c \in CUs
               /\ dwarf' = dwarf /\ units' = units /\ scanning' = scanning
               /\ funcC' \in [CallIds -> Seq(CUs)] /\ funcC'[i] = Tail(funcC[i])
               /\ \A m \in CallIds \ {i} : funcC'[m] = funcC[m]
               /\ \/ /\ c \in bad[p] /\ funcs' = funcs
                     /\ at'[t] = "idle" /\ result'[t] = Error /\ acc'[t] = << >>
                  \/ /\ c \notin bad[p] /\ Store(CUKey(p, Len(acc[t]) + 1), << <<c>> >>)
                     /\ at' = at /\ result' = result /\ acc'[t] = Append(acc[t], <<c>>)
<1> DEFINE i == nth[t]
           c == Head(funcC[i])
           p == call[t].path
<1>1. /\ at[t] = "collect" /\ Len(acc[t]) + 1 <= NumCUs /\ funcC[i] # << >>
      /\ dwarf' = dwarf /\ units' = units /\ scanning' = scanning
      /\ funcC' = [funcC EXCEPT ![i] = Tail(@)]
  BY DEF CollectFuncs
<1>2. call[t].op = "AllFuncs" /\ i \in CallIds /\ p \in Paths
  <2>1. i # 0 /\ call[t].op = "AllFuncs"
    BY <1>1 DEF StagesInv
  <2>2. p \in Paths
    BY CallType DEF TypesInv
  <2>3. i \in 0..calls /\ calls \in 0..MaxCalls
    BY DEF TypesInv
  <2> QED
    BY <2>1, <2>2, <2>3, CachesAssumption DEF CallIds
<1>3. c \in CUs /\ Tail(funcC[i]) \in Seq(CUs)
  BY <1>1, <1>2, HeadTailProperties DEF TypesInv
<1>4. /\ funcC' \in [CallIds -> Seq(CUs)] /\ funcC'[i] = Tail(funcC[i])
      /\ \A m \in CallIds \ {i} : funcC'[m] = funcC[m]
  BY <1>1, <1>2, <1>3 DEF TypesInv
<1>5. \/ /\ c \in bad[p] /\ funcs' = funcs
         /\ at'[t] = "idle" /\ result'[t] = Error /\ acc'[t] = << >>
      \/ /\ c \notin bad[p] /\ Store(CUKey(p, Len(acc[t]) + 1), << <<c>> >>)
         /\ at' = at /\ result' = result /\ acc'[t] = Append(acc[t], <<c>>)
  BY DEF CollectFuncs, Return, Goto, TypesInv
<1> QED
  BY <1>1, <1>2, <1>3, <1>4, <1>5

LEMMA TypesStep == TypesInv /\ StagesInv /\ [Next]_vars => TypesInv'
<1> SUFFICES ASSUME TypesInv, StagesInv, [Next]_vars PROVE TypesInv'
  OBVIOUS
<1>1. ASSUME NEW t \in Callers, Enter(t)
      PROVE  TypesInv'
  BY <1>1, EnterType DEF TypesInv
<1>2. ASSUME NEW t \in Callers, CallerStep(t)
      PROVE  TypesInv'
  <2>1. /\ file' = file /\ bad' = bad /\ calls' = calls /\ nth' = nth /\ call' = call
        /\ at' \in [Callers -> Stages] /\ DOMAIN acc' = Callers /\ DOMAIN result' = Callers
    BY <1>2, CallerStepType
  <2>2. dwarf' \subseteq Paths /\ units' \subseteq dwarf'
    <3>1. call[t].path \in Paths
      BY CallType DEF TypesInv
    <3>2. at[t] = "parseUnits" => call[t].path \in dwarf
      BY DEF StagesInv
    <3> QED
      BY <1>2, <3>1, <3>2 DEF TypesInv, CallerStep, GetFuncs, GetUnits, GetDwarf, Open, ParseUnits,
         StartScans, CollectFuncs, StoreFuncs, GetCU, FindCU, GetSP, FindSP, caches
  <2>3. scanning' \subseteq CallIds \X CUs /\ funcC' \in [CallIds -> Seq(CUs)]
    <3>1. CASE StartScans(t)
      <4>1. nth[t] \in CallIds
        BY <3>1, CachesAssumption DEF StartScans, StagesInv, TypesInv, CallIds
      <4> QED
        BY <3>1, <4>1 DEF StartScans, TypesInv
    <3>2. CASE CollectFuncs(t)
      BY <3>2, CollectType DEF TypesInv
    <3>3. CASE ~StartScans(t) /\ ~CollectFuncs(t)
      BY <1>2, <3>3, QuietStepType DEF TypesInv
    <3> QED
      BY <3>1, <3>2, <3>3
  <2> QED
    BY <2>1, <2>2, <2>3 DEF TypesInv
<1>3. ASSUME NEW i \in CallIds, NEW c \in CUs, Scan(i, c)
      PROVE  TypesInv'
  BY <1>3, ScanType DEF TypesInv
<1>4. CASE UNCHANGED vars
  BY <1>4 DEF TypesInv, vars, disk, caches
<1> QED
  BY <1>1, <1>2, <1>3, <1>4 DEF Next, ScanStep

-----------------------------------------------------------------------------
(* The places of a call. *)

LEMMA StagesInit == Init => StagesInv
BY DEF Init, StagesInv

(* What the step of a caller leaves true of its own place. *)
LEMMA CallerStage ==
    ASSUME TypesInv, StagesInv, NEW t \in Callers, CallerStep(t)
    PROVE  /\ at'[t] \in {"getFuncs", "startScans", "collect"} => call[t].op = "AllFuncs"
           /\ at'[t] \in {"getCU", "findCU"} => call[t].op = "FuncsInCU"
           /\ at'[t] \in {"getSP", "findSP"} => call[t].op = "Frames"
           /\ at'[t] \in {"findCU", "findSP"} => call[t].cu # 0
           /\ at'[t] = "parseUnits" => call[t].path \in dwarf'
           /\ at'[t] # "idle" => result'[t] = result[t]
           /\ at'[t] # "collect" => acc'[t] = << >>
<1>1. CASE GetFuncs(t) \/ GetUnits(t) \/ GetDwarf(t) \/ Open(t) \/ ParseUnits(t)
  <2>1. /\ AfterUnits(t) = "startScans" => call[t].op = "AllFuncs"
        /\ AfterUnits(t) = "getCU" => call[t].op = "FuncsInCU"
        /\ AfterUnits(t) = "getSP" => call[t].op = "Frames"
        /\ AfterUnits(t) \in {"startScans", "getCU", "getSP"}
    BY CallType DEF AfterUnits, TypesInv
  <2>2. at[t] # "collect" /\ acc[t] = << >>
    BY <1>1 DEF GetFuncs, GetUnits, GetDwarf, Open, ParseUnits, StagesInv
  <2>3. CASE GetFuncs(t)
    BY <2>2, <2>3 DEF GetFuncs, Return, Goto, TypesInv
  <2>4. CASE GetUnits(t)
    BY <2>1, <2>2, <2>4 DEF GetUnits, Goto, TypesInv
  <2>5. CASE GetDwarf(t)
    BY <2>2, <2>5 DEF GetDwarf, Goto, TypesInv, caches
  <2>6. CASE Open(t)
    BY <2>2, <2>6 DEF Open, Return, Goto, TypesInv
  <2>7. CASE ParseUnits(t)
    BY <2>1, <2>2, <2>7 DEF ParseUnits, Return, Goto, TypesInv
  <2> QED
    BY <1>1, <2>3, <2>4, <2>5, <2>6, <2>7
<1>2. CASE StartScans(t)
  BY <1>2 DEF StartScans, Goto, TypesInv, StagesInv
<1>3. CASE CollectFuncs(t)
  BY <1>3, CollectType
<1>4. CASE StoreFuncs(t)
  BY <1>4 DEF StoreFuncs, Return, Goto, TypesInv
<1>5. CASE GetCU(t) \/ FindCU(t)
  BY <1>5 DEF GetCU, FindCU, Return, Goto, TypesInv, StagesInv
<1>6. CASE GetSP(t)
  BY <1>6 DEF GetSP, Return, Goto, TypesInv, StagesInv
<1>7. CASE FindSP(t)
  BY <1>7 DEF FindSP, Return, Goto, TypesInv
<1> QED
  BY <1>1, <1>2, <1>3, <1>4, <1>5, <1>6, <1>7 DEF CallerStep

LEMMA StagesStep == TypesInv /\ StagesInv /\ [Next]_vars => StagesInv'
<1> SUFFICES ASSUME TypesInv, StagesInv, [Next]_vars PROVE StagesInv'
  OBVIOUS
<1>1. ASSUME NEW t \in Callers, Enter(t)
      PROVE  StagesInv'
  <2>1. acc[t] = << >> /\ nth'[t] # 0
    BY <1>1, EnterType DEF StagesInv
  <2> QED
    BY <1>1, <2>1, EnterType DEF StagesInv
<1>2. ASSUME NEW t \in Callers, CallerStep(t)
      PROVE  StagesInv'
  <2>1. dwarf \subseteq dwarf'
    BY <1>2 DEF CallerStep, GetFuncs, GetUnits, GetDwarf, Open, ParseUnits, StartScans,
       CollectFuncs, StoreFuncs, GetCU, FindCU, GetSP, FindSP, caches
  <2>2. nth[t] # 0 /\ result[t] = NoResult
    BY <1>2, CallerStepType DEF StagesInv
  <2> QED
    BY <1>2, <2>1, <2>2, CallerStepType, CallerStage DEF StagesInv
<1>3. ASSUME NEW i \in CallIds, NEW c \in CUs, Scan(i, c)
      PROVE  StagesInv'
  BY <1>3, ScanType DEF StagesInv
<1>4. CASE UNCHANGED vars
  BY <1>4 DEF StagesInv, vars, disk, caches
<1> QED
  BY <1>1, <1>2, <1>3, <1>4 DEF Next, ScanStep

-----------------------------------------------------------------------------
(* The goroutines of the scans. *)

LEMMA ScansInit == Init => ScansInv
<1> SUFFICES ASSUME Init PROVE ScansInv
  OBVIOUS
<1>1. \A t \in Callers : nth[t] = 0 /\ at[t] = "idle"
  BY DEF Init
<1>2. \A i \in CallIds : funcC[i] = << >> /\ Len(funcC[i]) = 0 /\ Fresh(i)
  BY DEF Init, Fresh
<1> QED
  BY <1>1, <1>2, CachesAssumption DEF ScansInv, Before

LEMMA EnterScans ==
    ASSUME TypesInv, StagesInv, ScansInv, NEW t \in Callers, Enter(t)
    PROVE  ScansInv'
<1>1. /\ nth'[t] = calls + 1 /\ calls' = calls + 1 /\ calls \in Nat /\ calls + 1 \in CallIds
      /\ scanning' = scanning /\ funcC' = funcC /\ nth' \in [Callers -> 0..calls']
      /\ \A u \in Callers \ {t} : nth'[u] = nth[u] /\ at'[u] = at[u] /\ nth[u] \in 0..calls
  BY EnterType DEF TypesInv, CallIds
<1>2. \A i \in CallIds : Fresh(i)' <=> Fresh(i)
  BY <1>1 DEF Fresh
<1>3. \A u, v \in Callers : nth'[u] = nth'[v] /\ nth'[u] # 0 => u = v
  BY <1>1 DEF ScansInv
<1>4. \A i \in CallIds : i > calls' => Fresh(i)'
  BY <1>1, <1>2 DEF ScansInv, CallIds
<1>5. (\A u \in Callers : at[u] \in Before => Fresh(nth[u]))'
  <2>1. PICK new \in CallIds : new = calls + 1
    BY <1>1
  <2>2. Fresh(new)'
    BY <1>1, <1>2, <2>1 DEF ScansInv
  <2>3. \A u \in Callers \ {t} : at[u] \in Before => nth[u] \in CallIds /\ Fresh(nth[u])
    BY <1>1, CachesAssumption DEF StagesInv, TypesInv, CallIds, Before, ScansInv
  <2>4. \A u \in Callers : at'[u] \in Before => \E i \in CallIds : i = nth'[u] /\ Fresh(i)'
    BY <1>1, <1>2, <2>1, <2>2, <2>3
  <2> QED
    BY <2>4 DEF Fresh
<1> QED
  BY <1>1, <1>3, <1>4, <1>5 DEF ScansInv

LEMMA StartScansScans ==
    ASSUME TypesInv, StagesInv, ScansInv, NEW t \in Callers, StartScans(t)
    PROVE  /\ ScansInv' /\ acc'[t] = << >>
           /\ \A i \in CallIds, c \in CUs : i # nth[t] =>
                 (<<i, c>> \in scanning' <=> <<i, c>> \in scanning)
           /\ funcC' = funcC
<1>1. PICK n \in CallIds : n = nth[t]
  BY CachesAssumption DEF StartScans, StagesInv, TypesInv, CallIds
<1>2. /\ at[t] = "startScans" /\ at'[t] = "collect" /\ funcC' = funcC /\ calls' = calls
      /\ nth' = nth /\ acc' = acc
      /\ scanning' = scanning \cup {<<n, c>> : c \in CUs}
      /\ \A u \in Callers \ {t} : at'[u] = at[u]
  BY <1>1 DEF StartScans, Goto, TypesInv
<1>3. Fresh(n) /\ n <= calls /\ n # 0 /\ calls \in Nat
  BY <1>1, <1>2, CachesAssumption DEF ScansInv, Before, TypesInv, CallIds
<1>4. \A i \in CallIds, c \in CUs : i # n => (<<i, c>> \in scanning' <=> <<i, c>> \in scanning)
  BY <1>2
<1>5. \A i \in CallIds : i # n /\ Fresh(i) => Fresh(i)'
  BY <1>2, <1>4 DEF Fresh
<1>6. \A i \in CallIds : i > calls' => Fresh(i)'
  BY <1>2, <1>3, <1>5 DEF ScansInv, CallIds
<1>7. \A i \in CallIds : \A k \in 1..Len(funcC'[i]) : <<i, funcC'[i][k]>> \notin scanning'
  <2> SUFFICES ASSUME NEW i \in CallIds, NEW k \in 1..Len(funcC'[i])
               PROVE  <<i, funcC'[i][k]>> \notin scanning'
    OBVIOUS
  <2>1. i # n
    BY <1>2, <1>3 DEF Fresh
  <2>2. funcC[i][k] \in CUs /\ <<i, funcC[i][k]>> \notin scanning
    BY <1>2, ElementOfSeq DEF ScansInv, TypesInv
  <2> QED
    BY <1>2, <1>4, <2>1, <2>2
<1>8. (\A u \in Callers : at[u] \in Before => Fresh(nth[u]))'
  <2>1. \A u \in Callers : at'[u] \in Before =>
           u # t /\ at[u] \in Before /\ nth[u] # 0 /\ nth[u] \in CallIds
    BY <1>2, CachesAssumption DEF Before, StagesInv, TypesInv, CallIds
  <2>2. \A u \in Callers : at'[u] \in Before => nth[u] # n /\ nth[u] \in CallIds /\ Fresh(nth[u])
    BY <1>1, <2>1 DEF ScansInv
  <2>3. \A u \in Callers : at'[u] \in Before => \E i \in CallIds : i = nth'[u] /\ Fresh(i)'
    BY <1>2, <1>5, <2>2
  <2> QED
    BY <2>3 DEF Fresh
<1>9. acc[t] = << >>
  BY <1>2 DEF StagesInv
<1> QED
  BY <1>1, <1>2, <1>4, <1>6, <1>7, <1>8, <1>9 DEF ScansInv

(* One result less in the channel of a call. *)
LEMMA CollectScans ==
    ASSUME TypesInv, StagesInv, ScansInv, NEW t \in Callers, CollectFuncs(t)
    PROVE  ScansInv'
<1>1. PICK n \in CallIds : n = nth[t]
  BY CollectType
<1>2. /\ at[t] = "collect" /\ scanning' = scanning /\ at'[t] \in {"idle", "collect"}
      /\ funcC[n] # << >> /\ funcC'[n] = Tail(funcC[n])
      /\ \A m \in CallIds \ {n} : funcC'[m] = funcC[m]
  BY <1>1, CollectType
<1>3. calls' = calls /\ nth' = nth /\ \A u \in Callers \ {t} : at'[u] = at[u]
  BY CallerStepType DEF CallerStep
<1>4. funcC[n] \in Seq(CUs)
  BY DEF TypesInv
<1>5. /\ Len(funcC'[n]) = Len(funcC[n]) - 1 /\ Len(funcC[n]) \in Nat
      /\ \A k \in 1..Len(funcC'[n]) : k + 1 \in 1..Len(funcC[n]) /\ funcC'[n][k] = funcC[n][k + 1]
  BY <1>2, <1>4, HeadTailProperties, LenProperties
<1>6. ASSUME NEW i \in CallIds
      PROVE  /\ Len(funcC'[i]) <= NumCUs
             /\ \A j, k \in 1..Len(funcC'[i]) : funcC'[i][j] = funcC'[i][k] => j = k
             /\ \A k \in 1..Len(funcC'[i]) : <<i, funcC'[i][k]>> \notin scanning'
  <2>1. CASE i = n
    <3>1. Len(funcC[n]) <= NumCUs /\ NumCUs \in Nat
      BY CachesAssumption DEF ScansInv
    <3>2. \A j, k \in 1..Len(funcC'[n]) : funcC'[n][j] = funcC'[n][k] => j = k
      BY <1>5 DEF ScansInv
    <3>3. \A k \in 1..Len(funcC'[n]) : <<n, funcC'[n][k]>> \notin scanning'
      BY <1>2, <1>5 DEF ScansInv
    <3> QED
      BY <2>1, <1>5, <3>1, <3>2, <3>3
  <2>2. CASE i # n
    BY <2>2, <1>2 DEF ScansInv
  <2> QED
    BY <2>1, <2>2
<1>7. \A i \in CallIds : Fresh(i) => Fresh(i)'
  BY <1>2 DEF Fresh
<1>8. \A i \in CallIds : i > calls' => Fresh(i)'
  BY <1>3, <1>7 DEF ScansInv
<1>9. (\A u \in Callers : at[u] \in Before => Fresh(nth[u]))'
  <2>1. \A u \in Callers : at'[u] \in Before =>
           u # t /\ at[u] \in Before /\ nth[u] \in CallIds /\ Fresh(nth[u])
    BY <1>2, <1>3, CachesAssumption DEF Before, StagesInv, TypesInv, CallIds, ScansInv
  <2>2. \A u \in Callers : at'[u] \in Before => \E i \in CallIds : i = nth'[u] /\ Fresh(i)'
    BY <1>3, <1>7, <2>1
  <2> QED
    BY <2>2 DEF Fresh
<1> QED
  BY <1>3, <1>6, <1>8, <1>9 DEF ScansInv

LEMMA ScanScans ==
    ASSUME TypesInv, StagesInv, ScansInv, NEW i \in CallIds, NEW c \in CUs, Scan(i, c)
    PROVE  ScansInv'
<1>1. /\ calls' = calls /\ nth' = nth /\ at' = at
      /\ <<i, c>> \in scanning /\ scanning' = scanning \ {<<i, c>>}
      /\ Len(funcC[i]) < NumCUs /\ funcC'[i] = Append(funcC[i], c)
      /\ \A m \in CallIds \ {i} : funcC'[m] = funcC[m]
  BY ScanType
<1>2. funcC[i] \in Seq(CUs)
  BY DEF TypesInv
<1>3. /\ Len(funcC'[i]) = Len(funcC[i]) + 1 /\ Len(funcC[i]) \in Nat
      /\ \A k \in 1..Len(funcC[i]) : funcC'[i][k] = funcC[i][k]
      /\ funcC'[i][Len(funcC[i]) + 1] = c
  BY <1>1, <1>2, AppendProperties, LenProperties
<1>4. \A k \in 1..Len(funcC'[i]) : k \in 1..Len(funcC[i]) \/ k = Len(funcC[i]) + 1
  BY <1>3
<1>5. \A k \in 1..Len(funcC[i]) : funcC[i][k] # c /\ <<i, funcC[i][k]>> \notin scanning
  BY <1>1 DEF ScansInv
<1>6. ASSUME NEW m \in CallIds
      PROVE  /\ Len(funcC'[m]) <= NumCUs
             /\ \A j, k \in 1..Len(funcC'[m]) : funcC'[m][j] = funcC'[m][k] => j = k
             /\ \A k \in 1..Len(funcC'[m]) : <<m, funcC'[m][k]>> \notin scanning'
  <2>1. CASE m = i
    <3>1. Len(funcC'[i]) <= NumCUs
      BY <1>1, <1>3, CachesAssumption
    <3>2. \A j, k \in 1..Len(funcC'[i]) : funcC'[i][j] = funcC'[i][k] => j = k
      BY <1>3, <1>4, <1>5 DEF ScansInv
    <3>3. \A k \in 1..Len(funcC'[i]) : <<i, funcC'[i][k]>> \notin scanning'
      BY <1>1, <1>3, <1>4, <1>5
    <3> QED
      BY <2>1, <3>1, <3>2, <3>3
  <2>2. CASE m # i
    BY <2>2, <1>1 DEF ScansInv
  <2> QED
    BY <2>1, <2>2
<1>7. ~Fresh(i)
  BY <1>1 DEF Fresh
<1>8. \A m \in CallIds : Fresh(m) => Fresh(m)'
  BY <1>1, <1>7 DEF Fresh
<1>9. \A m \in CallIds : m > calls' => Fresh(m)'
  BY <1>1, <1>8 DEF ScansInv
<1>10. (\A u \in Callers : at[u] \in Before => Fresh(nth[u]))'
  <2>1. \A u \in Callers : at'[u] \in Before =>
           at[u] \in Before /\ nth[u] \in CallIds /\ Fresh(nth[u])
    BY <1>1, CachesAssumption DEF Before, StagesInv, TypesInv, CallIds, ScansInv
  <2>2. \A u \in Callers : at'[u] \in Before => \E m \in CallIds : m = nth'[u] /\ Fresh(m)'
    BY <1>1, <1>8, <2>1
  <2> QED
    BY <2>2 DEF Fresh
<1> QED
  BY <1>1, <1>6, <1>9, <1>10 DEF ScansInv

LEMMA ScansStep == TypesInv /\ StagesInv /\ ScansInv /\ [Next]_vars => ScansInv'
<1> SUFFICES ASSUME TypesInv, StagesInv, ScansInv, [Next]_vars PROVE ScansInv'
  OBVIOUS
<1>1. ASSUME NEW t \in Callers, CallerStep(t), ~StartScans(t), ~CollectFuncs(t)
      PROVE  ScansInv'
  <2>1. /\ scanning' = scanning /\ funcC' = funcC /\ nth' = nth /\ calls' = calls
        /\ \A u \in Callers : at'[u] \in Before => at[u] \in Before
    BY <1>1, CallerStepType, QuietStepType
  <2>2. (\A u \in Callers : at[u] \in Before => Fresh(nth[u]))'
    BY <2>1 DEF ScansInv, Fresh
  <2>3. \A i \in CallIds : i > calls' => Fresh(i)'
    BY <2>1 DEF ScansInv, Fresh
  <2> QED
    BY <2>1, <2>2, <2>3 DEF ScansInv
<1>2. CASE UNCHANGED vars
  BY <1>2 DEF ScansInv, Fresh, vars
<1> QED
  BY <1>1, <1>2, EnterScans, StartScansScans, CollectScans, ScanScans DEF Next, ScanStep

-----------------------------------------------------------------------------
(* What FindAllFuncs gathers. *)

LEMMA GatheredInit == Init => GatheredInv
BY DEF Init, GatheredInv

(* Two calls that are under way are not the same one. *)
LEMMA OtherCall ==
    ASSUME StagesInv, ScansInv, NEW t \in Callers, NEW u \in Callers, t # u,
           at[t] # "idle", at[u] # "idle"
    PROVE  nth[t] # nth[u]
BY DEF StagesInv, ScansInv

LEMMA GatheredNext ==
    ASSUME NEW t \in Callers, NEW s, NEW n, NEW p,
           s = acc'[t], n = nth'[t], p = call'[t].path, GatheredOf(s, n, p)'
    PROVE  GatheredOf(acc[t], nth[t], call[t].path)'
BY DEF GatheredOf, GoodPieces

(* A call is not disturbed by what happens to the goroutines of others.    *)
LEMMA GatheredSame ==
    ASSUME NEW t \in Callers, TypesInv, StagesInv, GatheredInv, bad' = bad,
           at[t] = "collect", acc'[t] = acc[t], nth'[t] = nth[t], call'[t] = call[t],
           \A c \in CUs : <<nth[t], c>> \in scanning' => <<nth[t], c>> \in scanning,
           funcC'[nth[t]] = funcC[nth[t]]
    PROVE  GatheredOf(acc[t], nth[t], call[t].path)'
<1>1. PICK s, n, p : s = acc[t] /\ n = nth[t] /\ p = call[t].path
  OBVIOUS
<1>2. GatheredOf(s, n, p)
  BY <1>1 DEF GatheredInv
<1>3. GoodPieces(p)' = GoodPieces(p)
  BY DEF GoodPieces
<1>4. GatheredOf(s, n, p)'
  BY <1>1, <1>2, <1>3 DEF GatheredOf
<1> QED
  BY <1>1, <1>4, GatheredNext

LEMMA CollectGathers ==
    ASSUME TypesInv, StagesInv, ScansInv, GatheredInv, NEW t \in Callers, CollectFuncs(t)
    PROVE  GatheredInv'
<1>1. PICK n \in CallIds : n = nth[t]
  BY CollectType
<1>2. PICK c \in CUs : c = Head(funcC[n])
  BY <1>1, CollectType
<1>3. /\ scanning' = scanning /\ funcC[n] # << >> /\ funcC'[n] = Tail(funcC[n])
      /\ at[t] = "collect" /\ Len(acc[t]) + 1 <= NumCUs
      /\ \A m \in CallIds \ {n} : funcC'[m] = funcC[m]
      /\ at'[t] = "collect" => c \notin bad[call[t].path] /\ acc'[t] = Append(acc[t], <<c>>)
  BY <1>1, <1>2, CollectType
<1>4. /\ bad' = bad /\ nth' = nth /\ call' = call
      /\ \A u \in Callers \ {t} : at'[u] = at[u] /\ acc'[u] = acc[u]
  BY CallerStepType DEF CallerStep
<1>5. funcC[n] \in Seq(CUs) /\ Len(funcC[n]) \in Nat \ {0} /\ funcC[n][1] = c
  BY <1>2, <1>3, EmptySeq DEF TypesInv
<1>6. /\ Len(funcC'[n]) = Len(funcC[n]) - 1
      /\ \A k \in 1..Len(funcC'[n]) : k + 1 \in 1..Len(funcC[n]) /\ funcC'[n][k] = funcC[n][k + 1]
  BY <1>3, <1>5, HeadTailProperties
<1>7. /\ <<n, c>> \notin scanning
      /\ \A k \in 1..Len(funcC'[n]) : funcC'[n][k] # c
  BY <1>5, <1>6 DEF ScansInv
<1>8. ASSUME NEW u \in Callers, u # t, at'[u] = "collect"
      PROVE  GatheredOf(acc[u], nth[u], call[u].path)'
  <2>1. at[u] = "collect" /\ acc'[u] = acc[u]
    BY <1>4, <1>8
  <2>2. nth[u] # n
    BY <1>1, <1>3, <1>8, <2>1, OtherCall
  <2>3. nth[u] \in CallIds
    BY <2>1, CachesAssumption DEF StagesInv, TypesInv, CallIds
  <2> QED
    BY <1>3, <1>4, <2>1, <2>2, <2>3, GatheredSame
<1>9. ASSUME at'[t] = "collect"
      PROVE  GatheredOf(acc[t], nth[t], call[t].path)'
  <2>1. PICK s, p : s = acc[t] /\ p = call[t].path
    OBVIOUS
  <2>2. GatheredOf(s, n, p)
    BY <1>1, <1>3, <2>1 DEF GatheredInv
  <2>3. s \in Seq(GoodPieces(p)) /\ <<c>> \in GoodPieces(p) /\ Len(s) + 1 <= NumCUs
    BY <1>3, <1>9, <2>1, <2>2 DEF GatheredOf, GoodPieces
  <2>4. \A j \in 1..Len(s) : s[j] # <<c>>
    <3> SUFFICES ASSUME NEW j \in 1..Len(s), s[j] = <<c>> PROVE FALSE
      OBVIOUS
    <3>1. 1 \in 1..Len(funcC[n])
      BY <1>5
    <3>2. funcC[n][1] # c
      BY <2>2, <3>1 DEF GatheredOf
    <3> QED
      BY <1>5, <3>2
  <2>5. PICK r : r = Append(s, <<c>>)
    OBVIOUS
  <2>6. /\ r \in Seq(GoodPieces(p)) /\ Len(r) = Len(s) + 1 /\ Len(s) \in Nat
        /\ \A j \in 1..Len(s) : r[j] = s[j]
        /\ r[Len(s) + 1] = <<c>>
    BY <2>3, <2>5, AppendProperties, LenProperties
  <2>7. \A j \in 1..Len(r) : j \in 1..Len(s) \/ j = Len(s) + 1
    BY <2>6
  <2>8. \A j, k \in 1..Len(r) : r[j] = r[k] => j = k
    BY <2>2, <2>4, <2>6, <2>7 DEF GatheredOf
  <2>9. ASSUME NEW j \in 1..Len(r), NEW d \in CUs, r[j] = <<d>>
        PROVE  /\ <<n, d>> \notin scanning'
               /\ \A k \in 1..Len(funcC'[n]) : funcC'[n][k] # d
    <3>1. CASE j \in 1..Len(s)
      BY <3>1, <1>3, <1>6, <2>2, <2>6, <2>9 DEF GatheredOf
    <3>2. CASE j = Len(s) + 1
      <4>1. c = d
        BY <3>2, <2>6, <2>9
      <4> QED
        BY <4>1, <1>3, <1>7
    <3> QED
      BY <2>7, <3>1, <3>2
  <2>10. GoodPieces(p)' = GoodPieces(p)
    BY <1>4 DEF GoodPieces
  <2>11. GatheredOf(r, n, p)'
    BY <2>3, <2>6, <2>8, <2>9, <2>10 DEF GatheredOf
  <2>12. r = acc'[t] /\ n = nth'[t] /\ p = call'[t].path
    BY <1>1, <1>3, <1>4, <1>9, <2>1, <2>5
  <2> QED
    BY <2>11, <2>12, GatheredNext
<1> QED
  BY <1>8, <1>9 DEF GatheredInv

LEMMA ScanGathers ==
    ASSUME TypesInv, StagesInv, ScansInv, GatheredInv, NEW i \in CallIds, NEW c \in CUs, Scan(i, c)
    PROVE  GatheredInv'
<1>1. /\ nth' = nth /\ at' = at /\ call' = call /\ acc' = acc /\ bad' = bad
      /\ <<i, c>> \in scanning /\ scanning' = scanning \ {<<i, c>>}
      /\ funcC'[i] = Append(funcC[i], c) /\ funcC[i] \in Seq(CUs)
      /\ \A m \in CallIds \ {i} : funcC'[m] = funcC[m]
  BY ScanType DEF TypesInv
<1>2. /\ Len(funcC'[i]) = Len(funcC[i]) + 1 /\ Len(funcC[i]) \in Nat
      /\ \A k \in 1..Len(funcC[i]) : funcC'[i][k] = funcC[i][k]
      /\ funcC'[i][Len(funcC[i]) + 1] = c
  BY <1>1, AppendProperties, LenProperties
<1>3. \A k \in 1..Len(funcC'[i]) : k \in 1..Len(funcC[i]) \/ k = Len(funcC[i]) + 1
  BY <1>2
<1>4. ASSUME NEW t \in Callers, at[t] = "collect"
      PROVE  GatheredOf(acc[t], nth[t], call[t].path)'
  <2>1. nth[t] \in CallIds
    BY <1>4, CachesAssumption DEF StagesInv, TypesInv, CallIds
  <2>2. CASE nth[t] = i
    <3>1. PICK s, p : s = acc[t] /\ p = call[t].path
      OBVIOUS
    <3>2. GatheredOf(s, i, p)
      BY <1>4, <2>2, <3>1 DEF GatheredInv
    <3>3. ASSUME NEW j \in 1..Len(s), NEW d \in CUs, s[j] = <<d>>
          PROVE  /\ <<i, d>> \notin scanning'
                 /\ \A k \in 1..Len(funcC'[i]) : funcC'[i][k] # d
      <4>1. /\ <<i, d>> \notin scanning
            /\ \A k \in 1..Len(funcC[i]) : funcC[i][k] # d
        BY <3>2, <3>3 DEF GatheredOf
      <4> QED
        BY <1>1, <1>2, <1>3, <4>1
    <3>4. GoodPieces(p)' = GoodPieces(p)
      BY <1>1 DEF GoodPieces
    <3>5. GatheredOf(s, i, p)'
      BY <3>2, <3>3, <3>4 DEF GatheredOf
    <3> QED
      BY <1>1, <2>2, <3>1, <3>5, GatheredNext
  <2>3. CASE nth[t] # i
    BY <1>1, <1>4, <2>1, <2>3, GatheredSame
  <2> QED
    BY <2>2, <2>3
<1> QED
  BY <1>1, <1>4 DEF GatheredInv

LEMMA GatheredStep ==
    TypesInv /\ StagesInv /\ ScansInv /\ GatheredInv /\ [Next]_vars => GatheredInv'
<1> SUFFICES ASSUME TypesInv, StagesInv, ScansInv, GatheredInv, [Next]_vars PROVE GatheredInv'
  OBVIOUS
<1>1. ASSUME NEW t \in Callers, Enter(t)
      PROVE  GatheredInv'
  <2>1. \A u \in Callers : at'[u] = "collect" =>
           /\ at[u] = "collect" /\ nth'[u] = nth[u] /\ call'[u] = call[u]
    BY <1>1, EnterType
  <2>2. bad' = bad /\ acc' = acc /\ scanning' = scanning /\ funcC' = funcC
    BY <1>1, EnterType
  <2> QED
    BY <2>1, <2>2, GatheredSame DEF GatheredInv
<1>2. ASSUME NEW t \in Callers, StartScans(t)
      PROVE  GatheredInv'
  <2>1. /\ bad' = bad /\ nth' = nth /\ call' = call
        /\ \A u \in Callers \ {t} : at'[u] = at[u] /\ acc'[u] = acc[u]
    BY <1>2, CallerStepType DEF CallerStep
  <2>2. /\ acc'[t] = << >> /\ funcC' = funcC
        /\ \A i \in CallIds, c \in CUs : i # nth[t] =>
              (<<i, c>> \in scanning' <=> <<i, c>> \in scanning)
    BY <1>2, StartScansScans
  <2>3. \A u \in Callers \ {t} : at[u] = "collect" => nth[u] # nth[t] /\ nth[u] \in CallIds
    <3>1. at[t] = "startScans"
      BY <1>2 DEF StartScans
    <3> QED
      BY <3>1, OtherCall, CachesAssumption DEF StagesInv, TypesInv, CallIds
  <2>4. GatheredOf(acc[t], nth[t], call[t].path)'
    <3>1. PICK s, n, p : s = << >> /\ n = nth[t] /\ p = call[t].path
      OBVIOUS
    <3>2. GatheredOf(s, n, p)'
      BY <3>1, CachesAssumption DEF GatheredOf
    <3> QED
      BY <2>1, <2>2, <3>1, <3>2, GatheredNext
  <2>5. \A u \in Callers \ {t} : at'[u] = "collect" => GatheredOf(acc[u], nth[u], call[u].path)'
    BY <2>1, <2>2, <2>3, GatheredSame
  <2> QED
    BY <2>4, <2>5 DEF GatheredInv
<1>3. ASSUME NEW t \in Callers, CallerStep(t), ~StartScans(t), ~CollectFuncs(t)
      PROVE  GatheredInv'
  <2>1. /\ bad' = bad /\ nth' = nth /\ call' = call /\ scanning' = scanning /\ funcC' = funcC
        /\ \A u \in Callers \ {t} : at'[u] = at[u] /\ acc'[u] = acc[u]
        /\ at'[t] # "collect"
    BY <1>3, CallerStepType, QuietStepType
  <2> QED
    BY <2>1, GatheredSame DEF GatheredInv
<1>4. CASE UNCHANGED vars
  <2>1. /\ bad' = bad /\ nth' = nth /\ call' = call /\ scanning' = scanning /\ funcC' = funcC
        /\ at' = at /\ acc' = acc
    BY <1>4 DEF vars, disk
  <2> QED
    BY <2>1, GatheredSame DEF GatheredInv
<1> QED
  BY <1>1, <1>2, <1>3, <1>4, CollectGathers, ScanGathers DEF Next, ScanStep

(* As many different units as the file has are all of them, and good.      *)
LEMMA GatheredIsWhole ==
    ASSUME TypesInv, GatheredInv, NEW t \in Callers, at[t] = "collect", Len(acc[t]) = NumCUs
    PROVE  Whole(acc[t]) /\ bad[call[t].path] = {}
<1> DEFINE p == call[t].path
           s == acc[t]
           all == {<<c>> : c \in CUs}
<1>1. /\ s \in Seq(GoodPieces(p)) /\ \A j, k \in 1..NumCUs : s[j] = s[k] => j = k
      /\ p \in Paths /\ bad[p] \subseteq CUs /\ NumCUs \in Nat
  BY CallType, CachesAssumption DEF GatheredInv, GatheredOf, TypesInv
<1>2. IsFiniteSet(all) /\ Cardinality(all) = NumCUs
  <2> DEFINE f == [c \in 1..NumCUs |-> <<c>>]
  <2>1. f \in [1..NumCUs -> all] /\ \A c \in 1..NumCUs : f[c] = <<c>>
    BY DEF CUs
  <2>2. \A c, d \in 1..NumCUs : f[c] = f[d] => c = d
    BY <2>1
  <2>3. \A x \in all : \E c \in 1..NumCUs : f[c] = x
    BY <2>1 DEF CUs
  <2> HIDE DEF f, all
  <2>4. ExistsBijection(1..NumCUs, all)
    BY <2>1, <2>2, <2>3 DEF ExistsBijection, Bijection, Injection, Surjection, IsInjective
  <2> QED
    BY <1>1, <2>4, FS_CountingElements, FS_NatBijection
<1>3. s \in [1..NumCUs -> GoodPieces(p)] /\ GoodPieces(p) \subseteq all
  BY <1>1, LenProperties DEF GoodPieces
<1> HIDE DEF s, all
<1>4. s \in Injection(1..NumCUs, all)
  BY <1>1, <1>3 DEF Injection, IsInjective
<1>5. Cardinality(1..NumCUs) = NumCUs
  BY <1>1, FS_Interval
<1>6. s \in Surjection(1..NumCUs, all)
  BY <1>2, <1>4, <1>5, FS_Injection
<1>7. {s[k] : k \in 1..NumCUs} = all
  BY <1>3, <1>6 DEF Surjection
<1>8. all \subseteq GoodPieces(p)
  BY <1>3, <1>7
<1>9. bad[p] = {}
  <2> SUFFICES ASSUME NEW c \in bad[p] PROVE FALSE
    OBVIOUS
  <2>1. <<c>> \in GoodPieces(p)
    BY <1>1, <1>8 DEF all
  <2> QED
    BY <2>1 DEF GoodPieces
<1> QED
  BY <1>7, <1>9 DEF Whole, s, all

LEMMA PiecesGathered ==
    ASSUME StagesInv, GatheredInv, NEW t \in Callers
    PROVE  acc[t] \in Seq(Pieces) /\ Len(acc[t]) <= NumCUs
<1>1. CASE at[t] = "collect"
  <2>1. acc[t] \in Seq(GoodPieces(call[t].path)) /\ Len(acc[t]) <= NumCUs
    BY <1>1 DEF GatheredInv, GatheredOf
  <2>2. GoodPieces(call[t].path) \subseteq Pieces
    BY DEF GoodPieces, Pieces
  <2> QED
    BY <2>1, <2>2, SeqMonotonic
<1>2. CASE at[t] # "collect"
  <2>1. acc[t] = << >>
    BY <1>2 DEF StagesInv
  <2> QED
    BY <2>1, CachesAssumption
<1> QED
  BY <1>1, <1>2

-----------------------------------------------------------------------------
(* The map of the functions. *)

LEMMA FuncsInit == Init => FuncsInv
BY DEF Init, FuncsInv, ListsInv, FileKeyIsWhole, UnitKeyFits, SubprogramKeyIsOwn

LEMMA StoreType ==
    ASSUME NEW key, NEW value, Store(key, value)
    PROVE  /\ DOMAIN funcs' = DOMAIN funcs \cup {key}
           /\ \A k \in DOMAIN funcs' : funcs'[k] = IF k = key THEN value ELSE funcs[k]
BY DEF Store

LEMMA StoreFile ==
    ASSUME FuncsInv, NEW p \in Paths, NEW value, Store(p, value),
           value \in Seq(Pieces), Whole(value), bad[p] = {}, bad' = bad
    PROVE  FuncsInv'
<1>1. /\ DOMAIN funcs' = DOMAIN funcs \cup {p}
      /\ \A k \in DOMAIN funcs' : funcs'[k] = IF k = p THEN value ELSE funcs[k]
  BY StoreType
<1>2. \A q \in Paths, c \in CUs : CUKey(q, c) # p
  BY KeysDiffer, CachesAssumption DEF SPs
<1>3. \A q \in Paths, c \in CUs, s \in SPs : SPKey(q, c, s) # p
  BY KeysDiffer
<1>4. ListsInv'
  BY <1>1 DEF FuncsInv, ListsInv, Pieces
<1>5. FileKeyIsWhole'
  BY <1>1 DEF FuncsInv, FileKeyIsWhole, Whole
<1>6. UnitKeyFits'
  BY <1>1, <1>2 DEF FuncsInv, UnitKeyFits
<1>7. SubprogramKeyIsOwn'
  BY <1>1, <1>3 DEF FuncsInv, SubprogramKeyIsOwn
<1> QED
  BY <1>4, <1>5, <1>6, <1>7 DEF FuncsInv

LEMMA StoreUnit ==
    ASSUME FuncsInv, NEW p \in Paths, NEW c \in CUs, NEW d \in CUs \ bad[p],
           Store(CUKey(p, c), << <<d>> >>), bad' = bad
    PROVE  FuncsInv'
<1>1. PICK key, value : key = CUKey(p, c) /\ value = << <<d>> >>
  OBVIOUS
<1>2. /\ DOMAIN funcs' = DOMAIN funcs \cup {key}
      /\ \A k \in DOMAIN funcs' : funcs'[k] = IF k = key THEN value ELSE funcs[k]
  BY <1>1, StoreType
<1>3. \A q \in Paths : q # key
  BY <1>1, KeysDiffer, CachesAssumption DEF SPs
<1>4. \A q \in Paths, e \in CUs, s \in SPs : SPKey(q, e, s) # key
  BY <1>1, KeysDiffer
<1>5. \A q \in Paths, e \in CUs : CUKey(q, e) = key => q = p
  BY <1>1, KeysDiffer, CachesAssumption DEF SPs
<1>6. ListsInv'
  <2>1. value \in Seq(Pieces)
    BY <1>1 DEF Pieces
  <2> QED
    BY <1>2, <2>1 DEF FuncsInv, ListsInv, Pieces
<1>7. FileKeyIsWhole'
  BY <1>2, <1>3 DEF FuncsInv, FileKeyIsWhole, Whole
<1>8. UnitKeyFits'
  <2> SUFFICES ASSUME NEW q \in Paths, NEW e \in CUs, CUKey(q, e) \in DOMAIN funcs'
               PROVE  \E x \in CUs \ bad[q] : funcs'[CUKey(q, e)] = << <<x>> >>
    BY DEF UnitKeyFits
  <2>1. CASE CUKey(q, e) = key
    BY <2>1, <1>1, <1>2, <1>5
  <2>2. CASE CUKey(q, e) # key
    BY <2>2, <1>2 DEF FuncsInv, UnitKeyFits
  <2> QED
    BY <2>1, <2>2
<1>9. SubprogramKeyIsOwn'
  BY <1>2, <1>4 DEF FuncsInv, SubprogramKeyIsOwn
<1> QED
  BY <1>6, <1>7, <1>8, <1>9 DEF FuncsInv

LEMMA StoreSubprogram ==
    ASSUME FuncsInv, NEW p \in Paths, NEW c \in CUs, NEW s \in SPs,
           Store(SPKey(p, c, s), << <<c, s>> >>), bad' = bad
    PROVE  FuncsInv'
<1>1. PICK key, value : key = SPKey(p, c, s) /\ value = << <<c, s>> >>
  OBVIOUS
<1>2. /\ DOMAIN funcs' = DOMAIN funcs \cup {key}
      /\ \A k \in DOMAIN funcs' : funcs'[k] = IF k = key THEN value ELSE funcs[k]
  BY <1>1, StoreType
<1>3. \A q \in Paths : q # key
  BY <1>1, KeysDiffer
<1>4. \A q \in Paths, d \in CUs : CUKey(q, d) # key
  BY <1>1, KeysDiffer
<1>5. \A q \in Paths, d \in CUs, r \in SPs : SPKey(q, d, r) = key => d = c /\ r = s
  BY <1>1, KeysDiffer
<1>6. ListsInv'
  <2>1. value \in Seq(Pieces)
    BY <1>1 DEF Pieces
  <2> QED
    BY <1>2, <2>1 DEF FuncsInv, ListsInv, Pieces
<1>7. FileKeyIsWhole'
  BY <1>2, <1>3 DEF FuncsInv, FileKeyIsWhole, Whole
<1>8. UnitKeyFits'
  BY <1>2, <1>4 DEF FuncsInv, UnitKeyFits
<1>9. SubprogramKeyIsOwn'
  <2> SUFFICES ASSUME NEW q \in Paths, NEW d \in CUs, NEW r \in SPs, SPKey(q, d, r) \in DOMAIN funcs'
               PROVE  funcs'[SPKey(q, d, r)] = << <<d, r>> >>
    BY DEF SubprogramKeyIsOwn
  <2>1. CASE SPKey(q, d, r) = key
    BY <2>1, <1>1, <1>2, <1>5
  <2>2. CASE SPKey(q, d, r) # key
    BY <2>2, <1>2 DEF FuncsInv, SubprogramKeyIsOwn
  <2> QED
    BY <2>1, <2>2
<1> QED
  BY <1>6, <1>7, <1>8, <1>9 DEF FuncsInv

LEMMA FuncsStep ==
    TypesInv /\ StagesInv /\ GatheredInv /\ FuncsInv /\ [Next]_vars => FuncsInv'
<1> SUFFICES ASSUME TypesInv, StagesInv, GatheredInv, FuncsInv, [Next]_vars PROVE FuncsInv'
  OBVIOUS
<1>1. ASSUME funcs' = funcs, bad' = bad
      PROVE  FuncsInv'
  BY <1>1 DEF FuncsInv, ListsInv, FileKeyIsWhole, UnitKeyFits, SubprogramKeyIsOwn, Whole
<1>2. ASSUME NEW t \in Callers, CallerStep(t)
      PROVE  FuncsInv'
  <2>1. bad' = bad /\ call[t].path \in Paths
    BY <1>2, CallerStepType, CallType DEF TypesInv
  <2>2. CASE CollectFuncs(t)
    <3>1. PICK k : k = Len(acc[t]) + 1
      OBVIOUS
    <3>2. PICK c \in CUs :
             funcs' = funcs \/ (c \notin bad[call[t].path] /\ Store(CUKey(call[t].path, k), << <<c>> >>))
      BY <2>2, <3>1, CollectType
    <3>3. k \in CUs
      <4>1. at[t] = "collect" /\ k <= NumCUs
        BY <2>2, <3>1, CollectType
      <4>2. Len(acc[t]) \in Nat
        BY <4>1, LenProperties DEF GatheredInv, GatheredOf
      <4> QED
        BY <3>1, <4>1, <4>2, CachesAssumption DEF CUs
    <3> QED
      BY <1>1, <2>1, <3>2, <3>3, StoreUnit
  <2>3. CASE StoreFuncs(t)
    <3>1. /\ at[t] = "collect" /\ Len(acc[t]) = NumCUs
          /\ Store(call[t].path, acc[t])
      BY <2>3 DEF StoreFuncs
    <3>2. Whole(acc[t]) /\ bad[call[t].path] = {} /\ acc[t] \in Seq(Pieces)
      BY <3>1, GatheredIsWhole, PiecesGathered
    <3> QED
      BY <2>1, <3>1, <3>2, StoreFile
  <2>4. CASE FindCU(t)
    <3>1. call[t].cu \in CUs
      BY <2>4, CallType DEF FindCU, StagesInv, TypesInv
    <3>2. \/ funcs' = funcs
          \/ /\ call[t].cu \notin bad[call[t].path]
             /\ Store(CUKey(call[t].path, call[t].cu), << <<call[t].cu>> >>)
      BY <2>4 DEF FindCU
    <3> QED
      BY <1>1, <2>1, <3>1, <3>2, StoreUnit
  <2>5. CASE FindSP(t)
    <3>1. call[t].cu \in CUs /\ call[t].sp \in SPs
      BY <2>5, CallType DEF FindSP, StagesInv, TypesInv
    <3>2. \/ funcs' = funcs
          \/ Store(SPKey(call[t].path, call[t].cu, call[t].sp), << <<call[t].cu, call[t].sp>> >>)
      BY <2>5 DEF FindSP
    <3> QED
      BY <1>1, <2>1, <3>1, <3>2, StoreSubprogram
  <2>6. CASE ~(CollectFuncs(t) \/ StoreFuncs(t) \/ FindCU(t) \/ FindSP(t))
    <3>1. funcs' = funcs
      BY <1>2, <2>6 DEF CallerStep, GetFuncs, GetUnits, GetDwarf, Open, ParseUnits, StartScans,
         GetCU, GetSP, caches
    <3> QED
      BY <1>1, <2>1, <3>1
  <2> QED
    BY <2>2, <2>3, <2>4, <2>5, <2>6
<1>3. CASE UNCHANGED vars
  BY <1>1, <1>3 DEF vars, caches, disk
<1>4. ASSUME NEW t \in Callers, Enter(t)
      PROVE  FuncsInv'
  BY <1>1, <1>4, EnterType
<1>5. ASSUME NEW i \in CallIds, NEW c \in CUs, Scan(i, c)
      PROVE  FuncsInv'
  BY <1>1, <1>5, ScanType
<1> QED
  BY <1>2, <1>3, <1>4, <1>5 DEF Next, ScanStep

(* Under the path of a file there is the whole file or nothing, however    *)
(* many calls overlap and whichever of them fail (debuginfo.go:161-197).    *)
THEOREM FileIsWhole == Spec => []FileKeyIsWhole
<1>1. FuncsInv => FileKeyIsWhole
  BY DEF FuncsInv
<1> QED
  BY <1>1, TypesInit, TypesStep, StagesInit, StagesStep, ScansInit, ScansStep, GatheredInit,
     GatheredStep, FuncsInit, FuncsStep, PTL DEF Spec

(* Under the key of a subprogram there are its own subroutines only        *)
(* (dwarf.go:138-146).                                                     *)
THEOREM SubprogramIsOwn == Spec => []SubprogramKeyIsOwn
<1>1. FuncsInv => SubprogramKeyIsOwn
  BY DEF FuncsInv
<1> QED
  BY <1>1, TypesInit, TypesStep, StagesInit, StagesStep, ScansInit, ScansStep, GatheredInit,
     GatheredStep, FuncsInit, FuncsStep, PTL DEF Spec

-----------------------------------------------------------------------------
(* What the calls return. *)

(* The body of ResultFits, for the value r. *)
Fits(t, r) ==
    LET p == call[t].path
    IN  /\ r = Error =>
              \/ file[p] # "fine" \/ bad[p] # {}
              \/ call[t].op # "AllFuncs" /\ call[t].cu = 0
        /\ r # Error /\ call[t].op = "AllFuncs" => Whole(r)
        /\ r # Error /\ call[t].op = "FuncsInCU" => \E c \in CUs \ bad[p] : r = << <<c>> >>
        /\ r # Error /\ call[t].op = "Frames" => r = << <<call[t].cu, call[t].sp>> >>

LEMMA ListsAreNoErrors ==
    /\ \A c \in CUs : << <<c>> >> # Error
    /\ \A c, s : << <<c, s>> >> # Error
    /\ \A list : Whole(list) => list # Error
<1>1. \A c \in CUs : c # 0
  BY CachesAssumption DEF CUs
<1>2. \A c \in CUs : << <<c>> >> # Error
  BY <1>1 DEF Error
<1>3. \A c, s : << <<c, s>> >> # Error
  BY DEF Error
<1>4. ASSUME NEW list, Whole(list), list = Error
      PROVE  FALSE
  <2>1. Len(list) = 1 /\ list[1] = <<0>>
    BY <1>4 DEF Error
  <2>2. <<0>> \in {<<c>> : c \in CUs}
    BY <1>4, <2>1 DEF Whole
  <2>3. PICK c \in CUs : <<0>> = <<c>>
    BY <2>2
  <2> QED
    BY <1>1, <2>3
<1> QED
  BY <1>2, <1>3, <1>4

(* A step of a caller leaves its result alone or sets one that fits.       *)
LEMMA ReturnFits ==
    ASSUME TypesInv, StagesInv, GatheredInv, FuncsInv, NEW t \in Callers, CallerStep(t)
    PROVE  result'[t] = result[t] \/ Fits(t, result'[t])
<1>1. /\ call[t].path \in Paths
      /\ call[t].op # "AllFuncs" => call[t].cu \in CUs \cup {0}
      /\ call[t].op = "Frames" => call[t].sp \in SPs
      /\ bad[call[t].path] \subseteq CUs
  BY CallType DEF TypesInv
<1>2. \A v : Return(t, v) => result'[t] = v
  BY DEF Return, TypesInv
<1>3. CASE GetFuncs(t)
  <2>1. \/ result' = result
        \/ call[t].path \in DOMAIN funcs /\ result'[t] = funcs[call[t].path]
    BY <1>2, <1>3 DEF GetFuncs
  <2>2. call[t].op = "AllFuncs"
    BY <1>3 DEF GetFuncs, StagesInv
  <2> QED
    BY <1>1, <2>1, <2>2, ListsAreNoErrors DEF Fits, FuncsInv, FileKeyIsWhole
<1>4. CASE Open(t) \/ ParseUnits(t)
  <2>1. \/ result' = result
        \/ file[call[t].path] \in {"elf", "top"} /\ result'[t] = Error
    BY <1>2, <1>4 DEF Open, ParseUnits
  <2> QED
    BY <2>1 DEF Fits
<1>5. CASE CollectFuncs(t)
  <2>1. result' = result \/ (bad[call[t].path] # {} /\ result'[t] = Error)
    BY <1>5, CollectType
  <2> QED
    BY <2>1 DEF Fits
<1>6. CASE StoreFuncs(t)
  <2>1. result'[t] = acc[t] /\ at[t] = "collect" /\ Len(acc[t]) = NumCUs /\ call[t].op = "AllFuncs"
    BY <1>2, <1>6 DEF StoreFuncs, StagesInv
  <2>2. Whole(acc[t])
    BY <2>1, GatheredIsWhole
  <2> QED
    BY <2>1, <2>2, ListsAreNoErrors DEF Fits
<1>7. CASE GetCU(t)
  <2> DEFINE key == CUKey(call[t].path, call[t].cu)
  <2>1. /\ call[t].op = "FuncsInCU"
        /\ \/ call[t].cu = 0 /\ result'[t] = Error
           \/ call[t].cu # 0 /\ key \in DOMAIN funcs /\ result'[t] = funcs[key]
           \/ result' = result
    BY <1>2, <1>7 DEF GetCU, StagesInv
  <2>2. call[t].cu # 0 /\ key \in DOMAIN funcs => \E c \in CUs \ bad[call[t].path] : funcs[key] = << <<c>> >>
    BY <1>1, <2>1 DEF FuncsInv, UnitKeyFits
  <2> HIDE DEF key
  <2> QED
    BY <2>1, <2>2, ListsAreNoErrors DEF Fits
<1>8. CASE FindCU(t)
  <2>1. /\ call[t].op = "FuncsInCU" /\ call[t].cu \in CUs
        /\ \/ call[t].cu \in bad[call[t].path] /\ result'[t] = Error
           \/ call[t].cu \notin bad[call[t].path] /\ result'[t] = << <<call[t].cu>> >>
    BY <1>1, <1>2, <1>8 DEF FindCU, StagesInv
  <2> QED
    BY <2>1, ListsAreNoErrors DEF Fits
<1>9. CASE GetSP(t)
  <2> DEFINE key == SPKey(call[t].path, call[t].cu, call[t].sp)
  <2>1. /\ call[t].op = "Frames"
        /\ \/ call[t].cu \in {0} \cup bad[call[t].path] /\ result'[t] = Error
           \/ call[t].cu # 0 /\ key \in DOMAIN funcs /\ result'[t] = funcs[key]
           \/ result' = result
    BY <1>2, <1>9 DEF GetSP, StagesInv
  <2>2. call[t].cu # 0 /\ key \in DOMAIN funcs => funcs[key] = << <<call[t].cu, call[t].sp>> >>
    BY <1>1, <2>1 DEF FuncsInv, SubprogramKeyIsOwn
  <2> HIDE DEF key
  <2> QED
    BY <2>1, <2>2, ListsAreNoErrors DEF Fits
<1>10. CASE FindSP(t)
  <2>1. /\ call[t].op = "Frames"
        /\ \/ call[t].cu \in bad[call[t].path] /\ result'[t] = Error
           \/ result'[t] = << <<call[t].cu, call[t].sp>> >>
    BY <1>2, <1>10 DEF FindSP, StagesInv
  <2> QED
    BY <2>1, ListsAreNoErrors DEF Fits
<1>11. CASE GetUnits(t) \/ GetDwarf(t) \/ StartScans(t)
  BY <1>11 DEF GetUnits, GetDwarf, StartScans
<1> QED
  BY <1>3, <1>4, <1>5, <1>6, <1>7, <1>8, <1>9, <1>10, <1>11 DEF CallerStep

LEMMA ResultInit == Init => ResultFits
BY DEF Init, ResultFits

LEMMA ResultStep ==
    TypesInv /\ StagesInv /\ GatheredInv /\ FuncsInv /\ ResultFits /\ [Next]_vars => ResultFits'
<1> SUFFICES ASSUME TypesInv, StagesInv, GatheredInv, FuncsInv, ResultFits, [Next]_vars
             PROVE  ResultFits'
  OBVIOUS
<1>1. ResultFits <=> \A t \in Callers : result[t] # NoResult => Fits(t, result[t])
  BY DEF ResultFits, Fits
<1>2. ASSUME file' = file, bad' = bad,
             \A u \in Callers :
                \/ result'[u] = NoResult
                \/ call'[u] = call[u] /\ (result'[u] = result[u] \/ Fits(u, result'[u]))
      PROVE  ResultFits'
  <2> SUFFICES ASSUME NEW u \in Callers, result'[u] # NoResult
               PROVE  LET p == call'[u].path
                          r == result'[u]
                      IN  /\ r = Error =>
                                \/ file[p] # "fine" \/ bad[p] # {}
                                \/ call'[u].op # "AllFuncs" /\ call'[u].cu = 0
                          /\ r # Error /\ call'[u].op = "AllFuncs" => Whole(r)
                          /\ r # Error /\ call'[u].op = "FuncsInCU" =>
                                \E c \in CUs \ bad[p] : r = << <<c>> >>
                          /\ r # Error /\ call'[u].op = "Frames" =>
                                r = << <<call'[u].cu, call'[u].sp>> >>
    BY <1>2 DEF ResultFits, Whole
  <2>1. call'[u] = call[u] /\ Fits(u, result'[u])
    BY <1>1, <1>2
  <2> QED
    BY <2>1 DEF Fits
<1>3. ASSUME NEW t \in Callers, Enter(t)
      PROVE  ResultFits'
  BY <1>2, <1>3, EnterType
<1>4. ASSUME NEW t \in Callers, CallerStep(t)
      PROVE  ResultFits'
  BY <1>2, <1>4, CallerStepType, ReturnFits
<1>5. ASSUME NEW i \in CallIds, NEW c \in CUs, Scan(i, c)
      PROVE  ResultFits'
  BY <1>2, <1>5, ScanType
<1>6. CASE UNCHANGED vars
  BY <1>2, <1>6 DEF vars, disk
<1> QED
  BY <1>3, <1>4, <1>5, <1>6 DEF Next, ScanStep

(* A call fails only for a reason in the file or in its address, and       *)
(* returns else what it is asked for, or for a unit the functions of one   *)
(* unit that is good (debuginfo.go:137-197, dwarf.go:123-147).             *)
THEOREM ResultsFit == Spec => []ResultFits
BY TypesInit, TypesStep, StagesInit, StagesStep, ScansInit, ScansStep, GatheredInit,
   GatheredStep, FuncsInit, FuncsStep, ResultInit, ResultStep, PTL DEF Spec

-----------------------------------------------------------------------------
LEMMA AllTyped ==
    TypesInv /\ StagesInv /\ ScansInv /\ GatheredInv /\ FuncsInv => TypeOK
<1> SUFFICES ASSUME TypesInv, StagesInv, ScansInv, GatheredInv, FuncsInv PROVE TypeOK
  OBVIOUS
<1>1. \A t \in Callers : acc[t] \in Seq(Pieces) /\ Len(acc[t]) <= NumCUs
  BY PiecesGathered
<1>2. \A i \in CallIds : funcC[i] \in Seq(CUs) /\ Len(funcC[i]) <= NumCUs
  BY DEF TypesInv, ScansInv
<1>3. \A k \in DOMAIN funcs : funcs[k] \in Seq(Pieces)
  BY DEF FuncsInv, ListsInv
<1> QED
  BY <1>1, <1>2, <1>3 DEF TypesInv, Stages, TypeOK

(* The caches and the calls keep their types: no channel of results has    *)
(* more than a result per unit, so no scan waits (debuginfo.go:174-187).   *)
THEOREM TypeCorrect == Spec => []TypeOK
BY TypesInit, TypesStep, StagesInit, StagesStep, ScansInit, ScansStep, GatheredInit,
   GatheredStep, FuncsInit, FuncsStep, AllTyped, PTL DEF Spec

-----------------------------------------------------------------------------
(* Why the calls return and no goroutine of FindAllFuncs is left behind.   *)

(* Two goroutines of a call never send the same unit, so that there is a   *)
(* place in the channel for each that has not sent yet.                    *)
ScansHaveRoom ==
    \A n \in CallIds, c \in CUs : <<n, c>> \in scanning => Len(funcC[n]) < FuncCap

LEMMA RoomLeft == TypesInv /\ ScansInv => ScansHaveRoom
<1> SUFFICES ASSUME TypesInv, ScansInv, NEW n \in CallIds, NEW c \in CUs, <<n, c>> \in scanning
             PROVE  Len(funcC[n]) < NumCUs
  BY DEF ScansHaveRoom, FuncCap
<1> DEFINE s == funcC[n]
<1>1. s \in Seq(CUs) /\ Len(s) \in Nat /\ s \in [1..Len(s) -> CUs] /\ NumCUs \in Nat
  BY LenProperties, CachesAssumption DEF TypesInv
<1>2. \A k \in 1..Len(s) : s[k] # c
  BY DEF ScansInv
<1>3. \A j, k \in 1..Len(s) : s[j] = s[k] => j = k
  BY DEF ScansInv
<1> HIDE DEF s
<1>4. s \in Injection(1..Len(s), CUs \ {c})
  <2>1. s \in [1..Len(s) -> CUs \ {c}]
    BY <1>1, <1>2
  <2> QED
    BY <1>3, <2>1 DEF Injection, IsInjective
<1>5. IsFiniteSet(CUs) /\ Cardinality(CUs) = NumCUs
  BY <1>1, FS_Interval, CachesAssumption DEF CUs
<1>6. IsFiniteSet(CUs \ {c}) /\ Cardinality(CUs \ {c}) = NumCUs - 1
  BY <1>5, FS_RemoveElement
<1>7. Cardinality(1..Len(s)) = Len(s)
  <2>1. 1 \in Int /\ Len(s) \in Int
    BY <1>1
  <2>2. Cardinality(1..Len(s)) = IF 1 > Len(s) THEN 0 ELSE Len(s) - 1 + 1
    BY <2>1, FS_Interval
  <2> QED
    BY <1>1, <2>2
<1>8. Cardinality(1..Len(s)) <= Cardinality(CUs \ {c})
  BY <1>4, <1>6, FS_Injection
<1> QED
  BY <1>1, <1>6, <1>7, <1>8 DEF s

(* Every unit of a call that collects is still being scanned, or its       *)
(* result is in the channel, or gathered.                                  *)
FedOf(s, n) ==
    \A c \in CUs :
        \/ <<n, c>> \in scanning
        \/ \E k \in 1..Len(funcC[n]) : funcC[n][k] = c
        \/ \E j \in 1..Len(s) : s[j] = <<c>>

FedInv == \A t \in Callers : at[t] = "collect" => FedOf(acc[t], nth[t])

LEMMA FedInit == Init => FedInv
BY DEF Init, FedInv

LEMMA FedNext ==
    ASSUME NEW t \in Callers, NEW s, NEW n, s = acc'[t], n = nth'[t], FedOf(s, n)'
    PROVE  FedOf(acc[t], nth[t])'
BY DEF FedOf

LEMMA FedSame ==
    ASSUME NEW t \in Callers, FedInv, at[t] = "collect", acc'[t] = acc[t], nth'[t] = nth[t],
           \A c \in CUs : <<nth[t], c>> \in scanning => <<nth[t], c>> \in scanning',
           funcC'[nth[t]] = funcC[nth[t]]
    PROVE  FedOf(acc[t], nth[t])'
<1>1. PICK s, n : s = acc[t] /\ n = nth[t]
  OBVIOUS
<1>2. FedOf(s, n)
  BY <1>1 DEF FedInv
<1>3. FedOf(s, n)'
  BY <1>1, <1>2 DEF FedOf
<1> QED
  BY <1>1, <1>3, FedNext

LEMMA FedCollect ==
    ASSUME TypesInv, StagesInv, ScansInv, GatheredInv, FedInv, NEW t \in Callers, CollectFuncs(t)
    PROVE  FedInv'
<1>1. PICK n \in CallIds : n = nth[t]
  BY CollectType
<1>2. PICK c \in CUs : c = Head(funcC[n])
  BY <1>1, CollectType
<1>3. /\ scanning' = scanning /\ funcC[n] # << >> /\ funcC'[n] = Tail(funcC[n])
      /\ at[t] = "collect"
      /\ \A m \in CallIds \ {n} : funcC'[m] = funcC[m]
      /\ at'[t] = "collect" => acc'[t] = Append(acc[t], <<c>>)
  BY <1>1, <1>2, CollectType
<1>4. /\ nth' = nth
      /\ \A u \in Callers \ {t} : at'[u] = at[u] /\ acc'[u] = acc[u]
  BY CallerStepType DEF CallerStep
<1>5. funcC[n] \in Seq(CUs) /\ Len(funcC[n]) \in Nat \ {0} /\ funcC[n][1] = c
  BY <1>2, <1>3, EmptySeq DEF TypesInv
<1>6. /\ Len(funcC'[n]) = Len(funcC[n]) - 1
      /\ \A k \in 1..Len(funcC'[n]) : funcC'[n][k] = funcC[n][k + 1]
  BY <1>3, <1>5, HeadTailProperties
<1>7. ASSUME NEW u \in Callers, u # t, at'[u] = "collect"
      PROVE  FedOf(acc[u], nth[u])'
  <2>1. at[u] = "collect" /\ acc'[u] = acc[u]
    BY <1>4, <1>7
  <2>2. nth[u] # n
    BY <1>1, <1>3, <1>7, <2>1, OtherCall
  <2>3. nth[u] \in CallIds
    BY <2>1, CachesAssumption DEF StagesInv, TypesInv, CallIds
  <2> QED
    BY <1>3, <1>4, <2>1, <2>2, <2>3, FedSame
<1>8. ASSUME at'[t] = "collect"
      PROVE  FedOf(acc[t], nth[t])'
  <2>1. PICK s, r : s = acc[t] /\ r = Append(s, <<c>>)
    OBVIOUS
  <2>2. FedOf(s, n)
    BY <1>1, <1>3, <2>1 DEF FedInv
  <2>3. s \in Seq(GoodPieces(call[t].path))
    BY <1>3, <2>1 DEF GatheredInv, GatheredOf
  <2>4. /\ Len(s) \in Nat /\ Len(r) = Len(s) + 1
        /\ \A j \in 1..Len(s) : r[j] = s[j]
        /\ r[Len(s) + 1] = <<c>>
    <3>1. PICK S : S = GoodPieces(call[t].path) \cup {<<c>>}
      OBVIOUS
    <3>2. s \in Seq(S) /\ <<c>> \in S
      BY <2>3, <3>1, SeqMonotonic
    <3> QED
      BY <2>1, <3>2, AppendProperties, LenProperties
  <2>5. ASSUME NEW d \in CUs
        PROVE  \/ <<n, d>> \in scanning'
               \/ \E k \in 1..Len(funcC'[n]) : funcC'[n][k] = d
               \/ \E j \in 1..Len(r) : r[j] = <<d>>
    <3>1. CASE <<n, d>> \in scanning
      BY <1>3, <3>1
    <3>2. ASSUME NEW k \in 1..Len(funcC[n]), funcC[n][k] = d
          PROVE  \/ \E i \in 1..Len(funcC'[n]) : funcC'[n][i] = d
                 \/ \E j \in 1..Len(r) : r[j] = <<d>>
      <4>1. CASE k = 1
        <5>1. Len(s) + 1 \in 1..Len(r) /\ r[Len(s) + 1] = <<d>>
          BY <4>1, <3>2, <1>5, <2>4
        <5> QED
          BY <5>1
      <4>2. CASE k # 1
        <5>1. k - 1 \in 1..Len(funcC'[n]) /\ funcC'[n][k - 1] = d
          BY <4>2, <3>2, <1>5, <1>6
        <5> QED
          BY <5>1
      <4> QED
        BY <4>1, <4>2
    <3>3. ASSUME NEW j \in 1..Len(s), s[j] = <<d>>
          PROVE  \E i \in 1..Len(r) : r[i] = <<d>>
      <4>1. j \in 1..Len(r) /\ r[j] = <<d>>
        BY <3>3, <2>4
      <4> QED
        BY <4>1
    <3> QED
      BY <2>2, <3>1, <3>2, <3>3 DEF FedOf
  <2>6. FedOf(r, n)'
    BY <2>5 DEF FedOf
  <2> QED
    BY <1>1, <1>3, <1>4, <1>8, <2>1, <2>6, FedNext
<1> QED
  BY <1>7, <1>8 DEF FedInv

LEMMA FedScan ==
    ASSUME TypesInv, StagesInv, FedInv, NEW i \in CallIds, NEW c \in CUs, Scan(i, c)
    PROVE  FedInv'
<1>1. /\ nth' = nth /\ at' = at /\ acc' = acc
      /\ scanning' = scanning \ {<<i, c>>}
      /\ funcC'[i] = Append(funcC[i], c) /\ funcC[i] \in Seq(CUs)
      /\ \A m \in CallIds \ {i} : funcC'[m] = funcC[m]
  BY ScanType DEF TypesInv
<1>2. /\ Len(funcC'[i]) = Len(funcC[i]) + 1 /\ Len(funcC[i]) \in Nat
      /\ \A k \in 1..Len(funcC[i]) : funcC'[i][k] = funcC[i][k]
      /\ funcC'[i][Len(funcC[i]) + 1] = c
  BY <1>1, AppendProperties, LenProperties
<1>3. ASSUME NEW t \in Callers, at[t] = "collect"
      PROVE  FedOf(acc[t], nth[t])'
  <2>1. nth[t] \in CallIds
    BY <1>3, CachesAssumption DEF StagesInv, TypesInv, CallIds
  <2>2. CASE nth[t] = i
    <3>1. PICK s : s = acc[t]
      OBVIOUS
    <3>2. FedOf(s, i)
      BY <1>3, <2>2, <3>1 DEF FedInv
    <3>3. ASSUME NEW d \in CUs
          PROVE  \/ <<i, d>> \in scanning'
                 \/ \E k \in 1..Len(funcC'[i]) : funcC'[i][k] = d
                 \/ \E j \in 1..Len(s) : s[j] = <<d>>
      <4>1. CASE d = c
        <5>1. Len(funcC[i]) + 1 \in 1..Len(funcC'[i])
          BY <1>2
        <5> QED
          BY <4>1, <5>1, <1>2
      <4>2. CASE d # c
        <5>1. \A k \in 1..Len(funcC[i]) : k \in 1..Len(funcC'[i])
          BY <1>2
        <5> QED
          BY <4>2, <5>1, <1>1, <1>2, <3>2 DEF FedOf
      <4> QED
        BY <4>1, <4>2
    <3>4. FedOf(s, i)'
      BY <3>3 DEF FedOf
    <3> QED
      BY <1>1, <2>2, <3>1, <3>4, FedNext
  <2>3. CASE nth[t] # i
    <3>1. \A d \in CUs : <<nth[t], d>> \in scanning => <<nth[t], d>> \in scanning'
      BY <1>1, <2>3
    <3> QED
      BY <1>1, <1>3, <2>1, <2>3, <3>1, FedSame
  <2> QED
    BY <2>2, <2>3
<1> QED
  BY <1>1, <1>3 DEF FedInv

LEMMA FedStep ==
    TypesInv /\ StagesInv /\ ScansInv /\ GatheredInv /\ FedInv /\ [Next]_vars => FedInv'
<1> SUFFICES ASSUME TypesInv, StagesInv, ScansInv, GatheredInv, FedInv, [Next]_vars PROVE FedInv'
  OBVIOUS
<1>1. ASSUME NEW t \in Callers, Enter(t)
      PROVE  FedInv'
  <2>1. /\ \A u \in Callers : at'[u] = "collect" => at[u] = "collect" /\ nth'[u] = nth[u]
        /\ acc' = acc /\ scanning' = scanning /\ funcC' = funcC
    BY <1>1, EnterType
  <2> QED
    BY <2>1, FedSame DEF FedInv
<1>2. ASSUME NEW t \in Callers, StartScans(t)
      PROVE  FedInv'
  <2>1. /\ nth' = nth /\ funcC' = funcC
        /\ \A u \in Callers \ {t} : at'[u] = at[u] /\ acc'[u] = acc[u]
    BY <1>2, CallerStepType DEF CallerStep, StartScans
  <2>2. /\ scanning' = scanning \cup {<<nth[t], c>> : c \in CUs}
    BY <1>2 DEF StartScans
  <2>3. FedOf(acc[t], nth[t])'
    <3>1. PICK s, n : s = acc'[t] /\ n = nth[t]
      OBVIOUS
    <3>2. \A c \in CUs : <<n, c>> \in scanning'
      BY <2>2, <3>1
    <3>3. FedOf(s, n)'
      BY <3>2 DEF FedOf
    <3> QED
      BY <2>1, <3>1, <3>3, FedNext
  <2>4. \A u \in Callers \ {t} : at'[u] = "collect" => FedOf(acc[u], nth[u])'
    BY <2>1, <2>2, FedSame
  <2> QED
    BY <2>3, <2>4 DEF FedInv
<1>3. ASSUME NEW t \in Callers, CallerStep(t), ~StartScans(t), ~CollectFuncs(t)
      PROVE  FedInv'
  <2>1. /\ nth' = nth /\ scanning' = scanning /\ funcC' = funcC
        /\ \A u \in Callers \ {t} : at'[u] = at[u] /\ acc'[u] = acc[u]
        /\ at'[t] # "collect"
    BY <1>3, CallerStepType, QuietStepType
  <2> QED
    BY <2>1, FedSame DEF FedInv
<1>4. CASE UNCHANGED vars
  <2>1. /\ nth' = nth /\ scanning' = scanning /\ funcC' = funcC /\ at' = at /\ acc' = acc
    BY <1>4 DEF vars
  <2> QED
    BY <2>1, FedSame DEF FedInv
<1> QED
  BY <1>1, <1>2, <1>3, <1>4, FedCollect, FedScan DEF Next, ScanStep

(* A call that collects has a result to take or all of them, or one of its *)
(* goroutines is at work and has room for its result; at its other places  *)
(* a call waits for nothing.                                               *)
CollectorsAreFed ==
    \A t \in Callers : at[t] = "collect" =>
        \/ Len(acc[t]) = NumCUs
        \/ Len(acc[t]) < NumCUs /\ funcC[nth[t]] # << >>
        \/ \E c \in CUs : <<nth[t], c>> \in scanning /\ Len(funcC[nth[t]]) < FuncCap

LEMMA FedOrDone == TypesInv /\ StagesInv /\ ScansInv /\ GatheredInv /\ FedInv => CollectorsAreFed
<1> SUFFICES ASSUME TypesInv, StagesInv, ScansInv, GatheredInv, FedInv, NEW t \in Callers,
                    at[t] = "collect", Len(acc[t]) # NumCUs,
                    ~(Len(acc[t]) < NumCUs /\ funcC[nth[t]] # << >>),
                    ~\E c \in CUs : <<nth[t], c>> \in scanning /\ Len(funcC[nth[t]]) < FuncCap
             PROVE  FALSE
  BY DEF CollectorsAreFed
<1>0. PICK n \in CallIds : n = nth[t]
  BY CachesAssumption DEF StagesInv, TypesInv, CallIds
<1>9. \A c \in CUs : <<n, c>> \notin scanning
  BY <1>0, RoomLeft DEF ScansHaveRoom
<1> DEFINE s == acc[t]
<1>1. s \in Seq(GoodPieces(call[t].path)) /\ Len(s) <= NumCUs /\ NumCUs \in Nat /\ Len(s) \in Nat
  BY LenProperties, CachesAssumption DEF GatheredInv, GatheredOf
<1>2. Len(s) < NumCUs /\ funcC[n] = << >>
  BY <1>0, <1>1
<1>3. \A c \in CUs : \E j \in 1..Len(s) : s[j] = <<c>>
  <2>1. FedOf(s, n)
    BY <1>0 DEF FedInv
  <2>2. 1..Len(funcC[n]) = {}
    BY <1>2
  <2> HIDE DEF s
  <2> QED
    BY <1>9, <2>1, <2>2 DEF FedOf
<1> HIDE DEF s
<1>4. PICK f \in [CUs -> 1..Len(s)] : \A c \in CUs : s[f[c]] = <<c>>
  <2> DEFINE g == [c \in CUs |-> CHOOSE j \in 1..Len(s) : s[j] = <<c>>]
  <2>1. \A c \in CUs : g[c] \in 1..Len(s) /\ s[g[c]] = <<c>>
    BY <1>3
  <2>2. g \in [CUs -> 1..Len(s)]
    BY <2>1
  <2> QED
    BY <2>1, <2>2
<1>5. IsFiniteSet(CUs) /\ Cardinality(CUs) = NumCUs
  BY <1>1, FS_Interval, CachesAssumption DEF CUs
<1>6. IsFiniteSet(1..Len(s)) /\ Cardinality(1..Len(s)) = Len(s)
  <2>1. 1 \in Int /\ Len(s) \in Int
    BY <1>1
  <2>2. IsFiniteSet(1..Len(s)) /\ Cardinality(1..Len(s)) = IF 1 > Len(s) THEN 0 ELSE Len(s) - 1 + 1
    BY <2>1, FS_Interval
  <2> QED
    BY <1>1, <2>2
<1>7. Cardinality(1..Len(s)) < Cardinality(CUs)
  BY <1>2, <1>5, <1>6
<1>8. \E x, y \in CUs : x # y /\ f[x] = f[y]
  BY <1>4, <1>5, <1>6, <1>7, FS_PigeonHole
<1> QED
  BY <1>4, <1>8

(* No goroutine of FindAllFuncs ever waits for room in the channel of its  *)
(* call, also when the call returned on an error long before; and the call *)
(* never waits for a goroutine that is gone (debuginfo.go:172-189).        *)
THEOREM ScansNeverWait == Spec => [](ScansHaveRoom /\ CollectorsAreFed)
BY TypesInit, TypesStep, StagesInit, StagesStep, ScansInit, ScansStep, GatheredInit,
   GatheredStep, FedInit, FedStep, RoomLeft, FedOrDone, PTL DEF Spec

(* How many steps a call still takes at most: a number per place, and at   *)
(* collect the results it has not taken yet.                               *)
StepsLeft(t) ==
    CASE at[t] = "getFuncs"   -> NumCUs + 7
      [] at[t] = "getUnits"   -> NumCUs + 6
      [] at[t] = "getDwarf"   -> NumCUs + 5
      [] at[t] = "open"       -> NumCUs + 4
      [] at[t] = "parseUnits" -> NumCUs + 3
      [] at[t] \in {"startScans", "getCU", "getSP"} -> NumCUs + 2
      [] at[t] = "collect"    -> NumCUs + 1 - Len(acc[t])
      [] at[t] \in {"findCU", "findSP"} -> 1
      [] OTHER                -> 0

LEMMA StepsType == TypesInv /\ GatheredInv => \A t \in Callers : StepsLeft(t) \in 0..(NumCUs + 7)
<1> SUFFICES ASSUME TypesInv, GatheredInv, NEW t \in Callers PROVE StepsLeft(t) \in 0..(NumCUs + 7)
  OBVIOUS
<1>1. at[t] \in Stages /\ NumCUs \in Nat \ {0}
  BY CachesAssumption DEF TypesInv
<1>2. at[t] = "collect" => Len(acc[t]) \in Nat /\ Len(acc[t]) <= NumCUs
  BY LenProperties DEF GatheredInv, GatheredOf
<1> QED
  BY <1>1, <1>2 DEF StepsLeft, Stages

LEMMA CallerUsesUp ==
    ASSUME TypesInv, StagesInv, GatheredInv, NEW t \in Callers, CallerStep(t)
    PROVE  StepsLeft(t)' < StepsLeft(t)
<1>1. /\ NumCUs \in Nat \ {0} /\ AfterUnits(t) \in {"startScans", "getCU", "getSP"}
      /\ (at[t] = "collect" => Len(acc[t]) \in Nat /\ Len(acc[t]) <= NumCUs)
      /\ (at[t] # "collect" => acc[t] = << >>)
  BY CallType, LenProperties, CachesAssumption
     DEF AfterUnits, TypesInv, StagesInv, GatheredInv, GatheredOf
<1>2. \A l : Goto(t, l) => at'[t] = l
  BY DEF Goto, TypesInv
<1>3. \A v : Return(t, v) => at'[t] = "idle"
  BY <1>2 DEF Return
<1>4. CASE GetFuncs(t)
  BY <1>1, <1>2, <1>3, <1>4 DEF GetFuncs, StepsLeft
<1>5. CASE GetUnits(t)
  <2>1. at[t] = "getUnits" /\ at'[t] \in {"startScans", "getCU", "getSP", "getDwarf"}
    BY <1>1, <1>2, <1>5 DEF GetUnits
  <2> QED
    BY <2>1, <1>1 DEF StepsLeft
<1>6. CASE GetDwarf(t)
  <2>1. at[t] = "getDwarf" /\ at'[t] \in {"parseUnits", "open"}
    BY <1>2, <1>6 DEF GetDwarf
  <2> QED
    BY <2>1, <1>1 DEF StepsLeft
<1>7. CASE Open(t)
  <2>1. at[t] = "open" /\ at'[t] \in {"parseUnits", "idle"}
    BY <1>2, <1>3, <1>7 DEF Open
  <2> QED
    BY <2>1, <1>1 DEF StepsLeft
<1>8. CASE ParseUnits(t)
  <2>1. at[t] = "parseUnits" /\ at'[t] \in {"startScans", "getCU", "getSP", "idle"}
    BY <1>1, <1>2, <1>3, <1>8 DEF ParseUnits
  <2> QED
    BY <2>1, <1>1 DEF StepsLeft
<1>9. CASE StartScans(t)
  <2>1. at[t] = "startScans" /\ at'[t] = "collect" /\ acc'[t] = << >>
    BY <1>1, <1>2, <1>9 DEF StartScans
  <2> QED
    BY <2>1, <1>1 DEF StepsLeft
<1>10. CASE CollectFuncs(t)
  <2>1. /\ at[t] = "collect"
        /\ \/ at'[t] = "idle"
           \/ at'[t] = "collect" /\ \E c : acc'[t] = Append(acc[t], c)
    BY <1>10, CollectType
  <2>2. \A c : Len(Append(acc[t], c)) = Len(acc[t]) + 1
    <3>1. acc[t] \in Seq(GoodPieces(call[t].path))
      BY <2>1 DEF GatheredInv, GatheredOf
    <3> TAKE c
    <3>2. PICK S : S = GoodPieces(call[t].path) \cup {c}
      OBVIOUS
    <3>3. acc[t] \in Seq(S) /\ c \in S
      BY <3>1, <3>2, SeqMonotonic
    <3> QED
      BY <3>3, AppendProperties
  <2>3. CASE at'[t] = "idle"
    BY <2>1, <2>3, <1>1 DEF StepsLeft
  <2>4. CASE at'[t] = "collect"
    <3>1. Len(acc'[t]) = Len(acc[t]) + 1
      BY <2>1, <2>2, <2>4
    <3> QED
      BY <2>1, <2>4, <3>1, <1>1 DEF StepsLeft
  <2> QED
    BY <2>1, <2>3, <2>4
<1>11. CASE StoreFuncs(t)
  BY <1>1, <1>3, <1>11 DEF StoreFuncs, StepsLeft
<1>12. CASE GetCU(t)
  <2>1. at[t] = "getCU" /\ at'[t] \in {"findCU", "idle"}
    BY <1>2, <1>3, <1>12 DEF GetCU
  <2> QED
    BY <2>1, <1>1 DEF StepsLeft
<1>13. CASE GetSP(t)
  <2>1. at[t] = "getSP" /\ at'[t] \in {"findSP", "idle"}
    BY <1>2, <1>3, <1>13 DEF GetSP
  <2> QED
    BY <2>1, <1>1 DEF StepsLeft
<1>14. CASE FindCU(t) \/ FindSP(t)
  <2>1. at[t] \in {"findCU", "findSP"} /\ at'[t] = "idle"
    BY <1>3, <1>14 DEF FindCU, FindSP
  <2> QED
    BY <2>1 DEF StepsLeft
<1> QED
  BY <1>4, <1>5, <1>6, <1>7, <1>8, <1>9, <1>10, <1>11, <1>12, <1>13, <1>14 DEF CallerStep

(* A call takes at most NumCUs + 7 steps of its own (debuginfo.go:137-197, *)
(* dwarf.go:123-147): no step of another one makes it start over, and      *)
(* every other step ends a goroutine of FindAllFuncs.  With ScansNeverWait *)
(* every call returns.                                                     *)
THEOREM CallsUseUpSteps ==
    Spec => /\ [](\A t \in Callers : StepsLeft(t) \in 0..(NumCUs + 7))
            /\ [][\A t \in Callers : at[t] # "idle" =>
                     \/ StepsLeft(t)' < StepsLeft(t)
                     \/ at'[t] = at[t] /\ acc'[t] = acc[t]]_vars
            /\ [][(\A t \in Callers : at'[t] = at[t] /\ acc'[t] = acc[t]) =>
                     scanning' \subseteq scanning /\ scanning' # scanning]_vars
<1>1. TypesInv /\ GatheredInv => \A t \in Callers : StepsLeft(t) \in 0..(NumCUs + 7)
  BY StepsType
<1>2. ASSUME TypesInv, StagesInv, GatheredInv, Next
      PROVE  /\ \A t \in Callers : at[t] # "idle" =>
                   \/ StepsLeft(t)' < StepsLeft(t)
                   \/ at'[t] = at[t] /\ acc'[t] = acc[t]
             /\ (\A t \in Callers : at'[t] = at[t] /\ acc'[t] = acc[t]) =>
                   scanning' \subseteq scanning /\ scanning' # scanning
  <2>1. ASSUME NEW u \in Callers, Enter(u)
        PROVE  /\ at'[u] # at[u] /\ at[u] = "idle"
               /\ \A t \in Callers \ {u} : at'[t] = at[t] /\ acc'[t] = acc[t]
    BY <1>2, <2>1, EnterType
  <2>2. ASSUME NEW u \in Callers, CallerStep(u)
        PROVE  /\ StepsLeft(u)' < StepsLeft(u) /\ at[u] # "idle"
               /\ \A t \in Callers \ {u} : at'[t] = at[t] /\ acc'[t] = acc[t]
    BY <1>2, <2>2, CallerUsesUp, CallerStepType
  <2>3. ASSUME NEW n \in CallIds, NEW c \in CUs, Scan(n, c)
        PROVE  /\ \A t \in Callers : at'[t] = at[t] /\ acc'[t] = acc[t]
               /\ scanning' \subseteq scanning /\ scanning' # scanning
    BY <1>2, <2>3, ScanType
  <2>4. ASSUME NEW u \in Callers, CallerStep(u)
        PROVE  ~(at'[u] = at[u] /\ acc'[u] = acc[u])
    <3>1. at'[u] = at[u] /\ acc'[u] = acc[u] => StepsLeft(u)' = StepsLeft(u)
      BY DEF StepsLeft
    <3>2. StepsLeft(u) \in Nat /\ StepsLeft(u)' < StepsLeft(u)
      BY <1>2, <2>2, <2>4, StepsType, CachesAssumption
    <3> QED
      BY <3>1, <3>2
  <2> QED
    BY <1>2, <2>1, <2>2, <2>3, <2>4 DEF Next, ScanStep
<1> QED
  BY <1>1, <1>2, TypesInit, TypesStep, StagesInit, StagesStep, ScansInit, ScansStep, GatheredInit,
     GatheredStep, PTL DEF Spec

-----------------------------------------------------------------------------
(* Where the misfiled units cannot hurt. *)

NoAllFuncs == \A t \in Callers : at[t] # "idle" => call[t].op # "AllFuncs"

UnitKeyIsOwn ==
    \A p \in Paths, c \in CUs : CUKey(p, c) \in DOMAIN funcs => funcs[CUKey(p, c)] = << <<c>> >>

LEMMA NotCollecting ==
    ASSUME StagesInv, NoAllFuncs, NEW t \in Callers PROVE at[t] \notin {"getFuncs", "startScans", "collect"}
BY DEF StagesInv, NoAllFuncs

LEMMA OwnInit == Init => UnitKeyIsOwn /\ FuncsInCUAreOwn
BY DEF Init, UnitKeyIsOwn, FuncsInCUAreOwn

LEMMA OwnKeyStep ==
    ASSUME TypesInv, StagesInv, NoAllFuncs, UnitKeyIsOwn, [Next]_vars PROVE UnitKeyIsOwn'
<1>1. ASSUME NEW t \in Callers, CallerStep(t) PROVE UnitKeyIsOwn'
  <2>1. at[t] \notin {"getFuncs", "startScans", "collect"} /\ call[t].path \in Paths
    BY NotCollecting, CallType DEF TypesInv
  <2>2. CASE FindCU(t)
    <3>1. call[t].cu \in CUs
      BY <2>2, CallType DEF FindCU, StagesInv, TypesInv
    <3>2. PICK p \in Paths, c \in CUs : p = call[t].path /\ c = call[t].cu
      BY <2>1, <3>1
    <3>3. CASE funcs' = funcs
      BY <3>3 DEF UnitKeyIsOwn
    <3>4. CASE Store(CUKey(p, c), << <<c>> >>)
      <4>1. /\ DOMAIN funcs' = DOMAIN funcs \cup {CUKey(p, c)}
            /\ \A k \in DOMAIN funcs' : funcs'[k] = IF k = CUKey(p, c) THEN << <<c>> >> ELSE funcs[k]
        BY <3>4, StoreType
      <4>2. \A q \in Paths, d \in CUs : CUKey(q, d) = CUKey(p, c) => d = c
        BY KeysDiffer, CachesAssumption DEF SPs
      <4> QED
        BY <4>1, <4>2 DEF UnitKeyIsOwn
    <3> QED
      BY <2>2, <3>2, <3>3, <3>4 DEF FindCU
  <2>3. CASE FindSP(t)
    <3>1. call[t].cu \in CUs /\ call[t].sp \in SPs
      BY <2>3, CallType DEF FindSP, StagesInv, TypesInv
    <3>2. PICK p \in Paths, c \in CUs, s \in SPs : p = call[t].path /\ c = call[t].cu /\ s = call[t].sp
      BY <2>1, <3>1
    <3>3. CASE funcs' = funcs
      BY <3>3 DEF UnitKeyIsOwn
    <3>4. CASE Store(SPKey(p, c, s), << <<c, s>> >>)
      <4>1. /\ DOMAIN funcs' = DOMAIN funcs \cup {SPKey(p, c, s)}
            /\ \A k \in DOMAIN funcs' :
                  funcs'[k] = IF k = SPKey(p, c, s) THEN << <<c, s>> >> ELSE funcs[k]
        BY <3>4, StoreType
      <4>2. \A q \in Paths, d \in CUs : CUKey(q, d) # SPKey(p, c, s)
        BY KeysDiffer
      <4> QED
        BY <4>1, <4>2 DEF UnitKeyIsOwn
    <3> QED
      BY <2>3, <3>2, <3>3, <3>4 DEF FindSP
  <2>4. CASE ~(FindCU(t) \/ FindSP(t))
    <3>1. funcs' = funcs
      BY <1>1, <2>1, <2>4 DEF CallerStep, GetFuncs, GetUnits, GetDwarf, Open, ParseUnits, StartScans,
         CollectFuncs, StoreFuncs, GetCU, GetSP, caches
    <3> QED
      BY <3>1 DEF UnitKeyIsOwn
  <2> QED
    BY <2>2, <2>3, <2>4
<1>2. ASSUME funcs' = funcs PROVE UnitKeyIsOwn'
  BY <1>2 DEF UnitKeyIsOwn
<1>3. (\E t \in Callers : Enter(t)) \/ ScanStep \/ UNCHANGED vars => funcs' = funcs
  BY EnterType, ScanType DEF ScanStep, vars, caches
<1> QED
  BY <1>1, <1>2, <1>3 DEF Next

LEMMA OwnResultStep ==
    ASSUME TypesInv, StagesInv, NoAllFuncs, UnitKeyIsOwn, FuncsInCUAreOwn, [Next]_vars
    PROVE  FuncsInCUAreOwn'
<1>1. ASSUME NEW t \in Callers, CallerStep(t) PROVE FuncsInCUAreOwn'
  <2>1. /\ at[t] \notin {"getFuncs", "startScans", "collect"} /\ call[t].path \in Paths
        /\ call[t].op # "AllFuncs" => call[t].cu \in CUs \cup {0}
    BY NotCollecting, CallType DEF TypesInv
  <2>2. \A v : Return(t, v) => result'[t] = v
    BY DEF Return, TypesInv
  <2>3. \/ result'[t] = result[t] \/ result'[t] = Error
        \/ call[t].op = "FuncsInCU" /\ result'[t] = << <<call[t].cu>> >>
        \/ call[t].op = "Frames"
    <3>1. CASE GetCU(t)
      <4>1. call[t].op = "FuncsInCU"
        BY <3>1 DEF GetCU, StagesInv
      <4>2. \/ result'[t] = result[t] \/ result'[t] = Error
            \/ /\ call[t].cu # 0 /\ CUKey(call[t].path, call[t].cu) \in DOMAIN funcs
               /\ result'[t] = funcs[CUKey(call[t].path, call[t].cu)]
        BY <2>2, <3>1 DEF GetCU
      <4> QED
        BY <2>1, <4>1, <4>2 DEF UnitKeyIsOwn
    <3>2. CASE FindCU(t)
      <4>1. call[t].op = "FuncsInCU"
        BY <3>2 DEF FindCU, StagesInv
      <4> QED
        BY <2>2, <3>2, <4>1 DEF FindCU
    <3>3. CASE GetSP(t) \/ FindSP(t)
      BY <3>3 DEF GetSP, FindSP, StagesInv
    <3>4. CASE Open(t) \/ ParseUnits(t)
      BY <2>2, <3>4 DEF Open, ParseUnits
    <3>5. CASE GetUnits(t) \/ GetDwarf(t)
      BY <3>5 DEF GetUnits, GetDwarf
    <3>6. ~(GetFuncs(t) \/ StartScans(t) \/ CollectFuncs(t) \/ StoreFuncs(t))
      BY <2>1 DEF GetFuncs, StartScans, CollectFuncs, StoreFuncs
    <3> QED
      BY <1>1, <3>1, <3>2, <3>3, <3>4, <3>5, <3>6 DEF CallerStep
  <2>4. call' = call /\ \A u \in Callers \ {t} : result'[u] = result[u]
    BY <1>1, CallerStepType
  <2> QED
    BY <2>3, <2>4 DEF FuncsInCUAreOwn
<1>2. ASSUME NEW t \in Callers, Enter(t) PROVE FuncsInCUAreOwn'
  BY <1>2, EnterType DEF FuncsInCUAreOwn
<1>3. ASSUME call' = call, result' = result PROVE FuncsInCUAreOwn'
  BY <1>3 DEF FuncsInCUAreOwn
<1>4. ScanStep \/ UNCHANGED vars => call' = call /\ result' = result
  BY ScanType DEF ScanStep, vars
<1> QED
  BY <1>1, <1>2, <1>3, <1>4 DEF Next

(* While nobody calls FindAllFuncs on the way, FindAllFuncsInCUByAddr      *)
(* returns the functions of the unit of its address and no other           *)
(* (debuginfo.go:137-158): only a FindAllFuncs misfiles units.             *)
THEOREM UnitsAreOwnWithoutAllFuncs == Spec /\ []NoAllFuncs => []FuncsInCUAreOwn
<1>1. /\ TypesInv /\ StagesInv /\ NoAllFuncs /\ UnitKeyIsOwn /\ FuncsInCUAreOwn /\ [Next]_vars
      => UnitKeyIsOwn' /\ FuncsInCUAreOwn'
  BY OwnKeyStep, OwnResultStep
<1> QED
  BY <1>1, OwnInit, TypesInit, TypesStep, StagesInit, StagesStep, PTL DEF Spec
=============================================================================
