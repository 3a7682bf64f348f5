---------------------------- MODULE ParserCaches ----------------------------
(***************************************************************************)
(* The caches the package keeps for the life of the process: dwarfCMap,    *)
(* compileUnitsCMap and allSubroutinesCMap, and the exported operations    *)
(* that look up, compute and store, with the parallel scan of FindAllFuncs *)
(* (parser/dwarf.go, parser/debuginfo.go).  The maps are concurrent maps:  *)
(* one Get or one Set is atomic, a lookup with the store after a miss is   *)
(* not.  Callers are the goroutines of the program that use the package,   *)
(* such as the workers of cmd/addr2line.                                   *)
(*                                                                         *)
(* A compile unit is its rank by offset, a subprogram its rank in the unit.*)
(* A list of functions is a sequence of pieces: <<c>> is all that          *)
(* findAllFuncs finds in unit c, <<c, s>> the inlined subroutines of       *)
(* subprogram s of c.                                                      *)
(***************************************************************************)
EXTENDS Integers, Sequences, FiniteSets

CONSTANTS
    Callers,    \* goroutines that call the package
    Paths,      \* object files, a path being a sequence
    NumCUs,     \* compile units with code per file
    NumSPs,     \* subprograms per unit
    MaxCalls    \* bound on the calls of all callers together

CUs == 1..NumCUs
SPs == 1..NumSPs

(* The keys fmt.Sprintf("%v-%v", ...) makes. *)
CUKey(path, c) == path \o <<c>>
SPKeyWithoutSP(path, c, s) == CUKey(path, c)   \* for a mutation run only
SPKey(path, c, s) == path \o <<c, s>>

ASSUME CachesAssumption ==
    /\ IsFiniteSet(Callers)
    /\ NumCUs \in Nat \ {0} /\ NumSPs \in Nat \ {0} /\ MaxCalls \in Nat
    /\ Paths # {} /\ \A p \in Paths : p \in Seq({p[k] : k \in DOMAIN p})
    (* No path is another one followed by a dash and an offset. *)
    /\ \A p, q \in Paths, c, s \in CUs \cup SPs : p # q => p # CUKey(q, c) /\ p # SPKey(q, c, s)

VARIABLES
    file,       \* what of a file cannot be read: "elf", "top", or "fine"
    bad,        \* the units of a file findAllFuncs and the lookups fail on
    dwarf,      \* keys of dwarfCMap
    units,      \* keys of compileUnitsCMap
    funcs,      \* allSubroutinesCMap, a function of its keys
    calls,      \* how many calls were made
    nth,        \* which of them is a caller's current or last one
    call,       \* the arguments of that call
    at,         \* where the caller is in it
    acc,        \* FindAllFuncs: the funcs gathered so far
    result,     \* what the last call returned
    scanning,   \* the goroutines of FindAllFuncs at work: <<call, unit>>
    funcC       \* the result channel of each call of FindAllFuncs

caches == <<dwarf, units, funcs>>
disk == <<file, bad>>
vars == <<disk, caches, calls, nth, call, at, acc, result, scanning, funcC>>

(* Not lists of functions: there is no unit 0, and a list is not empty. *)
Error == << <<0>> >>
NoResult == << >>

(* unit 0: no unit is found for the address *)
Calls ==
    [op : {"AllFuncs"}, path : Paths]
        \cup [op : {"FuncsInCU"}, path : Paths, cu : CUs \cup {0}]
        \cup [op : {"Frames"}, path : Paths, cu : CUs \cup {0}, sp : SPs]

CallIds == 1..MaxCalls

Init ==
    /\ file \in [Paths -> {"fine", "elf", "top"}]
    /\ bad \in [Paths -> SUBSET CUs]
    /\ \A p \in Paths : file[p] # "fine" => bad[p] = {}
    /\ dwarf = {} /\ units = {} /\ funcs = << >>
    /\ calls = 0
    /\ nth = [t \in Callers |-> 0]
    /\ call = [t \in Callers |-> CHOOSE c \in Calls : TRUE]
    /\ at = [t \in Callers |-> "idle"]
    /\ acc = [t \in Callers |-> << >>]
    /\ result = [t \in Callers |-> NoResult]
    /\ scanning = {}
    /\ funcC = [i \in CallIds |-> << >>]

-----------------------------------------------------------------------------
Goto(t, label) == at' = [at EXCEPT ![t] = label]

Return(t, value) ==
    /\ result' = [result EXCEPT ![t] = value]
    /\ acc' = [acc EXCEPT ![t] = << >>]
    /\ Goto(t, "idle")

Store(key, value) ==
    funcs' = [k \in DOMAIN funcs \cup {key} |-> IF k = key THEN value ELSE funcs[k]]

-----------------------------------------------------------------------------
(* Variants of definitions below, each with one plausible bug; only the    *)
(* mutation runs use them.                                                 *)

OpenStoresNothing(t) ==
    /\ at[t] = "open"
    /\ IF file[call[t].path] = "elf"
       THEN Return(t, Error)
       ELSE Goto(t, "parseUnits") /\ UNCHANGED <<acc, result>>
    /\ UNCHANGED <<disk, caches, calls, nth, call, scanning, funcC>>

StartScansSkipsFirst(t) ==
    /\ at[t] = "startScans"
    /\ scanning' = scanning \cup {<<nth[t], c>> : c \in CUs \ {1}}
    /\ Goto(t, "collect")
    /\ UNCHANGED <<disk, caches, calls, nth, call, acc, result, funcC>>

ScanUnbuffered(n, c) ==
    /\ <<n, c>> \in scanning
    /\ funcC[n] = << >>
    /\ \E t \in Callers : at[t] = "collect" /\ nth[t] = n
    /\ funcC' = [funcC EXCEPT ![n] = Append(@, c)]
    /\ scanning' = scanning \ {<<n, c>>}
    /\ UNCHANGED <<disk, caches, calls, nth, call, at, acc, result>>

CollectIgnoresErrors(t) ==
    LET n == nth[t]
        k == Len(acc[t]) + 1
        c == Head(funcC[n])
    IN  /\ at[t] = "collect"
        /\ k <= NumCUs
        /\ funcC[n] # << >>
        /\ funcC' = [funcC EXCEPT ![n] = Tail(@)]
        /\ Store(CUKey(call[t].path, k), << <<c>> >>)
        /\ acc' = [acc EXCEPT ![t] = Append(@, <<c>>)]
        /\ UNCHANGED <<disk, dwarf, units, calls, nth, call, at, result, scanning>>

CollectUnderFileKey(t) ==
    LET path == call[t].path
        n == nth[t]
        c == Head(funcC[n])
    IN  /\ at[t] = "collect"
        /\ Len(acc[t]) < NumCUs
        /\ funcC[n] # << >>
        /\ funcC' = [funcC EXCEPT ![n] = Tail(@)]
        /\ IF c \in bad[path]
           THEN Return(t, Error) /\ UNCHANGED funcs
           ELSE /\ Store(path, << <<c>> >>)
                /\ acc' = [acc EXCEPT ![t] = Append(@, <<c>>)]
                /\ UNCHANGED <<at, result>>
        /\ UNCHANGED <<disk, dwarf, units, calls, nth, call, scanning>>

-----------------------------------------------------------------------------
(* A caller enters FindAllFuncs, FindAllFuncsInCUByAddr or                 *)
(* FindAllFramesByAddr.                                                    *)
Enter(t) ==
    /\ at[t] = "idle"
    /\ calls < MaxCalls
    /\ calls' = calls + 1
    /\ nth' = [nth EXCEPT ![t] = calls']
    /\ \E c \in Calls :
          /\ call' = [call EXCEPT ![t] = c]
          /\ Goto(t, IF c.op = "AllFuncs" THEN "getFuncs" ELSE "getUnits")
    /\ result' = [result EXCEPT ![t] = NoResult]
    /\ UNCHANGED <<disk, caches, acc, scanning, funcC>>

(* FindAllFuncs: allSubroutinesCMap.Get(path) *)
GetFuncs(t) ==
    /\ at[t] = "getFuncs"
    /\ LET path == call[t].path
       IN  IF path \in DOMAIN funcs
           THEN Return(t, funcs[path])
           ELSE Goto(t, "getUnits") /\ UNCHANGED <<acc, result>>
    /\ UNCHANGED <<disk, caches, calls, nth, call, scanning, funcC>>

(* What the operations do once they have the units. *)
AfterUnits(t) ==
    CASE call[t].op = "AllFuncs"  -> "startScans"
      [] call[t].op = "FuncsInCU" -> "getCU"
      [] call[t].op = "Frames"    -> "getSP"

(* FindAllCompileUnits: compileUnitsCMap.Get(path) *)
GetUnits(t) ==
    /\ at[t] = "getUnits"
    /\ Goto(t, IF call[t].path \in units THEN AfterUnits(t) ELSE "getDwarf")
    /\ UNCHANGED <<disk, caches, calls, nth, call, acc, result, scanning, funcC>>

(* DWARF: dwarfCMap.Get(path) *)
GetDwarf(t) ==
    /\ at[t] = "getDwarf"
    /\ Goto(t, IF call[t].path \in dwarf THEN "parseUnits" ELSE "open")
    /\ UNCHANGED <<disk, caches, calls, nth, call, acc, result, scanning, funcC>>

(* DWARF: elf.Open, file.DWARF and dwarfCMap.Set *)
Open(t) ==
    /\ at[t] = "open"
    /\ IF file[call[t].path] = "elf"
       THEN Return(t, Error) /\ UNCHANGED dwarf
       ELSE /\ dwarf' = dwarf \cup {call[t].path}
            /\ Goto(t, "parseUnits") /\ UNCHANGED <<acc, result>>
    /\ UNCHANGED <<disk, units, funcs, calls, nth, call, scanning, funcC>>

(* FindAllCompileUnits: the scan of the top level and compileUnitsCMap.Set *)
ParseUnits(t) ==
    /\ at[t] = "parseUnits"
    /\ IF file[call[t].path] = "top"
       THEN Return(t, Error) /\ UNCHANGED units
       ELSE /\ units' = units \cup {call[t].path}
            /\ Goto(t, AfterUnits(t)) /\ UNCHANGED <<acc, result>>
    /\ UNCHANGED <<disk, dwarf, funcs, calls, nth, call, scanning, funcC>>

-----------------------------------------------------------------------------
(* The rest of FindAllFuncs. *)

(* make(chan funcResult, len(cus)) *)
FuncCap == NumCUs

(* A goroutine per unit. *)
StartScans(t) ==
    /\ at[t] = "startScans"
    /\ scanning' = scanning \cup {<<nth[t], c>> : c \in CUs}
    /\ Goto(t, "collect")
    /\ UNCHANGED <<disk, caches, calls, nth, call, acc, result, funcC>>

(* One of them: findAllFuncs of its unit, and the result, an error when    *)
(* the unit is bad, into the channel of its call - which may have returned *)
(* since.                                                                  *)
Scan(n, c) ==
    /\ <<n, c>> \in scanning
    /\ Len(funcC[n]) < FuncCap
    /\ funcC' = [funcC EXCEPT ![n] = Append(@, c)]
    /\ scanning' = scanning \ {<<n, c>>}
    /\ UNCHANGED <<disk, caches, calls, nth, call, at, acc, result>>

(* The loop over cus takes the results as they come: the one received in   *)
(* the round of unit k is stored under the key of k.                       *)
CollectFuncs(t) ==
    LET path == call[t].path
        n == nth[t]
        k == Len(acc[t]) + 1
        c == Head(funcC[n])
    IN  /\ at[t] = "collect"
        /\ k <= NumCUs
        /\ funcC[n] # << >>
        /\ funcC' = [funcC EXCEPT ![n] = Tail(@)]
        /\ IF c \in bad[path]
           THEN Return(t, Error) /\ UNCHANGED funcs
           ELSE /\ Store(CUKey(path, k), << <<c>> >>)
                /\ acc' = [acc EXCEPT ![t] = Append(@, <<c>>)]
                /\ UNCHANGED <<at, result>>
        /\ UNCHANGED <<disk, dwarf, units, calls, nth, call, scanning>>

(* allSubroutinesCMap.Set(path, funcs) *)
StoreFuncs(t) ==
    /\ at[t] = "collect"
    /\ Len(acc[t]) = NumCUs
    /\ Store(call[t].path, acc[t])
    /\ Return(t, acc[t])
    /\ UNCHANGED <<disk, dwarf, units, calls, nth, call, scanning, funcC>>

-----------------------------------------------------------------------------
(* The rest of FindAllFuncsInCUByAddr. *)

GetCU(t) ==
    LET key == CUKey(call[t].path, call[t].cu)
    IN  /\ at[t] = "getCU"
        /\ CASE call[t].cu = 0 -> Return(t, Error)
             [] call[t].cu # 0 /\ key \in DOMAIN funcs -> Return(t, funcs[key])
             [] OTHER -> Goto(t, "findCU") /\ UNCHANGED <<acc, result>>
        /\ UNCHANGED <<disk, caches, calls, nth, call, scanning, funcC>>

FindCU(t) ==
    LET path == call[t].path
        c == call[t].cu
    IN  /\ at[t] = "findCU"
        /\ IF c \in bad[path]
           THEN Return(t, Error) /\ UNCHANGED funcs
           ELSE Store(CUKey(path, c), << <<c>> >>) /\ Return(t, << <<c>> >>)
        /\ UNCHANGED <<disk, dwarf, units, calls, nth, call, scanning, funcC>>

-----------------------------------------------------------------------------
(* The rest of FindAllFramesByAddr, as far as it looks at the caches; its  *)
(* result stands for the subroutines it makes the frames of.               *)

(* GetSubprogramByAddr, which may meet the bad entry of its unit or not,   *)
(* and allSubroutinesCMap.Get(k) *)
GetSP(t) ==
    LET path == call[t].path
        c == call[t].cu
        key == SPKey(path, c, call[t].sp)
    IN  /\ at[t] = "getSP"
        /\ \/ c \in {0} \cup bad[path] /\ Return(t, Error)
           \/ c # 0 /\ key \in DOMAIN funcs /\ Return(t, funcs[key])
           \/ c # 0 /\ key \notin DOMAIN funcs /\ Goto(t, "findSP") /\ UNCHANGED <<acc, result>>
        /\ UNCHANGED <<disk, caches, calls, nth, call, scanning, funcC>>

(* GetSubroutinesBySubprogram and allSubroutinesCMap.Set(k, rts) *)
FindSP(t) ==
    LET path == call[t].path
        c == call[t].cu
        s == call[t].sp
    IN  /\ at[t] = "findSP"
        /\ \/ c \in bad[path] /\ Return(t, Error) /\ UNCHANGED funcs
           \/ Store(SPKey(path, c, s), << <<c, s>> >>) /\ Return(t, << <<c, s>> >>)
        /\ UNCHANGED <<disk, dwarf, units, calls, nth, call, scanning, funcC>>

-----------------------------------------------------------------------------
CallerStep(t) ==
    \/ GetFuncs(t) \/ GetUnits(t) \/ GetDwarf(t) \/ Open(t) \/ ParseUnits(t)
    \/ StartScans(t) \/ CollectFuncs(t) \/ StoreFuncs(t)
    \/ GetCU(t) \/ FindCU(t) \/ GetSP(t) \/ FindSP(t)

ScanStep == \E n \in CallIds, c \in CUs : Scan(n, c)

Next == (\E t \in Callers : Enter(t) \/ CallerStep(t)) \/ ScanStep

(* Goroutines that can run are run; whether another call is made is up to  *)
(* the caller.                                                             *)
Fairness ==
    /\ \A t \in Callers : WF_vars(CallerStep(t))
    /\ \A n \in CallIds, c \in CUs : WF_vars(Scan(n, c))

Spec == Init /\ [][Next]_vars /\ Fairness

-----------------------------------------------------------------------------
(* Properties. *)

Pieces == {<<c>> : c \in CUs} \cup {<<c, s>> : c \in CUs, s \in SPs}

TypeOK ==
    /\ file \in [Paths -> {"fine", "elf", "top"}]
    /\ bad \in [Paths -> SUBSET CUs]
    /\ dwarf \subseteq Paths /\ units \subseteq dwarf
    /\ \A k \in DOMAIN funcs : funcs[k] \in Seq(Pieces)
    /\ calls \in 0..MaxCalls
    /\ nth \in [Callers -> 0..calls]
    /\ call \in [Callers -> Calls]
    /\ at \in [Callers -> {"idle", "getFuncs", "getUnits", "getDwarf", "open", "parseUnits",
                           "startScans", "collect", "getCU", "findCU", "getSP", "findSP"}]
    /\ \A t \in Callers : acc[t] \in Seq(Pieces) /\ Len(acc[t]) <= NumCUs
    /\ scanning \subseteq CallIds \X CUs
    /\ \A i \in CallIds : funcC[i] \in Seq(CUs) /\ Len(funcC[i]) <= NumCUs

(* A list with each unit's functions once, those of a unit together. *)
Whole(list) ==
    /\ Len(list) = NumCUs
    /\ {list[k] : k \in 1..Len(list)} = {<<c>> : c \in CUs}

(* FindAllFuncs is all or nothing: what the path's key holds is the whole  *)
(* file, and a file with a bad unit never gets one, however calls overlap. *)
FileKeyIsWhole ==
    \A p \in Paths : p \in DOMAIN funcs => Whole(funcs[p]) /\ bad[p] = {}

(* The subroutines cached for a subprogram are its own, whatever the other *)
(* operations store in the same map.                                       *)
SubprogramKeyIsOwn ==
    \A p \in Paths, c \in CUs, s \in SPs :
        SPKey(p, c, s) \in DOMAIN funcs => funcs[SPKey(p, c, s)] = << <<c, s>> >>

(* A call fails only on a file, an address or a unit that is at fault, and *)
(* a failed one leaves nothing behind that makes a later one fail.  What   *)
(* it returns else is what it is asked for (for a unit: FuncsInCUAreOwn).  *)
ResultFits ==
    \A t \in Callers :
        LET p == call[t].path
            r == result[t]
        IN  r # NoResult =>
               /\ r = Error =>
                     \/ file[p] # "fine" \/ bad[p] # {}
                     \/ call[t].op # "AllFuncs" /\ call[t].cu = 0
               /\ r # Error /\ call[t].op = "AllFuncs" => Whole(r)
               /\ r # Error /\ call[t].op = "FuncsInCU" => \E c \in CUs \ bad[p] : r = << <<c>> >>
               /\ r # Error /\ call[t].op = "Frames" => r = << <<call[t].cu, call[t].sp>> >>

(* Every goroutine of FindAllFuncs ends, also when its call returned early *)
(* on another one's error.                                                 *)
NoScanIsLeft ==
    \A n \in CallIds, c \in CUs : <<n, c>> \in scanning ~> <<n, c>> \notin scanning

(* Every call returns. *)
CallsReturn == \A t \in Callers : at[t] # "idle" ~> at[t] = "idle"

(* FindAllFuncsInCUByAddr returns the functions of the unit of its address *)
(* (debuginfo.go:137-158).  The code does not keep this: FindAllFuncs      *)
(* stores under the same keys.                                             *)
FuncsInCUAreOwn ==
    \A t \in Callers :
        call[t].op = "FuncsInCU" /\ result[t] \notin {NoResult, Error}
            => result[t] = << <<call[t].cu>> >>
=============================================================================
