----------------------------- MODULE WorkerPool -----------------------------
(***************************************************************************)
(* The worker pool of cmd/addr2line (addr2line.go, from line 143): main    *)
(* makes a list of pcs, hands it in batches to GOMAXPROCS goroutines over  *)
(* the buffered channel pcchan and collects one result per goroutine from  *)
(* the buffered channel errC.  A goroutine leaves its loop, for good, at   *)
(* the first pc (or, with -legacy, the first batch) it cannot symbolize.   *)
(*                                                                         *)
(* A pc is its position in the list.  Whether a call to the parser or to   *)
(* the external addr2line succeeds is chosen when the call is made.        *)
(***************************************************************************)
EXTENDS Integers, Sequences, FiniteSets

CONSTANTS
    Workers,     \* the goroutines of the pool; there are GOMAXPROCS of them
    BatchSize,   \* pcs per batch, 100 in the code
    MaxPCs,      \* bound on the number of pcs in one run
    MaxSilent    \* bound on the pcs without frames in one run (-legacy)

ASSUME PoolAssumption ==
    /\ IsFiniteSet(Workers)
    /\ Workers # {}
    /\ BatchSize \in Nat \ {0}
    /\ MaxPCs \in Nat
    /\ MaxSilent \in Nat

VARIABLES
    legacy,    \* the -legacy flag
    npcs,      \* len(pcs)
    main,      \* where main is
    fed,       \* main's i: how many pcs were handed over
    pcchan,    \* the batches in the channel
    closed,    \* close(pcchan) was called
    work,      \* where each worker is
    todo,      \* the part of its batch a worker has not handled yet
    errC,      \* the results in the channel: "nil" or "err"
    got,       \* main's p of the second loop: results received
    handled,   \* how often each pc was handled: its frames were printed, or
               \* there were none to print (history)
    silent     \* the pcs handled without a line of output (history)

vars == <<legacy, npcs, main, fed, pcchan, closed, work, todo, errC, got, handled, silent>>

Procs == Cardinality(Workers)
PCs == 1..MaxPCs

(* A batch is a slice pcs[first-1:last]; it is empty when first > last. *)
Span(b) == b.first .. b.last
NoBatch == [first |-> 1, last |-> 0]

Least(a, b) == IF a <= b THEN a ELSE b

Init ==
    /\ legacy \in BOOLEAN
    /\ npcs = 0
    /\ main = "listing"
    /\ fed = 0
    /\ pcchan = << >>
    /\ closed = FALSE
    /\ work = [w \in Workers |-> "receiving"]
    /\ todo = [w \in Workers |-> NoBatch]
    /\ errC = << >>
    /\ got = 0
    /\ handled = [p \in PCs |-> 0]
    /\ silent = {}

(* The goroutines run from the start of the pool to the return of main. *)
Running == main \in {"feeding", "collecting"}

-----------------------------------------------------------------------------
(* Variants of the operations below, each with one plausible bug; only the *)
(* mutation runs use them.                                                 *)

ErrCapOfOne == 1

FeedSkipsOne ==
    /\ main = "feeding"
    /\ fed < npcs
    /\ Len(pcchan) < Procs
    /\ LET end == Least(fed + BatchSize, npcs)
       IN  /\ pcchan' = Append(pcchan, [first |-> fed + 1, last |-> end])
           /\ fed' = Least(end + 1, npcs)
    /\ UNCHANGED <<legacy, npcs, main, closed, work, todo, errC, got, handled, silent>>

FeedPastEnd ==
    /\ main = "feeding"
    /\ fed < npcs
    /\ Len(pcchan) < Procs
    /\ pcchan' = Append(pcchan, [first |-> fed + 1, last |-> fed + BatchSize])
    /\ fed' = fed + BatchSize
    /\ UNCHANGED <<legacy, npcs, main, closed, work, todo, errC, got, handled, silent>>

ClosePCsWithoutClose ==
    /\ main = "feeding"
    /\ fed >= npcs
    /\ main' = "collecting"
    /\ UNCHANGED <<legacy, npcs, fed, pcchan, closed, work, todo, errC, got, handled, silent>>

CollectIgnoresErrors ==
    /\ main = "collecting"
    /\ errC # << >>
    /\ errC' = Tail(errC)
    /\ got' = got + 1
    /\ main' = IF got' = Procs THEN "done" ELSE main
    /\ UNCHANGED <<legacy, npcs, fed, pcchan, closed, work, todo, handled, silent>>

EndOfPCsWithoutReport(w) ==
    /\ Running
    /\ work[w] = "receiving"
    /\ pcchan = << >>
    /\ closed
    /\ work' = [work EXCEPT ![w] = "gone"]
    /\ UNCHANGED <<legacy, npcs, main, fed, pcchan, closed, todo, errC, got, handled, silent>>

HandleLast(w) ==
    LET b == todo[w]
    IN  /\ handled' = [handled EXCEPT ![b.last] = @ + 1]
        /\ todo' = [todo EXCEPT ![w].last = @ - 1]
        /\ work' = [work EXCEPT ![w] = IF b.first = b.last THEN "receiving" ELSE @]

SymbolizeErrorWhilePrinting(w) ==
    /\ Running
    /\ work[w] \in {"working", "printing"}
    /\ work' = [work EXCEPT ![w] = "err"]
    /\ UNCHANGED <<legacy, npcs, main, fed, pcchan, closed, todo, errC, got, handled, silent>>

-----------------------------------------------------------------------------
(* The steps of main. *)

(* FindAllPCs, or the arguments of the command line.  An error of either   *)
(* is printed and main goes on with what it has: after an error of         *)
(* FindAllPCs that is no pc at all.                                        *)
ListPCs ==
    /\ main = "listing"
    /\ npcs' \in 0..MaxPCs
    /\ main' = "feeding"
    /\ UNCHANGED <<legacy, fed, pcchan, closed, work, todo, errC, got, handled, silent>>

(* make(chan []uint64, procs) and make(chan error, procs) *)
ChanCap == Procs
ErrCap == Procs

(* pcchan <- pcs[i:end] *)
Feed ==
    /\ main = "feeding"
    /\ fed < npcs
    /\ Len(pcchan) < ChanCap
    /\ LET end == Least(fed + BatchSize, npcs)
       IN  /\ pcchan' = Append(pcchan, [first |-> fed + 1, last |-> end])
           /\ fed' = end
    /\ UNCHANGED <<legacy, npcs, main, closed, work, todo, errC, got, handled, silent>>

(* close(pcchan) *)
ClosePCs ==
    /\ main = "feeding"
    /\ fed >= npcs
    /\ closed' = TRUE
    /\ main' = "collecting"
    /\ UNCHANGED <<legacy, npcs, fed, pcchan, work, todo, errC, got, handled, silent>>

(* <-errC: the first error ends the program, whatever the others do *)
Collect ==
    /\ main = "collecting"
    /\ errC # << >>
    /\ errC' = Tail(errC)
    /\ IF Head(errC) = "err"
       THEN main' = "failed" /\ UNCHANGED got
       ELSE /\ got' = got + 1
            /\ main' = IF got' = Procs THEN "done" ELSE main
    /\ UNCHANGED <<legacy, npcs, fed, pcchan, closed, work, todo, handled, silent>>

-----------------------------------------------------------------------------
(* The steps of a worker. *)

(* for pcs := range pcchan: the next batch *)
Receive(w) ==
    /\ Running
    /\ work[w] = "receiving"
    /\ pcchan # << >>
    /\ todo' = [todo EXCEPT ![w] = Head(pcchan)]
    /\ pcchan' = Tail(pcchan)
    /\ work' = [work EXCEPT ![w] = "working"]
    /\ UNCHANGED <<legacy, npcs, main, fed, closed, errC, got, handled, silent>>

(* for pcs := range pcchan: the channel is closed and drained *)
EndOfPCs(w) ==
    /\ Running
    /\ work[w] = "receiving"
    /\ pcchan = << >>
    /\ closed
    /\ work' = [work EXCEPT ![w] = "nil"]
    /\ UNCHANGED <<legacy, npcs, main, fed, pcchan, closed, todo, errC, got, handled, silent>>

(* The worker is done with the first pc of todo[w]; after the last one it  *)
(* goes back to the channel, else it stays in its loop over the batch.     *)
HandleFirst(w) ==
    LET b == todo[w]
    IN  /\ handled' = [handled EXCEPT ![b.first] = @ + 1]
        /\ todo' = [todo EXCEPT ![w].first = @ + 1]
        /\ work' = [work EXCEPT ![w] = IF b.first = b.last THEN "receiving" ELSE @]

(* Without -legacy: Addr2line of the next pc, printed at once.  Its answer *)
(* has a frame at least (dwarf.go:169-185).                                *)
Addr2line(w) ==
    /\ Running
    /\ ~legacy
    /\ work[w] = "working"
    /\ HandleFirst(w)
    /\ UNCHANGED <<legacy, npcs, main, fed, pcchan, closed, errC, got, silent>>

(* Addr2line, or SymbolizeArray, returns an error.  What was not printed   *)
(* of the batch stays in todo[w]: nobody will print it.                    *)
SymbolizeError(w) ==
    /\ Running
    /\ work[w] = "working"
    /\ work' = [work EXCEPT ![w] = "err"]
    /\ UNCHANGED <<legacy, npcs, main, fed, pcchan, closed, todo, errC, got, handled, silent>>

(* Addr2line panics (FindAllFramesByAddr dereferences a nil subprogram for *)
(* a pc no subprogram covers): the program ends.                           *)
Addr2linePanic(w) ==
    /\ Running
    /\ ~legacy
    /\ work[w] = "working"
    /\ main' = "crashed"
    /\ UNCHANGED <<legacy, npcs, fed, pcchan, closed, work, todo, errC, got, handled, silent>>

(* With -legacy: SymbolizeArray answers for the whole batch.  There may be *)
(* pcs without frames in its answer, which is no error: those llvm         *)
(* answers with ??, and the last one of a subprocess that dies             *)
(* (symbolizer.go:177, 203-205).  PrintLegacy chooses them.                *)
SymbolizeArray(w) ==
    /\ Running
    /\ legacy
    /\ work[w] = "working"
    /\ work' = [work EXCEPT ![w] = "printing"]
    /\ UNCHANGED <<legacy, npcs, main, fed, pcchan, closed, todo, errC, got, handled, silent>>

(* The loop over the frames of the answer, one pc after the other: those   *)
(* of the next pc are printed, or it has none and no line tells of it.     *)
PrintLegacy(w) ==
    /\ Running
    /\ work[w] = "printing"
    /\ HandleFirst(w)
    /\ \/ UNCHANGED silent
       \/ /\ Cardinality(silent) < MaxSilent
          /\ silent' = silent \cup {todo[w].first}
    /\ UNCHANGED <<legacy, npcs, main, fed, pcchan, closed, errC, got>>

(* errC <- nil, or errC <- err and return *)
Report(w) ==
    /\ Running
    /\ work[w] \in {"nil", "err"}
    /\ Len(errC) < ErrCap
    /\ errC' = Append(errC, work[w])
    /\ work' = [work EXCEPT ![w] = "gone"]
    /\ UNCHANGED <<legacy, npcs, main, fed, pcchan, closed, todo, got, handled, silent>>

-----------------------------------------------------------------------------
MainStep == ListPCs \/ Feed \/ ClosePCs \/ Collect

WorkerStep(w) ==
    \/ Receive(w)
    \/ EndOfPCs(w)
    \/ Addr2line(w)
    \/ SymbolizeError(w)
    \/ Addr2linePanic(w)
    \/ SymbolizeArray(w)
    \/ PrintLegacy(w)
    \/ Report(w)

Next == MainStep \/ \E w \in Workers : WorkerStep(w)

(* The Go scheduler runs every goroutine that can run. *)
Fairness == WF_vars(MainStep) /\ \A w \in Workers : WF_vars(WorkerStep(w))

Spec == Init /\ [][Next]_vars /\ Fairness

-----------------------------------------------------------------------------
(* Properties. *)

Batches == [first : Nat \ {0}, last : Nat]

TypeOK ==
    /\ legacy \in BOOLEAN
    /\ npcs \in 0..MaxPCs
    /\ main \in {"listing", "feeding", "collecting", "done", "failed", "crashed"}
    /\ fed \in 0..npcs
    /\ pcchan \in Seq(Batches) /\ Len(pcchan) <= Procs
    /\ closed \in BOOLEAN
    /\ work \in [Workers -> {"receiving", "working", "printing", "nil", "err", "gone"}]
    /\ todo \in [Workers -> Batches]
    /\ errC \in Seq({"nil", "err"}) /\ Len(errC) <= Procs
    /\ got \in 0..Procs
    /\ handled \in [PCs -> Nat]
    /\ silent \in SUBSET PCs

Queued(p) == {j \in 1..Len(pcchan) : p \in Span(pcchan[j])}
Holders(p) == {w \in Workers : p \in Span(todo[w])}

(* The worker left its loop on an error, with pcs it will never print. *)
Lost(w) == work[w] \in {"err", "gone"} /\ Span(todo[w]) # {}

SameBatch(p, q) == (p - 1) \div BatchSize = (q - 1) \div BatchSize

(* Every pc of the list is in one place and only there: not handed over,   *)
(* in one batch of the channel, in the hands of one worker, or handled,    *)
(* and then once.  Slicing (addr2line.go:202-209) neither skips nor        *)
(* repeats a pc, and no two goroutines symbolize the same one.             *)
EveryPCAccountedFor ==
    \A p \in 1..npcs :
        handled[p] + (IF p > fed THEN 1 ELSE 0)
            + Cardinality(Queued(p)) + Cardinality(Holders(p)) = 1

(* A goroutine with a result can always send it: errC has room for every   *)
(* goroutine's one result, so none is left behind blocked, even when main  *)
(* has not begun to collect.                                               *)
ReportNeverBlocks ==
    \A w \in Workers : Running /\ work[w] \in {"nil", "err"} => Len(errC) < ErrCap

(* With -legacy a batch of which one pc is handled and another is not is   *)
(* in the printing loop of a goroutine (addr2line.go:177-187), which goes  *)
(* on to the end of the batch, or stops there when main returns at the     *)
(* error of another goroutine (addr2line.go:212-215).  A batch for which   *)
(* SymbolizeArray failed has put nothing on the output.  (Without -legacy, *)
(* what came before the failing pc is printed.)                            *)
PartOfBatchOnlyWhilePrinting ==
    legacy => \A p, q \in 1..npcs :
        SameBatch(p, q) /\ handled[p] = 1 /\ handled[q] = 0 =>
            \E w \in Workers : work[w] = "printing" /\ q \in Span(todo[w])

(* A batch is handled in the order of the list, whatever the other         *)
(* goroutines print in between; a list of one batch comes out in order     *)
(* (addr2line.go:177-196).                                                 *)
InOrderWithinBatch ==
    [][\A p, q \in PCs :
          (q < p /\ SameBatch(p, q) /\ handled'[p] # handled[p]) => handled[q] = 1]_vars

(* No process can take a step: main waits for room in pcchan or for a      *)
(* result, and every goroutine for a batch, for room in errC, or is gone.  *)
Blocked ==
    /\ main = "feeding" => fed < npcs /\ Len(pcchan) >= ChanCap
    /\ main = "collecting" => errC = << >>
    /\ \A w \in Workers :
          /\ work[w] \notin {"working", "printing"}
          /\ work[w] = "receiving" => pcchan = << >> /\ ~closed
          /\ work[w] \in {"nil", "err"} => Len(errC) >= ErrCap

AllLost ==
    /\ main = "feeding"
    /\ \A w \in Workers : work[w] = "gone" /\ Lost(w)
    /\ npcs > 2 * Procs * BatchSize

(* The only way the pool can come to a stop short of an end is main        *)
(* blocked on pcchan with every goroutine gone on an error, and that takes *)
(* more pcs than the goroutines and the channel hold.                      *)
StuckOnlyWhenAllLost ==
    Running => /\ Blocked <=> ~ENABLED Next
               /\ Blocked => AllLost

Ended == main \in {"done", "failed", "crashed"}

(* The program ends unless every goroutine met a pc it could not symbolize. *)
EndsUnlessAllFail == <>(Ended \/ \A w \in Workers : Lost(w))

(* A goroutine's error is printed by main (addr2line.go:212-215): the user *)
(* is told that and why pcs are missing.  The code does not keep this.     *)
ErrorIsReported == (\E w \in Workers : Lost(w)) ~> main \in {"failed", "crashed"}

(* The pool symbolizes all, see SymbolizeAll: with -legacy all but the pcs *)
(* without frames, which a run that ends well does not tell of             *)
(* (addr2line.go:163-216, symbolizer.go:177, 203-205).                     *)
Phase == IF Running THEN "running" ELSE main

Printed == [p \in PCs |-> IF p \in silent THEN 0 ELSE handled[p]]

Abstract == INSTANCE SymbolizeAll WITH phase <- Phase, printed <- Printed
AbstractSpec == Abstract!Spec

-----------------------------------------------------------------------------
(* The inductive invariant behind EveryPCAccountedFor, ReportNeverBlocks   *)
(* and AbstractSpec; WorkerPoolProofs proves it.                           *)

Precedes(b, c) == b.last < c.first

(* The batches of the channel, in the order of the list. *)
QueueInv ==
    \A j \in 1..Len(pcchan) :
        /\ pcchan[j].first <= pcchan[j].last
        /\ pcchan[j].last <= fed
        /\ \A k \in 1..Len(pcchan) : j < k => Precedes(pcchan[j], pcchan[k])

(* What the workers hold is disjoint and comes before what is queued. *)
HeldInv ==
    \A w \in Workers :
        /\ todo[w].last <= fed
        /\ \A j \in 1..Len(pcchan) : Precedes(todo[w], pcchan[j])
        /\ \A v \in Workers : v # w => Precedes(todo[w], todo[v]) \/ Precedes(todo[v], todo[w])

PlaceInv ==
    \A p \in PCs :
        /\ handled[p] \in {0, 1}
        /\ handled[p] = 1 =>
              /\ p <= fed
              /\ \A w \in Workers : p \notin Span(todo[w])
              /\ \A j \in 1..Len(pcchan) : p \notin Span(pcchan[j])
        /\ handled[p] = 0 /\ p <= fed =>
              \/ \E w \in Workers : p \in Span(todo[w])
              \/ \E j \in 1..Len(pcchan) : p \in Span(pcchan[j])

HasTodo(w) == todo[w].first <= todo[w].last
ErrSent == \E k \in 1..Len(errC) : errC[k] = "err"

WorkInv ==
    \A w \in Workers :
        /\ work[w] \in {"working", "printing", "err"} => HasTodo(w)
        /\ work[w] \in {"receiving", "nil"} => ~HasTodo(w)
        /\ work[w] = "nil" \/ (work[w] = "gone" /\ ~HasTodo(w)) => closed /\ pcchan = << >>
        /\ work[w] = "gone" /\ HasTodo(w) => main \in {"failed", "crashed"} \/ ErrSent

Gone == {w \in Workers : work[w] = "gone"}

MainInv ==
    /\ main = "listing" => fed = 0
    /\ main \in {"listing", "feeding"} => ~closed
    /\ main \in {"collecting", "done", "failed"} => closed
    /\ closed => fed = npcs
    /\ main = "failed" \/ ErrSent => \E w \in Workers : work[w] = "gone" /\ HasTodo(w)
    /\ main = "crashed" => \E w \in Workers : HasTodo(w)
    /\ main = "done" => \A w \in Workers : work[w] = "gone" /\ ~HasTodo(w)
    /\ main \in {"listing", "feeding", "collecting"} => Cardinality(Gone) = got + Len(errC)

IndInv == TypeOK /\ QueueInv /\ HeldInv /\ PlaceInv /\ WorkInv /\ MainInv

=============================================================================
