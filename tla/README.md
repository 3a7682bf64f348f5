# Verification of dwarfparser

TLA+ models of dwarfparser (a Go library that reads the DWARF debugging
information of ELF files, with the programs `addr2line` and `callgraph` on top
of it), TLC runs that check them on small instances, and proofs of their main
properties that TLAPS checks for every value of the constants. Line numbers
below are those of `src/`.

## The system

Two programs use one package.

- `cmd/addr2line` turns addresses into functions and source lines. It takes the
  pcs from the command line, from the line table or from the cover points of
  the file, hands them in batches of 100 to a pool of goroutines, and each
  goroutine asks either the package (`FindAllFramesByAddr`) or, with `-legacy`,
  an `llvm-addr2line` subprocess of its own. It can also answer pcs from stdin.
- `cmd/callgraph` draws which function was inlined into which, and counts the
  covered ones, from the list `FindAllFuncs` returns.
- `parser` reads units, functions, inlined subroutines and line tables, keeps
  what it read in process-wide concurrent maps, and scans the units of a file in
  parallel.

| Component | State | Operations | What makes it correct | Status |
|---|---|---|---|---|
| Worker pool (addr2line.go 143-215) | the list, `pcchan`, `errC`, each goroutine's place and batch | list, feed, close, receive, print, report, collect, the panic of a lookup | every pc handled once or accounted for; errors reach main; the program ends | `WorkerPool`, `SymbolizeAll` |
| Caches (dwarf.go, debuginfo.go) | three maps, the scans of `FindAllFuncs` and their channel | `FindAllFuncs`, `FindAllFuncsInCUByAddr`, `FindAllFramesByAddr`, `FindAllCompileUnits`, `DWARF` | a key holds what it is the key of; failures leave nothing wrong behind; calls and scans end | `ParserCaches` (not the line caches) |
| Address lookup (debuginfo.go 46-85 and 199-243, debugline.go 68-172) | sorted ranges, `lineEntries`, the binary search | unit, subprogram and line entry of an address | the answer is the unit, function and row that cover the address | `SortSearch`, `AddrLookup` |
| Symbolizer (symbolizer.go) | the subprocess, two pipes, one scanner, the reader goroutine of a call | `SymbolizeArray`, `getSubprocess`, `symbolize`, `parse`, `Close` | requests and answers stay in step; one reader; every call returns | `Symbolizer` |
| DIE walk and frames (debuginfo.go 199-351, dwarf.go 120-186) | the reader's position, the depth counted by hand, the list so far | `findAllFuncs`, `GetSubprogramByAddr`, `GetSubroutinesBySubprogram`, frames | the list is that of the unit, with its levels; the frames are the chain around the address | `Dies`, `DieWalk`, `Sorting` |
| Call graph (callgraph.go) | `parentMap`, `uniqFunc`, `stats`, the graph | `dot`, `percent` | edges are nesting; nodes are ends of edges; the numbers count what is shown | `CallGraph` |
| Interactive mode (addr2line.go 97-142) | the line read last, the list `pcs` | the loop over stdin | every pc that is read is answered | `StdinLoop` |
| Cover points and listing (symbols.go, rela.go, text.go, arch.go, dwarf.go 72-111) | the symbols of the callbacks, the points found, `lineEntriesCMap` | `FindAllPCs`: the symbols, the scan of `.text`, of `.rela.text`, of the line tables | the pcs are those of the calls, and nothing but what cannot be told from one; the list is whole or there is none | `CallTarget`, `AllPCs`, `Sorting` |
| ELF access and dumping (elf.go, dump.go) | none | open, find a section, print bytes | | not modelled: pure input and output |
| External libraries | | `debug/dwarf`, `debug/elf`, concurrent-map, go-graphviz | | only what the code relies on, in the models that use it |

How they interact: the pool's goroutines call the package or their symbolizer
(in `WorkerPool` that is a call that succeeds, fails or panics); concurrent
calls of the package meet in the caches (`ParserCaches`, where the walks over
the entries are a goroutine that succeeds or fails); a single lookup is
`AddrLookup` up to the function and the row and `DieWalk` for the inlined
functions in it; the lists `DieWalk` shows to be right are the input of
`CallGraph`. The list of pcs that `WorkerPool` starts from is what `AllPCs`
computes; `StdinLoop` is the other way pcs come in, and calls the package or the
symbolizer one pc at a time.

What is hard here: goroutines that leave for good at their first error while
main still feeds them; results received in another order than the work was
given out; lookups and stores that are not one step; a request/answer protocol
held together by line counts, with a peer that may die; a depth counted by hand
over a tree with many kinds of entries; searches by one end of a range in a list
sorted by the other; instructions recognised at every byte of a section, with the
sign and width of an operand and the ends of the section to get right.
`PROJECT.json` lists these hazards at their lines with the properties that cover
them.

## Modules and code

**`WorkerPool`** A pc is its position in the list, a batch the span of a slice.
`ListPCs`, `Feed`, `ClosePCs`, `Collect` are main in order of the code;
`Receive`, the printing steps, `Report` are a goroutine. One action is one
channel operation or one printed pc. Whether a call of the parser or the
subprocess succeeds is chosen when it is made; a nil dereference in a lookup
(see `AddrLookupGap`) ends the process (`main = "crashed"`). An answer of the
subprocess may have no frames for some pcs, those it answers with `??` and the last
one before it dies (symbolizer.go 177, 203-205): the loop over the frames then handles
the pc (`handled`) without a line of output (`silent`). `Blocked` spells out
that no process can take a step; `StuckOnlyWhenAllLost` says that it is the same as
`~ENABLED Next`, and what it takes.
**`SymbolizeAll`** is the promise: pcs are printed, each at most once, and the
run ends "done" only when each was printed, or with `-legacy` passed over for want of
frames. The refinement maps its phase to `main` and its `printed` to the pcs handled
that are not silent.

**`ParserCaches`** A caller is a goroutine that uses the package, `at` its place
in a call. Every `Get` and every `Set` of a map is an action, so two callers that
miss the same key both compute and both store. `FindAllFuncs` starts a scan per
unit; the scans send to the buffered channel of the call in any order, also
after the call has returned on an error. A list of functions is abstracted to
whose it is (a unit's, or a subprogram's), which is all a wrong key can confuse. A
call of `FindAllFramesByAddr` ends here when the subroutines are cached; what it does
then, the nil dereference and the loop over the line table that may not end among it, is
in `AddrLookup` and `AllPCs`, and `CallsReturn` does not speak of it.

**`SortSearch`** is Go's `sort.Search`, one action per probe; **`AddrLookup`** a
whole lookup: the ranges of all units sorted by end (ties in any order), searched
by start; the first subprogram of the unit whose hull of ranges contains the
address; the line table read row by row with later rows replacing earlier ones of
the same address, its addresses sorted and searched. The error of
`LineReader.Next` that repeats for ever (debugline.go 148-152) is the
state `looping`.

**`Symbolizer`** The caller, the reader goroutine and the subprocess are three
processes. The caller's state follows `SymbolizeArray` and `symbolize`
(`writing` until Flush, `waiting` on the result); the reader follows `parse` line
by line; the subprocess takes a request, writes an answer line by line into a
bounded pipe, and may die at any time.

**`Dies`** is the tree of entries as the reader of `debug/dwarf` gives it: in
preorder with levels, null entries following from them. An entry of a function
has one of five forms, by what `parseSubprogram`/`parseSubroutine` make of it.
**`DieWalk`** has one action per entry read, for each of the three walks, with
the `continue` and `goto loop` branches that skip or keep the depth count, the
filter at the end of `findAllFuncs`, and the frames, which are the subroutines around
the address in the reverse of the order they are listed in.

**`Sorting`** is Go's `sort.Slice`: in the i-th place is the element with i elements up
to it. The order is a set of pairs and total, so that elements which compare equal
must be told apart by whoever sorts; `AllPCs` sorts the places of a list by what is in
them.

**`CallGraph`** One action per function of the loop that adds edges and of the
loop that deletes nodes. `encl`, the function around a function, is only for the
properties: the code does not have it and guesses from the depth.

**`CallTarget`** is the table `arches` with the arithmetic of `target`: the bytes
of an operand put together, its sign, and the address modulo that of the address
space. **`AllPCs`** is one call of `FindAllPCs`: one action per symbol, per byte of
`.text`, per relocation, per unit and per line table, and one for each end of a
loop, with the three ways the code leaves without an answer kept apart - an error,
a panic (`traceCmp`, `target`, a directory that is no string), a loop that does not
end. `traceCmp` is the empty set because the map is never made. The properties do
not use `arches`: `IsCall`, `Operand` and `Callee` say what the machines' manuals
say of a call, `Patched` what a linker does with a relocation when the callback is
put at a place that the displacement reaches (`Reaches`). What reads as a call
(`ReadAsCalls`) need not be one: where instructions begin is not known to the code nor
to the model. On amd64 that is any byte of `.text`, on arm64 any aligned word.
`RelaPointsAreCallsAndJumps` is about objects whose `.text` is no longer than half the
numbers of an operand, which every call within it can reach, with no two relocations at
one place (`Linkable`). A relocation need not be of a call: on amd64 compilers use the
type for jumps too, as for a callback called last, and then the pc is that of the jump.

**`StdinLoop`** has one action per line read and one per call made for it.

`MCParserCaches`, `MCAddrLookup`, `MCDieWalk`, `MCCallGraph` and `MCAllPCs` give TLC
their values; `WorkerPool`, `Symbolizer` and `StdinLoop` need only numbers. The proofs about
a module (those about `CallTarget` with those about `AllPCs`) are in the module of its name with `Proofs` behind it. Definitions headed
"variants" or marked "for a mutation run only" are plausible bugs which mutation runs
put in the place of the real definitions; the specifications do not use them.

## Runs

| Run | Instance | What it shows |
|---|---|---|
| `WorkerPool` | 2 goroutines, up to 9 pcs in batches of 2, native and legacy, up to 2 pcs without frames | No pc is lost, repeated or in two places (`EveryPCAccountedFor`); results always fit into `errC` (`ReportNeverBlocks`); with `-legacy` a batch that is partly handled is in the printing loop of a goroutine, where only the return of main at another's error leaves it, and one that failed has no output (`PartOfBatchOnlyWhilePrinting`); a batch is handled in order (`InOrderWithinBatch`); the pool can only hang with every goroutine gone on an error and more pcs than channel and goroutines hold (`StuckOnlyWhenAllLost`), ends otherwise (`EndsUnlessAllFail`), and implements `SymbolizeAll` (`AbstractSpec`) |
| `WorkerPoolStuck` | 2 goroutines, 5 batches of 1 | `ErrorIsReported` is violated: see findings |
| `ParserCaches` | 2 callers, 3 calls, 1 file of 2 units | The key of a file holds the whole file or nothing (`FileKeyIsWhole`); that of a subprogram its own subroutines (`SubprogramKeyIsOwn`); a call fails only on what is at fault (`ResultFits`); no scan is leaked, every call returns (`NoScanIsLeft`, `CallsReturn`) |
| `ParserCachesMisfiled` | 1 caller, 2 calls, 3 units | `FuncsInCUAreOwn` is violated |
| `AddrLookup` | programs of 1-3 functions on 6 addresses, split (parts in either order), overlapping, in one or two units; every address | Where ranges do not overlap the unit is that of the address (`UnitIsOwner`), the function too or an earlier one that is split, and a covered address panics only if the parts of its function are not in ascending order (`SubprogramIsOwner`); the row is the nearest one (`RowIsNearest`) and one of the function unless the end row of a neighbour, later in an unsorted table, replaced it (`OwnRowUnlessReplaced`) |
| `AddrLookupGap` | the same on 5 addresses | `UncoveredIsAnError` is violated |
| `Symbolizer` | 2 calls of up to 2 pcs, up to 2 frames, a pipe of 2 lines | A call that succeeds leaves nothing in the pipes (`NothingIsLeft`) and no reader on the scanner (`OneReader`); its frames are the answers to its own pcs in order (`FramesAreAnswers`), one outer frame for each pc (`OneOuterFrame`); every call returns (`CallsReturn`) |
| `DieWalk` | every well formed tree of up to four entries behind that of the first unit | `FuncsAreThoseOfUnit`, `DepthIsLevel`, `SubroutinesAreInside`, `FramesAreChain` |
| `CallGraph` | the lists of all such trees and one larger, all ways of naming the functions, no limit or `-l 2`, three sets of covered names | An edge leaves an outermost function only for those in a namespace or a class (`EdgesLeaveOnlyForNamespaces`); `DirectNestingIsDrawn`, `NodesAreEnds`, `HundredMeansAll` |
| `CallGraphStale` | the same | `EdgesAreNesting` is violated |
| `AllPCs` | every arm64 and amd64 `.text` of 7 or 8 bytes over the bytes that matter, text with a callback at the last reachable word and behind it, objects with two relocations of every type and symbol, of calls and of jumps, linked to callbacks at six places, files of up to two units of every form | The scan lists exactly what reads as a call in reach (`TextPointsReadAsCalls`), the relocations give exactly the calls of the linked file and the jumps (`RelaPointsAreCallsAndJumps`), the list is sorted and complete (`ListIsComplete`), and a call fails, panics or loops only on the file that deserves it (`OutcomeFits`) |
| `StdinLoopLegacy` | up to two lines | `EveryPCIsAnswered` is violated |

Every passing run also checks the module's type invariant.

Why the bounds are enough for the cases that matter. *Pool:* nine pcs in twos are
five batches, one more than two goroutines and a channel of two hold, with a last
batch that is shorter; so the channel is full and main blocks with every goroutine
busy, gone or reporting. Two pcs without frames (`MaxSilent`) are a whole batch, or one
in each of two. *Caches:* two callers and three calls let one call finish
between the lookup and the store of another and a third one read the outcome; two
units suffice for results out of order. *Lookup:* three functions and six addresses
give holes, adjacent and equal boundaries, a function in the hole of a split one,
and rows that meet end rows in every order. *Symbolizer:* a second call sees what
the first one left; two pcs and two frames give an inner and a last one of each;
the pipe of two lines is shorter than one answer. *Trees:* four entries behind the
unit give nesting of depth four, or a second unit or function behind the nesting; a
walk has no memory beyond depth and list, and the theorems below lift the bound
for the main properties. *Graph:* an edge relates two levels at a time, and the
stale parent needs three functions. *Listing:* a byte has three bits and an address
24, so that a text can be as long as the reach of a call: 2^11 bytes, half the
numbers of the three bytes below the opcode times four. In three bits the four
arm64 opcodes are 4 to 7, of which the code knows 4 and 7, and the amd64 opcode is
5; other bytes are 0, 1 and 7, which make operands of both signs. Two relocations
and two units are enough for one that is wrong beside one that is not. The places of
a callback (`Placements`) are before `.text`, in it, and up to and behind the farthest
that a call reaches. The theorems lift the bounds on the bytes, the text, the files and
the placements.

Deadlock checking is off in every run because all of these specifications stop
when their work is done; where a hang is possible it is the subject of a
property (`StuckOnlyWhenAllLost`, `CallsReturn`, the state `looping` in `OutcomeFits`).

### Fairness

`WorkerPool`: weak fairness of main and of each goroutine, as the Go scheduler
gives; a call of the parser or subprocess is assumed to return.
`ParserCaches`: weak fairness of each caller inside a call and each scan; no new
call is ever forced.
`Symbolizer`: weak fairness of the caller, the reader and the
subprocess, which goes on answering or dies - `llvm-addr2line` that hangs would
hang a call, for the code has no timeout; nothing makes it die, nor the program
make calls. `AddrLookup`, `DieWalk`, `CallGraph`, `AllPCs` and `StdinLoop` are one
sequential call each and have safety properties only.

## Findings

Each is a run whose property is violated, with the source quoted in
`PROJECT.json`.

1. **The pool can hang** (addr2line.go 207, `WorkerPoolStuck`): when every
   goroutine has stopped at an error, main blocks on `pcchan` and no error is
   printed.
2. **Units' functions are misfiled** (debuginfo.go 186-192,
   `ParserCachesMisfiled`): results are stored under the keys of the units in file
   order, but received in the order they finish, so a later
   `FindAllFuncsInCUByAddr` can return another unit's functions.
3. **An uncovered pc panics** (debuginfo.go 78-81, `AddrLookupGap`): the end of the
   range found is not looked at, no subprogram is found, and nil is dereferenced.
4. **A stale parent** (callgraph.go 166-169, `CallGraphStale`): an inlined function
   in a block is drawn below its finished sibling.
5. **`-legacy` on stdin asks nothing** (addr2line.go 120, `StdinLoopLegacy`): the loop
   passes the list `pcs`, which is nil there, and not the pc of the line.

Behaviour that surprised, and that a property which holds describes exactly:

- `traceCmp` is never made (symbols.go 97-118), so a callback other than trace_pc in
  `.text` panics; an undefined one does too in a relocatable file, where `.text` and
  the symbol are both at 0. A unit without a directory panics, one without a
  name fails the whole file when it has children, and one line table that cannot be
  decoded never ends (`OutcomeFits`).
- A function whose range list is not in ascending order, such as one with a cold part
  below its hot one, has an empty hull at debuginfo.go:231: no subprogram is found for
  its addresses and the lookup panics (`SubprogramIsOwner`).
- An end-of-sequence row at the address of a function that comes earlier in an
  unsorted table replaces the function's first row (`OwnRowUnlessReplaced`).
- When the subprocess dies within its last answer, the frames of the last pc may be
  short in a call that succeeds (`FramesAreAnswers`).
- With `-legacy`, pcs without frames in the answer are not printed, and the run ends
  as if all had been (`AbstractSpec`, where they are `silent`).
- When main returns at the error of one goroutine, another may be in the middle of a
  batch, also with `-legacy` (`PartOfBatchOnlyWhilePrinting`).
- The scan does not know where instructions begin: on amd64 bytes within one that read
  as a call of trace_pc are listed. Calls over more than 64 MB are not seen on arm64
  (`ReadAsCalls` and `InReach` in `TextPointsReadAsCalls`).
- A jump to a callback, as `jmp __sanitizer_cov_trace_pc` at the end of a function, is
  listed if `.text` has relocations, and not if it is scanned (`Jumps` in
  `RelaPointsAreCallsAndJumps`).
- A function in a namespace or a class is not at depth 1, so that nothing starts anew
  for it in `parentMap`: it can get an edge from an unrelated function listed before
  (`EdgesLeaveOnlyForNamespaces`).

## Proofs

Checked by TLAPS for every value of the constants under the assumptions named
in the modules.

**`WorkerPoolProofs`** (`PoolAssumption`: finitely many goroutines, at least one,
a batch of at least one pc). `Inductive` proves `[]IndInv`; from it follow
`TypeCorrect` (`TypeOK`), `Accounted` (`EveryPCAccountedFor`), `ReportsGetThrough`
(`ReportNeverBlocks`) and `Implements` (the refinement of `SymbolizeAll`).
`EveryPCAccountedFor` counts places and is not inductive: a receive moves a batch
from the channel to a goroutine, and that the count stays one needs to know that
no other place has a pc of it. `QueueInv` and `HeldInv` say so by order - the
batches in the channel are ascending, what a goroutine holds is before all of
them and apart from what the others hold - which every step keeps without
counting. `PlaceInv` ties `handled` to the places, `WorkInv` and `MainInv` tie a
goroutine's end to the closed channel or an error sent, and the number of
goroutines gone to the results received or waiting, which bounds `errC`.

`SliceInv` says which pcs a batch can have: it begins and ends at a multiple of the
batch size or at the end of the list, and of a batch that was begun all pcs before
the next one are handled. With it `BatchInOrder` (`InOrderWithinBatch`) and
`LegacyParts` (`PartOfBatchOnlyWhilePrinting`: with `-legacy` every place but the
printing loop has whole slices, so that no batch is partly there and partly handled).
`SilentInv` says that a pc is passed over once, and only with `-legacy`; the refinement
needs it.

`StoppedWhenAllLost` proves that a pool in which nobody can step (`Blocked`) has lost
every goroutine to an error, with more pcs than channel and goroutines hold. Main is
still feeding: were it collecting with nothing to receive, all results were received,
and it had stopped at the last (`GotInv`). Then no goroutine ended without an error, for the
channel is not closed, so each has a batch it left and the channel is full. The ends
of these batches are different multiples of the batch size below the length of the
list, two for each goroutine (`ManyBatches`).

`BlockedForGood` and `EveryStepCounts` are what is left of liveness without fairness: a
pool that is stopped takes no step ever after, and what the pool has still to do (`Left`:
pcs to hand over, to take, to ask for and to print, ends of loops, reports, results to collect)
is finite and shrinks with every step. So each execution that goes on while somebody
can comes, in finitely many steps, to the end or to the stop of `StoppedWhenAllLost`.

**`ParserCachesProofs`** (`CachesAssumption`: finitely many callers, at least one unit
and one subprogram, no path that is another one followed by a dash and an offset).
`FileIsWhole` (`FileKeyIsWhole`), `SubprogramIsOwn` (`SubprogramKeyIsOwn`),
`ResultsFit` (`ResultFits`) and `TypeCorrect`. Why the key of a file holds all of its
units: a unit of a call is at most once in one of three places, being scanned, in the
channel, or gathered (`ScansInv`, `GatheredInv`), so as many results as there are
units are all of them, in whatever order they came. That a result may be filed under
the key of another unit does no harm to this (`FuncsInv`), for the keys of units,
subprograms and files are all different.

`ScansNeverWait`: a scan still running has a place in the channel of its call, also when
that call has returned on an error, because the results of a call are of different
units; and a caller at the channel has a result in it or a scan that will send one.
`CallsUseUpSteps`: what a call has left (`StepsLeft`) is at most the number of units and
seven, each of its own steps lowers it, and what the others do meanwhile does not touch
it; the other steps are of other callers or end a scan.
`UnitsAreOwnWithoutAllFuncs` draws the line around finding 2: where no call of
`FindAllFuncs` is made, `FuncsInCUAreOwn` holds. In this repository `callgraph` makes only
those calls and `addr2line` none, so that the finding is one for users of the package.

**`AddrLookupProofs`** (`LookupAssumption`: a part of a function is a range that is
not empty, units are numbered from 1). `UnitFound` proves `UnitIsOwner`: the binary
search keeps the usual invariant on what is left and right of the bounds
(`SearchInv`), with the keys the starts of ranges sorted by end (`LookupInv`). That is
enough although the sort is by the other end, because disjoint ranges have the same
order by both (`RangesApart`). `SubprogramFound`, `RowFound`, `OwnRow` and
`TypeCorrect` prove the other properties from `EntryInv`: the hull of ascending parts
contains every part (`PartInHull`); among the rows of an address there is a last one
(`LastRow`); the keys of the second search are all addresses of the table
(`AllAddresses`), so that the one before the index found is the greatest that is not
after the address. A row that is found and belongs to another part can only be the end
of that part at the beginning of this one. It is the entry because it comes later in the
table, and then so does the first row of that part, at a lower address: the table is
not ascending.

`TidyLookups` puts them together: where every function is in one piece and none overlap,
an address that a function covers is never answered with an error or a panic, and the
lookup ends with that function and its unit, and with a row of it if the table is in the
order of its addresses. What the findings and surprises say of the lookup needs a split
function, an overlap, an unsorted table or an address that nothing covers.
`LookupsEnd`: each step goes on to a later stage or narrows a search whose width is never
negative; the state `looping` is the one exception the code has.

**`SymbolizerProofs`** (`SymbolizerAssumption`: the bounds are at least 1).
`ScannerIsUnshared` (`OneReader`): a call has either its reader or the one result its
reader left (`ReaderInv`). `NothingStays` (`NothingIsLeft`) and `TypeCorrect`: the lines
in the pipe and those the subprocess still has to write are one stream, and `StreamInv`
relates it to the requests left and to what the reader expects (`Aligned`): its address
lines are, in order, those from the next one expected to the last one asked for, and once
no request is left just two lines follow the last of them. These are the two that the
reader takes after the last address, so it leaves none.

`FramesAreOwn` (`FramesAreAnswers`) and `LastIsOutermost` (`OneOuterFrame`) need two more.
`LinesInv` says that the lines on their way, whoever has them, are the lines of the
answers to this call's requests, each followed by the next one of its answer or by the
first of the next answer: nothing is torn, repeated or of another call.
`FramesInv` says of the frames gathered so far that they are in order, that those of
the answers already ended are whole, and that exactly the last of each pc is not
inlined; only the last answer of a subprocess that dies may be short. The properties
speak of the frames of one pc by a filter of the sequence, which is defined by
recursion; the invariant speaks of positions, and a last step relates the two.

`CallsNeverHang`: while a call is under way somebody can go on (`GoesOn`). Were the reader
to wait with the pipe empty and the subprocess idle, all requests would be answered, and by
`Aligned` the reader would not expect another line. `CallsUseUpWork`: each step within a
call lowers a number (`Remaining`) made of the requests not yet written or answered, each with
the longest answer it may get, the lines on their way, and what the reader can do without
another one.

**`DieWalkProofs`** (`TreesAssumption`: the trees are well formed as `Dies`
defines it: levels go down one at a time, only units at the top, an inlined
subroutine inside a subprogram; no bound on their size). `WalkInvariant` proves
`[]WalkInv`; from it `DepthIsLevelHolds`, `FuncsAreThoseOfUnitHolds` and
`SubroutinesAreInsideHolds`. The depth of a listed function is its level because
`findAllFuncs` counts exactly like the reader (`depth = nest`), and the reader is
never above the next entry (`ReaderInv`), so it has come up to it when the
next entry is not a null one. The list is complete because what was read is a
prefix of the entries (`UnitInv`) and every function with code of it is in one of
the two lists (`ListedInv`), in order (`OrderInv`). A subroutine is inside its
subprogram because the walk has passed no other (`SubInv`): the subprogram that an
inlined entry must be in is this one, or else this one is itself nested.
`DieWalkTypeOK` (`TypeOK`) rests on the same facts: the depth counted by hand is never
negative, as it is the reader's level (`TypeInv`, with `ReaderInv`).
`FramesAreChainHolds` (`FramesAreChain`): from the subprogram up to where the walk is, no
subroutine with the address is left out, and the walk ends at the next subprogram or
at the end of all entries (`FramesInv`); the frames are those subroutines, the later
entry first, which for entries that contain one another is innermost first. Only a
subprogram declared inside this one ends the walk too early.

`FuncsFitCallGraph` joins this module to `CallGraph`: the list that `findAllFuncs` returns,
each function with the listed one next around it, meets `GraphAssumption` for every tree, and
`JoinedListsFit` says that the lists of two units put one behind the other do too, which is
what `FindAllFuncs` does with them in the order they come. (That many lists do follows
by induction over their number, which is not in the prover's reach.) So the theorems about
the call graph are about what the parser returns and rest on no assumption of their own about lists.
`PlainFuncsAreDirect`: where functions with code stand directly in their unit or in each
other, the list meets the condition of `DirectNestingIsDrawn`, so that finding 4 needs a
block, a namespace or a function without code in between.
`WalksEnd`: every step of a walk lowers a number (`Work`), three for each entry not yet
read and one for each level the reader is at, function still listed and stage left.

**`SortingProofs`** has no assumption. `SortedIsSorted`: for every finite set and every
total order on it, the list has each element once and in the order. The number of
elements up to an element grows along the order (`UpToGrows`), so it is one-to-one, and
as there are as many places as elements, each place has one. `LeastOf` and `GreatestOf`
say that some numbers have a least and, if bounded, a greatest one, from the library's theorem
that the order of the naturals is well-founded.

**`AllPCsProofs`** (`CallAssumption`: an address is some whole bytes, more than one, and the
address space a multiple of 4; opcodes are bytes, the arm64 ones four in a row from a
multiple of 4 that is not 0;
`FilesAssumption`: the parts of a file are well typed; `PlacementsAssumption`: the
`Placements` of callbacks may be any integers, with 0 and 4 among them).
`ScanReadsCalls` proves `TextPointsReadAsCalls`. One byte of the scan is settled first
(`SiteFound`): on arm64 the two opcodes that the code knows are exactly those with an
operand in reach, and `Offset` is that operand (`OffsetIsOperand`); what is decoded at
an address that is not aligned has a target that is not aligned either, also when it
wraps (`WrapKeepsAlignment`), so it is never trace_pc. `ScanInv` then says that the
points are what reads as a call and has its opcode byte passed, in ascending order.
`OutcomeIsDeserved` proves `OutcomeFits` from one invariant for each of the two
ways through the call (`TraceInv`, `ListInv`).

`AllPCsTypeOK` (`TypeOK`) follows from `TypeInv`. `ListIsCompleteHolds` (`ListIsComplete`)
counts: what is cached for a unit is the set of its rows (`EntriesInv`), so the list made
so far has an address once for each unit with code that was listed and has it
(`PcsInv`), in whatever order the maps give them; lemmas about counting in a list that
grows, in two lists joined, and in a list rearranged by `Sorted` do the rest.

`RelocsGiveCallsAndJumps` (`RelaPointsAreCallsAndJumps`): `RelocInv` says that the points
are the places of the relocations read, in their order. That those of calls are the
calls of the linked file is arithmetic on bytes, from what digits are (`Division`,
`DigitsOfNext`). At its own place, the displacement the linker wrote is the number read
back if it fits (`ReadBack`, `Negative`), so the call goes where the callback is
(`OwnCallOnAmd64`, `OwnCallOnArm64`). No other place follows the callback to all it
reaches, not even to 0 and 4 (`NearReached`): on arm64 other places share no byte with the one
patched; on amd64 an operand that overlaps it either has the same low byte for a
callback at 0 and at 4, or one that changes by a carry only, where it would have to
change by 4 (`NoOtherCallOnAmd64`, `NoOtherCallOnArm64`).

**`CallGraphProofs`** (`GraphAssumption`: depths of at least 1, the function around a
function comes before it, and all between the two are deeper than the first).
`EdgesLeave` (`EdgesLeaveOnlyForNamespaces`), `NestingIsDrawn` (`DirectNestingIsDrawn`),
`NodesEnd` (`NodesAreEnds`), `HundredIsAll` (`HundredMeansAll`) and `TypeCorrect`. The
parent that the code guesses is the last function of the depth above since the last one
at depth 1 (`ParentInv`). It can be a finished sibling, which is why edges need not be
nesting, and it is of the same outer function unless one that is not at depth 1, in a
namespace or a class, comes between; and it is the function around if that is
one level above, because what lies between is deeper. The counts of a depth are those of
its functions and of the covered ones among them (`StatsInv`), and a subset with the
cardinality of the whole is the whole.

Only model-checked: the liveness properties (`EndsUnlessAllFail`, `NoScanIsLeft`,
`CallsReturn` of two modules), which need fairness, and the half of
`StuckOnlyWhenAllLost` with ENABLED, that `Blocked` is exactly `~ENABLED Next`: the
prover does not handle either. Every other property of a passing run is a theorem. Of
liveness the parts that are safety are theorems: that somebody can always go on
(`StoppedWhenAllLost`, `ScansNeverWait`, `CallsNeverHang`) and that every step uses up
finite work (`EveryStepCounts`, `CallsUseUpSteps`, `CallsUseUpWork`, `LookupsEnd`,
`WalksEnd`). What joins them, that whoever can go on at some time does, is the fairness
of the runs.

## Abstractions

- Names, files, lines, paths, formatting and colours are left out; a function is
  its place in the program or the tree.
- Two paths such that one is the other followed by `-` and a number give equal
  cache keys (debuginfo.go 142); `CachesAssumption` leaves them out.
- A line of the subprocess is one step: no line torn in the middle by its death,
  none longer than the scanner's buffer; a batch fits into the 4096 bytes of
  `input`, as 100 pcs do.
- `parseSubprogram`, `parseSubroutine` and `getEntryByOffset` are the five forms of
  an entry; a broken one ends in an error or a panic.
- The depth that `GetSubprogramByAddr` and `GetSubroutinesBySubprogram` give their
  functions is modelled with the drift it has, but no property is about it: nothing
  in the repository reads it.
- The percentage of a depth is computed in integers; where the float of the code may
  come out just above a whole number and be rounded up, both values are allowed.
- Profile and trace files, the verbose listing and the rendering by graphviz are
  left out.

## Not modelled

- elf.go and dump.go: they open a file, find a section by name, print bytes.
- `debug/dwarf`, `debug/elf`, concurrent-map, graphviz: not part of the repository.
- `lineFilesCMap`, and `lineEntriesCMap` under concurrent callers (debugline.go
  115-155): each is filled by a get, a computation without side effects and a set
  under a key that only its own function uses, so callers that overlap store the same
  value twice. `AllPCs` and `AddrLookup` have the line entries sequentially.
- `GenLineFiles` and `FindAllSymbolsInSec`, which nothing calls.
- Profile and trace files of the programs, verbose printing, rendering.

## Plan

Done: the pool with its abstract specification, the caches, the lookup, the
symbolizer, the walks, the call graph, and the listing of pcs with the decoding of
calls, each with the proofs above, and the interactive loop.

Left, should the project go on: the line caches `lineFilesCMap` and `lineEntriesCMap`
(debugline.go 88-172) under the concurrent callers of `ParserCaches`, with a proof that
their keys hold their own.
