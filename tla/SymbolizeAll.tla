---------------------------- MODULE SymbolizeAll ----------------------------
(***************************************************************************)
(* What a run of cmd/addr2line over a list of pcs promises its user.  No   *)
(* pc is printed twice.  A run ends without an error only when every pc    *)
(* was printed or, with -legacy, had no frames to print: such a pc is      *)
(* passed over, and nothing tells of it.  A run ends with an error, or by  *)
(* a panic, only while some pc is neither.  The pool of workers that does  *)
(* it is the subject of WorkerPool, which implements this specification.   *)
(***************************************************************************)
EXTENDS Naturals

CONSTANTS MaxPCs   \* bound on the number of pcs in one run, a natural number

VARIABLES
    phase,    \* "listing", "running", "done", "failed" or "crashed"
    legacy,   \* the -legacy flag
    npcs,     \* how many pcs there are to symbolize
    printed,  \* how often each pc has been printed
    silent    \* the pcs that were passed over

vars == <<phase, legacy, npcs, printed, silent>>

PCs == 1..MaxPCs

Init ==
    /\ phase = "listing"
    /\ legacy \in BOOLEAN
    /\ npcs = 0
    /\ printed = [p \in PCs |-> 0]
    /\ silent = {}

(* The pc waits to be symbolized. *)
Open(p) == printed[p] = 0 /\ p \notin silent

-----------------------------------------------------------------------------
(* The list of pcs is known. *)
List ==
    /\ phase = "listing"
    /\ npcs' \in 0..MaxPCs
    /\ phase' = "running"
    /\ UNCHANGED <<legacy, printed, silent>>

(* A pc is symbolized and printed. *)
Output(p) ==
    /\ phase = "running"
    /\ p <= npcs
    /\ Open(p)
    /\ printed' = [printed EXCEPT ![p] = 1]
    /\ UNCHANGED <<phase, legacy, npcs, silent>>

(* A pc is symbolized to no frames. *)
PassOver(p) ==
    /\ phase = "running"
    /\ legacy
    /\ p <= npcs
    /\ Open(p)
    /\ silent' = silent \cup {p}
    /\ UNCHANGED <<phase, legacy, npcs, printed>>

Finish ==
    /\ phase = "running"
    /\ \A p \in 1..npcs : ~Open(p)
    /\ phase' = "done"
    /\ UNCHANGED <<legacy, npcs, printed, silent>>

(* The run gives up, by reporting an error or by a panic: only while a pc  *)
(* still waits.                                                            *)
GiveUp ==
    /\ phase = "running"
    /\ \E p \in 1..npcs : Open(p)
    /\ phase' \in {"failed", "crashed"}
    /\ UNCHANGED <<legacy, npcs, printed, silent>>

Next == List \/ (\E p \in PCs : Output(p) \/ PassOver(p)) \/ Finish \/ GiveUp

Spec == Init /\ [][Next]_vars
=============================================================================
