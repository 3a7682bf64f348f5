----------------------------- MODULE StdinLoop ------------------------------
(***************************************************************************)
(* Interactive mode of cmd/addr2line (addr2line.go:97-142): main reads     *)
(* pcs from stdin line by line and has each answered, by the package or    *)
(* with -legacy by its Symbolizer.  Here a call of either succeeds or      *)
(* fails; Symbolizer is the module of the latter.                          *)
(*                                                                         *)
(* A pc is the number of its line.                                         *)
(***************************************************************************)
EXTENDS Integers, Sequences

CONSTANTS MaxLines   \* bound on the lines of stdin

VARIABLES
    legacy,   \* the flag -legacy
    stdin,    \* the lines: "empty", "pc", or "bad", which is no number
    closing,  \* how stdin ends: "eof", or an error of the scanner
    at,       \* where main is
    n,        \* the line scanned last
    pcs,      \* the list main has for the pool, nil in this mode
    given,    \* the pcs that were given to the package or the symbolizer
    printed   \* the lines that got frames or an error printed

vars == <<legacy, stdin, closing, at, n, pcs, given, printed>>

Init ==
    /\ legacy \in BOOLEAN
    /\ stdin \in UNION {[1..k -> {"empty", "pc", "bad"}] : k \in 0..MaxLines}
    /\ closing \in {"eof", "failure"}
    /\ at = "scan"
    /\ n = 0
    /\ pcs = << >>
    /\ given = {} /\ printed = {}

(* An empty line is skipped, one that is no number reported. *)
ScanLine ==
    /\ at = "scan" /\ n < Len(stdin)
    /\ n' = n + 1
    /\ at' = IF stdin[n'] = "pc" THEN "ask" ELSE "scan"
    /\ printed' = IF stdin[n'] = "bad" THEN printed \cup {n'} ELSE printed
    /\ UNCHANGED <<legacy, stdin, closing, pcs, given>>

(* At its end the program exits.  After an error, Scan is false and Text   *)
(* empty ever after: the loop goes on, printing the error each time.       *)
ScanEnd ==
    /\ at = "scan" /\ n = Len(stdin)
    /\ at' = IF closing = "eof" THEN "exit" ELSE "failing"
    /\ UNCHANGED <<legacy, stdin, closing, n, pcs, given, printed>>

(* dwarfparser.Addr2line: frames or an error are printed, or it panics.    *)
AskPackage ==
    /\ at = "ask" /\ ~legacy
    /\ at' \in {"scan", "exit"}
    /\ given' = given \cup {n}
    /\ printed' = IF at' = "scan" THEN printed \cup {n} ELSE printed
    /\ UNCHANGED <<legacy, stdin, closing, n, pcs>>

(* symb.SymbolizeArray of the file and pcs, with the list and not the pc   *)
(* of the line; an error ends the program.                                 *)
AskSymbolizer ==
    /\ at = "ask" /\ legacy
    /\ at' \in {"scan", "exit"}
    /\ given' = given \cup {pcs[k] : k \in 1..Len(pcs)}
    /\ printed' = printed \cup {pcs[k] : k \in 1..Len(pcs)}
    /\ UNCHANGED <<legacy, stdin, closing, n, pcs>>

Next == ScanLine \/ ScanEnd \/ AskPackage \/ AskSymbolizer

Spec == Init /\ [][Next]_vars

-----------------------------------------------------------------------------
(* Properties. *)

(* Before the next line is read, the pc of a line has been given to the    *)
(* package or, with -legacy, the external addr2line, which is called       *)
(* instead (addr2line.go:57), and what it said is printed.  The code does  *)
(* not keep this.                                                          *)
EveryPCIsAnswered ==
    at = "scan" => \A k \in 1..n : stdin[k] = "pc" => k \in given /\ k \in printed
=============================================================================
