----------------------------- MODULE Symbolizer -----------------------------
(***************************************************************************)
(* The protocol of -legacy with the external llvm-addr2line                *)
(* (cmd/addr2line/symbolizer.go): one Symbolizer, its subprocess behind    *)
(* two pipes, and per call a goroutine that reads the answers while the    *)
(* caller writes the pcs.  The caller is a worker of the pool or the       *)
(* interactive loop (which passes no pcs at all); both stop at the first   *)
(* error.                                                                  *)
(*                                                                         *)
(* A request is <<call, k>>, the k-th pc of a call; k = 0 is the invalid   *)
(* pc at the end.  An answer is a line with the address and two lines per  *)
(* frame, the function and file:line, which may be unknown ("??").  The    *)
(* subprocess writes whole lines and may end at any time.                  *)
(***************************************************************************)
EXTENDS Integers, Sequences

CONSTANTS
    MaxCalls,    \* bound on the calls of SymbolizeArray
    MaxBatch,    \* bound on the pcs of a call, 100 in the code
    MaxFrames,   \* bound on the frames of an answer
    PipeCap      \* lines the pipe of the answers holds

(* MaxBatch pcs and the invalid one fit into the 4096 bytes of input's     *)
(* buffer: only Flush writes to the pipe, which holds that much.           *)
ASSUME SymbolizerAssumption ==
    /\ MaxCalls \in Nat \ {0} /\ MaxBatch \in Nat \ {0}
    /\ MaxFrames \in Nat \ {0} /\ PipeCap \in Nat \ {0}

VARIABLES
    client,      \* where the caller is
    call,        \* how many calls were made
    batch,       \* len(pcs) of the last one
    result,      \* of the last one: "none" yet, "error", or "nil", with the frames
    done,        \* the channel of the reader's result
    reader,      \* where the reader is
    token,       \* scanner.Text()
    left,        \* pcs, or lines of the invalid pc, the reader has to read yet
    cur,         \* parse: the frames of the pc so far
    frames,      \* the frames of the pcs before it, in the end those of the call
    subprocess,  \* "none", "up" or "dead"
    requests,    \* the pipe to the subprocess
    output,      \* the pipe from it
    writing,     \* the lines it has not written yet of an answer
    answers      \* what it answered to the pcs of the last call (history)

caller == <<client, call, batch, result>>
reading == <<reader, token, left, cur, frames>>
external == <<subprocess, requests, writing, answers>>
vars == <<caller, done, reading, external, output>>

EOF == [kind |-> "eof"]

(* What can stand in the lines of a frame: a usable function and           *)
(* file:line, "??" in one of them, or something without a colon.           *)
Kinds == {"known", "unknown", "bad"}

Line(kind, pc, j) == [kind |-> kind, pc |-> pc, j |-> j]

Init ==
    /\ client = "idle" /\ call = 0 /\ batch = 0 /\ result = "none"
    /\ done = << >>
    /\ reader = "gone" /\ token = EOF /\ left = 0 /\ cur = << >> /\ frames = << >>
    /\ subprocess = "none" /\ requests = << >> /\ output = << >>
    /\ writing = << >> /\ answers = << >>

-----------------------------------------------------------------------------
(* The subprocess, as the code relies on it. *)

AnswerLines(pc, kinds) ==
    [i \in 1..(1 + 2 * Len(kinds)) |->
        CASE i = 1                -> Line("addr", pc, 0)
          [] i # 1 /\ i % 2 = 0 -> Line("fn", pc, i \div 2)
          [] i # 1 /\ i % 2 # 0 -> Line(kinds[i \div 2], pc, i \div 2)]

(* To the invalid pc, there is no answer but an unknown frame. *)
Answer ==
    /\ subprocess = "up"
    /\ requests # << >> /\ writing = << >>
    /\ LET pc == Head(requests)
       IN  \E n \in 1..(IF pc[2] = 0 THEN 1 ELSE MaxFrames) :
           \E kinds \in [1..n -> IF pc[2] = 0 THEN {"unknown"} ELSE Kinds] :
              /\ writing' = AnswerLines(pc, kinds)
              /\ answers' = IF pc[2] = 0 THEN answers ELSE Append(answers, kinds)
    /\ requests' = Tail(requests)
    /\ UNCHANGED <<caller, done, reading, subprocess, output>>

WriteLine ==
    /\ subprocess = "up"
    /\ writing # << >>
    /\ Len(output) < PipeCap
    /\ output' = Append(output, Head(writing))
    /\ writing' = Tail(writing)
    /\ UNCHANGED <<caller, done, reading, subprocess, requests, answers>>

(* It ends, with what it wrote still in the pipe. *)
Die ==
    /\ subprocess = "up"
    /\ subprocess' = "dead"
    /\ requests' = << >> /\ writing' = << >>
    /\ UNCHANGED <<caller, done, reading, output, answers>>

-----------------------------------------------------------------------------
(* Variants of the operations below, each with one plausible bug; only the *)
(* mutation runs use them.                                                 *)

LinesOfInvalidPCButOne == 1

FlushWithoutInvalidPC ==
    /\ client = "writing"
    /\ requests' = IF subprocess = "up" THEN [k \in 1..batch |-> <<call, k>>] ELSE requests
    /\ client' = "waiting"
    /\ UNCHANGED <<call, batch, result, done, reading, subprocess, output, writing, answers>>

AwaitNobody ==
    /\ client = "waiting"
    /\ result' = "nil"
    /\ client' = "idle"
    /\ UNCHANGED <<call, batch, done, reading, external, output>>

EndOfPCAllInline ==
    /\ frames' = frames \o cur
    /\ cur' = << >>
    /\ left' = left - 1
    /\ reader' = "pc"

UsableAlways(line) == TRUE

NextPCOneMore ==
    /\ reader = "pc"
    /\ CASE left < 0                          -> /\ reader' = "invalid"
                                                 /\ left' = 2
                                                 /\ UNCHANGED done
         [] left >= 0 /\ token.kind = "addr" -> reader' = "fn" /\ UNCHANGED <<left, done>>
         [] OTHER                             -> /\ done' = Append(done, "error")
                                                 /\ reader' = "gone"
                                                 /\ UNCHANGED left
    /\ UNCHANGED <<caller, token, cur, frames, external, output>>

-----------------------------------------------------------------------------
(* The caller. *)

(* getSubprocess, which starts the subprocess once, and may fail to; then  *)
(* symbolize starts the reader and fills the buffer.                       *)
SymbolizeArray ==
    /\ client = "idle"
    /\ result # "error"
    /\ call < MaxCalls
    /\ call' = call + 1
    /\ batch' \in 0..MaxBatch
    /\ answers' = << >>
    /\ frames' = << >> /\ cur' = << >>
    /\ \/ /\ subprocess = "none"
          /\ result' = "error"
          /\ UNCHANGED <<client, reader, left, subprocess>>
       \/ /\ subprocess' = IF subprocess = "none" THEN "up" ELSE subprocess
          /\ result' = "none"
          /\ client' = "writing"
          /\ reader' = "first" /\ left' = batch'
    /\ UNCHANGED <<done, token, requests, output, writing>>

(* input.Flush(), whose error is ignored: without a subprocess, the pcs    *)
(* are gone.                                                               *)
Flush ==
    /\ client = "writing"
    /\ requests' = IF subprocess = "up"
                   THEN [k \in 1..batch |-> <<call, k>>] \o << <<call, 0>> >>
                   ELSE requests
    /\ client' = "waiting"
    /\ UNCHANGED <<call, batch, result, done, reading, subprocess, output, writing, answers>>

(* <-done *)
Await ==
    /\ client = "waiting"
    /\ done # << >>
    /\ result' = Head(done)
    /\ done' = Tail(done)
    /\ client' = "idle"
    /\ UNCHANGED <<call, batch, reading, external, output>>

(* Close: the pipes are closed and the subprocess is killed. *)
Close ==
    /\ client = "idle"
    /\ client' = "closed"
    /\ subprocess' = IF subprocess = "none" THEN "none" ELSE "dead"
    /\ requests' = << >> /\ writing' = << >> /\ output' = << >>
    /\ UNCHANGED <<call, batch, result, done, reading, answers>>

-----------------------------------------------------------------------------
(* The reader. *)

(* scanner.Scan() waits for a line or for the end of the subprocess. *)
CanScan == output # << >> \/ subprocess = "dead"
NextToken == IF output = << >> THEN EOF ELSE Head(output)

Scan ==
    /\ CanScan
    /\ token' = NextToken
    /\ output' = IF output = << >> THEN output ELSE Tail(output)

Finish(res) ==
    /\ done' = Append(done, res)
    /\ reader' = "gone"

ScanFirst ==
    /\ reader = "first"
    /\ Scan
    /\ IF NextToken = EOF
       THEN Finish("error")
       ELSE reader' = "pc" /\ UNCHANGED done
    /\ UNCHANGED <<caller, left, cur, frames, external>>

(* scanner.Scan() for the lines of the invalid pc, after its address *)
LinesOfInvalidPC == 2

(* The next round of the loop over pcs; parse takes the last line scanned  *)
(* for the address.                                                        *)
NextPC ==
    /\ reader = "pc"
    /\ CASE left = 0                          -> /\ reader' = "invalid"
                                                 /\ left' = LinesOfInvalidPC
                                                 /\ UNCHANGED done
         [] left > 0 /\ token.kind = "addr"  -> reader' = "fn" /\ UNCHANGED <<left, done>>
         [] OTHER                             -> Finish("error") /\ UNCHANGED left
    /\ UNCHANGED <<caller, token, cur, frames, external, output>>

(* The last frame of a pc is the function, those before it are inlined.    *)
EndOfPC ==
    /\ frames' = frames \o [j \in 1..Len(cur) |-> [cur[j] EXCEPT !.inline = j < Len(cur)]]
    /\ cur' = << >>
    /\ left' = left - 1
    /\ reader' = "pc"

(* parse: a function, or the address line of the next pc; the end of the   *)
(* output ends the pc like one.                                            *)
ScanFunc ==
    /\ reader = "fn"
    /\ Scan
    /\ IF NextToken.kind \in {"eof", "addr"}
       THEN EndOfPC
       ELSE reader' = "loc" /\ UNCHANGED <<left, cur, frames>>
    /\ UNCHANGED <<caller, done, external>>

Usable(line) == line.kind = "known"

(* parse: file:line; a line without a colon is an error.                   *)
ScanLocation ==
    /\ reader = "loc"
    /\ Scan
    /\ IF NextToken.kind \in {"known", "unknown"}
       THEN /\ cur' = IF Usable(NextToken)
                      THEN Append(cur, [pc |-> NextToken.pc, j |-> NextToken.j, inline |-> TRUE])
                      ELSE cur
            /\ reader' = "fn" /\ UNCHANGED done
       ELSE Finish("error") /\ UNCHANGED cur
    /\ UNCHANGED <<caller, left, frames, external>>

ScanInvalid ==
    /\ reader = "invalid"
    /\ Scan
    /\ left' = left - 1
    /\ IF left = 1 THEN Finish("nil") ELSE UNCHANGED <<reader, done>>
    /\ UNCHANGED <<caller, cur, frames, external>>

-----------------------------------------------------------------------------
Client == SymbolizeArray \/ Flush \/ Await \/ Close
Reader == ScanFirst \/ NextPC \/ ScanFunc \/ ScanLocation \/ ScanInvalid
Subprocess == Answer \/ WriteLine

Next == Client \/ Reader \/ Subprocess \/ Die

(* Goroutines that can run are run, and the subprocess answers or dies.    *)
(* Whether another call is made is up to the caller.                       *)
Fairness == WF_vars(Flush \/ Await) /\ WF_vars(Reader) /\ WF_vars(Subprocess)

Spec == Init /\ [][Next]_vars /\ Fairness

-----------------------------------------------------------------------------
(* Properties. *)

PCs == (1..MaxCalls) \X (0..MaxBatch)
Lines == [kind : {"addr", "fn"} \cup Kinds, pc : PCs, j : 0..MaxFrames]
Frames == [pc : PCs, j : 1..MaxFrames, inline : BOOLEAN]

TypeOK ==
    /\ client \in {"idle", "writing", "waiting", "closed"}
    /\ call \in 0..MaxCalls /\ batch \in 0..MaxBatch
    /\ result \in {"none", "error", "nil"}
    /\ done \in Seq({"error", "nil"}) /\ Len(done) <= 1
    /\ reader \in {"gone", "first", "pc", "fn", "loc", "invalid"}
    /\ token \in {EOF} \cup Lines
    /\ left \in 0..MaxBatch \cup {2}
    /\ cur \in Seq(Frames) /\ frames \in Seq(Frames)
    /\ subprocess \in {"none", "up", "dead"}
    /\ requests \in Seq(PCs) /\ output \in Seq(Lines) /\ writing \in Seq(Lines)
    /\ Len(output) <= PipeCap
    /\ answers \in Seq(UNION {[1..n -> Kinds] : n \in 1..MaxFrames})

Succeeded == client = "idle" /\ result = "nil"

(* A call that succeeded with the subprocess alive leaves nothing in the   *)
(* pipes: the next call reads the answers to its own pcs.                  *)
NothingIsLeft ==
    Succeeded /\ subprocess = "up" => requests = << >> /\ writing = << >> /\ output = << >>

(* The reader of a call is gone when the call returns or the symbolizer is *)
(* closed: no two goroutines share the scanner.                            *)
OneReader == client \in {"idle", "closed"} => reader = "gone" /\ done = << >>

(* The frames of a call that succeeded are those answered to its own pcs,  *)
(* in the order of the pcs, without the unknown ones.  Only those of the   *)
(* last pc may be cut short, when the subprocess dies.                     *)
FramesAreAnswers ==
    Succeeded =>
        /\ Len(answers) = batch
        /\ \A a \in 1..Len(frames) : \E k \in 1..batch : \E j \in 1..Len(answers[k]) :
              frames[a].pc = <<call, k>> /\ frames[a].j = j /\ answers[k][j] = "known"
        /\ \A a, b \in 1..Len(frames) : a < b =>
              \/ frames[a].pc[2] < frames[b].pc[2]
              \/ frames[a].pc = frames[b].pc /\ frames[a].j < frames[b].j
        /\ \A k \in 1..batch : \A j \in 1..Len(answers[k]) : answers[k][j] = "known" =>
              \/ \E a \in 1..Len(frames) : frames[a].pc = <<call, k>> /\ frames[a].j = j
              \/ /\ k = batch /\ subprocess = "dead"
                 /\ \A a \in 1..Len(frames) : frames[a].pc = <<call, k>> => frames[a].j < j

(* Without -i one frame per pc is printed, as just one is not inlined: the *)
(* last that came, of a complete answer the outermost function.            *)
OneOuterFrame ==
    Succeeded =>
        \A a \in 1..Len(frames) :
            frames[a].inline <=> \E b \in (a + 1)..Len(frames) : frames[b].pc = frames[a].pc

(* Every call returns, however many lines the answers have and the pipe    *)
(* holds.                                                                  *)
CallsReturn == client \in {"writing", "waiting"} ~> client \in {"idle", "closed"}
=============================================================================
