-------------------------- MODULE SymbolizerProofs --------------------------
(***************************************************************************)
(* Proofs about the protocol of -legacy, for every number of calls, pcs    *)
(* and frames and every size of the pipe.                                  *)
(***************************************************************************)
EXTENDS Symbolizer, TLAPS, SequenceTheorems

-----------------------------------------------------------------------------
(* Types. *)

(* Only the line of the address has no frame. *)
FrameLines == {l \in Lines : l.kind # "addr" => l.j # 0}

Answers == UNION {[1..n -> Kinds] : n \in 1..MaxFrames}

TypesInv ==
    /\ client \in {"idle", "writing", "waiting", "closed"}
    /\ call \in 0..MaxCalls /\ batch \in 0..MaxBatch
    /\ client \in {"writing", "waiting"} => call # 0
    /\ result \in {"none", "error", "nil"}
    /\ reader \in {"gone", "first", "pc", "fn", "loc", "invalid"}
    /\ token \in {EOF} \cup FrameLines
    /\ IF reader = "invalid" THEN left \in 1..2 ELSE left \in 0..MaxBatch
    /\ reader \in {"fn", "loc"} => left # 0
    /\ cur \in Seq(Frames) /\ frames \in Seq(Frames)
    /\ subprocess \in {"none", "up", "dead"}
    /\ requests \in Seq(PCs) /\ output \in Seq(FrameLines) /\ writing \in Seq(FrameLines)
    /\ Len(output) <= PipeCap
    /\ answers \in Seq(Answers)

(* A call has either its reader or the reader's result.                    *)
ReaderInv ==
    /\ client \in {"idle", "closed"} => reader = "gone" /\ done = << >>
    /\ client \in {"writing", "waiting"} =>
          \/ reader # "gone" /\ done = << >>
          \/ reader = "gone" /\ done \in {<<"error">>, <<"nil">>}

LEMMA BoundsType ==
    MaxCalls \in Nat \ {0} /\ MaxBatch \in Nat \ {0} /\ MaxFrames \in Nat \ {0} /\ PipeCap \in Nat \ {0}
BY SymbolizerAssumption

LEMMA LineType ==
    /\ \A l \in FrameLines : /\ l.kind \in {"addr", "fn"} \cup Kinds /\ l.pc \in PCs
                             /\ l # EOF /\ l.kind # "eof"
                             /\ l.kind \in Kinds => l.j \in 1..MaxFrames
    /\ EOF.kind = "eof"
<1>1. EOF.kind = "eof"
  BY DEF EOF
<1>2. ASSUME NEW l \in FrameLines
      PROVE  /\ l.kind \in {"addr", "fn"} \cup Kinds /\ l.pc \in PCs
             /\ l # EOF /\ l.kind # "eof"
             /\ l.kind \in Kinds => l.j \in 1..MaxFrames
  <2>1. l \in [kind : {"addr", "fn"} \cup Kinds, pc : PCs, j : 0..MaxFrames]
    BY DEF FrameLines, Lines
  <2>2. l.kind # "addr" => l.j # 0
    BY DEF FrameLines
  <2>3. l.kind # "eof" /\ (l.kind \in Kinds => l.kind # "addr")
    BY <2>1 DEF Kinds
  <2> QED
    BY <1>1, <2>1, <2>2, <2>3, BoundsType
<1> QED
  BY <1>1, <1>2

LEMMA TypesInit == Init => TypesInv
BY BoundsType DEF Init, TypesInv

(* The lines of an answer: an address, then a function and a place per     *)
(* frame.                                                                  *)
LEMMA AnswerShape ==
    ASSUME NEW pc \in PCs, NEW kinds \in Answers
    PROVE  LET s == AnswerLines(pc, kinds)
           IN  /\ s \in Seq(FrameLines)
               /\ Len(kinds) \in Nat \ {0} /\ Len(s) = 1 + 2 * Len(kinds)
               /\ \A i \in 1..Len(s) : s[i].pc = pc
               /\ s[1].kind = "addr"
               /\ \A i \in 2..Len(s) : s[i].kind = "fn" <=> i % 2 = 0
               /\ \A i \in 2..Len(s) : i % 2 # 0 => s[i].kind \in Kinds
<1> DEFINE s == AnswerLines(pc, kinds)
<1>1. PICK n \in 1..MaxFrames : kinds \in [1..n -> Kinds]
  BY DEF Answers
<1>2. n \in Nat \ {0} /\ n <= MaxFrames /\ Len(kinds) = n
  BY <1>1, BoundsType
<1>3. \A i \in 2..(1 + 2 * n) : i \div 2 \in 1..n
  BY <1>2
<1>4. s = [i \in 1..(1 + 2 * n) |->
            CASE i = 1                -> Line("addr", pc, 0)
              [] i # 1 /\ i % 2 = 0 -> Line("fn", pc, i \div 2)
              [] i # 1 /\ i % 2 # 0 -> Line(kinds[i \div 2], pc, i \div 2)]
  BY <1>2 DEF AnswerLines
<1> HIDE DEF s
<1>5. s[1] = Line("addr", pc, 0)
  BY <1>2, <1>4
<1>6. \A i \in 2..(1 + 2 * n) : i % 2 = 0 => s[i] = Line("fn", pc, i \div 2)
  BY <1>2, <1>4
<1>7. \A i \in 2..(1 + 2 * n) : i % 2 # 0 => s[i] = Line(kinds[i \div 2], pc, i \div 2)
  BY <1>2, <1>4
<1>8. \A i \in 2..(1 + 2 * n) : kinds[i \div 2] \in Kinds
  BY <1>1, <1>3
<1>9. \A kind \in {"addr", "fn"} \cup Kinds : \A j \in 0..MaxFrames :
         Line(kind, pc, j) \in Lines /\ Line(kind, pc, j).kind = kind /\ Line(kind, pc, j).pc = pc
                                     /\ Line(kind, pc, j).j = j
  BY DEF Line, Lines
<1>10. ASSUME NEW i \in 1..(1 + 2 * n)
       PROVE  s[i] \in FrameLines /\ s[i].pc = pc
  <2>1. CASE i = 1
    BY <2>1, <1>5, <1>9, BoundsType DEF FrameLines
  <2>2. CASE i # 1 /\ i % 2 = 0
    <3>1. i \in 2..(1 + 2 * n)
      BY <1>2, <2>2
    <3>2. i \div 2 \in 0..MaxFrames /\ i \div 2 # 0
      BY <1>2, <1>3, <3>1, BoundsType
    <3> QED
      BY <2>2, <1>6, <1>9, <3>1, <3>2 DEF FrameLines
  <2>3. CASE i # 1 /\ i % 2 # 0
    <3>1. i \in 2..(1 + 2 * n)
      BY <1>2, <2>3
    <3>2. i \div 2 \in 0..MaxFrames /\ i \div 2 # 0
      BY <1>2, <1>3, <3>1, BoundsType
    <3>3. PICK kind \in Kinds, j \in 1..MaxFrames : s[i] = Line(kind, pc, j)
      BY <2>3, <1>3, <1>2, <1>7, <1>8, <3>1, BoundsType
    <3>4. /\ Line(kind, pc, j) \in Lines /\ Line(kind, pc, j).pc = pc
          /\ Line(kind, pc, j).j = j /\ j # 0
      <4>1. kind \in {"addr", "fn"} \cup Kinds /\ j \in 0..MaxFrames /\ j # 0
        BY BoundsType
      <4> QED
        BY <1>9, <4>1
    <3> QED
      BY <3>3, <3>4 DEF FrameLines
  <2> QED
    BY <2>1, <2>2, <2>3
<1>11. s \in Seq(FrameLines) /\ Len(s) = 1 + 2 * n
  <2>1. s \in [1..(1 + 2 * n) -> FrameLines]
    BY <1>4, <1>10
  <2> QED
    BY <1>2, <2>1
<1>12. \A i \in 2..Len(s) : s[i].kind = "fn" <=> i % 2 = 0
  <2> SUFFICES ASSUME NEW i \in 2..(1 + 2 * n) PROVE s[i].kind = "fn" <=> i % 2 = 0
    BY <1>11
  <2>1. i \div 2 \in 0..MaxFrames /\ kinds[i \div 2] \in Kinds
    BY <1>2, <1>3, <1>8, BoundsType
  <2>2. CASE i % 2 = 0
    BY <2>1, <2>2, <1>6, <1>9
  <2>3. CASE i % 2 # 0
    BY <2>1, <2>3, <1>7, <1>9 DEF Kinds
  <2> QED
    BY <2>2, <2>3
<1>13. \A i \in 2..Len(s) : i % 2 # 0 => s[i].kind \in Kinds
  <2> SUFFICES ASSUME NEW i \in 2..(1 + 2 * n), i % 2 # 0 PROVE s[i].kind \in Kinds
    BY <1>11
  <2>1. i \div 2 \in 0..MaxFrames /\ kinds[i \div 2] \in Kinds
    BY <1>2, <1>3, <1>8, BoundsType
  <2> QED
    BY <2>1, <1>7, <1>9
<1>14. s[1].kind = "addr"
  BY <1>5, <1>9, BoundsType
<1> QED
  BY <1>2, <1>10, <1>11, <1>12, <1>13, <1>14 DEF s

LEMMA ScanType ==
    ASSUME TypesInv, Scan
    PROVE  /\ token' = NextToken /\ NextToken \in {EOF} \cup FrameLines
           /\ NextToken.kind = "eof" => output = << >> /\ subprocess = "dead"
           /\ output' \in Seq(FrameLines) /\ Len(output') <= PipeCap
           /\ output # << >> => NextToken = Head(output) /\ output' = Tail(output)
<1>1. output \in Seq(FrameLines) /\ Len(output) \in Nat /\ Len(output) <= PipeCap
  BY LenProperties DEF TypesInv
<1>2. CASE output = << >>
  <2>1. /\ token' = EOF /\ NextToken = EOF /\ output' = output /\ subprocess = "dead"
    BY <1>2 DEF Scan, CanScan, NextToken
  <2> QED
    BY <1>1, <1>2, <2>1
<1>3. CASE output # << >>
  <2>1. token' = NextToken /\ NextToken = Head(output) /\ output' = Tail(output)
    BY <1>3 DEF Scan, NextToken
  <2>2. Head(output) \in FrameLines /\ Tail(output) \in Seq(FrameLines) /\ Len(Tail(output)) = Len(output) - 1
    BY <1>1, <1>3, HeadTailProperties
  <2> QED
    BY <1>1, <1>3, <2>1, <2>2, LineType, BoundsType
<1> QED
  BY <1>2, <1>3

LEMMA ClientTypes == TypesInv /\ ReaderInv /\ Client => TypesInv'
<1> SUFFICES ASSUME TypesInv, ReaderInv, Client PROVE TypesInv'
  OBVIOUS
<1>1. CASE SymbolizeArray
  <2>1. /\ call' \in 0..MaxCalls /\ call' # 0 /\ batch' \in 0..MaxBatch
        /\ answers' = << >> /\ frames' = << >> /\ cur' = << >>
        /\ token' = token /\ requests' = requests /\ output' = output /\ writing' = writing
    BY <1>1, BoundsType DEF SymbolizeArray, TypesInv
  <2>2. /\ client' \in {"idle", "writing"} /\ result' \in {"none", "error"}
        /\ subprocess' \in {"none", "up", "dead"}
        /\ \/ reader' = reader /\ left' = left
           \/ reader' = "first" /\ left' = batch'
    BY <1>1 DEF SymbolizeArray, TypesInv
  <2> QED
    BY <2>1, <2>2 DEF TypesInv
<1>2. CASE Flush
  <2>1. [k \in 1..batch |-> <<call, k>>] \o << <<call, 0>> >> \in Seq(PCs)
    <3>1. batch \in 0..MaxBatch /\ call \in 1..MaxCalls
      BY <1>2, BoundsType DEF Flush, TypesInv
    <3>2. \A k \in 1..batch : <<call, k>> \in PCs
      BY <3>1, BoundsType DEF PCs
    <3>3. [k \in 1..batch |-> <<call, k>>] \in Seq(PCs) /\ << <<call, 0>> >> \in Seq(PCs)
      BY <3>1, <3>2, BoundsType DEF PCs
    <3> QED
      BY <3>3, ConcatProperties
  <2>2. requests' \in Seq(PCs)
    BY <1>2, <2>1 DEF Flush, TypesInv
  <2>3. client' = "waiting" /\ call # 0
    BY <1>2 DEF Flush, TypesInv
  <2> QED
    BY <1>2, <2>2, <2>3 DEF Flush, reading, TypesInv
<1>3. CASE Await
  <2>1. done \in {<<"error">>, <<"nil">>}
    BY <1>3 DEF Await, ReaderInv
  <2>2. result' \in {"error", "nil"} /\ client' = "idle"
    BY <1>3, <2>1 DEF Await
  <2> QED
    BY <1>3, <2>2 DEF Await, reading, external, TypesInv
<1>4. CASE Close
  BY <1>4, BoundsType DEF Close, reading, TypesInv
<1> QED
  BY <1>1, <1>2, <1>3, <1>4 DEF Client

LEMMA EndOfPCType ==
    ASSUME TypesInv, reader = "fn", EndOfPC
    PROVE  /\ frames' \in Seq(Frames) /\ cur' \in Seq(Frames)
           /\ left' \in 0..MaxBatch /\ reader' = "pc"
<1> DEFINE outer == [j \in 1..Len(cur) |-> [cur[j] EXCEPT !.inline = j < Len(cur)]]
<1>1. cur \in Seq(Frames) /\ Len(cur) \in Nat
  BY LenProperties DEF TypesInv
<1>2. ASSUME NEW j \in 1..Len(cur)
      PROVE  [cur[j] EXCEPT !.inline = j < Len(cur)] \in Frames
  <2>1. cur[j] \in Frames
    BY <1>1, ElementOfSeq
  <2>2. (j < Len(cur)) \in BOOLEAN
    BY <1>1
  <2> QED
    BY <2>1, <2>2 DEF Frames
<1>3. outer \in Seq(Frames)
  BY <1>1, <1>2
<1>4. frames' = frames \o outer
  BY DEF EndOfPC
<1> HIDE DEF outer
<1>5. frames' \in Seq(Frames)
  BY <1>3, <1>4, ConcatProperties DEF TypesInv
<1>6. left \in 0..MaxBatch /\ left # 0
  BY DEF TypesInv
<1> QED
  BY <1>5, <1>6, BoundsType DEF EndOfPC

LEMMA ReaderTypes == TypesInv /\ Reader => TypesInv'
<1> SUFFICES ASSUME TypesInv, Reader PROVE TypesInv'
  OBVIOUS
<1> USE DEF caller, external
<1>1. CASE ScanFirst
  <2>1. Scan /\ reader' \in {"gone", "pc"} /\ UNCHANGED <<caller, left, cur, frames, external>>
    BY <1>1 DEF ScanFirst, Finish
  <2>2. reader = "first"
    BY <1>1 DEF ScanFirst
  <2> QED
    BY <2>1, <2>2, ScanType DEF TypesInv
<1>2. CASE NextPC
  <2>1. reader = "pc" /\ left \in 0..MaxBatch
    BY <1>2 DEF NextPC, TypesInv
  <2>2. \/ reader' = "invalid" /\ left' = 2
        \/ reader' = "fn" /\ left' = left /\ left # 0
        \/ reader' = "gone" /\ left' = left
    <3>1. CASE left = 0
      BY <1>2, <3>1 DEF NextPC, LinesOfInvalidPC
    <3>2. CASE left # 0
      BY <1>2, <2>1, <3>2, BoundsType DEF NextPC, Finish
    <3> QED
      BY <3>1, <3>2
  <2>3. UNCHANGED <<caller, token, cur, frames, external, output>>
    BY <1>2 DEF NextPC
  <2> QED
    BY <2>1, <2>2, <2>3 DEF TypesInv
<1>3. CASE ScanFunc
  <2>1. Scan /\ reader = "fn" /\ UNCHANGED <<caller, external>>
    BY <1>3 DEF ScanFunc
  <2>2. \/ EndOfPC
        \/ reader' = "loc" /\ UNCHANGED <<left, cur, frames>>
    BY <1>3 DEF ScanFunc
  <2>3. CASE EndOfPC
    BY <2>1, <2>3, ScanType, EndOfPCType DEF TypesInv
  <2>4. CASE reader' = "loc" /\ UNCHANGED <<left, cur, frames>>
    BY <2>1, <2>4, ScanType DEF TypesInv
  <2> QED
    BY <2>2, <2>3, <2>4
<1>4. CASE ScanLocation
  <2>1. Scan /\ reader = "loc" /\ UNCHANGED <<caller, left, frames, external>>
    BY <1>4 DEF ScanLocation
  <2>2. reader' \in {"fn", "gone"}
    BY <1>4 DEF ScanLocation, Finish
  <2>3. cur' \in Seq(Frames)
    <3>1. CASE cur' = cur
      BY <3>1 DEF TypesInv
    <3>2. CASE cur' # cur
      <4>1. /\ NextToken.kind \in {"known", "unknown"}
            /\ cur' = Append(cur, [pc |-> NextToken.pc, j |-> NextToken.j, inline |-> TRUE])
        BY <1>4, <3>2 DEF ScanLocation
      <4>2. NextToken \in FrameLines
        BY <2>1, <4>1, ScanType, LineType
      <4>3. NextToken.pc \in PCs /\ NextToken.j \in 1..MaxFrames
        BY <4>1, <4>2, LineType DEF Kinds
      <4>4. [pc |-> NextToken.pc, j |-> NextToken.j, inline |-> TRUE] \in Frames
        BY <4>3 DEF Frames
      <4> QED
        BY <4>1, <4>4, AppendProperties DEF TypesInv
    <3> QED
      BY <3>1, <3>2
  <2> QED
    BY <2>1, <2>2, <2>3, ScanType DEF TypesInv
<1>5. CASE ScanInvalid
  <2>1. Scan /\ reader = "invalid" /\ UNCHANGED <<caller, cur, frames, external>>
    BY <1>5 DEF ScanInvalid
  <2>2. left' = left - 1 /\ left \in 1..2
    BY <1>5 DEF ScanInvalid, TypesInv
  <2>3. IF left = 1 THEN reader' = "gone" ELSE reader' = "invalid"
    BY <1>5 DEF ScanInvalid, Finish
  <2>4. IF reader' = "invalid" THEN left' \in 1..2 ELSE left' \in 0..MaxBatch
    BY <2>2, <2>3, BoundsType
  <2> QED
    BY <2>1, <2>3, <2>4, ScanType DEF TypesInv
<1> QED
  BY <1>1, <1>2, <1>3, <1>4, <1>5 DEF Reader

LEMMA SubprocessTypes == TypesInv /\ (Subprocess \/ Die) => TypesInv'
<1> SUFFICES ASSUME TypesInv, Subprocess \/ Die PROVE TypesInv'
  OBVIOUS
<1> USE DEF caller, reading
<1>1. CASE Answer
  <2>1. requests \in Seq(PCs) /\ requests # << >>
    BY <1>1 DEF Answer, TypesInv
  <2>2. Head(requests) \in PCs /\ Tail(requests) \in Seq(PCs)
    BY <2>1, HeadTailProperties
  <2>3. PICK kinds \in Answers :
           /\ writing' = AnswerLines(Head(requests), kinds)
           /\ answers' = IF Head(requests)[2] = 0 THEN answers ELSE Append(answers, kinds)
    <3>1. PICK n \in 1..(IF Head(requests)[2] = 0 THEN 1 ELSE MaxFrames) :
            \E kinds \in [1..n -> IF Head(requests)[2] = 0 THEN {"unknown"} ELSE Kinds] :
              /\ writing' = AnswerLines(Head(requests), kinds)
              /\ answers' = IF Head(requests)[2] = 0 THEN answers ELSE Append(answers, kinds)
      BY <1>1 DEF Answer
    <3>2. PICK kinds \in [1..n -> IF Head(requests)[2] = 0 THEN {"unknown"} ELSE Kinds] :
              /\ writing' = AnswerLines(Head(requests), kinds)
              /\ answers' = IF Head(requests)[2] = 0 THEN answers ELSE Append(answers, kinds)
      BY <3>1
    <3>3. n \in 1..MaxFrames
      BY BoundsType
    <3>4. kinds \in [1..n -> Kinds]
      BY DEF Kinds
    <3>5. kinds \in Answers
      BY <3>3, <3>4 DEF Answers
    <3> QED
      BY <3>2, <3>5
  <2>4. writing' \in Seq(FrameLines)
    BY <2>2, <2>3, AnswerShape
  <2>5. answers' \in Seq(Answers)
    BY <2>3, AppendProperties DEF TypesInv
  <2> QED
    BY <1>1, <2>2, <2>4, <2>5 DEF Answer, TypesInv
<1>2. CASE WriteLine
  <2>1. writing \in Seq(FrameLines) /\ writing # << >> /\ output \in Seq(FrameLines)
    BY <1>2 DEF WriteLine, TypesInv
  <2>2. Head(writing) \in FrameLines /\ Tail(writing) \in Seq(FrameLines)
    BY <2>1, HeadTailProperties
  <2>3. output' = Append(output, Head(writing)) /\ Len(output) < PipeCap /\ writing' = Tail(writing)
    BY <1>2 DEF WriteLine
  <2>4. output' \in Seq(FrameLines) /\ Len(output') = Len(output) + 1 /\ Len(output) \in Nat
    BY <2>1, <2>2, <2>3, AppendProperties, LenProperties
  <2>5. Len(output') <= PipeCap
    BY <2>3, <2>4, BoundsType
  <2> QED
    BY <1>2, <2>2, <2>3, <2>4, <2>5 DEF WriteLine, TypesInv
<1>3. CASE Die
  BY <1>3 DEF Die, TypesInv
<1> QED
  BY <1>1, <1>2, <1>3 DEF Subprocess

LEMMA TypesStep == TypesInv /\ ReaderInv /\ [Next]_vars => TypesInv'
<1>1. TypesInv /\ UNCHANGED vars => TypesInv'
  BY DEF vars, caller, reading, external, TypesInv
<1> QED
  BY <1>1, ClientTypes, ReaderTypes, SubprocessTypes DEF Next

-----------------------------------------------------------------------------
(* The reader of a call. *)

LEMMA OneResult ==
    \A r \in {"error", "nil"} : /\ <<r>> \in Seq({"error", "nil"})
                                /\ Len(<<r>>) = 1 /\ Tail(<<r>>) = << >>
<1> TAKE r \in {"error", "nil"}
<1>1. <<r>> \in Seq({"error", "nil"}) /\ Len(<<r>>) = 1
  OBVIOUS
<1>2. <<r>> # << >>
  OBVIOUS
<1>3. Tail(<<r>>) \in Seq({"error", "nil"}) /\ Len(Tail(<<r>>)) = 0
  <2>1. \A s \in Seq({"error", "nil"}) :
           s # << >> => Tail(s) \in Seq({"error", "nil"}) /\ Len(Tail(s)) = Len(s) - 1
    BY HeadTailProperties
  <2> HIDE <1>2
  <2> QED
    BY <1>1, <1>2, <2>1
<1>4. Tail(<<r>>) = << >>
  BY <1>3, EmptySeq
<1> QED
  BY <1>1, <1>4

LEMMA ReaderInit == Init => ReaderInv
BY DEF Init, ReaderInv

LEMMA ReaderStep == TypesInv /\ ReaderInv /\ [Next]_vars => ReaderInv'
<1> SUFFICES ASSUME TypesInv, ReaderInv, [Next]_vars PROVE ReaderInv'
  OBVIOUS
<1> USE DEF caller, reading, external, ReaderInv
<1>1. CASE SymbolizeArray
  <2>1. /\ reader = "gone" /\ done = << >> /\ done' = done
        /\ \/ client' = client /\ reader' = reader
           \/ client' = "writing" /\ reader' = "first"
    BY <1>1 DEF SymbolizeArray
  <2> QED
    BY <1>1, <2>1 DEF SymbolizeArray
<1>2. CASE Flush
  BY <1>2 DEF Flush
<1>3. CASE Await
  <2>1. reader = "gone" /\ done \in {<<"error">>, <<"nil">>}
    BY <1>3 DEF Await
  <2>2. Tail(done) = << >>
    <3>1. done = <<"error">> \/ done = <<"nil">>
      BY <2>1
    <3> QED
      BY <3>1, OneResult
  <2> QED
    BY <1>3, <2>1, <2>2 DEF Await
<1>4. CASE Close
  BY <1>4 DEF Close
<1>5. CASE Reader
  <2>1. reader # "gone"
    BY <1>5 DEF Reader, ScanFirst, NextPC, ScanFunc, ScanLocation, ScanInvalid
  <2>2. client \in {"writing", "waiting"} /\ done = << >> /\ client' = client
    BY <1>5, <2>1
       DEF Reader, ScanFirst, NextPC, ScanFunc, ScanLocation, ScanInvalid, TypesInv
  <2>3. \/ done' = done /\ reader' # "gone"
        \/ Finish("error") \/ Finish("nil")
    BY <1>5 DEF Reader, ScanFirst, NextPC, ScanFunc, ScanLocation, ScanInvalid, EndOfPC, TypesInv
  <2>4. \A r \in {"error", "nil"} : Finish(r) => done' = <<r>> /\ reader' = "gone"
    BY <2>2 DEF Finish
  <2> QED
    BY <2>2, <2>3, <2>4
<1>6. CASE Subprocess \/ Die
  BY <1>6 DEF Subprocess, Answer, WriteLine, Die
<1>7. CASE UNCHANGED vars
  BY <1>7 DEF vars
<1> QED
  BY <1>1, <1>2, <1>3, <1>4, <1>5, <1>6, <1>7 DEF Next, Client

(* One goroutine at most reads the scanner: the reader of a call is gone   *)
(* when the call returns or the symbolizer is closed.                      *)
THEOREM ScannerIsUnshared == Spec => []OneReader
<1>1. ReaderInv => OneReader
  BY DEF ReaderInv, OneReader
<1> QED
  BY <1>1, TypesInit, TypesStep, ReaderInit, ReaderStep, PTL DEF Spec

(* The variables keep their types: in particular, the channel of the       *)
(* result never needs its place twice, the pipe never holds more lines     *)
(* than fit, and no frame is made of a line that has none.                 *)
THEOREM TypeCorrect == Spec => []TypeOK
<1>1. ASSUME TypesInv, ReaderInv PROVE TypeOK
  <2>1. token \in {EOF} \cup Lines /\ output \in Seq(Lines) /\ writing \in Seq(Lines)
    <3>1. \A l \in FrameLines : l \in Lines
      BY DEF FrameLines
    <3>2. \A s \in Seq(FrameLines) : s \in Seq(Lines)
      BY <3>1, SeqMonotonic
    <3> QED
      BY <1>1, <3>1, <3>2 DEF TypesInv
  <2>2. done \in Seq({"error", "nil"}) /\ Len(done) <= 1
    <3>1. done = << >> \/ done = <<"error">> \/ done = <<"nil">>
      BY <1>1 DEF ReaderInv, TypesInv
    <3>2. CASE done = << >>
      BY <3>2
    <3>3. ASSUME NEW r \in {"error", "nil"}, done = <<r>>
          PROVE  done \in Seq({"error", "nil"}) /\ Len(done) <= 1
      BY <3>3, OneResult
    <3> QED
      BY <3>1, <3>2, <3>3
  <2>3. left \in 0..MaxBatch \cup {2}
    BY <1>1, BoundsType DEF TypesInv
  <2> QED
    BY <1>1, <2>1, <2>2, <2>3 DEF TypesInv, TypeOK, Answers
<1> QED
  BY <1>1, TypesInit, TypesStep, ReaderInit, ReaderStep, PTL DEF Spec

-----------------------------------------------------------------------------
(* What is in the pipes.  A call of b pcs makes b + 1 requests, of which   *)
(* the invalid pc is the last; the answer to the k-th begins with the k-th *)
(* address line.  Nothing is left of a call as the reader ends with that   *)
(* of the invalid pc, the only one whose lines it counts.                  *)

Ord(b, pc) == IF pc[2] = 0 THEN b + 1 ELSE pc[2]
IsAddress(s, i) == s[i].kind = "addr"

(* With the requests r and the lines s on their way, the reader meets the  *)
(* address lines from the x-th to the last, in this order; and once no     *)
(* request is left, just two lines follow the last one.                    *)
InStep(b, r, s, x) ==
    /\ Len(r) <= b + 2 - x
    /\ \A i \in 1..Len(r) : r[i][2] <= b /\ Ord(b, r[i]) = b + 1 - Len(r) + i
Ordered(b, r, s, x) ==
    /\ \A i \in 1..Len(s) : IsAddress(s, i) => Ord(b, s[i].pc) \in x..(b + 1 - Len(r))
    /\ \A i, j \in 1..Len(s) :
          i < j /\ IsAddress(s, i) /\ IsAddress(s, j) => Ord(b, s[i].pc) < Ord(b, s[j].pc)
    /\ \A o \in x..(b + 1 - Len(r)) : \E i \in 1..Len(s) : IsAddress(s, i) /\ Ord(b, s[i].pc) = o
Ends(b, r, s, x) ==
    /\ x = 1 /\ s # << >> => IsAddress(s, 1)
    /\ r = << >> => IF x = b + 2 THEN Len(s) = 2
                    ELSE /\ Len(s) >= 3 /\ IsAddress(s, Len(s) - 2)
                         /\ Ord(b, s[Len(s) - 2].pc) = b + 1
Aligned(b, r, s, x) == InStep(b, r, s, x) /\ Ordered(b, r, s, x) /\ Ends(b, r, s, x)

LEMMA OrdType ==
    ASSUME NEW b \in Nat, NEW pc \in PCs
    PROVE  Ord(b, pc) \in Nat /\ pc[2] \in Nat
<1>1. pc[2] \in 0..MaxBatch
  BY DEF PCs
<1> QED
  BY <1>1, BoundsType DEF Ord

(* The reader takes a line that begins no answer.                          *)
LEMMA TakeOther ==
    ASSUME NEW b \in Nat, NEW r \in Seq(PCs), NEW s \in Seq(FrameLines), NEW x \in Nat,
           Aligned(b, r, s, x), x # b + 2, x # 1,
           s # << >>, Head(s).kind # "addr"
    PROVE  Aligned(b, r, Tail(s), x)
<1> DEFINE t == Tail(s)
<1>1. /\ t \in Seq(FrameLines) /\ Len(t) = Len(s) - 1 /\ Len(s) \in Nat \ {0} /\ Len(t) \in Nat
      /\ \A i \in 1..Len(t) : t[i] = s[i + 1]
      /\ Head(s) = s[1]
  BY HeadTailProperties, EmptySeq, LenProperties
<1>2. Len(r) \in Nat /\ (r = << >> => Len(r) = 0)
  BY LenProperties, EmptySeq
<1> HIDE DEF t
<1>3. ~IsAddress(s, 1)
  BY <1>1 DEF IsAddress
<1>4. \A i \in 1..Len(t) : i + 1 \in 1..Len(s) /\ t[i] = s[i + 1] /\ (IsAddress(t, i) <=> IsAddress(s, i + 1))
  BY <1>1 DEF IsAddress
<1>5. \A i \in 1..Len(s) : IsAddress(s, i) => i - 1 \in 1..Len(t) /\ t[i - 1] = s[i] /\ IsAddress(t, i - 1)
  BY <1>1, <1>3, <1>4 DEF IsAddress
<1>6. Ordered(b, r, t, x)
  <2>1. \A i \in 1..Len(t) : IsAddress(t, i) => Ord(b, t[i].pc) \in x..(b + 1 - Len(r))
    BY <1>4 DEF Aligned, Ordered
  <2>2. ASSUME NEW i \in 1..Len(t), NEW j \in 1..Len(t), i < j, IsAddress(t, i), IsAddress(t, j)
        PROVE  Ord(b, t[i].pc) < Ord(b, t[j].pc)
    <3>1. i + 1 < j + 1 /\ i + 1 \in 1..Len(s) /\ j + 1 \in 1..Len(s)
      BY <2>2, <1>1
    <3> QED
      BY <2>2, <3>1, <1>4 DEF Aligned, Ordered
  <2>3. ASSUME NEW o \in x..(b + 1 - Len(r))
        PROVE  \E i \in 1..Len(t) : IsAddress(t, i) /\ Ord(b, t[i].pc) = o
    <3>1. PICK i \in 1..Len(s) : IsAddress(s, i) /\ Ord(b, s[i].pc) = o
      BY DEF Aligned, Ordered
    <3> QED
      BY <3>1, <1>5
  <2> QED
    BY <2>1, <2>2, <2>3 DEF Ordered
<1>7. Ends(b, r, t, x)
  <2> SUFFICES ASSUME r = << >>
               PROVE  Len(t) >= 3 /\ IsAddress(t, Len(t) - 2) /\ Ord(b, t[Len(t) - 2].pc) = b + 1
    BY DEF Ends
  <2>1. Len(s) >= 3 /\ IsAddress(s, Len(s) - 2) /\ Ord(b, s[Len(s) - 2].pc) = b + 1
    BY DEF Aligned, Ends
  <2>2. Len(s) - 2 # 1
    BY <2>1, <1>3
  <2>3. Len(s) - 2 \in 1..Len(s) /\ Len(s) - 2 - 1 = Len(t) - 2 /\ Len(t) >= 3
    BY <2>1, <2>2, <1>1
  <2> QED
    BY <2>1, <2>3, <1>5
<1> QED
  BY <1>6, <1>7 DEF Aligned, InStep, t

(* The reader takes the line that begins the x-th answer.                  *)
LEMMA TakeAddress ==
    ASSUME NEW b \in Nat, NEW r \in Seq(PCs), NEW s \in Seq(FrameLines), NEW x \in Nat,
           Aligned(b, r, s, x), s # << >>, Head(s).kind = "addr", x # 0
    PROVE  Aligned(b, r, Tail(s), x + 1)
<1> DEFINE t == Tail(s)
<1>1. /\ t \in Seq(FrameLines) /\ Len(t) = Len(s) - 1 /\ Len(s) \in Nat \ {0} /\ Len(t) \in Nat
      /\ \A i \in 1..Len(t) : t[i] = s[i + 1]
      /\ Head(s) = s[1]
  BY HeadTailProperties, EmptySeq, LenProperties
<1>2. Len(r) \in Nat /\ (r = << >> => Len(r) = 0)
  BY LenProperties, EmptySeq
<1> HIDE DEF t
<1>3. IsAddress(s, 1) /\ 1 \in 1..Len(s)
  BY <1>1 DEF IsAddress
<1>4. \A i \in 1..Len(t) : i + 1 \in 1..Len(s) /\ t[i] = s[i + 1] /\ (IsAddress(t, i) <=> IsAddress(s, i + 1))
  BY <1>1 DEF IsAddress
<1>5. \A i \in 1..Len(s) : i # 1 => i - 1 \in 1..Len(t) /\ t[i - 1] = s[i] /\ (IsAddress(t, i - 1) <=> IsAddress(s, i))
  BY <1>1, <1>4 DEF IsAddress
<1>6. \A i \in 1..Len(s) : Ord(b, s[i].pc) \in Nat
  BY OrdType, LineType, ElementOfSeq
<1>7. Ord(b, s[1].pc) \in x..(b + 1 - Len(r))
  BY <1>3 DEF Aligned, Ordered
<1>8. Ord(b, s[1].pc) = x
  <2>1. PICK i \in 1..Len(s) : IsAddress(s, i) /\ Ord(b, s[i].pc) = x
    <3>1. x \in x..(b + 1 - Len(r))
      BY <1>2, <1>7
    <3> QED
      BY <3>1 DEF Aligned, Ordered
  <2>2. CASE i = 1
    BY <2>1, <2>2
  <2>3. CASE i # 1
    <3>1. 1 < i
      BY <2>3, <1>1
    <3>2. Ord(b, s[1].pc) < Ord(b, s[i].pc)
      BY <2>1, <3>1, <1>3 DEF Aligned, Ordered
    <3> QED
      BY <2>1, <3>2, <1>2, <1>7
  <2> QED
    BY <2>2, <2>3
<1>9. Ordered(b, r, t, x + 1)
  <2>1. ASSUME NEW i \in 1..Len(t), IsAddress(t, i)
        PROVE  Ord(b, t[i].pc) \in (x + 1)..(b + 1 - Len(r))
    <3>1. i + 1 \in 1..Len(s) /\ IsAddress(s, i + 1) /\ 1 < i + 1 /\ t[i] = s[i + 1]
      BY <2>1, <1>4, <1>1
    <3>2. Ord(b, s[i + 1].pc) \in x..(b + 1 - Len(r)) /\ Ord(b, s[1].pc) < Ord(b, s[i + 1].pc)
      BY <3>1, <1>3 DEF Aligned, Ordered
    <3>3. Ord(b, s[i + 1].pc) \in (x + 1)..(b + 1 - Len(r))
      BY <3>2, <1>8, <1>2
    <3> QED
      BY <3>1, <3>3
  <2>2. ASSUME NEW i \in 1..Len(t), NEW j \in 1..Len(t), i < j, IsAddress(t, i), IsAddress(t, j)
        PROVE  Ord(b, t[i].pc) < Ord(b, t[j].pc)
    <3>1. i + 1 < j + 1 /\ i + 1 \in 1..Len(s) /\ j + 1 \in 1..Len(s)
      BY <2>2, <1>1
    <3> QED
      BY <2>2, <3>1, <1>4 DEF Aligned, Ordered
  <2>3. ASSUME NEW o \in (x + 1)..(b + 1 - Len(r))
        PROVE  \E i \in 1..Len(t) : IsAddress(t, i) /\ Ord(b, t[i].pc) = o
    <3>1. o \in x..(b + 1 - Len(r)) /\ o # x
      BY <1>2
    <3>2. PICK i \in 1..Len(s) : IsAddress(s, i) /\ Ord(b, s[i].pc) = o
      BY <3>1 DEF Aligned, Ordered
    <3>3. i # 1
      BY <3>1, <3>2, <1>8
    <3> QED
      BY <3>2, <3>3, <1>5
  <2> QED
    BY <2>1, <2>2, <2>3 DEF Ordered
<1>10. ASSUME r = << >>
       PROVE  IF x + 1 = b + 2 THEN Len(t) = 2
              ELSE Len(t) >= 3 /\ IsAddress(t, Len(t) - 2) /\ Ord(b, t[Len(t) - 2].pc) = b + 1
  <2>1. x # b + 2
    BY <1>7, <1>2
  <2>2. Len(s) >= 3 /\ IsAddress(s, Len(s) - 2) /\ Ord(b, s[Len(s) - 2].pc) = b + 1
    BY <1>10, <2>1 DEF Aligned, Ends
  <2>3. Len(s) - 2 \in 1..Len(s)
    BY <2>2, <1>1
  <2>4. CASE Len(s) - 2 = 1
    BY <2>2, <2>4, <1>1, <1>8
  <2>5. CASE Len(s) - 2 # 1
    <3>1. 1 < Len(s) - 2
      BY <2>3, <2>5, <1>1
    <3>2. Ord(b, s[1].pc) < Ord(b, s[Len(s) - 2].pc)
      BY <2>2, <2>3, <3>1, <1>3 DEF Aligned, Ordered
    <3>3. x + 1 # b + 2
      BY <2>2, <3>2, <1>8
    <3>4. Len(s) - 2 - 1 = Len(t) - 2 /\ Len(t) >= 3
      BY <3>1, <1>1
    <3> QED
      BY <2>2, <2>3, <2>5, <3>3, <3>4, <1>5
  <2> QED
    BY <2>4, <2>5
<1>11. Ends(b, r, t, x + 1)
  BY <1>10 DEF Ends
<1>12. Len(r) <= b + 2 - (x + 1)
  BY <1>2, <1>7
<1> QED
  BY <1>9, <1>11, <1>12 DEF Aligned, InStep, t

(* The next answer is written behind the lines that are on their way.      *)
LEMMA AnswerArrives ==
    ASSUME NEW b \in Nat, NEW r \in Seq(PCs), NEW s \in Seq(FrameLines), NEW x \in Nat,
           Aligned(b, r, s, x), r # << >>,
           NEW kinds \in Answers, Head(r)[2] = 0 => Len(kinds) = 1
    PROVE  Aligned(b, Tail(r), s \o AnswerLines(Head(r), kinds), x)
<1> DEFINE a == AnswerLines(Head(r), kinds)
           t == s \o a
           u == Tail(r)
<1>1. /\ Head(r) \in PCs /\ Head(r) = r[1]
      /\ u \in Seq(PCs) /\ Len(u) = Len(r) - 1 /\ Len(r) \in Nat \ {0} /\ Len(u) \in Nat
      /\ \A i \in 1..Len(u) : u[i] = r[i + 1]
  BY HeadTailProperties, EmptySeq, LenProperties
<1>2. /\ a \in Seq(FrameLines)
      /\ Len(kinds) \in Nat \ {0} /\ Len(a) = 1 + 2 * Len(kinds)
      /\ \A i \in 1..Len(a) : a[i].pc = Head(r)
      /\ a[1].kind = "addr"
      /\ \A i \in 2..Len(a) : a[i].kind = "fn" <=> i % 2 = 0
      /\ \A i \in 2..Len(a) : i % 2 # 0 => a[i].kind \in Kinds
  BY <1>1, AnswerShape
<1> HIDE DEF a
<1>3. Len(s) \in Nat /\ Len(a) \in Nat /\ Len(a) >= 3 /\ Len(t) = Len(s) + Len(a) /\ t \in Seq(FrameLines)
      /\ \A i \in 1..(Len(s) + Len(a)) : t[i] = IF i <= Len(s) THEN s[i] ELSE a[i - Len(s)]
  <2>1. Len(s) \in Nat /\ Len(a) \in Nat
    BY <1>2, LenProperties
  <2>2. Len(a) >= 3
    BY <1>2
  <2>3. /\ Len(t) = Len(s) + Len(a) /\ t \in Seq(FrameLines)
        /\ \A i \in 1..(Len(s) + Len(a)) : t[i] = IF i <= Len(s) THEN s[i] ELSE a[i - Len(s)]
    BY <1>2, ConcatProperties
  <2> QED
    BY <2>1, <2>2, <2>3
<1> HIDE DEF t, u
<1>4. Ord(b, Head(r)) = b + 2 - Len(r) /\ Head(r)[2] <= b /\ Head(r)[2] \in Nat
  <2>1. 1 \in 1..Len(r)
    BY <1>1
  <2>2. r[1][2] <= b /\ Ord(b, r[1]) = b + 1 - Len(r) + 1
    BY <2>1 DEF Aligned, InStep
  <2>3. b + 1 - Len(r) + 1 = b + 2 - Len(r)
    BY <1>1
  <2>4. Head(r)[2] \in Nat
    BY <1>1, OrdType
  <2> QED
    BY <2>2, <2>3, <2>4, <1>1
<1>5. ASSUME NEW i \in 2..Len(a) PROVE a[i].kind # "addr"
  <2>1. CASE i % 2 = 0
    BY <2>1, <1>2
  <2>2. CASE i % 2 # 0
    BY <2>2, <1>2 DEF Kinds
  <2> QED
    BY <2>1, <2>2
<1>6. ASSUME NEW i \in 1..Len(s)
      PROVE  i \in 1..Len(t) /\ t[i] = s[i] /\ (IsAddress(t, i) <=> IsAddress(s, i))
  BY <1>3 DEF IsAddress
<1>7. Len(s) + 1 \in 1..Len(t) /\ IsAddress(t, Len(s) + 1) /\ Ord(b, t[Len(s) + 1].pc) = b + 2 - Len(r)
  <2>1. Len(s) + 1 \in 1..(Len(s) + Len(a)) /\ ~(Len(s) + 1 <= Len(s)) /\ Len(s) + 1 - Len(s) = 1 /\ 1 \in 1..Len(a)
    BY <1>3
  <2>2. t[Len(s) + 1] = a[1]
    BY <2>1, <1>3
  <2> QED
    BY <2>1, <2>2, <1>2, <1>3, <1>4 DEF IsAddress
<1>8. ASSUME NEW i \in 1..Len(t), IsAddress(t, i), ~(i \in 1..Len(s))
      PROVE  i = Len(s) + 1
  <2>1. i - Len(s) \in 1..Len(a) /\ t[i] = a[i - Len(s)]
    BY <1>3, <1>8
  <2>2. ~(i - Len(s) \in 2..Len(a))
    BY <2>1, <1>5, <1>8 DEF IsAddress
  <2> QED
    BY <2>1, <2>2, <1>3
<1>9. InStep(b, u, t, x)
  <2>1. ASSUME Len(r) > b + 2 - x PROVE FALSE
    BY <2>1, <1>1 DEF Aligned, InStep
  <2>2. Len(u) <= b + 2 - x
    BY <2>1, <1>1
  <2>3. ASSUME NEW i \in 1..Len(u)
        PROVE  u[i][2] <= b /\ Ord(b, u[i]) = b + 1 - Len(u) + i
    <3>1. i + 1 \in 1..Len(r) /\ u[i] = r[i + 1]
      BY <1>1
    <3>2. r[i + 1][2] <= b /\ Ord(b, r[i + 1]) = b + 1 - Len(r) + (i + 1)
      BY <3>1 DEF Aligned, InStep
    <3>3. b + 1 - Len(r) + (i + 1) = b + 1 - Len(u) + i
      BY <1>1
    <3> QED
      BY <3>1, <3>2, <3>3
  <2> QED
    BY <2>2, <2>3 DEF InStep
<1>10. x <= b + 2 - Len(r) /\ b + 1 - Len(u) = b + 2 - Len(r)
  BY <1>1 DEF Aligned, InStep
<1>11. \A i \in 1..Len(s) : IsAddress(s, i) => Ord(b, s[i].pc) \in x..(b + 1 - Len(r))
  BY DEF Aligned, Ordered
<1>12. Ordered(b, u, t, x)
  <2>1. ASSUME NEW i \in 1..Len(t), IsAddress(t, i)
        PROVE  Ord(b, t[i].pc) \in x..(b + 1 - Len(u))
    <3>1. CASE i \in 1..Len(s)
      <4>1. Ord(b, t[i].pc) \in x..(b + 1 - Len(r))
        BY <2>1, <3>1, <1>6, <1>11
      <4> QED
        BY <4>1, <1>1
    <3>2. CASE ~(i \in 1..Len(s))
      BY <2>1, <3>2, <1>1, <1>7, <1>8, <1>10
    <3> QED
      BY <3>1, <3>2
  <2>2. ASSUME NEW i \in 1..Len(t), NEW j \in 1..Len(t), i < j, IsAddress(t, i), IsAddress(t, j)
        PROVE  Ord(b, t[i].pc) < Ord(b, t[j].pc)
    <3>1. CASE j \in 1..Len(s)
      <4>1. i \in 1..Len(s)
        BY <2>2, <3>1, <1>3
      <4> QED
        BY <2>2, <3>1, <4>1, <1>6 DEF Aligned, Ordered
    <3>2. CASE ~(j \in 1..Len(s))
      <4>1. j = Len(s) + 1 /\ Ord(b, t[j].pc) = b + 2 - Len(r)
        BY <2>2, <3>2, <1>7, <1>8
      <4>2. i \in 1..Len(s)
        BY <2>2, <4>1, <1>3
      <4>3. Ord(b, t[i].pc) \in x..(b + 1 - Len(r))
        BY <2>2, <4>2, <1>6, <1>11
      <4> QED
        BY <4>1, <4>3, <1>1
    <3> QED
      BY <3>1, <3>2
  <2>3. ASSUME NEW o \in x..(b + 1 - Len(u))
        PROVE  \E i \in 1..Len(t) : IsAddress(t, i) /\ Ord(b, t[i].pc) = o
    <3>1. CASE o = b + 2 - Len(r)
      BY <3>1, <1>7
    <3>2. CASE o # b + 2 - Len(r)
      <4>1. o \in x..(b + 1 - Len(r))
        BY <3>2, <1>1, <1>10
      <4>2. PICK i \in 1..Len(s) : IsAddress(s, i) /\ Ord(b, s[i].pc) = o
        BY <4>1 DEF Aligned, Ordered
      <4> QED
        BY <4>2, <1>6
    <3> QED
      BY <3>1, <3>2
  <2> QED
    BY <2>1, <2>2, <2>3 DEF Ordered
<1>13. x = 1 => IsAddress(t, 1)
  <2> SUFFICES ASSUME x = 1 PROVE IsAddress(t, 1)
    OBVIOUS
  <2>1. CASE s = << >>
    BY <2>1, <1>7, EmptySeq
  <2>2. CASE s # << >>
    <3>1. IsAddress(s, 1) /\ 1 \in 1..Len(s)
      BY <2>2, EmptySeq DEF Aligned, Ends
    <3> QED
      BY <3>1, <1>6
  <2> QED
    BY <2>1, <2>2
<1>14. ASSUME u = << >>
       PROVE  IF x = b + 2 THEN Len(t) = 2
              ELSE Len(t) >= 3 /\ IsAddress(t, Len(t) - 2) /\ Ord(b, t[Len(t) - 2].pc) = b + 1
  <2>1. Len(r) = 1
    BY <1>14, <1>1, EmptySeq
  <2>2. Ord(b, Head(r)) = b + 1 /\ x # b + 2
    BY <2>1, <1>4, <1>10
  <2>3. Head(r)[2] = 0
    <3>1. Head(r)[2] # b + 1
      BY <1>4
    <3> QED
      BY <2>2, <3>1 DEF Ord
  <2>4. Len(a) = 3 /\ Len(t) - 2 = Len(s) + 1
    <3>1. Len(kinds) = 1
      BY <2>3
    <3>2. Len(a) = 3
      BY <3>1, <1>2
    <3>3. Len(t) - 2 = Len(s) + 1
      BY <3>2, <1>3
    <3> QED
      BY <3>2, <3>3
  <2> QED
    BY <2>1, <2>2, <2>4, <1>3, <1>7
<1>15. Ends(b, u, t, x)
  BY <1>13, <1>14 DEF Ends
<1> QED
  BY <1>9, <1>12, <1>15 DEF Aligned, t, u, a

(* The pipe and what is not yet in it: a line that moves from one to the   *)
(* other changes nothing for the reader, who takes from the front.         *)
LEMMA MoveLine ==
    ASSUME NEW o \in Seq(FrameLines), NEW w \in Seq(FrameLines), w # << >>
    PROVE  Append(o, Head(w)) \o Tail(w) = o \o w
<1>1. /\ Head(w) \in FrameLines /\ Head(w) = w[1]
      /\ Tail(w) \in Seq(FrameLines) /\ Len(Tail(w)) = Len(w) - 1 /\ Len(w) \in Nat \ {0}
      /\ \A i \in 1..Len(Tail(w)) : Tail(w)[i] = w[i + 1]
  BY HeadTailProperties, EmptySeq
<1> DEFINE p == Append(o, Head(w))
           v == Tail(w)
<1>2. /\ p \in Seq(FrameLines) /\ Len(p) = Len(o) + 1 /\ Len(o) \in Nat
      /\ p[Len(o) + 1] = w[1] /\ \A i \in 1..Len(o) : p[i] = o[i]
  BY <1>1, AppendProperties, LenProperties
<1> HIDE DEF p, v
<1>3. /\ v \in Seq(FrameLines) /\ Len(v) = Len(w) - 1
      /\ \A i \in 1..Len(v) : v[i] = w[i + 1]
  BY <1>1 DEF v
<1>4. /\ p \o v \in Seq(FrameLines) /\ Len(p \o v) = Len(o) + Len(w)
      /\ \A i \in 1..(Len(o) + Len(w)) : (p \o v)[i] = IF i <= Len(o) + 1 THEN p[i] ELSE v[i - (Len(o) + 1)]
  <2>1. /\ p \o v \in Seq(FrameLines) /\ Len(p \o v) = Len(p) + Len(v)
        /\ \A i \in 1..(Len(p) + Len(v)) : (p \o v)[i] = IF i <= Len(p) THEN p[i] ELSE v[i - Len(p)]
    BY <1>2, <1>3, ConcatProperties
  <2>2. Len(p) + Len(v) = Len(o) + Len(w)
    BY <1>1, <1>2, <1>3
  <2> QED
    BY <2>1, <2>2, <1>2
<1>5. /\ o \o w \in Seq(FrameLines) /\ Len(o \o w) = Len(o) + Len(w)
      /\ \A i \in 1..(Len(o) + Len(w)) : (o \o w)[i] = IF i <= Len(o) THEN o[i] ELSE w[i - Len(o)]
  BY ConcatProperties
<1>6. ASSUME NEW i \in 1..(Len(o) + Len(w))
      PROVE  (p \o v)[i] = (o \o w)[i]
  <2>1. CASE i <= Len(o)
    <3>1. i \in 1..Len(o) /\ i <= Len(o) + 1
      BY <2>1, <1>1, <1>2
    <3> QED
      BY <3>1, <2>1, <1>2, <1>4, <1>5
  <2>2. CASE i = Len(o) + 1
    <3>1. i <= Len(o) + 1 /\ ~(i <= Len(o)) /\ i - Len(o) = 1
      BY <2>2, <1>2
    <3> QED
      BY <3>1, <2>2, <1>2, <1>4, <1>5
  <2>3. CASE i > Len(o) + 1
    <3>1. /\ ~(i <= Len(o) + 1) /\ ~(i <= Len(o))
          /\ i - (Len(o) + 1) \in 1..Len(v) /\ i - (Len(o) + 1) + 1 = i - Len(o)
      BY <2>3, <1>1, <1>2, <1>3
    <3> QED
      BY <3>1, <1>3, <1>4, <1>5
  <2>4. i <= Len(o) \/ i = Len(o) + 1 \/ i > Len(o) + 1
    <3>1. Len(o) \in Nat /\ Len(w) \in Nat
      BY <1>1, <1>2
    <3>2. i \in Int
      BY <3>1
    <3> QED
      BY <3>1, <3>2
  <2> QED
    BY <2>1, <2>2, <2>3, <2>4
<1>7. p \o v = o \o w
  BY <1>4, <1>5, <1>6, SeqEqual
<1> QED
  BY <1>7 DEF p, v

LEMMA TakeLine ==
    ASSUME NEW o \in Seq(FrameLines), NEW w \in Seq(FrameLines), o # << >>
    PROVE  /\ o \o w \in Seq(FrameLines) /\ o \o w # << >> /\ Head(o \o w) = Head(o)
           /\ Tail(o) \o w = Tail(o \o w)
<1>1. /\ Head(o) = o[1]
      /\ Tail(o) \in Seq(FrameLines) /\ Len(Tail(o)) = Len(o) - 1 /\ Len(o) \in Nat \ {0} /\ Len(w) \in Nat
      /\ \A i \in 1..Len(Tail(o)) : Tail(o)[i] = o[i + 1]
  BY HeadTailProperties, EmptySeq, LenProperties
<1> DEFINE s == o \o w
           v == Tail(o)
<1>2. /\ s \in Seq(FrameLines) /\ Len(s) = Len(o) + Len(w)
      /\ \A i \in 1..(Len(o) + Len(w)) : s[i] = IF i <= Len(o) THEN o[i] ELSE w[i - Len(o)]
  BY ConcatProperties
<1>3. /\ v \o w \in Seq(FrameLines) /\ Len(v \o w) = Len(v) + Len(w)
      /\ \A i \in 1..(Len(v) + Len(w)) : (v \o w)[i] = IF i <= Len(v) THEN v[i] ELSE w[i - Len(v)]
  BY <1>1, ConcatProperties
<1> HIDE DEF s, v
<1>4. s # << >> /\ s[1] = o[1]
  BY <1>1, <1>2, EmptySeq
<1>5. /\ Tail(s) \in Seq(FrameLines) /\ Len(Tail(s)) = Len(s) - 1 /\ Head(s) = s[1]
      /\ \A i \in 1..Len(Tail(s)) : Tail(s)[i] = s[i + 1]
  BY <1>2, <1>4, HeadTailProperties
<1>6. Len(v) = Len(o) - 1 /\ \A i \in 1..Len(v) : v[i] = o[i + 1]
  BY <1>1 DEF v
<1>7. Len(v \o w) = Len(Tail(s))
  BY <1>1, <1>2, <1>3, <1>5, <1>6
<1>8. ASSUME NEW i \in 1..Len(v \o w) PROVE (v \o w)[i] = Tail(s)[i]
  <2>1. i + 1 \in 1..(Len(o) + Len(w)) /\ i \in 1..(Len(v) + Len(w)) /\ Tail(s)[i] = s[i + 1]
    BY <1>1, <1>3, <1>5, <1>6, <1>7
  <2>2. CASE i <= Len(v)
    <3>1. i \in 1..Len(v) /\ i + 1 <= Len(o)
      BY <2>1, <2>2, <1>1, <1>6
    <3> QED
      BY <3>1, <2>1, <2>2, <1>2, <1>3, <1>6
  <2>3. CASE ~(i <= Len(v))
    <3>1. ~(i + 1 <= Len(o)) /\ i + 1 - Len(o) = i - Len(v)
      BY <2>1, <2>3, <1>1, <1>6
    <3> QED
      BY <3>1, <2>1, <2>3, <1>2, <1>3
  <2> QED
    BY <2>2, <2>3
<1>9. v \o w = Tail(s)
  BY <1>3, <1>5, <1>7, <1>8, SeqEqual
<1> QED
  BY <1>1, <1>2, <1>4, <1>5, <1>9 DEF s, v

Stream == output \o writing
Expected == IF reader = "first" THEN 1 ELSE batch + 2 - left
Nothing == requests = << >> /\ output = << >> /\ writing = << >>
Looking == reader \in {"first", "pc", "fn", "loc"}

StreamInv ==
    /\ subprocess = "none" => client \in {"idle", "closed"} /\ Nothing
    /\ Looking => left <= batch
    /\ reader = "first" => left = batch
    /\ subprocess = "up" =>
        /\ client = "writing" => Nothing /\ reader = "first"
        /\ client = "waiting" /\ Looking => Aligned(batch, requests, Stream, Expected)
        /\ client = "waiting" /\ reader = "invalid" => requests = << >> /\ Len(Stream) = left
        /\ client = "waiting" /\ done = <<"nil">> => Nothing
        /\ client = "idle" /\ result # "error" => Nothing

LEMMA StreamInit == Init => StreamInv
BY DEF Init, StreamInv, Nothing, Looking

(* The pcs of a call, all of them in the pipe and no answer yet.           *)
LEMMA AllAsked ==
    ASSUME NEW b \in Nat, NEW c, NEW r \in Seq(PCs),
           r = [k \in 1..b |-> <<c, k>>] \o << <<c, 0>> >>
    PROVE  Aligned(b, r, << >>, 1)
<1> DEFINE u == [k \in 1..b |-> <<c, k>>]
           v == << <<c, 0>> >>
           T == {c} \X Nat
<1>1. /\ u \in Seq(T) /\ Len(u) = b /\ \A k \in 1..b : u[k] = <<c, k>>
      /\ v \in Seq(T) /\ Len(v) = 1 /\ v[1] = <<c, 0>>
  OBVIOUS
<1> HIDE DEF u, v
<1>2. Len(r) = b + 1 /\ \A i \in 1..(b + 1) : r[i] = IF i <= b THEN u[i] ELSE v[i - b]
  BY <1>1, ConcatProperties DEF u, v
<1>3. ASSUME NEW i \in 1..Len(r)
      PROVE  r[i][2] <= b /\ Ord(b, r[i]) = b + 1 - Len(r) + i
  <2>1. i \in 1..(b + 1) /\ b + 1 - Len(r) + i = i
    BY <1>2
  <2>2. CASE i <= b
    <3>1. r[i] = <<c, i>> /\ i # 0
      BY <2>1, <2>2, <1>1, <1>2
    <3> QED
      BY <3>1, <2>1, <2>2 DEF Ord
  <2>3. CASE ~(i <= b)
    <3>1. i = b + 1 /\ i - b = 1
      BY <2>1, <2>3
    <3>2. r[i] = <<c, 0>>
      BY <2>1, <2>3, <3>1, <1>1, <1>2
    <3>3. r[i][2] = 0
      BY <3>2
    <3>4. Ord(b, r[i]) = b + 1
      BY <3>3 DEF Ord
    <3>5. r[i][2] <= b
      BY <3>3
    <3> QED
      BY <3>1, <3>4, <3>5, <2>1
  <2> QED
    BY <2>2, <2>3
<1>4. Len(<< >>) = 0 /\ r # << >>
  BY <1>2, EmptySeq
<1>5. InStep(b, r, << >>, 1)
  <2>1. Len(r) <= b + 2 - 1
    BY <1>2
  <2> QED
    BY <2>1, <1>3 DEF InStep
<1>6. Ordered(b, r, << >>, 1)
  BY <1>2, <1>4 DEF Ordered
<1>7. Ends(b, r, << >>, 1)
  BY <1>4 DEF Ends
<1> QED
  BY <1>5, <1>6, <1>7 DEF Aligned

LEMMA StreamType == TypesInv => Stream \in Seq(FrameLines) /\ (Stream = << >> <=> output = << >> /\ writing = << >>)
<1>1. output \in Seq(FrameLines) /\ writing \in Seq(FrameLines) =>
        output \o writing \in Seq(FrameLines) /\ (output \o writing = << >> <=> output = << >> /\ writing = << >>)
  BY ConcatProperties, ConcatEqualIffEmpty
<1> QED
  BY <1>1 DEF TypesInv, Stream

LEMMA ExpectedType ==
    TypesInv /\ StreamInv /\ Looking => Expected \in Nat /\ Expected # 0 /\ batch \in Nat
BY BoundsType DEF TypesInv, StreamInv, Expected, Looking

LEMMA StreamClient == TypesInv /\ ReaderInv /\ StreamInv /\ Client => StreamInv'
<1> SUFFICES ASSUME TypesInv, ReaderInv, StreamInv, Client PROVE StreamInv'
  OBVIOUS
<1> USE DEF caller, reading, external
<1>1. CASE SymbolizeArray
  <2>1. /\ client = "idle" /\ result # "error" /\ reader = "gone" /\ done = << >> /\ done' = done
        /\ requests' = requests /\ output' = output /\ writing' = writing
    BY <1>1 DEF SymbolizeArray, ReaderInv
  <2>2. \/ subprocess = "none" /\ subprocess' = subprocess /\ client' = client /\ reader' = reader
        \/ /\ subprocess' = IF subprocess = "none" THEN "up" ELSE subprocess
           /\ client' = "writing" /\ reader' = "first" /\ left' = batch'
    BY <1>1 DEF SymbolizeArray
  <2>3. subprocess \in {"none", "up"} => Nothing /\ Nothing'
    BY <2>1 DEF StreamInv, Nothing
  <2>4. batch' \in 0..MaxBatch
    BY <1>1 DEF SymbolizeArray
  <2> QED
    BY <2>1, <2>2, <2>3, <2>4, BoundsType DEF StreamInv, Looking, TypesInv
<1>2. CASE Flush
  <2>1. client = "writing" /\ client' = "waiting" /\ UNCHANGED <<batch, done, reading, subprocess, output, writing>>
    BY <1>2 DEF Flush
  <2>2. ASSUME subprocess = "up"
        PROVE  Aligned(batch, requests', << >>, 1) /\ reader = "first" /\ done = << >>
    <3>1. requests' = [k \in 1..batch |-> <<call, k>>] \o << <<call, 0>> >>
      BY <1>2, <2>2 DEF Flush
    <3>2. requests' \in Seq(PCs)
      BY ClientTypes DEF TypesInv
    <3>3. batch \in Nat
      BY BoundsType DEF TypesInv
    <3>4. reader = "first"
      BY <2>1, <2>2 DEF StreamInv
    <3> QED
      BY <3>1, <3>2, <3>3, <3>4, <2>1, AllAsked DEF ReaderInv
  <2>3. subprocess = "up" => Stream' = << >> /\ Expected' = 1
    <3>1. subprocess = "up" => output' = << >> /\ writing' = << >> /\ reader' = "first"
      BY <2>1 DEF StreamInv, Nothing
    <3> QED
      BY <3>1 DEF Stream, Expected
  <2>4. subprocess # "none"
    BY <2>1 DEF StreamInv
  <2>5. Looking' <=> Looking
    BY <2>1 DEF Looking
  <2>6. subprocess' = "up" => Aligned(batch', requests', Stream', Expected') /\ reader' = "first" /\ done' = << >>
    BY <2>1, <2>2, <2>3
  <2> QED
    BY <2>1, <2>4, <2>5, <2>6 DEF StreamInv
<1>3. CASE Await
  <2>1. /\ client = "waiting" /\ client' = "idle" /\ result' = Head(done)
        /\ UNCHANGED <<batch, reading, subprocess, requests, output, writing>>
    BY <1>3 DEF Await
  <2>2. reader = "gone" /\ (done = <<"error">> \/ done = <<"nil">>)
    BY <1>3 DEF Await, ReaderInv
  <2>3. result' # "error" => done = <<"nil">>
    BY <2>1, <2>2
  <2>4. Nothing' <=> Nothing
    BY <2>1 DEF Nothing
  <2> QED
    BY <2>1, <2>2, <2>3, <2>4 DEF StreamInv, Looking
<1>4. CASE Close
  <2>1. /\ client' = "closed" /\ subprocess' # "up" /\ UNCHANGED <<batch, reading>>
        /\ requests' = << >> /\ writing' = << >> /\ output' = << >>
    BY <1>4 DEF Close
  <2> QED
    BY <2>1 DEF StreamInv, Looking, Nothing
<1> QED
  BY <1>1, <1>2, <1>3, <1>4 DEF Client

(* A line is taken while the subprocess is up.                             *)
LEMMA ScanTakes ==
    ASSUME TypesInv, Scan, subprocess = "up", UNCHANGED writing
    PROVE  /\ Stream # << >> /\ NextToken = Head(Stream) /\ Stream' = Tail(Stream)
           /\ NextToken.kind # "eof" /\ NextToken # EOF
<1>1. output # << >>
  BY DEF Scan, CanScan
<1>2. NextToken = Head(output) /\ output' = Tail(output) /\ Head(output) \in FrameLines
  BY <1>1, ScanType, HeadTailProperties DEF TypesInv
<1>3. /\ Stream # << >> /\ Head(Stream) = Head(output)
      /\ Tail(output) \o writing = Tail(Stream)
  BY <1>1, TakeLine DEF TypesInv, Stream
<1>4. Stream' = Tail(output) \o writing
  BY <1>2 DEF Stream
<1> QED
  BY <1>2, <1>3, <1>4, LineType

(* What a step of the reader has to show.                                  *)
LEMMA ReaderKeeps ==
    ASSUME TypesInv, ReaderInv, StreamInv, reader # "gone",
           UNCHANGED <<client, batch, result, subprocess, requests, writing>>,
           reader' # "first",
           Looking' => left' <= batch,
           subprocess = "up" => output # << >> \/ reader # "first",
           subprocess = "up" /\ client = "waiting" =>
              /\ Looking' => Aligned(batch, requests, Stream', Expected')
              /\ reader' = "invalid" => requests = << >> /\ Len(Stream') = left'
              /\ done' = <<"nil">> => Nothing'
    PROVE  StreamInv'
<1>1. client \in {"writing", "waiting"}
  BY DEF ReaderInv, TypesInv
<1>2. subprocess = "up" => client = "waiting"
  BY <1>1 DEF StreamInv, Nothing
<1>3. subprocess # "none"
  BY <1>1 DEF StreamInv
<1> QED
  BY <1>1, <1>2, <1>3 DEF StreamInv

LEMMA StreamReader == TypesInv /\ ReaderInv /\ StreamInv /\ Reader => StreamInv'
<1> SUFFICES ASSUME TypesInv, ReaderInv, StreamInv, Reader PROVE StreamInv'
  OBVIOUS
<1> USE DEF caller, external
<1>1. /\ UNCHANGED <<client, batch, result, subprocess, requests, writing>>
      /\ reader # "gone" /\ client \in {"writing", "waiting"} /\ done = << >>
  BY DEF Reader, ScanFirst, NextPC, ScanFunc, ScanLocation, ScanInvalid, ReaderInv, TypesInv
<1>2. Stream \in Seq(FrameLines) /\ requests \in Seq(PCs) /\ batch \in Nat
  BY StreamType, BoundsType DEF TypesInv
<1>3. \A r \in {"error", "nil"} : Finish(r) => reader' = "gone" /\ done' = <<r>>
  BY <1>1 DEF Finish
<1>4. subprocess = "up" /\ client = "waiting" /\ Looking => Aligned(batch, requests, Stream, Expected)
  BY DEF StreamInv
<1>5. CASE ScanFirst
  <2>1. Scan /\ reader = "first" /\ left' = left /\ left = batch /\ Looking /\ Expected = 1
    BY <1>5 DEF ScanFirst, StreamInv, Looking, Expected
  <2>2. \/ NextToken = EOF /\ reader' = "gone" /\ done' = <<"error">>
        \/ NextToken # EOF /\ reader' = "pc" /\ done' = done
    BY <1>5, <1>3 DEF ScanFirst
  <2>3. subprocess = "up" => output # << >>
    BY <2>1 DEF Scan, CanScan
  <2>4. ASSUME subprocess = "up", client = "waiting"
        PROVE  Aligned(batch, requests, Stream', 2) /\ reader' = "pc"
    <3>1. /\ Stream # << >> /\ NextToken = Head(Stream) /\ Stream' = Tail(Stream) /\ reader' = "pc"
      BY <2>1, <2>2, <2>4, <1>1, ScanTakes
    <3>2. Aligned(batch, requests, Stream, 1)
      BY <2>1, <2>4, <1>4
    <3>3. Head(Stream).kind = "addr"
      BY <3>1, <3>2 DEF Aligned, Ends, IsAddress
    <3>4. Aligned(batch, requests, Tail(Stream), 1 + 1)
      BY <3>1, <3>2, <3>3, <1>2, TakeAddress
    <3> QED
      BY <3>1, <3>4
  <2>5. reader' = "pc" => Expected' = 2
    BY <2>1, <1>1, <1>2 DEF Expected
  <2> QED
    BY <2>1, <2>2, <2>3, <2>4, <2>5, <1>1, <1>2, ReaderKeeps DEF Looking
<1>6. CASE NextPC
  <2>1. reader = "pc" /\ left \in 0..MaxBatch /\ Looking /\ left <= batch /\ Expected = batch + 2 - left
    BY <1>6 DEF NextPC, StreamInv, Looking, TypesInv, Expected
  <2>2. \/ left = 0 /\ reader' = "invalid" /\ left' = 2 /\ done' = done
        \/ left # 0 /\ reader' = "fn" /\ left' = left /\ done' = done
        \/ reader' = "gone" /\ left' = left /\ done' = <<"error">>
    <3>1. CASE left = 0
      BY <1>6, <3>1 DEF NextPC, LinesOfInvalidPC
    <3>2. CASE left # 0
      BY <1>3, <1>6, <2>1, <3>2, BoundsType DEF NextPC
    <3> QED
      BY <3>1, <3>2
  <2>3. Stream' = Stream /\ output' = output
    BY <1>6 DEF NextPC, Stream
  <2>4. reader' = "fn" => Expected' = Expected
    BY <2>1, <2>2, <1>1 DEF Expected
  <2>5. ASSUME subprocess = "up", client = "waiting", left = 0
        PROVE  requests = << >> /\ Len(Stream) = 2
    <3>1. Aligned(batch, requests, Stream, batch + 2)
      BY <2>1, <2>5, <1>2, <1>4
    <3>2. Len(requests) <= batch + 2 - (batch + 2) /\ Len(requests) \in Nat
      BY <3>1, <1>2, LenProperties DEF Aligned, InStep
    <3>3. requests = << >>
      BY <3>2, <1>2, EmptySeq
    <3> QED
      BY <3>1, <3>3 DEF Aligned, Ends
  <2>6. /\ reader' # "first" /\ left <= batch /\ done' # <<"nil">>
        /\ Looking' => reader' = "fn" /\ left' = left
        /\ reader' = "invalid" => left = 0 /\ left' = 2
    BY <2>1, <2>2, <1>1 DEF Looking
  <2>7. subprocess = "up" /\ client = "waiting" =>
           /\ Looking' => Aligned(batch, requests, Stream', Expected')
           /\ reader' = "invalid" => requests = << >> /\ Len(Stream') = left'
    BY <2>1, <2>3, <2>4, <2>5, <2>6, <1>4
  <2> QED
    BY <2>1, <2>6, <2>7, <1>1, ReaderKeeps
<1>7. CASE ScanFunc
  <2>1. Scan /\ reader = "fn" /\ left \in 1..batch /\ Looking /\ Expected = batch + 2 - left /\ done' = done
    BY <1>7, <1>2, BoundsType
       DEF ScanFunc, StreamInv, Looking, TypesInv, Expected, EndOfPC
  <2>2. \/ NextToken.kind \in {"eof", "addr"} /\ reader' = "pc" /\ left' = left - 1
        \/ ~(NextToken.kind \in {"eof", "addr"}) /\ reader' = "loc" /\ left' = left
    BY <1>7 DEF ScanFunc, EndOfPC
  <2>3. ASSUME subprocess = "up", client = "waiting"
        PROVE  Aligned(batch, requests, Stream', Expected')
    <3>1. /\ Stream # << >> /\ NextToken = Head(Stream) /\ Stream' = Tail(Stream)
          /\ NextToken.kind # "eof"
      BY <2>1, <2>3, <1>1, ScanTakes
    <3>2. Aligned(batch, requests, Stream, Expected)
      BY <2>1, <2>3, <1>4
    <3>3. Expected \in Nat /\ Expected # 0 /\ Expected # 1 /\ Expected # batch + 2
      BY <2>1, <1>2
    <3>4. CASE NextToken.kind = "addr"
      <4>1. Expected' = Expected + 1
        BY <2>1, <2>2, <3>4, <1>1, <1>2 DEF Expected
      <4>2. Aligned(batch, requests, Tail(Stream), Expected + 1)
        BY <3>1, <3>2, <3>3, <3>4, <1>2, TakeAddress
      <4> QED
        BY <4>1, <4>2, <3>1
    <3>5. CASE NextToken.kind # "addr"
      <4>1. Expected' = Expected
        BY <2>1, <2>2, <3>1, <3>5, <1>1 DEF Expected
      <4>2. Aligned(batch, requests, Tail(Stream), Expected)
        BY <3>1, <3>2, <3>3, <3>5, <1>2, TakeOther
      <4> QED
        BY <4>1, <4>2, <3>1
    <3> QED
      BY <3>4, <3>5
  <2>4. reader' \in {"pc", "loc"} /\ left' <= batch
    BY <2>1, <2>2, <1>2
  <2> QED
    BY <2>1, <2>3, <2>4, <1>1, ReaderKeeps
<1>8. CASE ScanLocation
  <2>1. Scan /\ reader = "loc" /\ left \in 1..batch /\ Looking /\ Expected = batch + 2 - left /\ left' = left
    BY <1>8, <1>2, BoundsType DEF ScanLocation, StreamInv, Looking, TypesInv, Expected
  <2>2. \/ NextToken.kind \in {"known", "unknown"} /\ reader' = "fn" /\ done' = done
        \/ reader' = "gone" /\ done' = <<"error">>
    BY <1>8, <1>3 DEF ScanLocation
  <2>3. ASSUME subprocess = "up", client = "waiting", reader' = "fn"
        PROVE  Aligned(batch, requests, Stream', Expected')
    <3>1. Stream # << >> /\ NextToken = Head(Stream) /\ Stream' = Tail(Stream)
      BY <2>1, <2>3, <1>1, ScanTakes
    <3>2. Head(Stream).kind # "addr"
      BY <2>2, <2>3, <3>1
    <3>3. Expected \in Nat /\ Expected # 1 /\ Expected # batch + 2
      BY <2>1, <1>2
    <3>4. Aligned(batch, requests, Tail(Stream), Expected)
      BY <2>1, <2>3, <3>1, <3>2, <3>3, <1>2, <1>4, TakeOther
    <3>5. Expected' = Expected
      BY <2>1, <2>3, <1>1 DEF Expected
    <3> QED
      BY <3>1, <3>4, <3>5
  <2>4. /\ reader' # "first" /\ reader' # "invalid" /\ (Looking' => reader' = "fn")
        /\ left' <= batch /\ done' # <<"nil">>
    <3>1. left' <= batch
      BY <2>1, <1>2
    <3> QED
      BY <3>1, <2>2, <1>1 DEF Looking
  <2> QED
    BY <2>1, <2>3, <2>4, <1>1, ReaderKeeps
<1>9. CASE ScanInvalid
  <2>1. Scan /\ reader = "invalid" /\ left' = left - 1 /\ left \in 1..2
    BY <1>9 DEF ScanInvalid, TypesInv
  <2>2. \/ left = 1 /\ reader' = "gone" /\ done' = <<"nil">>
        \/ left # 1 /\ reader' = "invalid" /\ done' = done
    BY <1>9, <1>3 DEF ScanInvalid
  <2>3. ASSUME subprocess = "up", client = "waiting"
        PROVE  requests = << >> /\ Len(Stream') = left'
    <3>1. requests = << >> /\ Len(Stream) = left
      BY <2>1, <2>3 DEF StreamInv
    <3>2. Stream # << >> /\ Stream' = Tail(Stream)
      BY <2>1, <2>3, <1>1, ScanTakes
    <3>3. Len(Tail(Stream)) = Len(Stream) - 1
      BY <3>2, <1>2, HeadTailProperties
    <3> QED
      BY <3>1, <3>2, <3>3, <2>1
  <2>4. ASSUME subprocess = "up", client = "waiting", left = 1
        PROVE  Nothing'
    <3>1. requests' = << >> /\ Len(Stream') = 0
      BY <2>1, <2>3, <2>4, <1>1
    <3>2. TypesInv'
      BY ReaderTypes
    <3>3. output' \in Seq(FrameLines) /\ writing' \in Seq(FrameLines) /\ Stream' = output' \o writing'
      BY <3>2 DEF TypesInv, Stream
    <3>4. \A o, w \in Seq(FrameLines) : Len(o \o w) = 0 => o = << >> /\ w = << >>
      BY ConcatProperties, LenProperties, EmptySeq
    <3>5. output' = << >> /\ writing' = << >>
      BY <3>1, <3>3, <3>4
    <3> QED
      BY <3>1, <3>5 DEF Nothing
  <2> QED
    BY <2>1, <2>2, <2>3, <2>4, <1>1, ReaderKeeps DEF Looking
<1> QED
  BY <1>5, <1>6, <1>7, <1>8, <1>9 DEF Reader

LEMMA StreamSubprocess == TypesInv /\ ReaderInv /\ StreamInv /\ (Subprocess \/ Die) => StreamInv'
<1> SUFFICES ASSUME TypesInv, ReaderInv, StreamInv, Subprocess \/ Die PROVE StreamInv'
  OBVIOUS
<1> USE DEF caller, reading
<1>1. /\ UNCHANGED <<client, batch, result, done, reader, left>> /\ subprocess = "up"
      /\ Expected' = Expected /\ (Looking' <=> Looking)
  BY DEF Subprocess, Answer, WriteLine, Die, Expected, Looking
<1>2. CASE Die
  BY <1>1, <1>2 DEF Die, StreamInv
<1>3. CASE WriteLine
  <2>1. writing # << >> /\ output' = Append(output, Head(writing)) /\ writing' = Tail(writing)
        /\ UNCHANGED <<subprocess, requests>>
    BY <1>3 DEF WriteLine
  <2>2. Stream' = Stream
    BY <2>1, MoveLine DEF TypesInv, Stream
  <2>3. ~Nothing
    BY <2>1 DEF Nothing
  <2> QED
    BY <1>1, <2>1, <2>2, <2>3 DEF StreamInv
<1>4. CASE Answer
  <2>1. requests # << >> /\ writing = << >> /\ requests' = Tail(requests) /\ UNCHANGED <<subprocess, output>>
    BY <1>4 DEF Answer
  <2>2. PICK kinds \in Answers :
           /\ writing' = AnswerLines(Head(requests), kinds)
           /\ Head(requests)[2] = 0 => Len(kinds) = 1
    <3>1. PICK n \in 1..(IF Head(requests)[2] = 0 THEN 1 ELSE MaxFrames) :
            \E kinds \in [1..n -> IF Head(requests)[2] = 0 THEN {"unknown"} ELSE Kinds] :
              writing' = AnswerLines(Head(requests), kinds)
      BY <1>4 DEF Answer
    <3>2. PICK kinds \in [1..n -> IF Head(requests)[2] = 0 THEN {"unknown"} ELSE Kinds] :
              writing' = AnswerLines(Head(requests), kinds)
      BY <3>1
    <3>3. n \in 1..MaxFrames /\ (Head(requests)[2] = 0 => n = 1)
      BY BoundsType
    <3>4. kinds \in [1..n -> Kinds]
      BY DEF Kinds
    <3>5. kinds \in Answers
      BY <3>3, <3>4 DEF Answers
    <3>6. Len(kinds) = n
      BY <3>3, <3>4, BoundsType
    <3> QED
      BY <3>2, <3>3, <3>5, <3>6
  <2>3. output \in Seq(FrameLines) /\ requests \in Seq(PCs)
    BY DEF TypesInv
  <2>4. Stream = output
    BY <2>1, <2>3, ConcatEmptySeq DEF Stream
  <2>5. Stream' = Stream \o AnswerLines(Head(requests), kinds)
    BY <2>1, <2>2, <2>4 DEF Stream
  <2>6. client = "waiting" /\ Looking => Aligned(batch, requests', Stream', Expected)
    <3> SUFFICES ASSUME client = "waiting", Looking
                 PROVE  Aligned(batch, requests', Stream', Expected)
      OBVIOUS
    <3>1. Aligned(batch, requests, output, Expected)
      BY <1>1, <2>4 DEF StreamInv
    <3>2. Expected \in Nat /\ batch \in Nat
      BY ExpectedType
    <3>3. Aligned(batch, Tail(requests), output \o AnswerLines(Head(requests), kinds), Expected)
      BY <2>1, <2>2, <2>3, <3>1, <3>2, AnswerArrives
    <3> QED
      BY <3>3, <2>1, <2>4, <2>5
  <2>7. ~Nothing /\ ~(client = "waiting" /\ reader = "invalid")
    BY <1>1, <2>1 DEF Nothing, StreamInv
  <2> QED
    BY <1>1, <2>1, <2>6, <2>7 DEF StreamInv
<1> QED
  BY <1>2, <1>3, <1>4 DEF Subprocess

LEMMA StreamStep == TypesInv /\ ReaderInv /\ StreamInv /\ [Next]_vars => StreamInv'
<1>1. StreamInv /\ UNCHANGED vars => StreamInv'
  BY DEF vars, caller, reading, external, StreamInv, Stream, Expected, Nothing, Looking
<1> QED
  BY <1>1, StreamClient, StreamReader, StreamSubprocess DEF Next

(* A call that succeeded with the subprocess alive leaves nothing in the   *)
(* pipes, however the steps of the reader, the subprocess and the caller   *)
(* interleave: the answers the next call reads are those to its own pcs.   *)
THEOREM NothingStays == Spec => []NothingIsLeft
<1>1. StreamInv => NothingIsLeft
  BY DEF StreamInv, Nothing, NothingIsLeft, Succeeded
<1> QED
  BY <1>1, TypesInit, TypesStep, ReaderInit, ReaderStep, StreamInit, StreamStep, PTL DEF Spec

-----------------------------------------------------------------------------
(* What the lines say.  The lines on their way are those of the answers to *)
(* the pcs of the call, each followed by the next, so that the reader      *)
(* knows from a line which it must be.                                     *)

FrameCount(A, k) == IF k = 0 THEN 1 ELSE Len(A[k])

OfCall(c, A, l) ==
    /\ l.pc[1] = c /\ l.pc[2] \in 0..Len(A)
    /\ IF l.kind = "addr" THEN l.j = 0 ELSE l.j \in 1..FrameCount(A, l.pc[2])
    /\ l.kind \in Kinds /\ l.pc[2] # 0 => l.kind = A[l.pc[2]][l.j]

(* The last line of an answer. *)
Ended(A, l) == l.kind \in Kinds /\ l.j = FrameCount(A, l.pc[2])

Follows(b, A, l, m) ==
    \/ l.kind = "addr" /\ m.kind = "fn" /\ m.pc = l.pc /\ m.j = 1
    \/ l.kind = "fn" /\ m.kind \in Kinds /\ m.pc = l.pc /\ m.j = l.j
    \/ l.kind \in Kinds /\ m.kind = "fn" /\ m.pc = l.pc /\ m.j = l.j + 1
    \/ Ended(A, l) /\ m.kind = "addr" /\ Ord(b, m.pc) = Ord(b, l.pc) + 1

Chained(c, b, A, s) ==
    /\ \A i \in 1..Len(s) : OfCall(c, A, s[i])
    /\ \A i \in 1..(Len(s) - 1) : Follows(b, A, s[i], s[i + 1])

(* The reader has the line l, and s is what it will read.                  *)
Continues(c, b, A, l, s) ==
    /\ l # EOF => OfCall(c, A, l)
    /\ s # << >> => l # EOF /\ Follows(b, A, l, s[1])

Begins(b, s) == s # << >> => s[1].kind = "addr" /\ Ord(b, s[1].pc) = 1

LastOf(l, s) == IF s = << >> THEN l ELSE s[Len(s)]

(* The requests r are what is left to answer.                              *)
AnsweredTo(c, b, A, r, l) ==
    /\ \A i \in 1..Len(r) : r[i][1] = c
    /\ Len(A) = IF r = << >> THEN b ELSE b + 1 - Len(r)
    /\ IF Len(r) = b + 1 THEN TRUE ELSE Ended(A, l) /\ Ord(b, l.pc) = b + 1 - Len(r)

LinesInv ==
    /\ subprocess = "dead" => requests = << >> /\ writing = << >>
    /\ client = "writing" => answers = << >>
    /\ Looking =>
        /\ Len(answers) <= batch
        /\ Chained(call, batch, answers, Stream)
        /\ IF reader = "first" THEN Begins(batch, Stream)
           ELSE Continues(call, batch, answers, token, Stream)
        /\ (subprocess = "up" /\ client = "waiting") =>
              /\ AnsweredTo(call, batch, answers, requests, LastOf(token, Stream))
              /\ Len(requests) = batch + 1 <=> reader = "first" /\ Stream = << >>
    /\ reader = "invalid" => Len(Stream) <= left
    /\ done = <<"nil">> => Stream = << >>
    /\ client = "idle" /\ result # "error" => Stream = << >>

(* The frames fs are those up to the p-th of the k-th pc.                  *)
Collected(c, A, k, fs, p) ==
    /\ \A a \in 1..Len(fs) : fs[a].pc = <<c, k>> /\ fs[a].j \in 1..p /\ A[k][fs[a].j] = "known"
    /\ \A a, b \in 1..Len(fs) : a < b => fs[a].j < fs[b].j
    /\ \A j \in 1..p : A[k][j] = "known" => \E a \in 1..Len(fs) : fs[a].j = j

(* The frames fs are those of the first n pcs; the last may be cut short.  *)
Answered(c, A, n, fs) ==
    \A a \in 1..Len(fs) : \E k \in 1..n : \E j \in 1..Len(A[k]) :
        fs[a].pc = <<c, k>> /\ fs[a].j = j /\ A[k][j] = "known"
InOrder(fs) ==
    \A a, b \in 1..Len(fs) : a < b =>
        \/ fs[a].pc[2] < fs[b].pc[2]
        \/ fs[a].pc = fs[b].pc /\ fs[a].j < fs[b].j
AllCame(c, A, n, fs, cut) ==
    \A k \in 1..n : \A j \in 1..Len(A[k]) : A[k][j] = "known" =>
        \/ \E a \in 1..Len(fs) : fs[a].pc = <<c, k>> /\ fs[a].j = j
        \/ k = n /\ cut /\ \A a \in 1..Len(fs) : fs[a].pc = <<c, k>> => fs[a].j < j
LastIsOuter(fs) ==
    \A a \in 1..Len(fs) : fs[a].inline <=> \E b \in (a + 1)..Len(fs) : fs[b].pc = fs[a].pc
Gathered(c, A, n, fs, cut) ==
    n <= Len(A) /\ Answered(c, A, n, fs) /\ InOrder(fs) /\ AllCame(c, A, n, fs, cut) /\ LastIsOuter(fs)

Current == batch - left + 1
GotEnd == reader = "invalid" \/ done = <<"nil">> \/ Succeeded

FramesInv ==
    /\ reader = "first" => cur = << >> /\ frames = << >>
    /\ reader = "pc" =>
        /\ cur = << >>
        /\ Gathered(call, answers, batch - left, frames, token = EOF)
        /\ \/ token = EOF /\ subprocess = "dead"
           \/ token.kind = "addr" /\ Ord(batch, token.pc) = Current
    /\ reader \in {"fn", "loc"} =>
        /\ token.pc = <<call, Current>>
        /\ Gathered(call, answers, batch - left, frames, FALSE)
    /\ reader = "fn" =>
        /\ token.kind \in {"addr", "known", "unknown"}
        /\ Collected(call, answers, Current, cur, token.j)
    /\ reader = "loc" =>
        /\ token.kind = "fn"
        /\ Collected(call, answers, Current, cur, token.j - 1)
    /\ GotEnd => Len(answers) = batch /\ Gathered(call, answers, batch, frames, subprocess = "dead")

(* A seq of answers that goes on.                                          *)
Grown(A, B) == Len(A) <= Len(B) /\ \A k \in 1..Len(A) : B[k] = A[k]

LEMMA KindsType == "addr" \notin Kinds /\ "fn" \notin Kinds /\ "eof" \notin Kinds
BY DEF Kinds

LEMMA CountType ==
    ASSUME NEW A \in Seq(Answers), NEW k \in 0..Len(A)
    PROVE  FrameCount(A, k) \in Nat \ {0}
<1>1. CASE k = 0
  BY <1>1 DEF FrameCount
<1>2. CASE k # 0
  <2>1. k \in 1..Len(A) /\ A[k] \in Answers
    BY <1>2, ElementOfSeq, LenProperties
  <2>2. PICK n \in 1..MaxFrames : A[k] \in [1..n -> Kinds]
    BY <2>1 DEF Answers
  <2>3. Len(A[k]) = n /\ n \in Nat \ {0}
    BY <2>2, BoundsType
  <2> QED
    BY <1>2, <2>3 DEF FrameCount
<1> QED
  BY <1>1, <1>2

LEMMA AppendGrows ==
    ASSUME NEW A \in Seq(Answers), NEW kinds \in Answers
    PROVE  /\ Append(A, kinds) \in Seq(Answers) /\ Len(Append(A, kinds)) = Len(A) + 1
           /\ Append(A, kinds)[Len(A) + 1] = kinds
           /\ Grown(A, Append(A, kinds)) /\ Grown(A, A)
BY AppendProperties, LenProperties DEF Grown

(* What a line says of the answers does not depend on those to come.       *)
LEMMA StillFollows ==
    ASSUME NEW A \in Seq(Answers), NEW B \in Seq(Answers), Grown(A, B), NEW c, NEW b,
           NEW l, OfCall(c, A, l)
    PROVE  /\ OfCall(c, B, l)
           /\ Ended(A, l) <=> Ended(B, l)
           /\ \A m : Follows(b, A, l, m) <=> Follows(b, B, l, m)
<1>1. Len(A) \in Nat /\ Len(B) \in Nat /\ Len(A) <= Len(B)
  BY LenProperties DEF Grown
<1>2. l.pc[1] = c /\ l.pc[2] \in 0..Len(A)
  BY DEF OfCall
<1>3. l.pc[2] \in 0..Len(B)
  BY <1>1, <1>2
<1>4. l.pc[2] # 0 => B[l.pc[2]] = A[l.pc[2]]
  BY <1>1, <1>2 DEF Grown
<1>5. FrameCount(B, l.pc[2]) = FrameCount(A, l.pc[2])
  BY <1>4 DEF FrameCount
<1>6. OfCall(c, B, l)
  BY <1>2, <1>3, <1>4, <1>5 DEF OfCall
<1>7. Ended(A, l) <=> Ended(B, l)
  BY <1>5 DEF Ended
<1> QED
  BY <1>6, <1>7 DEF Follows

LEMMA StillChained ==
    ASSUME NEW A \in Seq(Answers), NEW B \in Seq(Answers), Grown(A, B), NEW c, NEW b,
           NEW s \in Seq(FrameLines), Chained(c, b, A, s)
    PROVE  Chained(c, b, B, s)
<1>1. \A i \in 1..Len(s) : OfCall(c, A, s[i])
  BY DEF Chained
<1>2. \A i \in 1..Len(s) : OfCall(c, B, s[i])
  BY <1>1, StillFollows
<1>3. ASSUME NEW i \in 1..(Len(s) - 1) PROVE Follows(b, B, s[i], s[i + 1])
  <2>1. i \in 1..Len(s)
    BY LenProperties
  <2>2. Follows(b, A, s[i], s[i + 1])
    BY DEF Chained
  <2> QED
    BY <1>1, <2>1, <2>2, StillFollows
<1> QED
  BY <1>2, <1>3 DEF Chained

LEMMA StillContinues ==
    ASSUME NEW A \in Seq(Answers), NEW B \in Seq(Answers), Grown(A, B), NEW c, NEW b,
           NEW l, NEW s, Continues(c, b, A, l, s)
    PROVE  Continues(c, b, B, l, s)
BY StillFollows DEF Continues

LEMMA StillCollected ==
    ASSUME NEW A \in Seq(Answers), NEW B \in Seq(Answers), Grown(A, B), NEW c,
           NEW k \in 1..Len(A), NEW fs, NEW p, Collected(c, A, k, fs, p)
    PROVE  Collected(c, B, k, fs, p)
<1>1. B[k] = A[k]
  BY DEF Grown
<1> QED
  BY <1>1 DEF Collected

LEMMA StillGathered ==
    ASSUME NEW A \in Seq(Answers), NEW B \in Seq(Answers), Grown(A, B), NEW c,
           NEW n \in Nat, NEW fs, NEW cut, Gathered(c, A, n, fs, cut)
    PROVE  Gathered(c, B, n, fs, cut)
<1>1. Len(A) \in Nat /\ Len(B) \in Nat /\ Len(A) <= Len(B) /\ n <= Len(A)
  BY LenProperties DEF Grown, Gathered
<1>2. n <= Len(B) /\ \A k \in 1..n : B[k] = A[k]
  <2>1. \A k \in 1..n : k \in 1..Len(A)
    BY <1>1
  <2> QED
    BY <1>1, <2>1 DEF Grown
<1>3. Answered(c, B, n, fs)
  <2> SUFFICES ASSUME NEW a \in 1..Len(fs)
               PROVE  \E k \in 1..n : \E j \in 1..Len(B[k]) :
                         fs[a].pc = <<c, k>> /\ fs[a].j = j /\ B[k][j] = "known"
    BY DEF Answered
  <2>1. PICK k \in 1..n : \E j \in 1..Len(A[k]) :
                              fs[a].pc = <<c, k>> /\ fs[a].j = j /\ A[k][j] = "known"
    BY DEF Gathered, Answered
  <2>2. B[k] = A[k]
    BY <1>2
  <2> QED
    BY <2>1, <2>2
<1>4. AllCame(c, B, n, fs, cut)
  BY <1>2 DEF Gathered, AllCame
<1> QED
  BY <1>2, <1>3, <1>4 DEF Gathered

-----------------------------------------------------------------------------
(* The next answer. *)

LEMMA AnswerSays ==
    ASSUME NEW pc \in PCs, NEW kinds \in Answers
    PROVE  LET s == AnswerLines(pc, kinds)
           IN  /\ s[1].j = 0
               /\ \A i \in 2..Len(s) : s[i].j = i \div 2 /\ i \div 2 \in 1..Len(kinds)
               /\ \A i \in 2..Len(s) : i % 2 # 0 => s[i].kind = kinds[i \div 2]
<1> DEFINE s == AnswerLines(pc, kinds)
<1>1. PICK n \in 1..MaxFrames : kinds \in [1..n -> Kinds]
  BY DEF Answers
<1>2. n \in Nat \ {0} /\ Len(kinds) = n
  BY <1>1, BoundsType
<1>3. s = [i \in 1..(1 + 2 * n) |->
            CASE i = 1                -> Line("addr", pc, 0)
              [] i # 1 /\ i % 2 = 0 -> Line("fn", pc, i \div 2)
              [] i # 1 /\ i % 2 # 0 -> Line(kinds[i \div 2], pc, i \div 2)]
  BY <1>2 DEF AnswerLines
<1>4. \A i \in 2..(1 + 2 * n) : i \div 2 \in 1..n
  BY <1>2
<1> HIDE DEF s
<1>5. s[1] = Line("addr", pc, 0)
  BY <1>2, <1>3
<1>6. \A i \in 2..(1 + 2 * n) : i % 2 = 0 => s[i] = Line("fn", pc, i \div 2)
  BY <1>2, <1>3
<1>7. \A i \in 2..(1 + 2 * n) : i % 2 # 0 => s[i] = Line(kinds[i \div 2], pc, i \div 2)
  BY <1>2, <1>3
<1>8. \A kind, j : Line(kind, pc, j).kind = kind /\ Line(kind, pc, j).j = j
  BY DEF Line
<1>9. Len(s) = 1 + 2 * n
  BY <1>2, AnswerShape DEF s
<1>10. ASSUME NEW i \in 2..(1 + 2 * n)
       PROVE  s[i].j = i \div 2 /\ (i % 2 # 0 => s[i].kind = kinds[i \div 2])
  <2>1. CASE i % 2 = 0
    BY <2>1, <1>6, <1>8
  <2>2. CASE i % 2 # 0
    BY <2>2, <1>7, <1>8
  <2> QED
    BY <2>1, <2>2
<1> QED
  BY <1>2, <1>4, <1>5, <1>8, <1>9, <1>10 DEF s

(* Whatever the answer, its lines follow each other as the reader expects. *)
LEMMA AnswerIsChained ==
    ASSUME NEW c, NEW b \in Nat, NEW A \in Seq(Answers), NEW pc \in PCs, NEW kinds \in Answers,
           pc[1] = c, pc[2] \in 0..Len(A),
           IF pc[2] = 0 THEN Len(kinds) = 1 ELSE A[pc[2]] = kinds
    PROVE  LET s == AnswerLines(pc, kinds)
           IN  Chained(c, b, A, s) /\ Ended(A, s[Len(s)])
<1> DEFINE s == AnswerLines(pc, kinds)
           m == Len(kinds)
<1>1. /\ s \in Seq(FrameLines) /\ m \in Nat \ {0} /\ Len(s) = 1 + 2 * m
      /\ \A i \in 1..Len(s) : s[i].pc = pc
      /\ s[1].kind = "addr"
      /\ \A i \in 2..Len(s) : s[i].kind = "fn" <=> i % 2 = 0
      /\ \A i \in 2..Len(s) : i % 2 # 0 => s[i].kind \in Kinds
  BY AnswerShape
<1>2. /\ s[1].j = 0
      /\ \A i \in 2..Len(s) : s[i].j = i \div 2 /\ i \div 2 \in 1..m
      /\ \A i \in 2..Len(s) : i % 2 # 0 => s[i].kind = kinds[i \div 2]
  BY AnswerSays
<1>3. FrameCount(A, pc[2]) = m
  BY DEF FrameCount
<1> HIDE DEF s, m
<1>4. ASSUME NEW i \in 1..Len(s)
      PROVE  OfCall(c, A, s[i])
  <2>1. CASE i = 1
    <3>1. s[i].kind = "addr" /\ s[i].j = 0 /\ s[i].pc = pc
      BY <2>1, <1>1, <1>2
    <3> QED
      BY <3>1, KindsType DEF OfCall
  <2>2. CASE i # 1
    <3>1. i \in 2..Len(s)
      BY <2>2, <1>1
    <3>2. s[i].j \in 1..m /\ s[i].pc = pc
      BY <3>1, <1>1, <1>2
    <3>3. CASE i % 2 = 0
      BY <3>1, <3>2, <3>3, <1>1, <1>3, KindsType DEF OfCall
    <3>4. CASE i % 2 # 0
      <4>1. s[i].kind \in Kinds /\ s[i].kind = kinds[s[i].j]
        BY <3>1, <3>4, <1>1, <1>2
      <4>2. s[i].kind # "addr"
        BY <4>1, KindsType
      <4> QED
        BY <3>2, <4>1, <4>2, <1>3 DEF OfCall
    <3> QED
      BY <3>3, <3>4
  <2> QED
    BY <2>1, <2>2
<1>5. ASSUME NEW i \in 1..(Len(s) - 1)
      PROVE  Follows(b, A, s[i], s[i + 1])
  <2>1. i + 1 \in 2..Len(s) /\ i \in 1..Len(s) /\ s[i].pc = pc /\ s[i + 1].pc = pc
    BY <1>1
  <2>2. CASE i = 1
    <3>1. (1 + 1) % 2 = 0 /\ (1 + 1) \div 2 = 1
      OBVIOUS
    <3>2. s[1].kind = "addr" /\ s[1 + 1].kind = "fn" /\ s[1 + 1].j = 1
      BY <2>1, <2>2, <3>1, <1>1, <1>2
    <3> QED
      BY <2>1, <2>2, <3>2 DEF Follows
  <2>3. CASE i # 1 /\ i % 2 = 0
    <3>1. i \in 2..Len(s) /\ (i + 1) % 2 # 0 /\ (i + 1) \div 2 = i \div 2
      BY <2>1, <2>3, <1>1
    <3>2. s[i].kind = "fn" /\ s[i].j = i \div 2
      BY <2>3, <3>1, <1>1, <1>2
    <3>4. s[i + 1].kind \in Kinds /\ s[i + 1].j = i \div 2
      <4> DEFINE k == i + 1
      <4>1. k \in 2..Len(s) /\ k % 2 # 0 /\ k \div 2 = i \div 2
        BY <2>1, <3>1
      <4> HIDE DEF k
      <4>2. s[k].kind \in Kinds /\ s[k].j = i \div 2
        BY <4>1, <1>1, <1>2
      <4> QED
        BY <4>2 DEF k
    <3>3. s[i + 1].pc = s[i].pc
      BY <2>1
    <3> QED
      BY <3>2, <3>3, <3>4, Zenon DEF Follows
  <2>4. CASE i # 1 /\ i % 2 # 0
    <3>1. i \in 2..Len(s) /\ (i + 1) % 2 = 0 /\ (i + 1) \div 2 = i \div 2 + 1
      BY <2>1, <2>4, <1>1
    <3>2. s[i].kind \in Kinds /\ s[i + 1].kind = "fn" /\ s[i + 1].j = s[i].j + 1
      BY <2>1, <2>4, <3>1, <1>1, <1>2
    <3> QED
      BY <2>1, <3>2 DEF Follows
  <2> QED
    BY <2>2, <2>3, <2>4
<1>6. Ended(A, s[Len(s)])
  <2>1. Len(s) \in 2..Len(s) /\ Len(s) % 2 # 0 /\ Len(s) \div 2 = m
    <3>1. \A x \in Nat \ {0} : (1 + 2 * x) % 2 # 0 /\ (1 + 2 * x) \div 2 = x /\ 1 + 2 * x \in 2..(1 + 2 * x)
      OBVIOUS
    <3> QED
      BY <3>1, <1>1, Zenon
  <2>2. s[Len(s)].kind \in Kinds /\ s[Len(s)].j = m /\ s[Len(s)].pc = pc
    <3> DEFINE k == Len(s)
    <3>1. k \in 2..Len(s) /\ k \in 1..Len(s) /\ k % 2 # 0 /\ k \div 2 = m
      BY <2>1, <1>1
    <3> HIDE DEF k
    <3>2. s[k].kind \in Kinds /\ s[k].j = m /\ s[k].pc = pc
      BY <3>1, <1>1, <1>2
    <3> QED
      BY <3>2 DEF k
  <2> QED
    BY <2>2, <1>3 DEF Ended
<1> QED
  BY <1>4, <1>5, <1>6 DEF Chained, s

LEMMA ConcatChained ==
    ASSUME NEW c, NEW b, NEW A, NEW s \in Seq(FrameLines), NEW t \in Seq(FrameLines),
           Chained(c, b, A, s), Chained(c, b, A, t), t # << >>,
           s # << >> => Follows(b, A, s[Len(s)], t[1])
    PROVE  /\ Chained(c, b, A, s \o t) /\ s \o t # << >>
           /\ (s \o t)[1] = IF s = << >> THEN t[1] ELSE s[1]
           /\ (s \o t)[Len(s \o t)] = t[Len(t)]
<1> DEFINE u == s \o t
<1>1. /\ u \in Seq(FrameLines) /\ Len(u) = Len(s) + Len(t)
      /\ \A i \in 1..(Len(s) + Len(t)) : u[i] = IF i <= Len(s) THEN s[i] ELSE t[i - Len(s)]
  BY ConcatProperties
<1>2. Len(s) \in Nat /\ Len(t) \in Nat \ {0} /\ (s = << >> <=> Len(s) = 0)
  BY EmptySeq, LenProperties
<1> HIDE DEF u
<1>3. ASSUME NEW i \in 1..Len(s) PROVE i \in 1..Len(u) /\ u[i] = s[i]
  BY <1>1, <1>2
<1>4. ASSUME NEW i \in 1..Len(t) PROVE i + Len(s) \in 1..Len(u) /\ u[i + Len(s)] = t[i]
  <2>1. i + Len(s) \in 1..(Len(s) + Len(t)) /\ ~(i + Len(s) <= Len(s)) /\ i + Len(s) - Len(s) = i
    BY <1>2
  <2> QED
    BY <2>1, <1>1
<1>5. ASSUME NEW i \in 1..Len(u), ~(i \in 1..Len(s))
      PROVE  i - Len(s) \in 1..Len(t) /\ i - Len(s) + Len(s) = i
  BY <1>5, <1>1, <1>2
<1>6. ASSUME NEW i \in 1..Len(u)
      PROVE  OfCall(c, A, u[i])
  <2>1. CASE i \in 1..Len(s)
    BY <2>1, <1>3 DEF Chained
  <2>2. CASE ~(i \in 1..Len(s))
    <3>1. i - Len(s) \in 1..Len(t) /\ u[i] = t[i - Len(s)]
      BY <2>2, <1>4, <1>5
    <3> QED
      BY <3>1 DEF Chained
  <2> QED
    BY <2>1, <2>2
<1>7. ASSUME NEW i \in 1..(Len(u) - 1)
      PROVE  Follows(b, A, u[i], u[i + 1])
  <2>1. CASE i < Len(s)
    <3>1. i \in 1..(Len(s) - 1) /\ i \in 1..Len(s) /\ i + 1 \in 1..Len(s)
      BY <2>1, <1>2
    <3> QED
      BY <3>1, <1>3 DEF Chained
  <2>2. CASE i = Len(s)
    <3>1. i \in 1..Len(s) /\ 1 \in 1..Len(t) /\ i + 1 = 1 + Len(s) /\ s # << >>
      BY <2>2, <1>2
    <3>2. u[i] = s[Len(s)] /\ u[i + 1] = t[1]
      BY <3>1, <2>2, <1>3, <1>4
    <3> QED
      BY <3>1, <3>2
  <2>3. CASE i > Len(s)
    <3>1. /\ i - Len(s) \in 1..(Len(t) - 1) /\ i - Len(s) \in 1..Len(t) /\ i - Len(s) + 1 \in 1..Len(t)
          /\ i - Len(s) + Len(s) = i /\ i - Len(s) + 1 + Len(s) = i + 1
      BY <2>3, <1>1, <1>2
    <3>2. u[i] = t[i - Len(s)] /\ u[i + 1] = t[i - Len(s) + 1]
      BY <3>1, <1>4
    <3> QED
      BY <3>1, <3>2 DEF Chained
  <2>4. i < Len(s) \/ i = Len(s) \/ i > Len(s)
    BY <1>1, <1>2
  <2> QED
    BY <2>1, <2>2, <2>3, <2>4
<1>8. u[1] = IF s = << >> THEN t[1] ELSE s[1]
  <2>1. CASE s = << >>
    <3>1. 1 \in 1..Len(t) /\ 1 + Len(s) = 1
      BY <2>1, <1>2
    <3> QED
      BY <3>1, <2>1, <1>4
  <2>2. CASE s # << >>
    <3>1. 1 \in 1..Len(s)
      BY <2>2, <1>2
    <3> QED
      BY <3>1, <2>2, <1>3
  <2> QED
    BY <2>1, <2>2
<1>9. u[Len(u)] = t[Len(t)]
  <2>1. Len(t) \in 1..Len(t) /\ Len(t) + Len(s) = Len(u)
    BY <1>1, <1>2
  <2> QED
    BY <2>1, <1>4
<1>10. u # << >>
  BY <1>1, <1>2
<1> QED
  BY <1>6, <1>7, <1>8, <1>9, <1>10 DEF Chained, u

-----------------------------------------------------------------------------
(* Lines that are read, or lost. *)

LEMMA ChainTail ==
    ASSUME NEW c, NEW b, NEW A, NEW s \in Seq(FrameLines), s # << >>, Chained(c, b, A, s)
    PROVE  /\ s[1] \in FrameLines /\ Head(s) = s[1] /\ OfCall(c, A, s[1])
           /\ Tail(s) \in Seq(FrameLines) /\ Chained(c, b, A, Tail(s))
           /\ Continues(c, b, A, s[1], Tail(s))
           /\ LastOf(s[1], Tail(s)) = s[Len(s)]
<1> DEFINE t == Tail(s)
<1>1. /\ t \in Seq(FrameLines) /\ Len(t) = Len(s) - 1 /\ Len(s) \in Nat \ {0} /\ Len(t) \in Nat
      /\ \A i \in 1..Len(t) : t[i] = s[i + 1]
      /\ Head(s) = s[1] /\ (t = << >> <=> Len(t) = 0)
  <2>1. /\ t \in Seq(FrameLines) /\ Len(t) = Len(s) - 1 /\ Head(s) = s[1]
        /\ \A i \in 1..Len(t) : t[i] = s[i + 1]
    BY HeadTailProperties
  <2>2. Len(s) \in Nat \ {0} /\ Len(t) \in Nat
    BY <2>1, EmptySeq, LenProperties
  <2>3. t = << >> <=> Len(t) = 0
    BY <2>1, EmptySeq
  <2> QED
    BY <2>1, <2>2, <2>3
<1> HIDE DEF t
<1>2. s[1] \in FrameLines /\ OfCall(c, A, s[1])
  <2>1. 1 \in 1..Len(s)
    BY <1>1
  <2> QED
    BY <2>1, ElementOfSeq DEF Chained
<1>3. Chained(c, b, A, t)
  <2>1. ASSUME NEW i \in 1..Len(t) PROVE OfCall(c, A, t[i])
    <3>1. i + 1 \in 1..Len(s)
      BY <1>1
    <3> QED
      BY <3>1, <1>1 DEF Chained
  <2>2. ASSUME NEW i \in 1..(Len(t) - 1) PROVE Follows(b, A, t[i], t[i + 1])
    <3>1. i + 1 \in 1..(Len(s) - 1) /\ i \in 1..Len(t) /\ i + 1 \in 1..Len(t)
      BY <1>1
    <3>2. Follows(b, A, s[i + 1], s[i + 1 + 1])
      BY <3>1 DEF Chained
    <3> QED
      BY <3>1, <3>2, <1>1
  <2> QED
    BY <2>1, <2>2 DEF Chained
<1>4. Continues(c, b, A, s[1], t)
  <2>1. s[1] # EOF
    BY <1>2, LineType
  <2>2. ASSUME t # << >> PROVE Follows(b, A, s[1], t[1])
    <3>1. 1 \in 1..(Len(s) - 1) /\ 1 \in 1..Len(t)
      BY <2>2, <1>1
    <3>2. Follows(b, A, s[1], s[1 + 1]) /\ t[1] = s[1 + 1]
      BY <3>1, <1>1 DEF Chained
    <3> QED
      BY <3>2
  <2> QED
    BY <2>1, <2>2, <1>2 DEF Continues
<1>5. LastOf(s[1], t) = s[Len(s)]
  <2>1. CASE t = << >>
    <3>1. Len(s) = 1
      BY <2>1, <1>1
    <3> QED
      BY <3>1, <2>1 DEF LastOf
  <2>2. CASE t # << >>
    <3>1. Len(t) \in 1..Len(t) /\ Len(t) + 1 = Len(s)
      BY <2>2, <1>1
    <3> QED
      BY <3>1, <2>2, <1>1 DEF LastOf
  <2> QED
    BY <2>1, <2>2
<1> QED
  BY <1>1, <1>2, <1>3, <1>4, <1>5 DEF t

(* Of lines that are not written any more the first ones are left.         *)
LEMMA ChainFront ==
    ASSUME NEW c, NEW b, NEW A, NEW o \in Seq(FrameLines), NEW w \in Seq(FrameLines)
    PROVE  /\ Chained(c, b, A, o \o w) => Chained(c, b, A, o)
           /\ Begins(b, o \o w) => Begins(b, o)
           /\ \A l : Continues(c, b, A, l, o \o w) => Continues(c, b, A, l, o)
           /\ Len(o) <= Len(o \o w) /\ (o \o w = << >> => o = << >>)
<1> DEFINE s == o \o w
<1>1. /\ s \in Seq(FrameLines) /\ Len(s) = Len(o) + Len(w)
      /\ \A i \in 1..(Len(o) + Len(w)) : s[i] = IF i <= Len(o) THEN o[i] ELSE w[i - Len(o)]
  BY ConcatProperties
<1>2. Len(o) \in Nat /\ Len(w) \in Nat /\ (o = << >> <=> Len(o) = 0) /\ (s = << >> <=> Len(s) = 0)
  BY <1>1, EmptySeq, LenProperties
<1> HIDE DEF s
<1>3. ASSUME NEW i \in 1..Len(o) PROVE i \in 1..Len(s) /\ o[i] = s[i]
  BY <1>1, <1>2
<1>4. ASSUME Chained(c, b, A, s) PROVE Chained(c, b, A, o)
  <2>1. ASSUME NEW i \in 1..Len(o) PROVE OfCall(c, A, o[i])
    BY <1>3, <1>4 DEF Chained
  <2>2. ASSUME NEW i \in 1..(Len(o) - 1) PROVE Follows(b, A, o[i], o[i + 1])
    <3>1. i \in 1..(Len(s) - 1) /\ i \in 1..Len(o) /\ i + 1 \in 1..Len(o)
      BY <1>1, <1>2
    <3>2. Follows(b, A, s[i], s[i + 1])
      BY <3>1, <1>4 DEF Chained
    <3> QED
      BY <3>1, <3>2, <1>3
  <2> QED
    BY <2>1, <2>2 DEF Chained
<1>5. o # << >> => s # << >> /\ o[1] = s[1]
  BY <1>1, <1>2
<1>6. Begins(b, s) => Begins(b, o)
  BY <1>5 DEF Begins
<1>7. \A l : Continues(c, b, A, l, s) => Continues(c, b, A, l, o)
  BY <1>5 DEF Continues
<1>8. Len(o) <= Len(s) /\ (s = << >> => o = << >>)
  BY <1>1, <1>2
<1> QED
  BY <1>4, <1>6, <1>7, <1>8 DEF s

(* Behind the address of the invalid pc come no more than two lines.       *)
LEMMA InvalidIsLast ==
    ASSUME NEW c, NEW b \in Nat, NEW A \in Seq(Answers), Len(A) <= b, NEW s \in Seq(FrameLines),
           Chained(c, b, A, s), NEW l \in FrameLines, Continues(c, b, A, l, s),
           l.kind = "addr", Ord(b, l.pc) = b + 1
    PROVE  Len(s) <= 2
<1>1. Len(A) \in Nat /\ Len(s) \in Nat
  BY LenProperties
<1>2. \A x \in FrameLines : OfCall(c, A, x) =>
         /\ x.pc[2] \in 0..Len(A) /\ Ord(b, x.pc) \in Nat
         /\ Ord(b, x.pc) = b + 1 => x.pc[2] = 0
         /\ Ord(b, x.pc) # b + 2
  BY <1>1 DEF OfCall, Ord
<1>3. OfCall(c, A, l) /\ l.pc[2] = 0
  BY <1>2, LineType DEF Continues
<1> SUFFICES ASSUME Len(s) >= 3 PROVE FALSE
  BY <1>1
<1>4. /\ 1 \in 1..Len(s) /\ 2 \in 1..Len(s) /\ 3 \in 1..Len(s) /\ s # << >>
      /\ 1 \in 1..(Len(s) - 1) /\ 2 \in 1..(Len(s) - 1)
  BY <1>1, EmptySeq
<1>5. /\ Follows(b, A, l, s[1]) /\ Follows(b, A, s[1], s[1 + 1]) /\ Follows(b, A, s[2], s[2 + 1])
      /\ OfCall(c, A, s[3]) /\ s[3] \in FrameLines
  BY <1>4, ElementOfSeq DEF Continues, Chained
<1>6. s[1].kind = "fn" /\ s[1].pc = l.pc /\ s[1].j = 1
  BY <1>5, KindsType DEF Follows, Ended
<1>7. s[2].kind \in Kinds /\ s[2].pc = l.pc /\ s[2].j = 1
  BY <1>5, <1>6, KindsType DEF Follows, Ended
<1>8. \/ s[3].kind = "fn" /\ s[3].pc = l.pc /\ s[3].j = 1 + 1
      \/ s[3].kind = "addr" /\ Ord(b, s[3].pc) = b + 1 + 1
  BY <1>5, <1>7, KindsType DEF Follows, Ended
<1>9. CASE s[3].kind = "fn" /\ s[3].pc = l.pc /\ s[3].j = 1 + 1
  <2>1. s[3].j \in 1..FrameCount(A, 0)
    BY <1>3, <1>5, <1>9 DEF OfCall
  <2> QED
    BY <2>1, <1>9 DEF FrameCount
<1>10. CASE s[3].kind = "addr" /\ Ord(b, s[3].pc) = b + 1 + 1
  BY <1>2, <1>5, <1>10
<1> QED
  BY <1>8, <1>9, <1>10

-----------------------------------------------------------------------------
(* The frames of a pc, and those of the call. *)

LEMMA CollectNone ==
    ASSUME NEW c, NEW A, NEW k
    PROVE  Collected(c, A, k, << >>, 0)
BY DEF Collected

LEMMA CollectOne ==
    ASSUME NEW c, NEW A, NEW k, NEW fs \in Seq(Frames), NEW j \in Nat \ {0},
           Collected(c, A, k, fs, j - 1), NEW f \in Frames, f.pc = <<c, k>>, f.j = j
    PROVE  /\ A[k][j] # "known" => Collected(c, A, k, fs, j)
           /\ A[k][j] = "known" => Collected(c, A, k, Append(fs, f), j)
<1>1. /\ \A a \in 1..Len(fs) : fs[a].pc = <<c, k>> /\ fs[a].j \in 1..(j - 1) /\ A[k][fs[a].j] = "known"
      /\ \A a, b \in 1..Len(fs) : a < b => fs[a].j < fs[b].j
      /\ \A i \in 1..(j - 1) : A[k][i] = "known" => \E a \in 1..Len(fs) : fs[a].j = i
  BY DEF Collected
<1>2. \A i : i \in 1..j <=> i \in 1..(j - 1) \/ i = j
  OBVIOUS
<1>3. ASSUME A[k][j] # "known" PROVE Collected(c, A, k, fs, j)
  BY <1>1, <1>2, <1>3 DEF Collected
<1>4. ASSUME A[k][j] = "known" PROVE Collected(c, A, k, Append(fs, f), j)
  <2> DEFINE gs == Append(fs, f)
  <2>1. /\ Len(gs) = Len(fs) + 1 /\ Len(fs) \in Nat /\ gs[Len(fs) + 1] = f
        /\ \A a \in 1..Len(fs) : gs[a] = fs[a]
    BY AppendProperties, LenProperties
  <2> HIDE DEF gs
  <2>2. \A a \in 1..Len(gs) : a \in 1..Len(fs) \/ a = Len(fs) + 1
    BY <2>1
  <2>3. \A a \in 1..Len(gs) : gs[a].pc = <<c, k>> /\ gs[a].j \in 1..j /\ A[k][gs[a].j] = "known"
    BY <1>1, <1>2, <1>4, <2>1, <2>2
  <2>4. ASSUME NEW a \in 1..Len(gs), NEW b \in 1..Len(gs), a < b PROVE gs[a].j < gs[b].j
    <3>1. a \in 1..Len(fs)
      BY <2>1, <2>4
    <3>2. CASE b \in 1..Len(fs)
      BY <3>1, <3>2, <2>1, <2>4, <1>1
    <3>3. CASE b = Len(fs) + 1
      <4>1. fs[a].j \in 1..(j - 1) /\ gs[a] = fs[a] /\ gs[b] = f
        BY <3>1, <3>3, <2>1, <1>1
      <4> QED
        BY <4>1
    <3> QED
      BY <3>2, <3>3, <2>2
  <2>5. ASSUME NEW i \in 1..j, A[k][i] = "known" PROVE \E a \in 1..Len(gs) : gs[a].j = i
    <3>1. CASE i = j
      <4>1. Len(fs) + 1 \in 1..Len(gs)
        BY <2>1
      <4> QED
        BY <3>1, <4>1, <2>1
    <3>2. CASE i # j
      <4>1. PICK a \in 1..Len(fs) : fs[a].j = i
        BY <3>2, <1>1, <1>2, <2>5
      <4>2. a \in 1..Len(gs) /\ gs[a] = fs[a]
        BY <2>1
      <4> QED
        BY <4>1, <4>2
    <3> QED
      BY <3>1, <3>2
  <2> QED
    BY <2>3, <2>4, <2>5 DEF Collected, gs
<1> QED
  BY <1>3, <1>4

LEMMA GatherNone ==
    ASSUME NEW c, NEW A \in Seq(Answers), NEW cut
    PROVE  Gathered(c, A, 0, << >>, cut)
<1>1. Len(A) \in Nat
  BY LenProperties
<1> QED
  BY <1>1 DEF Gathered, Answered, InOrder, AllCame, LastIsOuter

LEMMA ConcatFrames ==
    ASSUME NEW fs \in Seq(Frames), NEW vs \in Seq(Frames)
    PROVE  /\ fs \o vs \in Seq(Frames) /\ Len(fs \o vs) = Len(fs) + Len(vs)
           /\ \A i \in 1..(Len(fs) + Len(vs)) :
                 (fs \o vs)[i] = IF i <= Len(fs) THEN fs[i] ELSE vs[i - Len(fs)]
BY ConcatProperties

(* The frames of the next pc come behind those before it.                  *)
LEMMA GatherMore ==
    ASSUME NEW c, NEW A \in Seq(Answers), NEW n \in Nat, NEW fs \in Seq(Frames),
           Answered(c, A, n, fs), InOrder(fs), AllCame(c, A, n, fs, FALSE), n + 1 <= Len(A),
           NEW us \in Seq(Frames), NEW p \in 0..Len(A[n + 1]), Collected(c, A, n + 1, us, p),
           NEW cut \in BOOLEAN, p # Len(A[n + 1]) => cut,
           NEW vs \in Seq(Frames), Len(vs) = Len(us),
           \A i \in 1..Len(us) : vs[i].pc = us[i].pc /\ vs[i].j = us[i].j
    PROVE  /\ n + 1 <= Len(A) /\ Answered(c, A, n + 1, fs \o vs) /\ InOrder(fs \o vs)
           /\ AllCame(c, A, n + 1, fs \o vs, cut)
<1> DEFINE gs == fs \o vs
           k == n + 1
<1>1. /\ gs \in Seq(Frames) /\ Len(gs) = Len(fs) + Len(vs)
      /\ \A i \in 1..(Len(fs) + Len(vs)) : gs[i] = IF i <= Len(fs) THEN fs[i] ELSE vs[i - Len(fs)]
  BY ConcatFrames
<1>2. Len(fs) \in Nat /\ Len(vs) \in Nat /\ Len(A) \in Nat
  BY LenProperties
<1>3. Answered(c, A, n, fs) /\ InOrder(fs) /\ AllCame(c, A, n, fs, FALSE)
  OBVIOUS
<1>4. k \in Nat /\ k = n + 1 /\ k <= Len(A)
  OBVIOUS
<1>5. p \in 0..Len(A[k]) /\ (p # Len(A[k]) => cut) /\ Collected(c, A, k, us, p)
  OBVIOUS
<1> HIDE DEF gs, k
<1>6. ASSUME NEW i \in 1..Len(fs) PROVE i \in 1..Len(gs) /\ gs[i] = fs[i]
  BY <1>1, <1>2
<1>7. ASSUME NEW i \in 1..Len(vs) PROVE i + Len(fs) \in 1..Len(gs) /\ gs[i + Len(fs)] = vs[i]
  <2>1. i + Len(fs) \in 1..(Len(fs) + Len(vs)) /\ ~(i + Len(fs) <= Len(fs)) /\ i + Len(fs) - Len(fs) = i
    BY <1>2
  <2> QED
    BY <2>1, <1>1
<1>8. ASSUME NEW i \in 1..Len(gs), ~(i \in 1..Len(fs))
      PROVE  i - Len(fs) \in 1..Len(vs) /\ gs[i] = vs[i - Len(fs)]
  <2>1. i - Len(fs) \in 1..Len(vs) /\ i - Len(fs) + Len(fs) = i
    BY <1>8, <1>1, <1>2
  <2> QED
    BY <2>1, <1>7
<1>9. ASSUME NEW i \in 1..Len(fs)
      PROVE  \E m \in 1..n : gs[i].pc = <<c, m>> /\ gs[i].pc[2] = m /\ m \in Nat /\ gs[i].pc[2] < k
  <2>1. PICK m \in 1..n : fs[i].pc = <<c, m>>
    BY <1>3 DEF Answered
  <2>2. m \in Nat /\ m < k
    BY <1>4
  <2>3. gs[i].pc = <<c, m>>
    BY <2>1, <1>6
  <2>4. gs[i].pc[2] = m
    BY <2>3
  <2> QED
    BY <2>2, <2>3, <2>4
<1>10. ASSUME NEW i \in 1..Len(vs)
       PROVE  /\ vs[i].pc = <<c, k>> /\ vs[i].pc[2] = k /\ vs[i].j = us[i].j
              /\ vs[i].j \in 1..p /\ vs[i].j \in 1..Len(A[k]) /\ A[k][vs[i].j] = "known"
  <2>1. us[i].pc = <<c, k>> /\ us[i].j \in 1..p /\ A[k][us[i].j] = "known"
    BY <1>5 DEF Collected
  <2>2. us[i].j \in 1..Len(A[k])
    <3>1. A[k] \in Answers
      BY <1>4, <1>2, ElementOfSeq
    <3>2. Len(A[k]) \in Nat
      <4>1. PICK m \in 1..MaxFrames : A[k] \in [1..m -> Kinds]
        BY <3>1 DEF Answers
      <4>2. Len(A[k]) = m /\ m \in Nat
        BY <4>1, BoundsType
      <4> QED
        BY <4>2
    <3> QED
      BY <2>1, <3>2, <1>5
  <2> QED
    BY <2>1, <2>2
<1>11. Answered(c, A, k, gs)
  <2> SUFFICES ASSUME NEW a \in 1..Len(gs)
               PROVE  \E m \in 1..k : \E j \in 1..Len(A[m]) :
                         gs[a].pc = <<c, m>> /\ gs[a].j = j /\ A[m][j] = "known"
    BY DEF Answered
  <2>1. CASE a \in 1..Len(fs)
    <3>1. PICK m \in 1..n : \E j \in 1..Len(A[m]) :
                               fs[a].pc = <<c, m>> /\ fs[a].j = j /\ A[m][j] = "known"
      BY <2>1, <1>3 DEF Answered
    <3>2. m \in 1..k
      BY <1>4
    <3> QED
      BY <2>1, <3>1, <3>2, <1>6
  <2>2. CASE ~(a \in 1..Len(fs))
    <3>1. /\ gs[a].pc = <<c, k>> /\ gs[a].j \in 1..Len(A[k]) /\ A[k][gs[a].j] = "known"
      BY <2>2, <1>8, <1>10
    <3>2. k \in 1..k
      BY <1>4
    <3> QED
      BY <3>1, <3>2
  <2> QED
    BY <2>1, <2>2
<1>12. InOrder(gs)
  <2> SUFFICES ASSUME NEW a \in 1..Len(gs), NEW b \in 1..Len(gs), a < b
               PROVE  \/ gs[a].pc[2] < gs[b].pc[2]
                      \/ gs[a].pc = gs[b].pc /\ gs[a].j < gs[b].j
    BY DEF InOrder
  <2>1. CASE b \in 1..Len(fs)
    <3>1. a \in 1..Len(fs)
      BY <2>1, <1>1, <1>2
    <3> QED
      BY <2>1, <3>1, <1>3, <1>6 DEF InOrder
  <2>2. CASE a \in 1..Len(fs) /\ ~(b \in 1..Len(fs))
    <3>1. gs[a].pc[2] < k
      BY <2>2, <1>9
    <3>2. gs[b].pc[2] = k
      BY <2>2, <1>8, <1>10
    <3> QED
      BY <3>1, <3>2
  <2>3. CASE ~(a \in 1..Len(fs)) /\ ~(b \in 1..Len(fs))
    <3> DEFINE x == a - Len(fs)
               y == b - Len(fs)
    <3>1. x \in 1..Len(vs) /\ y \in 1..Len(vs) /\ gs[a] = vs[x] /\ gs[b] = vs[y]
      BY <2>3, <1>8
    <3>2. x < y
      BY <1>1, <1>2
    <3> HIDE DEF x, y
    <3>3. us[x].j < us[y].j
      BY <3>1, <3>2, <1>5 DEF Collected
    <3> QED
      BY <3>1, <3>3, <1>10
  <2> QED
    BY <2>1, <2>2, <2>3
<1>13. AllCame(c, A, k, gs, cut)
  <2> SUFFICES ASSUME NEW m \in 1..k, NEW j \in 1..Len(A[m]), A[m][j] = "known"
               PROVE  \/ \E a \in 1..Len(gs) : gs[a].pc = <<c, m>> /\ gs[a].j = j
                      \/ m = k /\ cut /\ \A a \in 1..Len(gs) : gs[a].pc = <<c, m>> => gs[a].j < j
    BY DEF AllCame
  <2>1. CASE m # k
    <3>1. m \in 1..n
      BY <2>1, <1>4
    <3>2. PICK a \in 1..Len(fs) : fs[a].pc = <<c, m>> /\ fs[a].j = j
      BY <3>1, <1>3 DEF AllCame
    <3> QED
      BY <3>2, <1>6
  <2>2. CASE m = k /\ j \in 1..p
    <3>1. PICK a \in 1..Len(us) : us[a].j = j
      BY <2>2, <1>5 DEF Collected
    <3>2. a \in 1..Len(vs) /\ vs[a].j = j /\ vs[a].pc = <<c, m>>
      BY <2>2, <3>1, <1>10
    <3> QED
      BY <3>2, <1>7
  <2>3. CASE m = k /\ ~(j \in 1..p)
    <3>1. p < j /\ cut
      BY <2>3, <1>5
    <3>2. ASSUME NEW a \in 1..Len(gs), gs[a].pc = <<c, m>> PROVE gs[a].j < j
      <4>1. CASE a \in 1..Len(fs)
        BY <4>1, <3>2, <2>3, <1>9, <1>4
      <4>2. CASE ~(a \in 1..Len(fs))
        <5>1. gs[a].j \in 1..p
          BY <4>2, <1>8, <1>10
        <5> QED
          BY <5>1, <3>1
      <4> QED
        BY <4>1, <4>2
    <3> QED
      BY <2>3, <3>1, <3>2
  <2> QED
    BY <2>1, <2>2, <2>3
<1> QED
  BY <1>4, <1>11, <1>12, <1>13 DEF gs, k

(* The last frame of a pc is the only one that is not inlined.             *)
LEMMA GatherOuter ==
    ASSUME NEW fs \in Seq(Frames), NEW vs \in Seq(Frames), NEW q,
           LastIsOuter(fs), \A i \in 1..Len(fs) : fs[i].pc # q,
           \A i \in 1..Len(vs) : vs[i].pc = q,
           \A i \in 1..Len(vs) : vs[i].inline <=> i < Len(vs)
    PROVE  LastIsOuter(fs \o vs)
<1> DEFINE gs == fs \o vs
<1>1. /\ gs \in Seq(Frames) /\ Len(gs) = Len(fs) + Len(vs)
      /\ \A i \in 1..(Len(fs) + Len(vs)) : gs[i] = IF i <= Len(fs) THEN fs[i] ELSE vs[i - Len(fs)]
  BY ConcatFrames
<1>2. Len(fs) \in Nat /\ Len(vs) \in Nat
  BY LenProperties
<1> HIDE DEF gs
<1>6. ASSUME NEW i \in 1..Len(fs) PROVE i \in 1..Len(gs) /\ gs[i] = fs[i]
  BY <1>1, <1>2
<1>7. ASSUME NEW i \in 1..Len(vs) PROVE i + Len(fs) \in 1..Len(gs) /\ gs[i + Len(fs)] = vs[i]
  <2>1. i + Len(fs) \in 1..(Len(fs) + Len(vs)) /\ ~(i + Len(fs) <= Len(fs)) /\ i + Len(fs) - Len(fs) = i
    BY <1>2
  <2> QED
    BY <2>1, <1>1
<1>8. ASSUME NEW i \in 1..Len(gs), ~(i \in 1..Len(fs))
      PROVE  i - Len(fs) \in 1..Len(vs) /\ gs[i] = vs[i - Len(fs)]
  <2>1. i - Len(fs) \in 1..Len(vs) /\ i - Len(fs) + Len(fs) = i
    BY <1>8, <1>1, <1>2
  <2> QED
    BY <2>1, <1>7
<1>9. LastIsOuter(gs)
  <2> SUFFICES ASSUME NEW a \in 1..Len(gs)
               PROVE  gs[a].inline <=> \E b \in (a + 1)..Len(gs) : gs[b].pc = gs[a].pc
    BY DEF LastIsOuter
  <2>1. CASE a \in 1..Len(fs)
    <3>1. gs[a] = fs[a] /\ (fs[a].inline <=> \E b \in (a + 1)..Len(fs) : fs[b].pc = fs[a].pc)
      BY <2>1, <1>6 DEF LastIsOuter
    <3>2. ASSUME NEW b \in (a + 1)..Len(fs), fs[b].pc = fs[a].pc
          PROVE  b \in (a + 1)..Len(gs) /\ gs[b].pc = gs[a].pc
      <4>1. b \in 1..Len(fs) /\ b \in (a + 1)..Len(gs)
        BY <2>1, <1>1, <1>2
      <4> QED
        BY <4>1, <3>1, <3>2, <1>6
    <3>3. ASSUME NEW b \in (a + 1)..Len(gs), gs[b].pc = gs[a].pc
          PROVE  b \in (a + 1)..Len(fs) /\ fs[b].pc = fs[a].pc
      <4>1. b \in 1..Len(gs) /\ (b \in 1..Len(fs) => b \in (a + 1)..Len(fs))
        BY <2>1, <1>1, <1>2
      <4>2. b \in 1..Len(fs)
        <5>1. ~(b \in 1..Len(fs)) => gs[b].pc = q
          BY <4>1, <1>8
        <5>2. gs[a].pc # q
          BY <2>1, <1>6
        <5> QED
          BY <5>1, <5>2, <3>3
      <4> QED
        BY <4>1, <4>2, <3>1, <3>3, <1>6
    <3> QED
      BY <3>1, <3>2, <3>3
  <2>2. CASE ~(a \in 1..Len(fs))
    <3> DEFINE x == a - Len(fs)
    <3>1. x \in 1..Len(vs) /\ gs[a] = vs[x] /\ x + Len(fs) = a
      BY <2>2, <1>8, <1>1, <1>2
    <3> HIDE DEF x
    <3>2. (gs[a].inline <=> x < Len(vs)) /\ gs[a].pc = q
      BY <3>1
    <3>3. ASSUME x < Len(vs)
          PROVE  \E b \in (a + 1)..Len(gs) : gs[b].pc = gs[a].pc
      <4>1. x + 1 \in 1..Len(vs) /\ x + 1 + Len(fs) \in (a + 1)..Len(gs)
        BY <3>1, <3>3, <1>1, <1>2
      <4>2. gs[x + 1 + Len(fs)].pc = q
        BY <4>1, <1>7
      <4> QED
        BY <4>1, <4>2, <3>2
    <3>4. ASSUME NEW b \in (a + 1)..Len(gs)
          PROVE  x < Len(vs)
      BY <3>1, <1>1, <1>2
    <3> QED
      BY <3>2, <3>3, <3>4
  <2> QED
    BY <2>1, <2>2
<1> QED
  BY <1>9 DEF gs

(* The requests of a call.                                                 *)
LEMMA AllRequests ==
    ASSUME NEW b \in Nat, NEW c, NEW r, r = [k \in 1..b |-> <<c, k>>] \o << <<c, 0>> >>
    PROVE  Len(r) = b + 1 /\ \A i \in 1..(b + 1) : r[i][1] = c
<1> DEFINE u == [k \in 1..b |-> <<c, k>>]
           v == << <<c, 0>> >>
           T == {c} \X Nat
<1>1. /\ u \in Seq(T) /\ Len(u) = b /\ \A k \in 1..b : u[k] = <<c, k>>
      /\ v \in Seq(T) /\ Len(v) = 1 /\ v[1] = <<c, 0>>
  OBVIOUS
<1> HIDE DEF u, v
<1>2. Len(r) = b + 1 /\ \A i \in 1..(b + 1) : r[i] = IF i <= b THEN u[i] ELSE v[i - b]
  BY <1>1, ConcatProperties DEF u, v
<1>3. ASSUME NEW i \in 1..(b + 1) PROVE r[i][1] = c
  <2>1. CASE i <= b
    <3>1. i \in 1..b /\ r[i] = u[i]
      BY <2>1, <1>2
    <3> QED
      BY <3>1, <1>1
  <2>2. CASE ~(i <= b)
    <3>1. i - b = 1
      BY <2>2
    <3>2. r[i] = v[i - b]
      BY <2>2, <1>2
    <3>3. r[i] = <<c, 0>>
      BY <3>1, <3>2, <1>1
    <3> QED
      BY <3>3
  <2> QED
    BY <2>1, <2>2
<1> QED
  BY <1>2, <1>3

LEMMA GatheredCut ==
    ASSUME NEW c, NEW A, NEW n, NEW fs, NEW p \in BOOLEAN, NEW q \in BOOLEAN, p => q,
           Gathered(c, A, n, fs, p)
    PROVE  Gathered(c, A, n, fs, q)
<1>1. AllCame(c, A, n, fs, p)
  BY DEF Gathered
<1>2. AllCame(c, A, n, fs, q)
  BY <1>1 DEF AllCame
<1> QED
  BY <1>2 DEF Gathered

-----------------------------------------------------------------------------
(* The steps of the caller. *)

LinesInvs == TypesInv /\ ReaderInv /\ StreamInv /\ LinesInv /\ FramesInv

LEMMA EmptyStream ==
    TypesInv => (Stream = << >> <=> output = << >> /\ writing = << >>)
<1> SUFFICES ASSUME TypesInv PROVE Stream = << >> <=> output = << >> /\ writing = << >>
  OBVIOUS
<1>1. output \in Seq(FrameLines) /\ writing \in Seq(FrameLines)
  BY DEF TypesInv
<1>2. \A o, w \in Seq(FrameLines) : o \o w = << >> <=> o = << >> /\ w = << >>
  BY ConcatProperties, LenProperties, EmptySeq
<1> QED
  BY <1>1, <1>2 DEF Stream

LEMMA NothingChained ==
    ASSUME NEW c, NEW b, NEW A
    PROVE  /\ Chained(c, b, A, << >>) /\ Begins(b, << >>) /\ Continues(c, b, A, EOF, << >>)
BY DEF Chained, Begins, Continues

LEMMA LinesInit == Init => LinesInv /\ FramesInv
<1> SUFFICES ASSUME Init PROVE LinesInv /\ FramesInv
  OBVIOUS
<1>1. Stream = << >>
  BY TypesInit, EmptyStream DEF Init
<1> QED
  BY <1>1 DEF Init, LinesInv, FramesInv, Looking, GotEnd, Succeeded

LEMMA LinesClient == LinesInvs /\ Client => LinesInv' /\ FramesInv'
<1> SUFFICES ASSUME LinesInvs, Client PROVE LinesInv' /\ FramesInv'
  OBVIOUS
<1>0. TypesInv /\ ReaderInv /\ StreamInv /\ LinesInv /\ FramesInv
  BY DEF LinesInvs
<1>t. TypesInv'
  BY <1>0, ClientTypes
<1> USE DEF caller, reading, external
<1>1. CASE SymbolizeArray
  <2>1. /\ client = "idle" /\ result # "error" /\ reader = "gone" /\ done' = << >>
        /\ requests' = requests /\ output' = output /\ writing' = writing
        /\ answers' = << >> /\ frames' = << >> /\ cur' = << >> /\ batch' \in Nat
    BY <1>0, <1>1, BoundsType DEF SymbolizeArray, ReaderInv
  <2>2. Stream = << >> /\ Stream' = << >>
    BY <1>0, <2>1 DEF LinesInv, Stream
  <2>3. \/ /\ subprocess' = "none" /\ client' = "idle" /\ result' = "error" /\ reader' = "gone"
        \/ /\ subprocess' = "dead" => subprocess = "dead"
           /\ client' = "writing" /\ reader' = "first"
    BY <1>1, <2>1 DEF SymbolizeArray
  <2>4. /\ Len(answers') <= batch' /\ Chained(call', batch', answers', Stream') /\ Begins(batch', Stream')
    <3>1. Len(answers') = 0
      BY <2>1
    <3> QED
      BY <2>1, <2>2, <3>1, NothingChained
  <2>5. LinesInv'
    BY <1>0, <2>1, <2>2, <2>3, <2>4 DEF LinesInv, Looking
  <2>6. ~GotEnd'
    BY <2>1, <2>3 DEF GotEnd, Succeeded
  <2>7. FramesInv'
    BY <2>1, <2>3, <2>6 DEF FramesInv
  <2> QED
    BY <2>5, <2>7
<1>2. CASE Flush
  <2>1. /\ client = "writing" /\ client' = "waiting" /\ Stream' = Stream
        /\ UNCHANGED <<call, batch, result, done, reading, subprocess, writing, answers>>
        /\ answers = << >>
        /\ requests' = IF subprocess = "up"
                       THEN [k \in 1..batch |-> <<call, k>>] \o << <<call, 0>> >>
                       ELSE requests
    BY <1>0, <1>2 DEF Flush, Stream, LinesInv
  <2>2. ASSUME subprocess = "up"
        PROVE  /\ reader = "first" /\ Stream = << >>
               /\ AnsweredTo(call, batch, answers, requests', LastOf(token, Stream))
               /\ Len(requests') = batch + 1
    <3>1. Nothing /\ reader = "first"
      BY <1>0, <2>1, <2>2 DEF StreamInv
    <3>2. Stream = << >>
      BY <1>0, <3>1, EmptyStream DEF Nothing
    <3>3. batch \in Nat
      BY <1>0, BoundsType DEF TypesInv
    <3>4. /\ Len(requests') = batch + 1
          /\ \A i \in 1..(batch + 1) : requests'[i][1] = call
      BY <2>1, <2>2, <3>3, AllRequests
    <3>5. requests' # << >> /\ Len(answers) = 0
      BY <2>1, <3>3, <3>4
    <3> QED
      BY <3>1, <3>2, <3>3, <3>4, <3>5 DEF AnsweredTo
  <2>3. LinesInv'
    BY <1>0, <2>1, <2>2 DEF LinesInv, Looking
  <2>4. GotEnd' <=> GotEnd
    BY <2>1 DEF GotEnd, Succeeded
  <2>5. FramesInv'
    BY <1>0, <2>1, <2>4 DEF FramesInv, Current
  <2> QED
    BY <2>3, <2>5
<1>3. CASE Await
  <2>1. /\ client = "waiting" /\ client' = "idle" /\ result' = Head(done) /\ Stream' = Stream
        /\ UNCHANGED <<call, batch, reading, subprocess, requests, writing, answers>>
    BY <1>3 DEF Await, Stream
  <2>2. reader = "gone" /\ (done = <<"error">> \/ done = <<"nil">>)
    BY <1>0, <1>3 DEF Await, ReaderInv
  <2>3. result' # "error" => done = <<"nil">>
    BY <2>1, <2>2
  <2>4. done' = << >>
    <3>1. done' = Tail(done)
      BY <1>3 DEF Await
    <3> QED
      BY <2>2, <3>1, OneResult
  <2>5. LinesInv'
    BY <1>0, <2>1, <2>2, <2>3, <2>4 DEF LinesInv, Looking
  <2>6. GotEnd' => GotEnd
    BY <2>1, <2>2, <2>3, <2>4 DEF GotEnd, Succeeded
  <2>7. FramesInv'
    BY <1>0, <2>1, <2>2, <2>6 DEF FramesInv
  <2> QED
    BY <2>5, <2>7
<1>4. CASE Close
  <2>1. /\ client' = "closed" /\ reader' = "gone" /\ done' = << >>
        /\ requests' = << >> /\ writing' = << >> /\ output' = << >>
    BY <1>0, <1>4 DEF Close, ReaderInv
  <2> QED
    BY <2>1 DEF LinesInv, FramesInv, Looking, GotEnd, Succeeded
<1> QED
  BY <1>1, <1>2, <1>3, <1>4 DEF Client

-----------------------------------------------------------------------------
(* The steps of the reader. *)

(* A line is taken from the stream, or there is none to come any more.     *)
LEMMA ScanReads ==
    ASSUME TypesInv, LinesInv, Scan, UNCHANGED writing
    PROVE  /\ token' = NextToken
           /\ \/ /\ Stream = << >> /\ Stream' = << >> /\ NextToken = EOF /\ subprocess = "dead"
              \/ /\ Stream # << >> /\ Stream' = Tail(Stream) /\ NextToken = Head(Stream)
                 /\ NextToken # EOF /\ NextToken \in FrameLines
<1>1. CASE output = << >>
  <2>1. subprocess = "dead" /\ token' = EOF /\ NextToken = EOF /\ output' = output
    BY <1>1 DEF Scan, CanScan, NextToken
  <2>2. writing = << >>
    BY <2>1 DEF LinesInv
  <2>3. Stream = << >> /\ Stream' = << >>
    BY <1>1, <2>1, <2>2, EmptyStream DEF Stream
  <2> QED
    BY <2>1, <2>3
<1>2. CASE output # << >>
  <2>1. token' = NextToken /\ NextToken = Head(output) /\ output' = Tail(output) /\ Head(output) \in FrameLines
    BY <1>2, ScanType, HeadTailProperties DEF TypesInv
  <2>2. Stream # << >> /\ Head(Stream) = Head(output) /\ Tail(output) \o writing = Tail(Stream)
    BY <1>2, TakeLine DEF TypesInv, Stream
  <2>3. Stream' = Tail(output) \o writing
    BY <2>1 DEF Stream
  <2>4. NextToken # EOF
    BY <2>1, LineType
  <2> QED
    BY <2>1, <2>2, <2>3, <2>4
<1> QED
  BY <1>1, <1>2

(* Whatever line is taken, it is one of the answers, and the next one      *)
(* follows it.                                                             *)
LEMMA ScanKeepsLines ==
    ASSUME TypesInv, ReaderInv, StreamInv, LinesInv, Looking, Scan,
           UNCHANGED <<client, call, batch, result, subprocess, requests, writing, answers>>,
           reader' # "first", reader' # "invalid", done' # <<"nil">>
    PROVE  /\ LinesInv'
           /\ NextToken # EOF => /\ Stream # << >> /\ NextToken = Stream[1]
                                 /\ OfCall(call, answers, NextToken)
                                 /\ NextToken \in FrameLines
<1>1. Stream \in Seq(FrameLines)
  BY StreamType
<1>2. /\ Len(answers) <= batch /\ Chained(call, batch, answers, Stream)
  BY DEF LinesInv
<1>3. client \in {"writing", "waiting"}
  BY DEF ReaderInv, TypesInv, Looking
<1>4. /\ subprocess = "dead" => requests = << >> /\ writing = << >>
      /\ client = "writing" => answers = << >>
  BY DEF LinesInv
<1>5. token' = NextToken
  BY ScanReads
<1>6. CASE Stream = << >> /\ Stream' = << >> /\ NextToken = EOF /\ subprocess = "dead"
  <2>1. LinesInv'
    BY <1>2, <1>3, <1>4, <1>5, <1>6, NothingChained DEF LinesInv
  <2> QED
    BY <1>6, <2>1
<1>7. CASE /\ Stream # << >> /\ Stream' = Tail(Stream) /\ NextToken = Head(Stream)
           /\ NextToken # EOF /\ NextToken \in FrameLines
  <2>1. /\ NextToken = Stream[1] /\ OfCall(call, answers, NextToken)
        /\ Chained(call, batch, answers, Stream')
        /\ Continues(call, batch, answers, token', Stream')
        /\ LastOf(token', Stream') = LastOf(token, Stream)
    <3>1. /\ Head(Stream) = Stream[1] /\ OfCall(call, answers, Stream[1])
          /\ Chained(call, batch, answers, Tail(Stream))
          /\ Continues(call, batch, answers, Stream[1], Tail(Stream))
          /\ LastOf(Stream[1], Tail(Stream)) = Stream[Len(Stream)]
      BY <1>1, <1>2, <1>7, ChainTail
    <3>2. LastOf(token, Stream) = Stream[Len(Stream)]
      BY <1>7 DEF LastOf
    <3>3. token' = Stream[1] /\ Stream' = Tail(Stream) /\ NextToken = Stream[1]
      BY <3>1, <1>5, <1>7
    <3> QED
      BY <3>1, <3>2, <3>3
  <2>2. ASSUME subprocess = "up", client = "waiting"
        PROVE  /\ AnsweredTo(call, batch, answers, requests, LastOf(token', Stream'))
               /\ Len(requests) # batch + 1
    <3>1. /\ AnsweredTo(call, batch, answers, requests, LastOf(token, Stream))
          /\ Len(requests) = batch + 1 <=> reader = "first" /\ Stream = << >>
      BY <2>2 DEF LinesInv
    <3> QED
      BY <3>1, <2>1, <1>7
  <2>3. LinesInv'
    BY <1>2, <1>3, <1>4, <2>1, <2>2 DEF LinesInv
  <2> QED
    BY <1>7, <2>1, <2>3
<1> QED
  BY <1>6, <1>7, ScanReads

LEMMA LinesReaderFirst == LinesInvs /\ ScanFirst => LinesInv' /\ FramesInv'
<1> SUFFICES ASSUME LinesInvs, ScanFirst PROVE LinesInv' /\ FramesInv'
  OBVIOUS
<1> USE DEF caller, external
<1>1. TypesInv /\ ReaderInv /\ StreamInv /\ LinesInv /\ FramesInv
  BY DEF LinesInvs
<1>2. /\ Scan /\ reader = "first" /\ Looking
      /\ UNCHANGED <<client, call, batch, result, subprocess, requests, writing, answers, left, cur, frames>>
      /\ client \in {"writing", "waiting"} /\ done = << >>
      /\ left = batch /\ batch \in Nat /\ cur = << >> /\ frames = << >>
  BY <1>1, BoundsType DEF ScanFirst, Looking, ReaderInv, TypesInv, StreamInv, FramesInv
<1>3. \/ NextToken = EOF /\ reader' = "gone" /\ done' = <<"error">>
      \/ NextToken # EOF /\ reader' = "pc" /\ done' = done
  BY <1>2 DEF ScanFirst, Finish
<1>4. reader' # "first" /\ reader' # "invalid" /\ done' # <<"nil">>
  BY <1>2, <1>3
<1>5. /\ LinesInv' /\ token' = NextToken
      /\ NextToken # EOF => Stream # << >> /\ NextToken = Stream[1]
  BY <1>1, <1>2, <1>4, ScanKeepsLines, ScanReads
<1>6. ~GotEnd'
  BY <1>2, <1>4 DEF GotEnd, Succeeded
<1>7. CASE reader' = "gone"
  BY <1>5, <1>6, <1>7 DEF FramesInv
<1>8. CASE reader' = "pc"
  <2>1. token'.kind = "addr" /\ Ord(batch, token'.pc) = 1 /\ token' # EOF
    <3>1. NextToken # EOF
      BY <1>3, <1>8
    <3> QED
      BY <3>1, <1>1, <1>2, <1>5 DEF LinesInv, Begins
  <2>2. Current' = 1 /\ batch' - left' = 0
    BY <1>2 DEF Current
  <2>3. Gathered(call', answers', batch' - left', frames', token' = EOF)
    BY <1>1, <1>2, <2>2, GatherNone DEF TypesInv
  <2>4. FramesInv'
    BY <1>2, <1>6, <1>8, <2>1, <2>2, <2>3 DEF FramesInv
  <2> QED
    BY <1>5, <2>4
<1> QED
  BY <1>3, <1>7, <1>8

LEMMA LinesNextPC == LinesInvs /\ NextPC => LinesInv' /\ FramesInv'
<1> SUFFICES ASSUME LinesInvs, NextPC PROVE LinesInv' /\ FramesInv'
  OBVIOUS
<1> USE DEF caller, external
<1>1. TypesInv /\ ReaderInv /\ StreamInv /\ LinesInv /\ FramesInv
  BY DEF LinesInvs
<1>2. /\ reader = "pc" /\ Looking
      /\ UNCHANGED <<client, call, batch, result, subprocess, requests, answers, token, cur, frames>>
      /\ client \in {"writing", "waiting"} /\ done = << >> /\ Stream' = Stream /\ writing' = writing
      /\ left \in Nat /\ batch \in Nat /\ left <= batch
  BY <1>1, BoundsType DEF NextPC, Looking, ReaderInv, TypesInv, StreamInv, Stream
<1>3. \/ left = 0 /\ reader' = "invalid" /\ left' = 2 /\ done' = done
      \/ left # 0 /\ token.kind = "addr" /\ reader' = "fn" /\ left' = left /\ done' = done
      \/ reader' = "gone" /\ left' = left /\ done' = <<"error">>
  <2>1. CASE left = 0
    BY <2>1 DEF NextPC, LinesOfInvalidPC
  <2>2. CASE left # 0
    BY <1>2, <2>2 DEF NextPC, Finish
  <2> QED
    BY <2>1, <2>2
<1>4. /\ cur = << >> /\ Gathered(call, answers, batch - left, frames, token = EOF)
      /\ \/ token = EOF /\ subprocess = "dead"
         \/ token.kind = "addr" /\ Ord(batch, token.pc) = Current
  BY <1>1, <1>2 DEF FramesInv
<1>5. /\ Len(answers) <= batch /\ Len(answers) \in Nat /\ Chained(call, batch, answers, Stream)
      /\ Continues(call, batch, answers, token, Stream) /\ Stream \in Seq(FrameLines)
      /\ answers \in Seq(Answers) /\ token \in {EOF} \cup FrameLines
  BY <1>1, <1>2, StreamType, LenProperties DEF LinesInv, TypesInv
<1>6. CASE left = 0 /\ reader' = "invalid" /\ left' = 2 /\ done' = done
  <2>1. Len(Stream) <= 2
    <3>1. CASE token = EOF
      <4>1. Stream = << >>
        BY <3>1, <1>5 DEF Continues
      <4> QED
        BY <4>1
    <3>2. CASE token # EOF
      <4>1. token \in FrameLines /\ token.kind = "addr" /\ Ord(batch, token.pc) = batch + 1
        BY <3>2, <1>2, <1>4, <1>5, <1>6 DEF Current
      <4> QED
        BY <4>1, <1>2, <1>5, InvalidIsLast
    <3> QED
      BY <3>1, <3>2
  <2>2. LinesInv'
    BY <1>1, <1>2, <1>6, <2>1 DEF LinesInv, Looking
  <2>3. batch - left = batch
    BY <1>2, <1>6
  <2>4. Gathered(call, answers, batch, frames, subprocess = "dead")
    <3>1. token = EOF => subprocess = "dead"
      BY <1>4, LineType
    <3>2. (token = EOF) \in BOOLEAN /\ (subprocess = "dead") \in BOOLEAN
      OBVIOUS
    <3> QED
      BY <1>4, <2>3, <3>1, <3>2, GatheredCut
  <2>5. Len(answers) = batch
    BY <1>2, <1>5, <2>4 DEF Gathered
  <2>6. FramesInv'
    BY <1>2, <1>6, <2>4, <2>5 DEF FramesInv
  <2> QED
    BY <2>2, <2>6
<1>7. CASE left # 0 /\ token.kind = "addr" /\ reader' = "fn" /\ left' = left /\ done' = done
  <2>1. token # EOF /\ token \in FrameLines /\ OfCall(call, answers, token)
    BY <1>5, <1>7, LineType DEF Continues
  <2>2. Ord(batch, token.pc) = Current /\ Current <= batch /\ Current # 0 /\ Current' = Current
    BY <1>2, <1>4, <1>7, <2>1 DEF Current
  <2>3. token.pc = <<call, Current>>
    <3>1. token.pc \in PCs
      BY <2>1, LineType
    <3>2. token.pc[1] = call /\ token.pc[2] = Current
      <4>1. token.pc[2] # 0
        BY <2>2, <1>2 DEF Ord
      <4> QED
        BY <4>1, <2>1, <2>2 DEF Ord, OfCall
    <3> QED
      BY <3>1, <3>2 DEF PCs
  <2>4. token.j = 0
    BY <1>7, <2>1 DEF OfCall
  <2>5. Collected(call, answers, Current, cur, token.j)
    BY <1>4, <2>4, CollectNone
  <2>6. Gathered(call, answers, batch - left, frames, FALSE)
    <3>1. (token = EOF) \in BOOLEAN /\ FALSE \in BOOLEAN /\ (token = EOF => FALSE)
      BY <2>1
    <3> QED
      BY <1>4, <3>1, GatheredCut
  <2>7. LinesInv'
    BY <1>1, <1>2, <1>7 DEF LinesInv, Looking
  <2>8. ~GotEnd'
    BY <1>2, <1>7 DEF GotEnd, Succeeded
  <2>9. FramesInv'
    BY <1>2, <1>7, <2>2, <2>3, <2>5, <2>6, <2>8 DEF FramesInv
  <2> QED
    BY <2>7, <2>9
<1>8. CASE reader' = "gone" /\ left' = left /\ done' = <<"error">>
  <2>1. LinesInv'
    BY <1>1, <1>2, <1>8 DEF LinesInv, Looking
  <2>2. ~GotEnd'
    BY <1>2, <1>8 DEF GotEnd, Succeeded
  <2> QED
    BY <1>8, <2>1, <2>2 DEF FramesInv
<1> QED
  BY <1>3, <1>6, <1>7, <1>8

(* The frames of a pc as they go to those of the call.                     *)
LEMMA MarkedFrames ==
    ASSUME NEW us \in Seq(Frames)
    PROVE  LET vs == [j \in 1..Len(us) |-> [us[j] EXCEPT !.inline = j < Len(us)]]
           IN  /\ vs \in Seq(Frames) /\ Len(vs) = Len(us)
               /\ \A i \in 1..Len(us) : vs[i].pc = us[i].pc /\ vs[i].j = us[i].j
               /\ \A i \in 1..Len(vs) : vs[i].inline <=> i < Len(vs)
<1> DEFINE vs == [j \in 1..Len(us) |-> [us[j] EXCEPT !.inline = j < Len(us)]]
<1>1. Len(us) \in Nat
  BY LenProperties
<1>2. ASSUME NEW j \in 1..Len(us)
      PROVE  /\ [us[j] EXCEPT !.inline = j < Len(us)] \in Frames
             /\ vs[j].pc = us[j].pc /\ vs[j].j = us[j].j
             /\ vs[j].inline = (j < Len(us))
  <2>1. us[j] \in Frames
    BY ElementOfSeq
  <2>2. (j < Len(us)) \in BOOLEAN
    BY <1>1
  <2>3. vs[j] = [us[j] EXCEPT !.inline = j < Len(us)]
    OBVIOUS
  <2> QED
    BY <2>1, <2>2, <2>3 DEF Frames
<1>3. vs \in Seq(Frames) /\ Len(vs) = Len(us)
  BY <1>1, <1>2
<1> HIDE DEF vs
<1>4. \A i \in 1..Len(vs) : vs[i].inline <=> i < Len(vs)
  BY <1>2, <1>3
<1> QED
  BY <1>2, <1>3, <1>4 DEF vs

LEMMA LinesScanFunc == LinesInvs /\ ScanFunc => LinesInv' /\ FramesInv'
<1> SUFFICES ASSUME LinesInvs, ScanFunc PROVE LinesInv' /\ FramesInv'
  OBVIOUS
<1> USE DEF caller, external
<1>1. TypesInv /\ ReaderInv /\ StreamInv /\ LinesInv /\ FramesInv
  BY DEF LinesInvs
<1>2. /\ Scan /\ reader = "fn" /\ Looking /\ left # 0
      /\ UNCHANGED <<client, call, batch, result, done, subprocess, requests, writing, answers>>
      /\ client \in {"writing", "waiting"} /\ done = << >>
      /\ left \in Nat /\ batch \in Nat /\ left <= batch
      /\ answers \in Seq(Answers) /\ cur \in Seq(Frames) /\ frames \in Seq(Frames)
  BY <1>1, BoundsType DEF ScanFunc, Looking, ReaderInv, TypesInv, StreamInv
<1>3. \/ NextToken.kind \in {"eof", "addr"} /\ EndOfPC
      \/ ~(NextToken.kind \in {"eof", "addr"}) /\ reader' = "loc" /\ UNCHANGED <<left, cur, frames>>
  BY DEF ScanFunc
<1>4. reader' \in {"pc", "loc"}
  BY <1>3 DEF EndOfPC
<1>5. /\ LinesInv' /\ token' = NextToken
      /\ NextToken # EOF => /\ Stream # << >> /\ NextToken = Stream[1]
                            /\ OfCall(call, answers, NextToken) /\ NextToken \in FrameLines
      /\ NextToken = EOF => subprocess = "dead"
  BY <1>1, <1>2, <1>4, ScanKeepsLines, ScanReads
<1>6. ~GotEnd'
  BY <1>2, <1>4 DEF GotEnd, Succeeded
<1>7. /\ token.pc = <<call, Current>> /\ token.kind \in {"addr", "known", "unknown"}
      /\ Collected(call, answers, Current, cur, token.j)
      /\ Gathered(call, answers, batch - left, frames, FALSE)
  BY <1>1, <1>2 DEF FramesInv
<1>8. token # EOF /\ OfCall(call, answers, token)
      /\ (NextToken # EOF => Follows(batch, answers, token, NextToken))
  <2>1. token # EOF
    <3>1. token.kind # "eof"
      BY <1>7
    <3> QED
      BY <3>1, LineType
  <2> QED
    BY <2>1, <1>1, <1>2, <1>5 DEF LinesInv, Continues
<1>9. Current \in 1..Len(answers) /\ Current = batch - left + 1 /\ Current <= batch
  <2>1. token.pc[2] = Current /\ token.pc[2] \in 0..Len(answers)
    BY <1>7, <1>8 DEF OfCall
  <2> QED
    BY <2>1, <1>2 DEF Current
<1>10. CASE ~(NextToken.kind \in {"eof", "addr"}) /\ reader' = "loc" /\ UNCHANGED <<left, cur, frames>>
  <2>1. NextToken # EOF
    BY <1>10, LineType
  <2>2. token'.kind = "fn" /\ token'.pc = token.pc /\ token'.j = token.j + 1 /\ token.j \in Nat
    <3>1. CASE token.kind = "addr"
      <4>1. token.j = 0
        BY <3>1, <1>8 DEF OfCall
      <4> QED
        BY <3>1, <4>1, <2>1, <1>5, <1>8, KindsType DEF Follows, Ended
    <3>2. CASE token.kind # "addr"
      <4>1. token.kind # "fn"
        BY <1>7
      <4>2. NextToken.kind = "fn" /\ NextToken.pc = token.pc /\ NextToken.j = token.j + 1
        BY <3>2, <4>1, <2>1, <1>8, <1>10 DEF Follows
      <4>3. token.j \in Nat
        BY <3>2, <1>8 DEF OfCall
      <4> QED
        BY <4>2, <4>3, <1>5
    <3> QED
      BY <3>1, <3>2
  <2>3. token'.j - 1 = token.j /\ Current' = Current
    BY <2>2, <1>2, <1>10 DEF Current
  <2>4. FramesInv'
    BY <1>2, <1>6, <1>7, <1>10, <2>2, <2>3 DEF FramesInv
  <2> QED
    BY <2>4, <1>5
<1>11. CASE NextToken.kind \in {"eof", "addr"} /\ EndOfPC
  <2> DEFINE vs == [j \in 1..Len(cur) |-> [cur[j] EXCEPT !.inline = j < Len(cur)]]
             n == batch - left
             p == token.j
             cut == (NextToken = EOF)
  <2>1. /\ n \in Nat /\ n + 1 = Current /\ n + 1 <= Len(answers)
        /\ batch' - left' = n + 1 /\ Current' = n + 1 + 1
    BY <1>2, <1>9, <1>11 DEF EndOfPC, Current
  <2>2. /\ vs \in Seq(Frames) /\ Len(vs) = Len(cur)
        /\ \A i \in 1..Len(cur) : vs[i].pc = cur[i].pc /\ vs[i].j = cur[i].j
        /\ \A i \in 1..Len(vs) : vs[i].inline <=> i < Len(vs)
    BY <1>2, MarkedFrames
  <2>3. frames' = frames \o vs /\ cur' = << >> /\ reader' = "pc"
    BY <1>11 DEF EndOfPC
  <2> HIDE DEF vs
  <2>4. FrameCount(answers, token.pc[2]) = Len(answers[n + 1])
    <3>1. token.pc[2] = n + 1
      BY <1>7, <2>1
    <3> QED
      BY <3>1, <2>1 DEF FrameCount
  <2>5. p \in 0..Len(answers[n + 1])
    <3>1. Len(answers[n + 1]) \in Nat \ {0}
      BY <2>1, <2>4, <1>2, <1>8, CountType DEF OfCall
    <3>2. IF token.kind = "addr" THEN token.j = 0 ELSE token.j \in 1..Len(answers[n + 1])
      BY <2>4, <1>8 DEF OfCall
    <3> QED
      BY <3>1, <3>2
  <2>6. NextToken # EOF => /\ NextToken.kind = "addr" /\ Ended(answers, token)
                           /\ Ord(batch, NextToken.pc) = Ord(batch, token.pc) + 1
    <3> SUFFICES ASSUME NextToken # EOF
                 PROVE  /\ NextToken.kind = "addr" /\ Ended(answers, token)
                        /\ Ord(batch, NextToken.pc) = Ord(batch, token.pc) + 1
      OBVIOUS
    <3>1. NextToken.kind = "addr"
      BY <1>5, <1>11, LineType
    <3> QED
      BY <3>1, <1>8, KindsType DEF Follows
  <2>7. p # Len(answers[n + 1]) => cut
    BY <2>4, <2>6 DEF Ended
  <2>8. Answered(call, answers, n, frames) /\ InOrder(frames)
        /\ AllCame(call, answers, n, frames, FALSE) /\ LastIsOuter(frames)
    BY <1>7 DEF Gathered
  <2>9. Collected(call, answers, n + 1, cur, p)
    BY <1>7, <2>1
  <2>10. cut \in BOOLEAN
    OBVIOUS
  <2> HIDE DEF cut, p, n
  <2>11. /\ n + 1 <= Len(answers) /\ Answered(call, answers, n + 1, frames \o vs) /\ InOrder(frames \o vs)
         /\ AllCame(call, answers, n + 1, frames \o vs, cut)
    BY <1>2, <2>1, <2>2, <2>5, <2>7, <2>8, <2>9, <2>10, GatherMore
  <2>12. LastIsOuter(frames \o vs)
    <3>1. \A i \in 1..Len(vs) : vs[i].pc = <<call, n + 1>>
      BY <2>2, <2>9 DEF Collected
    <3>2. \A i \in 1..Len(frames) : frames[i].pc # <<call, n + 1>>
      <4> SUFFICES ASSUME NEW i \in 1..Len(frames), frames[i].pc = <<call, n + 1>> PROVE FALSE
        OBVIOUS
      <4>1. PICK k \in 1..n : frames[i].pc = <<call, k>>
        BY <2>8 DEF Answered
      <4>2. k = n + 1
        BY <4>1
      <4> QED
        BY <4>2, <2>1
    <3> QED
      BY <3>1, <3>2, <1>2, <2>2, <2>8, GatherOuter
  <2>13. Gathered(call', answers', batch' - left', frames', token' = EOF)
    BY <1>2, <1>5, <2>1, <2>3, <2>11, <2>12 DEF Gathered, cut
  <2>14. \/ token' = EOF /\ subprocess' = "dead"
         \/ token'.kind = "addr" /\ Ord(batch', token'.pc) = Current'
    <3>1. CASE NextToken = EOF
      BY <3>1, <1>2, <1>5
    <3>2. CASE NextToken # EOF
      <4>1. Ord(batch, token.pc) = n + 1
        <5>1. token.pc[2] = n + 1 /\ n + 1 # 0
          BY <1>7, <2>1
        <5> QED
          BY <5>1 DEF Ord
      <4> QED
        BY <3>2, <4>1, <1>2, <1>5, <2>1, <2>6
    <3> QED
      BY <3>1, <3>2
  <2>15. FramesInv'
    BY <1>6, <2>3, <2>13, <2>14 DEF FramesInv
  <2> QED
    BY <2>15, <1>5
<1> QED
  BY <1>3, <1>10, <1>11

LEMMA LinesScanLocation == LinesInvs /\ ScanLocation => LinesInv' /\ FramesInv'
<1> SUFFICES ASSUME LinesInvs, ScanLocation PROVE LinesInv' /\ FramesInv'
  OBVIOUS
<1> USE DEF caller, external
<1>1. TypesInv /\ ReaderInv /\ StreamInv /\ LinesInv /\ FramesInv
  BY DEF LinesInvs
<1>2. /\ Scan /\ reader = "loc" /\ Looking /\ left # 0
      /\ UNCHANGED <<client, call, batch, result, subprocess, requests, writing, answers, left, frames>>
      /\ client \in {"writing", "waiting"} /\ done = << >>
      /\ left \in Nat /\ batch \in Nat /\ left <= batch
      /\ answers \in Seq(Answers) /\ cur \in Seq(Frames)
  BY <1>1, BoundsType DEF ScanLocation, Looking, ReaderInv, TypesInv, StreamInv
<1>3. \/ /\ NextToken.kind \in {"known", "unknown"} /\ reader' = "fn" /\ done' = done
         /\ cur' = IF NextToken.kind = "known"
                   THEN Append(cur, [pc |-> NextToken.pc, j |-> NextToken.j, inline |-> TRUE])
                   ELSE cur
      \/ reader' = "gone" /\ done' = <<"error">>
  <2>1. CASE NextToken.kind \in {"known", "unknown"}
    <3>1. /\ reader' = "fn" /\ UNCHANGED done
          /\ cur' = IF Usable(NextToken)
                    THEN Append(cur, [pc |-> NextToken.pc, j |-> NextToken.j, inline |-> TRUE])
                    ELSE cur
      BY <2>1 DEF ScanLocation
    <3> QED
      BY <2>1, <3>1 DEF Usable
  <2>2. CASE ~(NextToken.kind \in {"known", "unknown"})
    <3>1. Finish("error")
      BY <2>2 DEF ScanLocation
    <3>2. Append(<< >>, "error") = <<"error">>
      OBVIOUS
    <3> QED
      BY <3>1, <3>2, <1>2 DEF Finish
  <2> QED
    BY <2>1, <2>2
<1>4. reader' # "first" /\ reader' # "invalid" /\ done' # <<"nil">>
  <2>1. <<"error">> # <<"nil">> /\ << >> # <<"nil">>
    BY OneResult
  <2>2. reader' \in {"fn", "gone"} /\ done' \in {<<"error">>, << >>}
    BY <1>2, <1>3
  <2> QED
    BY <2>1, <2>2
<1>5. /\ LinesInv' /\ token' = NextToken
      /\ NextToken # EOF => /\ Stream # << >> /\ NextToken = Stream[1]
                            /\ OfCall(call, answers, NextToken) /\ NextToken \in FrameLines
  BY <1>1, <1>2, <1>4, ScanKeepsLines, ScanReads
<1>6. ~GotEnd'
  BY <1>2, <1>4 DEF GotEnd, Succeeded
<1>7. /\ token.pc = <<call, Current>> /\ token.kind = "fn"
      /\ Collected(call, answers, Current, cur, token.j - 1)
      /\ Gathered(call, answers, batch - left, frames, FALSE)
  BY <1>1, <1>2 DEF FramesInv
<1>8. CASE reader' = "gone"
  BY <1>5, <1>6, <1>8 DEF FramesInv
<1>9. CASE /\ NextToken.kind \in {"known", "unknown"} /\ reader' = "fn" /\ done' = done
           /\ cur' = IF NextToken.kind = "known"
                     THEN Append(cur, [pc |-> NextToken.pc, j |-> NextToken.j, inline |-> TRUE])
                     ELSE cur
  <2>1. NextToken # EOF /\ NextToken.kind \in Kinds
    <3>1. NextToken.kind # "eof"
      BY <1>9
    <3> QED
      BY <3>1, <1>9, LineType DEF Kinds
  <2>2. token # EOF /\ OfCall(call, answers, token) /\ Follows(batch, answers, token, NextToken)
    <3>1. token # EOF
      <4>1. token.kind # "eof"
        BY <1>7
      <4> QED
        BY <4>1, LineType
    <3> QED
      BY <3>1, <2>1, <1>1, <1>2, <1>5 DEF LinesInv, Continues
  <2>3. NextToken.pc = token.pc /\ NextToken.j = token.j
    <3>1. token.kind # "addr" /\ ~(token.kind \in Kinds)
      BY <1>7, KindsType
    <3> QED
      BY <3>1, <2>2 DEF Follows, Ended
  <2>4. Current' = Current /\ Current # 0
    BY <1>2 DEF Current
  <2> DEFINE f == [pc |-> NextToken.pc, j |-> NextToken.j, inline |-> TRUE]
             k == Current
             i == NextToken.j
  <2>5. NextToken.pc \in PCs /\ NextToken.j \in 1..MaxFrames
    BY <2>1, <1>5, LineType
  <2>6. f \in Frames /\ f.pc = <<call, k>> /\ f.j = i /\ i \in Nat \ {0}
    <3>1. f \in Frames
      BY <2>5 DEF Frames
    <3>2. i \in Nat \ {0}
      BY <2>5, BoundsType
    <3> QED
      BY <3>1, <3>2, <2>3, <1>7
  <2>7. NextToken.kind = answers[k][i]
    <3>1. NextToken.pc[2] = k
      BY <2>3, <1>7
    <3> QED
      BY <3>1, <2>1, <2>4, <1>5 DEF OfCall
  <2>8. Collected(call, answers, k, cur, i - 1)
    BY <2>3, <1>7
  <2>9. cur' = IF answers[k][i] = "known" THEN Append(cur, f) ELSE cur
    BY <2>7, <1>9
  <2> HIDE DEF f, k, i
  <2>10. Collected(call, answers, k, cur', i)
    BY <2>6, <2>8, <2>9, <1>2, CollectOne
  <2>11. Collected(call', answers', Current', cur', token'.j)
    BY <2>4, <2>10, <1>2, <1>5 DEF k, i
  <2>12. token'.pc = <<call', Current'>> /\ token'.kind \in {"addr", "known", "unknown"}
    BY <2>3, <2>4, <1>2, <1>5, <1>7, <1>9
  <2>13. FramesInv'
    BY <1>2, <1>6, <1>7, <1>9, <2>11, <2>12 DEF FramesInv
  <2> QED
    BY <2>13, <1>5
<1> QED
  BY <1>3, <1>8, <1>9

LEMMA LinesScanInvalid == LinesInvs /\ ScanInvalid => LinesInv' /\ FramesInv'
<1> SUFFICES ASSUME LinesInvs, ScanInvalid PROVE LinesInv' /\ FramesInv'
  OBVIOUS
<1> USE DEF caller, external
<1>1. TypesInv /\ ReaderInv /\ StreamInv /\ LinesInv /\ FramesInv
  BY DEF LinesInvs
<1>2. /\ Scan /\ reader = "invalid" /\ left \in 1..2 /\ left' = left - 1
      /\ UNCHANGED <<client, call, batch, result, subprocess, requests, writing, answers, cur, frames>>
      /\ client \in {"writing", "waiting"} /\ done = << >>
  BY <1>1 DEF ScanInvalid, ReaderInv, TypesInv
<1>3. \/ left = 1 /\ reader' = "gone" /\ done' = <<"nil">>
      \/ left # 1 /\ reader' = "invalid" /\ done' = done
  BY <1>2 DEF ScanInvalid, Finish
<1>4. Len(Stream') <= left' /\ Len(Stream') \in Nat /\ (Len(Stream') = 0 => Stream' = << >>)
  <2>1. Stream \in Seq(FrameLines) /\ Len(Stream) <= left
    BY <1>1, <1>2, StreamType DEF LinesInv
  <2>2. CASE Stream = << >> /\ Stream' = << >>
    BY <2>2, <1>2
  <2>3. CASE Stream # << >> /\ Stream' = Tail(Stream)
    <3>1. Tail(Stream) \in Seq(FrameLines) /\ Len(Tail(Stream)) = Len(Stream) - 1 /\ Len(Stream) \in Nat
      BY <2>1, <2>3, HeadTailProperties, LenProperties
    <3>2. Len(Tail(Stream)) \in Nat /\ (Len(Tail(Stream)) = 0 => Tail(Stream) = << >>)
      BY <3>1, EmptySeq, LenProperties
    <3> QED
      BY <2>1, <2>3, <3>1, <3>2, <1>2
  <2> QED
    BY <2>2, <2>3, <1>1, <1>2, ScanReads
<1>5. left = 1 => Stream' = << >>
  BY <1>2, <1>4
<1>6. LinesInv'
  <2>1. reader' \in {"gone", "invalid"} /\ (reader' = "invalid" => Len(Stream') <= left')
    BY <1>3, <1>4
  <2>2. done' = <<"nil">> => Stream' = << >>
    <3>1. << >> # <<"nil">>
      BY OneResult
    <3>2. CASE left = 1
      BY <3>2, <1>5
    <3>3. CASE left # 1
      BY <3>1, <3>3, <1>2, <1>3
    <3> QED
      BY <3>2, <3>3
  <2>3. /\ subprocess' = "dead" => requests' = << >> /\ writing' = << >>
        /\ client' = "writing" => answers' = << >>
        /\ client' # "idle"
    BY <1>1, <1>2 DEF LinesInv
  <2> QED
    BY <2>1, <2>2, <2>3 DEF LinesInv, Looking
<1>7. FramesInv'
  <2>1. Len(answers) = batch /\ Gathered(call, answers, batch, frames, subprocess = "dead")
    <3>1. GotEnd
      BY <1>2 DEF GotEnd
    <3> QED
      BY <3>1, <1>1 DEF FramesInv
  <2>2. reader' \notin {"first", "pc", "fn", "loc"}
    BY <1>3
  <2>3. Len(answers') = batch' /\ Gathered(call', answers', batch', frames', subprocess' = "dead")
    BY <2>1, <1>2
  <2> QED
    BY <2>2, <2>3 DEF FramesInv
<1> QED
  BY <1>6, <1>7

-----------------------------------------------------------------------------
(* The steps of the subprocess. *)

(* An answer behind the lines on their way, whose last ends the one before *)
(* it.                                                                     *)
LEMMA NextAnswer ==
    ASSUME NEW c, NEW b \in Nat, NEW A \in Seq(Answers), NEW B \in Seq(Answers), Grown(A, B),
           NEW s \in Seq(FrameLines), Chained(c, b, A, s),
           NEW t \in Seq(FrameLines), Chained(c, b, B, t), t # << >>, t[1].kind = "addr",
           s # << >> => Ended(A, s[Len(s)]) /\ Ord(b, t[1].pc) = Ord(b, s[Len(s)].pc) + 1
    PROVE  /\ Chained(c, b, B, s \o t) /\ s \o t # << >>
           /\ (s \o t)[1] = IF s = << >> THEN t[1] ELSE s[1]
           /\ (s \o t)[Len(s \o t)] = t[Len(t)]
<1>1. Chained(c, b, B, s)
  BY StillChained
<1>2. s # << >> => Follows(b, B, s[Len(s)], t[1])
  <2> SUFFICES ASSUME s # << >> PROVE Follows(b, B, s[Len(s)], t[1])
    OBVIOUS
  <2>1. Len(s) \in 1..Len(s)
    BY EmptySeq, LenProperties
  <2>2. OfCall(c, A, s[Len(s)])
    BY <2>1 DEF Chained
  <2>3. Ended(B, s[Len(s)])
    BY <2>2, StillFollows
  <2> QED
    BY <2>3 DEF Follows
<1> QED
  BY <1>1, <1>2, ConcatChained

(* The requests r are of the call c, the next one is to the pc after those *)
(* answered.                                                               *)
Requested(c, b, A, r) ==
    /\ Head(r) \in PCs /\ Tail(r) \in Seq(PCs) /\ Len(Tail(r)) = Len(r) - 1
    /\ Head(r)[1] = c /\ \A i \in 1..Len(Tail(r)) : Tail(r)[i][1] = c
    /\ Len(r) \in 1..(b + 1) /\ (Tail(r) = << >> <=> Len(r) = 1)
    /\ Ord(b, Head(r)) = b + 2 - Len(r) /\ Len(A) = b + 1 - Len(r)
    /\ Head(r)[2] = 0 => Len(r) = 1
    /\ Head(r)[2] # 0 => Len(r) # 1 /\ Head(r)[2] = Len(A) + 1 /\ Len(A) + 1 <= b

LEMMA NextRequest ==
    ASSUME NEW c, NEW b \in Nat, NEW A \in Seq(Answers), NEW r \in Seq(PCs), r # << >>,
           NEW l, AnsweredTo(c, b, A, r, l), NEW x \in Nat, NEW s, InStep(b, r, s, x)
    PROVE  Requested(c, b, A, r)
<1>1. /\ Head(r) = r[1] /\ Head(r) \in PCs /\ Tail(r) \in Seq(PCs) /\ Len(Tail(r)) = Len(r) - 1
      /\ \A i \in 1..Len(Tail(r)) : Tail(r)[i] = r[i + 1]
      /\ Len(r) \in Nat \ {0} /\ (Tail(r) = << >> <=> Len(Tail(r)) = 0)
  <2>1. Len(r) \in Nat \ {0}
    BY EmptySeq, LenProperties
  <2>2. /\ Head(r) = r[1] /\ Head(r) \in PCs /\ Tail(r) \in Seq(PCs) /\ Len(Tail(r)) = Len(r) - 1
        /\ \A i \in 1..Len(Tail(r)) : Tail(r)[i] = r[i + 1]
    BY HeadTailProperties, <2>1
  <2>3. Tail(r) = << >> <=> Len(Tail(r)) = 0
    BY <2>2, EmptySeq
  <2> QED
    BY <2>1, <2>2, <2>3
<1>2. Len(A) \in Nat /\ Len(A) = b + 1 - Len(r) /\ Len(r) <= b + 1
  <2>1. Len(A) = b + 1 - Len(r)
    BY Zenon DEF AnsweredTo
  <2>2. Len(A) \in Nat
    BY LenProperties
  <2> QED
    BY <2>1, <2>2, <1>1
<1>3. Head(r)[1] = c /\ \A i \in 1..Len(Tail(r)) : Tail(r)[i][1] = c
  <2>1. \A i \in 1..Len(r) : r[i][1] = c
    BY DEF AnsweredTo
  <2>2. 1 \in 1..Len(r) /\ \A i \in 1..Len(Tail(r)) : i + 1 \in 1..Len(r)
    BY <1>1
  <2> QED
    BY <2>1, <2>2, <1>1, Zenon
<1>4. Ord(b, Head(r)) = b + 2 - Len(r) /\ Head(r)[2] <= b /\ Head(r)[2] \in Nat
  <2>1. Head(r)[2] \in Nat
    BY <1>1, OrdType
  <2>2. Ord(b, r[1]) = b + 1 - Len(r) + 1 /\ r[1][2] <= b
    BY <1>1 DEF InStep
  <2> QED
    BY <2>1, <2>2, <1>1
<1>5. CASE Head(r)[2] = 0
  <2>1. Len(r) = 1
    BY <1>1, <1>4, <1>5 DEF Ord
  <2> QED
    BY <2>1, <1>1, <1>2, <1>3, <1>4, <1>5 DEF Requested
<1>6. CASE Head(r)[2] # 0
  <2>1. Head(r)[2] = b + 2 - Len(r)
    BY <1>4, <1>6, Zenon DEF Ord
  <2> QED
    BY <2>1, <1>1, <1>2, <1>3, <1>4, <1>6 DEF Requested
<1> QED
  BY <1>5, <1>6

(* The answers after the one to the k-th pc; to the invalid pc, k is 0.    *)
Answering(A, kinds, k, B) ==
    /\ B \in Seq(Answers) /\ Grown(A, B) /\ k \in 0..Len(B)
    /\ IF k = 0 THEN Len(kinds) = 1 ELSE B[k] = kinds
    /\ Len(B) = IF k = 0 THEN Len(A) ELSE Len(A) + 1

LEMMA OneMore ==
    ASSUME NEW A \in Seq(Answers), NEW kinds \in Answers, NEW k \in Nat, k # 0 => k = Len(A) + 1,
           k = 0 => Len(kinds) = 1
    PROVE  Answering(A, kinds, k, IF k = 0 THEN A ELSE Append(A, kinds))
<1>1. /\ Append(A, kinds) \in Seq(Answers) /\ Len(Append(A, kinds)) = Len(A) + 1
      /\ Append(A, kinds)[Len(A) + 1] = kinds
      /\ Grown(A, Append(A, kinds)) /\ Grown(A, A) /\ Len(A) \in Nat
  BY AppendGrows, LenProperties
<1>2. CASE k = 0
  BY <1>1, <1>2 DEF Answering
<1>3. CASE k # 0
  BY <1>1, <1>3 DEF Answering
<1> QED
  BY <1>2, <1>3

(* The reader, which is at w and has the line l, can read s.               *)
Readable(w, c, b, A, l, s) ==
    IF w = "first" THEN Begins(b, s) ELSE Continues(c, b, A, l, s)

(* With n requests left, the line l is the last of an answer.              *)
EndsAt(b, A, n, l) == n # b + 1 => Ended(A, l) /\ Ord(b, l.pc) = b + 1 - n

(* The lines u end with the answer t.                                      *)
Kept(w, c, b, B, l, u, t) ==
    Chained(c, b, B, u) /\ u # << >> /\ LastOf(l, u) = t[Len(t)] /\ Readable(w, c, b, B, l, u)

(* The lines after the answer t, with n requests before it.                *)
LEMMA AnswerKeeps ==
    ASSUME NEW c, NEW b \in Nat, NEW A \in Seq(Answers), NEW B \in Seq(Answers), Grown(A, B),
           NEW l \in {EOF} \cup FrameLines, NEW s \in Seq(FrameLines), Chained(c, b, A, s),
           NEW w, Readable(w, c, b, A, l, s),
           NEW n \in Nat, EndsAt(b, A, n, LastOf(l, s)), n = b + 1 <=> w = "first" /\ s = << >>,
           NEW t \in Seq(FrameLines), t # << >>, t[1].kind = "addr", Chained(c, b, B, t),
           Ord(b, t[1].pc) = b + 2 - n
    PROVE  Kept(w, c, b, B, l, s \o t, t)
<1> DEFINE u == s \o t
<1>1. n # b + 1 => Ended(A, LastOf(l, s)) /\ Ord(b, t[1].pc) = Ord(b, LastOf(l, s).pc) + 1
  BY DEF EndsAt
<1>2. s # << >> => n # b + 1 /\ LastOf(l, s) = s[Len(s)]
  BY DEF LastOf
<1>3. Chained(c, b, B, u) /\ u # << >> /\ u[1] = (IF s = << >> THEN t[1] ELSE s[1]) /\ u[Len(u)] = t[Len(t)]
  <2>1. s # << >> => Ended(A, s[Len(s)]) /\ Ord(b, t[1].pc) = Ord(b, s[Len(s)].pc) + 1
    BY <1>1, <1>2
  <2> QED
    BY <2>1, NextAnswer
<1> HIDE DEF u
<1>4. ASSUME w = "first" PROVE Begins(b, u)
  <2>1. CASE s = << >>
    <3>1. Ord(b, t[1].pc) = 1
      BY <1>4, <2>1
    <3> QED
      BY <2>1, <3>1, <1>3 DEF Begins
  <2>2. CASE s # << >>
    <3>1. Begins(b, s)
      BY <1>4 DEF Readable
    <3> QED
      BY <2>2, <3>1, <1>3 DEF Begins
  <2> QED
    BY <2>1, <2>2
<1>5. ASSUME w # "first" PROVE Continues(c, b, B, l, u)
  <2>1. Continues(c, b, A, l, s)
    BY <1>5 DEF Readable
  <2>2. l # EOF /\ Follows(b, A, l, u[1])
    <3>1. CASE s = << >>
      <4>1. Ended(A, l) /\ Ord(b, t[1].pc) = Ord(b, l.pc) + 1
        BY <1>1, <1>5, <3>1 DEF LastOf
      <4>2. l # EOF
        BY <4>1, KindsType, LineType DEF Ended
      <4> QED
        BY <4>1, <4>2, <3>1, <1>3 DEF Follows
    <3>2. CASE s # << >>
      BY <3>2, <2>1, <1>3 DEF Continues
    <3> QED
      BY <3>1, <3>2
  <2>3. OfCall(c, A, l)
    BY <2>1, <2>2 DEF Continues
  <2>4. OfCall(c, B, l) /\ Follows(b, B, l, u[1])
    BY <2>2, <2>3, StillFollows
  <2> QED
    BY <2>2, <2>4 DEF Continues
<1>6. LastOf(l, u) = t[Len(t)]
  BY <1>3 DEF LastOf
<1>7. Readable(w, c, b, B, l, u)
  BY <1>4, <1>5 DEF Readable
<1> QED
  BY <1>3, <1>6, <1>7 DEF u, Kept

LEMMA LinesAnswer == LinesInvs /\ Answer => LinesInv' /\ FramesInv'
<1> SUFFICES ASSUME LinesInvs, Answer PROVE LinesInv' /\ FramesInv'
  OBVIOUS
<1> USE DEF caller, reading
<1>1. TypesInv /\ ReaderInv /\ StreamInv /\ LinesInv /\ FramesInv
  BY DEF LinesInvs
<1>2. /\ UNCHANGED <<client, call, batch, result, done, reader, token, left, cur, frames, subprocess, output>>
      /\ subprocess = "up" /\ requests # << >> /\ writing = << >> /\ requests' = Tail(requests)
      /\ call' = call /\ batch \in Nat /\ batch' = batch
  BY <1>1, BoundsType DEF Answer, TypesInv
<1>3. Nothing => FALSE
  BY <1>2 DEF Nothing
<1>4. client # "writing" /\ (client = "waiting" => reader # "invalid" /\ done # <<"nil">>)
      /\ ~Succeeded /\ (client = "idle" => result = "error")
  BY <1>1, <1>2, <1>3 DEF StreamInv, Succeeded, TypesInv
<1>5. client # "waiting" => reader = "gone" /\ done = << >>
  BY <1>1, <1>4 DEF ReaderInv, TypesInv
<1>6. reader # "invalid" /\ done # <<"nil">>
  <2>1. << >> # <<"nil">>
    OBVIOUS
  <2>2. CASE client = "waiting"
    BY <2>2, <1>4
  <2>3. CASE client # "waiting"
    BY <2>1, <2>3, <1>5
  <2> QED
    BY <2>2, <2>3
<1>7. ~GotEnd' /\ (Looking' <=> Looking) /\ Current' = Current
  <2>1. ~Succeeded'
    BY <1>2, <1>4 DEF Succeeded
  <2> QED
    BY <2>1, <1>2, <1>6 DEF GotEnd, Looking, Current
<1>8. CASE ~Looking
  <2>1. LinesInv'
    BY <1>2, <1>4, <1>6, <1>7, <1>8 DEF LinesInv
  <2>2. FramesInv'
    BY <1>2, <1>7, <1>8 DEF FramesInv, Looking
  <2> QED
    BY <2>1, <2>2
<1>9. CASE Looking
  <2>1. client = "waiting" /\ Stream \in Seq(FrameLines) /\ Expected \in Nat \ {0} /\ left \in Nat /\ left <= batch
    <3>1. client = "waiting"
      BY <1>5, <1>9 DEF Looking
    <3>2. left \in Nat /\ left <= batch
      BY <1>1, <1>2, <1>9, BoundsType DEF TypesInv, StreamInv, Looking
    <3> QED
      BY <3>1, <3>2, <1>1, <1>9, StreamType, ExpectedType
  <2>2. PICK kinds \in Answers :
          /\ writing' = AnswerLines(Head(requests), kinds)
          /\ answers' = IF Head(requests)[2] = 0 THEN answers ELSE Append(answers, kinds)
          /\ Head(requests)[2] = 0 => Len(kinds) = 1
    <3>1. PICK n \in 1..(IF Head(requests)[2] = 0 THEN 1 ELSE MaxFrames) :
            \E kinds \in [1..n -> IF Head(requests)[2] = 0 THEN {"unknown"} ELSE Kinds] :
              /\ writing' = AnswerLines(Head(requests), kinds)
              /\ answers' = IF Head(requests)[2] = 0 THEN answers ELSE Append(answers, kinds)
      BY DEF Answer
    <3>2. PICK kinds \in [1..n -> IF Head(requests)[2] = 0 THEN {"unknown"} ELSE Kinds] :
              /\ writing' = AnswerLines(Head(requests), kinds)
              /\ answers' = IF Head(requests)[2] = 0 THEN answers ELSE Append(answers, kinds)
      BY <3>1
    <3>3. n \in 1..MaxFrames /\ (Head(requests)[2] = 0 => n = 1)
      BY BoundsType
    <3>4. kinds \in [1..n -> Kinds]
      BY DEF Kinds
    <3>5. kinds \in Answers
      BY <3>3, <3>4 DEF Answers
    <3>6. Len(kinds) = n
      BY <3>3, <3>4, BoundsType
    <3> QED
      BY <3>2, <3>3, <3>5, <3>6
  <2> DEFINE q == Head(requests)
             t == AnswerLines(q, kinds)
             n == Len(requests)
  <2>3. /\ requests \in Seq(PCs) /\ answers \in Seq(Answers) /\ token \in {EOF} \cup FrameLines
        /\ AnsweredTo(call, batch, answers, requests, LastOf(token, Stream))
        /\ n = batch + 1 <=> reader = "first" /\ Stream = << >>
        /\ Chained(call, batch, answers, Stream)
        /\ Readable(reader, call, batch, answers, token, Stream)
    BY <1>1, <1>2, <1>9, <2>1 DEF LinesInv, TypesInv, Readable
  <2>4. /\ q \in PCs /\ Tail(requests) \in Seq(PCs) /\ Len(Tail(requests)) = n - 1
        /\ q[1] = call /\ \A i \in 1..Len(Tail(requests)) : Tail(requests)[i][1] = call
        /\ n \in 1..(batch + 1) /\ (Tail(requests) = << >> <=> n = 1)
        /\ Ord(batch, q) = batch + 2 - n /\ Len(answers) = batch + 1 - n
        /\ q[2] = 0 => n = 1
        /\ q[2] # 0 => n # 1 /\ q[2] = Len(answers) + 1 /\ Len(answers) + 1 <= batch
    <3>1. InStep(batch, requests, Stream, Expected)
      BY <1>1, <1>2, <1>9, <2>1 DEF StreamInv, Aligned
    <3>2. Expected \in Nat
      BY <2>1
    <3>3. /\ requests \in Seq(PCs) /\ requests # << >> /\ answers \in Seq(Answers) /\ batch \in Nat
          /\ AnsweredTo(call, batch, answers, requests, LastOf(token, Stream))
      BY <1>2, <2>3
    <3> HIDE DEF n, q
    <3>4. Requested(call, batch, answers, requests)
      BY <3>1, <3>2, <3>3, NextRequest
    <3> QED
      BY <3>4 DEF n, q, Requested
  <2>5. Stream' = Stream \o t
    BY <1>1, <1>2, <2>2, ConcatEmptySeq DEF Stream, TypesInv
  <2>6. /\ answers' \in Seq(Answers) /\ Grown(answers, answers') /\ q[2] \in 0..Len(answers')
        /\ IF q[2] = 0 THEN Len(kinds) = 1 ELSE answers'[q[2]] = kinds
        /\ Len(answers') = IF q[2] = 0 THEN Len(answers) ELSE Len(answers) + 1
    <3> DEFINE k == q[2]
    <3>1. k \in Nat
      BY <1>2, <2>4, OrdType
    <3>2. (k # 0 => k = Len(answers) + 1) /\ (k = 0 => Len(kinds) = 1)
      BY <2>2, <2>4
    <3>3. answers' = IF k = 0 THEN answers ELSE Append(answers, kinds)
      BY <2>2
    <3> HIDE DEF q, k, n
    <3>4. Answering(answers, kinds, k, IF k = 0 THEN answers ELSE Append(answers, kinds))
      BY <2>3, <3>1, <3>2, OneMore
    <3>5. Answering(answers, kinds, k, answers')
      BY <3>3, <3>4
    <3> QED
      BY <3>5 DEF Answering, k
  <2>7. /\ t \in Seq(FrameLines) /\ t # << >> /\ t[1].kind = "addr" /\ t[1].pc = q
        /\ t[Len(t)].pc = q /\ Chained(call, batch, answers', t) /\ Ended(answers', t[Len(t)])
    <3>1. /\ t \in Seq(FrameLines) /\ Len(kinds) \in Nat \ {0} /\ Len(t) = 1 + 2 * Len(kinds)
          /\ \A i \in 1..Len(t) : t[i].pc = q
          /\ t[1].kind = "addr"
      BY <2>4, AnswerShape
    <3>2. Len(t) \in Nat \ {0}
      BY <3>1
    <3>3. t # << >> /\ t[1].pc = q /\ t[Len(t)].pc = q
      BY <3>1, <3>2
    <3>4. Chained(call, batch, answers', t) /\ Ended(answers', t[Len(t)])
      BY <1>2, <2>4, <2>6, AnswerIsChained
    <3> QED
      BY <3>1, <3>3, <3>4
  <2> HIDE DEF t
  <2>8. EndsAt(batch, answers, n, LastOf(token, Stream))
    BY <2>3, Zenon DEF AnsweredTo, EndsAt
  <2> HIDE DEF n, q
  <2>9. /\ Chained(call, batch, answers', Stream') /\ Stream' # << >>
        /\ LastOf(token, Stream') = t[Len(t)]
        /\ Readable(reader, call, batch, answers', token, Stream')
    <3> DEFINE B == answers'
    <3>1. n \in Nat /\ batch \in Nat /\ Ord(batch, t[1].pc) = batch + 2 - n
      BY <1>2, <2>4, <2>7
    <3>2. B \in Seq(Answers) /\ Grown(answers, B) /\ Chained(call, batch, B, t)
      BY <2>6, <2>7
    <3> HIDE DEF B
    <3>3. Kept(reader, call, batch, B, token, Stream \o t, t)
      BY <2>1, <2>3, <2>7, <2>8, <3>1, <3>2, AnswerKeeps
    <3> QED
      BY <2>5, <3>3 DEF B, Kept
  <2>10. /\ AnsweredTo(call, batch, answers', requests', LastOf(token, Stream'))
         /\ Len(requests') # batch + 1 /\ Len(answers') <= batch
    <3>1. Len(requests') = n - 1 /\ n \in Nat \ {0} /\ Len(requests') # batch + 1
      BY <1>2, <2>4
    <3>2. Len(answers') = IF requests' = << >> THEN batch ELSE batch + 1 - Len(requests')
      BY <1>2, <2>4, <2>6, <3>1
    <3>3. Ended(answers', LastOf(token, Stream')) /\ Ord(batch, LastOf(token, Stream').pc) = batch + 1 - Len(requests')
      BY <1>2, <2>4, <2>7, <2>9, <3>1
    <3>4. Len(answers') <= batch
      BY <1>2, <2>4, <2>6
    <3> QED
      BY <1>2, <2>4, <3>1, <3>2, <3>3, <3>4 DEF AnsweredTo
  <2>11. LinesInv'
    <3>1. /\ Chained(call', batch', answers', Stream') /\ Len(answers') <= batch'
          /\ IF reader' = "first" THEN Begins(batch', Stream')
             ELSE Continues(call', batch', answers', token', Stream')
          /\ AnsweredTo(call', batch', answers', requests', LastOf(token', Stream'))
          /\ ~(Len(requests') = batch' + 1) /\ Stream' # << >>
      BY <1>2, <2>9, <2>10 DEF Readable
    <3> QED
      BY <3>1, <1>2, <1>4, <1>6, <1>7, <2>1 DEF LinesInv
  <2>12. FramesInv'
    <3>1. batch - left \in Nat /\ Current = batch - left + 1
      BY <1>2, <2>1 DEF Current
    <3>2. \A fs, cut : Gathered(call, answers, batch - left, fs, cut) => Gathered(call, answers', batch - left, fs, cut)
      BY <3>1, <2>3, <2>6, StillGathered
    <3>3. reader \in {"fn", "loc"} => Current \in 1..Len(answers)
      <4> SUFFICES ASSUME reader \in {"fn", "loc"} PROVE Current \in 1..Len(answers)
        OBVIOUS
      <4>1. token.pc = <<call, Current>> /\ token # EOF
        <5>1. token.pc = <<call, Current>> /\ token.kind # "eof"
          BY <1>1, KindsType DEF FramesInv
        <5> QED
          BY <5>1, LineType
      <4>2. OfCall(call, answers, token)
        BY <4>1, <2>3 DEF Continues, Readable
      <4>3. token.pc[2] \in 0..Len(answers) /\ token.pc[2] = Current
        BY <4>1, <4>2 DEF OfCall
      <4> QED
        BY <4>3, <3>1
    <3>4. reader \in {"fn", "loc"} =>
            \A fs, p : Collected(call, answers, Current, fs, p) => Collected(call, answers', Current, fs, p)
      BY <3>3, <2>3, <2>6, StillCollected
    <3>5. /\ reader = "pc" => Gathered(call, answers', batch - left, frames, token = EOF)
          /\ reader \in {"fn", "loc"} => Gathered(call, answers', batch - left, frames, FALSE)
          /\ reader = "fn" => Collected(call, answers', Current, cur, token.j)
          /\ reader = "loc" => Collected(call, answers', Current, cur, token.j - 1)
      <4>1. /\ reader = "pc" => Gathered(call, answers, batch - left, frames, token = EOF)
            /\ reader \in {"fn", "loc"} => Gathered(call, answers, batch - left, frames, FALSE)
            /\ reader = "fn" => Collected(call, answers, Current, cur, token.j)
            /\ reader = "loc" => Collected(call, answers, Current, cur, token.j - 1)
        BY <1>1 DEF FramesInv
      <4> QED
        BY <4>1, <3>2, <3>4
    <3>6. /\ reader' = "pc" => Gathered(call', answers', batch' - left', frames', token' = EOF)
          /\ reader' \in {"fn", "loc"} => Gathered(call', answers', batch' - left', frames', FALSE)
          /\ reader' = "fn" => Collected(call', answers', Current', cur', token'.j)
          /\ reader' = "loc" => Collected(call', answers', Current', cur', token'.j - 1)
      BY <3>5, <1>2, <1>7
    <3>7. /\ reader' = "first" => cur' = << >> /\ frames' = << >>
          /\ reader' = "pc" =>
              /\ cur' = << >>
              /\ \/ token' = EOF /\ subprocess' = "dead"
                 \/ token'.kind = "addr" /\ Ord(batch', token'.pc) = Current'
          /\ reader' \in {"fn", "loc"} => token'.pc = <<call', Current'>>
          /\ reader' = "fn" => token'.kind \in {"addr", "known", "unknown"}
          /\ reader' = "loc" => token'.kind = "fn"
      BY <1>1, <1>2, <1>7 DEF FramesInv
    <3> QED
      BY <3>6, <3>7, <1>7 DEF FramesInv
  <2> QED
    BY <2>11, <2>12
<1> QED
  BY <1>8, <1>9

LEMMA LinesWriteLine == LinesInvs /\ WriteLine => LinesInv' /\ FramesInv'
<1> SUFFICES ASSUME LinesInvs, WriteLine PROVE LinesInv' /\ FramesInv'
  OBVIOUS
<1> USE DEF caller, reading
<1>1. TypesInv /\ ReaderInv /\ StreamInv /\ LinesInv /\ FramesInv
  BY DEF LinesInvs
<1>2. /\ UNCHANGED <<client, call, batch, result, done, reader, token, left, cur, frames,
                     subprocess, requests, answers>>
      /\ subprocess = "up"
      /\ (Looking' <=> Looking) /\ (GotEnd' <=> GotEnd) /\ Current' = Current
  BY DEF WriteLine, Looking, GotEnd, Succeeded, Current
<1>3. Stream' = Stream
  BY <1>1, MoveLine DEF WriteLine, TypesInv, Stream
<1>4. LinesInv'
  BY <1>1, <1>2, <1>3 DEF LinesInv
<1>5. FramesInv'
  BY <1>1, <1>2 DEF FramesInv
<1> QED
  BY <1>4, <1>5

(* Of the lines on their way, those not written yet are lost.              *)
LEMMA LinesDie == LinesInvs /\ Die => LinesInv' /\ FramesInv'
<1> SUFFICES ASSUME LinesInvs, Die PROVE LinesInv' /\ FramesInv'
  OBVIOUS
<1> USE DEF caller, reading
<1>1. TypesInv /\ ReaderInv /\ StreamInv /\ LinesInv /\ FramesInv
  BY DEF LinesInvs
<1>2. /\ UNCHANGED <<client, call, batch, result, done, reader, token, left, cur, frames, answers>>
      /\ subprocess = "up" /\ subprocess' = "dead" /\ requests' = << >> /\ writing' = << >>
      /\ output' = output
      /\ (Looking' <=> Looking) /\ (GotEnd' <=> GotEnd) /\ Current' = Current
  BY DEF Die, Looking, GotEnd, Succeeded, Current
<1>3. /\ output \in Seq(FrameLines) /\ writing \in Seq(FrameLines) /\ Stream = output \o writing
      /\ Len(output) \in Nat /\ Len(Stream) \in Nat /\ left \in Int
  BY <1>1, StreamType, LenProperties, BoundsType DEF TypesInv, Stream
<1>4. Stream' = output
  BY <1>2, <1>3, ConcatEmptySeq DEF Stream
<1>5. /\ Chained(call, batch, answers, Stream) => Chained(call, batch, answers, output)
      /\ Begins(batch, Stream) => Begins(batch, output)
      /\ Continues(call, batch, answers, token, Stream) => Continues(call, batch, answers, token, output)
      /\ Len(output) <= Len(Stream) /\ (Stream = << >> => output = << >>)
  BY <1>3, ChainFront
<1>6. LinesInv'
  <2>1. /\ client' = "writing" => answers' = << >>
        /\ reader' = "invalid" => Len(Stream') <= left'
        /\ done' = <<"nil">> => Stream' = << >>
        /\ client' = "idle" /\ result' # "error" => Stream' = << >>
    BY <1>1, <1>2, <1>3, <1>4, <1>5 DEF LinesInv
  <2>2. Looking' => /\ Len(answers') <= batch'
                    /\ Chained(call', batch', answers', Stream')
                    /\ IF reader' = "first" THEN Begins(batch', Stream')
                       ELSE Continues(call', batch', answers', token', Stream')
    BY <1>1, <1>2, <1>4, <1>5 DEF LinesInv
  <2> QED
    BY <2>1, <2>2, <1>2 DEF LinesInv
<1>7. FramesInv'
  <2>1. GotEnd => Len(answers) = batch /\ Gathered(call, answers, batch, frames, TRUE)
    BY <1>1, <1>2, GatheredCut DEF FramesInv
  <2>2. GotEnd' => Len(answers') = batch' /\ Gathered(call', answers', batch', frames', subprocess' = "dead")
    BY <2>1, <1>2
  <2>3. reader = "pc" => token.kind = "addr" /\ Ord(batch, token.pc) = Current
    BY <1>1, <1>2 DEF FramesInv
  <2> QED
    BY <2>2, <2>3, <1>1, <1>2 DEF FramesInv
<1> QED
  BY <1>6, <1>7

LEMMA LinesStep == LinesInvs /\ [Next]_vars => LinesInv' /\ FramesInv'
<1>1. LinesInvs /\ UNCHANGED vars => LinesInv' /\ FramesInv'
  <2> SUFFICES ASSUME LinesInvs, UNCHANGED vars PROVE LinesInv' /\ FramesInv'
    OBVIOUS
  <2>1. /\ UNCHANGED <<client, call, batch, result, done, reader, token, left, cur, frames,
                       subprocess, requests, output, writing, answers>>
        /\ Stream' = Stream /\ (Looking' <=> Looking) /\ (GotEnd' <=> GotEnd) /\ Current' = Current
    BY DEF vars, caller, reading, external, Stream, Looking, GotEnd, Succeeded, Current
  <2>2. LinesInv'
    BY <2>1 DEF LinesInvs, LinesInv
  <2>3. FramesInv'
    BY <2>1 DEF LinesInvs, FramesInv
  <2> QED
    BY <2>2, <2>3
<1>2. LinesInvs /\ Reader => LinesInv' /\ FramesInv'
  BY LinesReaderFirst, LinesNextPC, LinesScanFunc, LinesScanLocation, LinesScanInvalid DEF Reader
<1>3. LinesInvs /\ (Subprocess \/ Die) => LinesInv' /\ FramesInv'
  BY LinesAnswer, LinesWriteLine, LinesDie DEF Subprocess
<1> QED
  BY <1>1, <1>2, <1>3, LinesClient DEF Next

LEMMA LinesAlways == Spec => []LinesInvs
<1>1. Init => LinesInvs
  BY TypesInit, ReaderInit, StreamInit, LinesInit DEF LinesInvs
<1>2. LinesInvs /\ [Next]_vars => LinesInvs'
  <2> SUFFICES ASSUME LinesInvs, [Next]_vars PROVE LinesInvs'
    OBVIOUS
  <2>1. TypesInv /\ ReaderInv /\ StreamInv
    BY DEF LinesInvs
  <2>2. TypesInv' /\ ReaderInv' /\ StreamInv'
    BY <2>1, TypesStep, ReaderStep, StreamStep
  <2>3. LinesInv' /\ FramesInv'
    BY LinesStep
  <2> QED
    BY <2>2, <2>3 DEF LinesInvs
<1> QED
  BY <1>1, <1>2, PTL DEF Spec

(* The frames symbolize returns without an error are those the subprocess  *)
(* answered to the pcs of this call and no other, in the order of the pcs  *)
(* and without the unknown ones: parse, which takes the last line scanned  *)
(* for the address of the next pc, never takes a line of another pc or     *)
(* call for it.  Only the frames of the last pc may be cut short, and only *)
(* when the subprocess died.                                               *)
THEOREM FramesAreOwn == Spec => []FramesAreAnswers
<1>1. LinesInvs => FramesAreAnswers
  <2> SUFFICES ASSUME LinesInvs, Succeeded PROVE FramesAreAnswers
    BY DEF FramesAreAnswers
  <2>1. Len(answers) = batch /\ Gathered(call, answers, batch, frames, subprocess = "dead")
    BY DEF LinesInvs, FramesInv, GotEnd
  <2> QED
    BY <2>1 DEF FramesAreAnswers, Gathered, Answered, InOrder, AllCame
<1> QED
  BY <1>1, LinesAlways, PTL

(* Of the frames symbolize returns for a pc, just the last is not inlined, *)
(* wherever parse meets the end of the pc's lines.                         *)
THEOREM LastIsOutermost == Spec => []OneOuterFrame
<1>1. LinesInvs => OneOuterFrame
  <2> SUFFICES ASSUME LinesInvs, Succeeded PROVE OneOuterFrame
    BY DEF OneOuterFrame
  <2>1. LastIsOuter(frames)
    BY DEF LinesInvs, FramesInv, GotEnd, Gathered
  <2> QED
    BY <2>1 DEF OneOuterFrame, LastIsOuter
<1> QED
  BY <1>1, LinesAlways, PTL

-----------------------------------------------------------------------------
(* Why a call returns.  Somebody can go on, and what is left to do is a    *)
(* number that every step of the call makes less.                          *)

InCall == client \in {"writing", "waiting"}

(* The caller has pcs to write or a result to take, the reader an address  *)
(* to look at, a line or the end of them to scan, or the subprocess a line *)
(* to write that fits or a pc to answer.                                   *)
GoesOn ==
    \/ client = "writing"
    \/ done # << >>
    \/ reader = "pc"
    \/ reader # "gone" /\ CanScan
    \/ subprocess = "up" /\ writing # << >> /\ Len(output) < PipeCap
    \/ subprocess = "up" /\ writing = << >> /\ requests # << >>

(* What the reader can still do without another line. *)
PlaceWork ==
    CASE reader = "invalid" -> left
      [] reader = "pc"      -> IF token.kind = "addr" THEN 5 ELSE 3
      [] reader = "fn"      -> 4
      [] reader = "loc"     -> 1
      [] reader = "first"   -> 1
      [] OTHER              -> 0

(* An answer of the most frames, and its request. *)
AnswerWork == 6 * (1 + 2 * MaxFrames) + 1

Remaining ==
    (IF client = "writing" THEN AnswerWork * (batch + 1) + 1 ELSE AnswerWork * Len(requests))
        + 6 * Len(writing) + 5 * Len(output) + PlaceWork + (IF subprocess = "up" THEN 1 ELSE 0)

(* A call never hangs: the caller, the reader and the subprocess do not    *)
(* wait for each other (symbolizer.go:87), whatever the pipe holds; so the *)
(* reader never waits for a line when the subprocess has nothing to answer *)
(* any more.                                                               *)
THEOREM CallsNeverHang == Spec => [](InCall => GoesOn)
<1>1. ASSUME TypesInv, ReaderInv, StreamInv, InCall, ~GoesOn PROVE FALSE
  <2>1. client = "waiting" /\ reader \notin {"gone", "pc"} /\ ~CanScan
    BY <1>1 DEF InCall, GoesOn, ReaderInv
  <2>2. output = << >> /\ subprocess = "up"
    BY <1>1, <2>1 DEF CanScan, TypesInv, StreamInv
  <2>3. writing = << >> /\ requests = << >>
    BY <1>1, <2>2, EmptySeq, BoundsType DEF GoesOn
  <2>4. Len(Stream) = 0
    BY <2>2, <2>3, EmptySeq, ConcatEmptySeq, <1>1 DEF Stream, TypesInv
  <2>5. CASE reader = "invalid"
    BY <1>1, <2>1, <2>2, <2>4, <2>5 DEF StreamInv, TypesInv
  <2>6. CASE reader # "invalid"
    <3>1. Looking
      BY <1>1, <2>1, <2>6 DEF Looking, TypesInv
    <3>2. Aligned(batch, requests, Stream, Expected)
      BY <1>1, <2>1, <2>2, <3>1 DEF StreamInv
    <3>3. Len(Stream) = 2 \/ Len(Stream) >= 3
      BY <2>3, <3>2 DEF Aligned, Ends
    <3> QED
      BY <2>4, <3>3
  <2> QED
    BY <2>5, <2>6
<1> QED
  BY <1>1, TypesInit, TypesStep, ReaderInit, ReaderStep, StreamInit, StreamStep, PTL DEF Spec

LEMMA WorkType ==
    /\ AnswerWork \in Nat
    /\ \A n \in Nat : AnswerWork * n \in Nat /\ AnswerWork * (n + 1) = AnswerWork * n + AnswerWork
<1>1. AnswerWork \in Nat
  BY BoundsType DEF AnswerWork
<1> HIDE DEF AnswerWork
<1> QED
  BY <1>1

LEMMA RemainingType ==
    ASSUME TypesInv
    PROVE  /\ Remaining \in Nat /\ PlaceWork \in 0..5
           /\ batch \in Nat /\ Len(requests) \in Nat /\ Len(writing) \in Nat /\ Len(output) \in Nat
<1>1. batch \in Nat /\ Len(requests) \in Nat /\ Len(writing) \in Nat /\ Len(output) \in Nat
  BY BoundsType, LenProperties DEF TypesInv
<1>2. PlaceWork \in 0..5
  BY DEF PlaceWork, TypesInv
<1>3. AnswerWork * (batch + 1) \in Nat /\ AnswerWork * Len(requests) \in Nat
  BY <1>1, WorkType
<1> QED
  BY <1>1, <1>2, <1>3 DEF Remaining

(* A line the reader scans, or the end of them. *)
LEMMA ScanWork ==
    ASSUME TypesInv, Scan
    PROVE  \/ NextToken.kind = "eof" /\ Len(output') = Len(output)
           \/ NextToken.kind # "eof" /\ Len(output') = Len(output) - 1
<1>1. CASE output = << >>
  BY <1>1 DEF Scan, NextToken, EOF
<1>2. CASE output # << >>
  BY <1>2, ScanType, HeadTailProperties, LineType DEF TypesInv
<1> QED
  BY <1>1, <1>2

LEMMA ReaderWorks == ASSUME TypesInv, ReaderInv, Reader PROVE Remaining' < Remaining
<1>1. UNCHANGED <<client, batch, requests, writing, subprocess>>
  BY DEF Reader, ScanFirst, NextPC, ScanFunc, ScanLocation, ScanInvalid, caller, external
<1>2. /\ AnswerWork * (batch + 1) \in Nat /\ AnswerWork * Len(requests) \in Nat
      /\ Len(writing) \in Nat /\ Len(output) \in Nat /\ PlaceWork \in 0..5
  BY WorkType, RemainingType
<1>3. PlaceWork' \in 0..5 /\ Len(output') \in Nat
  <2>1. TypesInv'
    BY ReaderTypes
  <2>2. Len(output') \in Nat
    BY <2>1, LenProperties DEF TypesInv
  <2> QED
    BY <2>1, <2>2 DEF PlaceWork, TypesInv
<1>4. 5 * Len(output') + PlaceWork' < 5 * Len(output) + PlaceWork
  <2>1. CASE ScanFirst
    <3>1. /\ reader = "first" /\ Scan
          /\ (NextToken = EOF => reader' = "gone") /\ (NextToken # EOF => reader' = "pc")
      BY <2>1 DEF ScanFirst, Finish
    <3>2. NextToken.kind = "eof" => NextToken = EOF
      BY <3>1, ScanType, LineType
    <3>3. PlaceWork = 1 /\ (reader' = "gone" => PlaceWork' = 0)
      BY <3>1 DEF PlaceWork
    <3> QED
      BY <3>1, <3>2, <3>3, <1>2, <1>3, ScanWork
  <2>2. CASE NextPC
    <3>1. reader = "pc" /\ output' = output /\ token' = token
      BY <2>2 DEF NextPC
    <3>2. \/ reader' = "invalid" /\ left' = 2
          \/ reader' = "fn" /\ token.kind = "addr"
          \/ reader' = "gone"
      BY <2>2 DEF NextPC, Finish, LinesOfInvalidPC
    <3>3. PlaceWork' < PlaceWork
      BY <3>1, <3>2 DEF PlaceWork
    <3> QED
      BY <3>1, <3>3, <1>2, <1>3
  <2>3. CASE ScanFunc
    <3>1. reader = "fn" /\ Scan /\ token' = NextToken /\ reader' \in {"pc", "loc"}
          /\ (NextToken.kind = "eof" => reader' = "pc")
      BY <2>3, ScanType DEF ScanFunc, EndOfPC
    <3>2. PlaceWork = 4 /\ (NextToken.kind = "eof" => PlaceWork' = 3)
      BY <3>1 DEF PlaceWork
    <3> QED
      BY <3>1, <3>2, <1>2, <1>3, ScanWork
  <2>4. CASE ScanLocation
    <3>1. reader = "loc" /\ Scan /\ reader' \in {"fn", "gone"}
          /\ (NextToken.kind = "eof" => reader' = "gone")
      BY <2>4 DEF ScanLocation, Finish
    <3>2. PlaceWork = 1 /\ (reader' = "gone" => PlaceWork' = 0) /\ PlaceWork' \in {0, 4}
      BY <3>1 DEF PlaceWork
    <3> QED
      BY <3>1, <3>2, <1>2, <1>3, ScanWork
  <2>5. CASE ScanInvalid
    <3>1. reader = "invalid" /\ Scan /\ left \in 1..2 /\ left' = left - 1
          /\ (left = 1 => reader' = "gone") /\ (left # 1 => reader' = "invalid")
      BY <2>5 DEF ScanInvalid, Finish, TypesInv
    <3>2. PlaceWork' = PlaceWork - 1
      BY <3>1 DEF PlaceWork
    <3> QED
      BY <3>1, <3>2, <1>2, <1>3, ScanWork
  <2> QED
    BY <2>1, <2>2, <2>3, <2>4, <2>5 DEF Reader
<1> DEFINE R == IF client = "writing" THEN AnswerWork * (batch + 1) + 1 ELSE AnswerWork * Len(requests)
           W == 6 * Len(writing)
           S == IF subprocess = "up" THEN 1 ELSE 0
<1>5. R \in Nat /\ W \in Nat /\ S \in Nat
  BY <1>2
<1>6. Remaining = R + W + 5 * Len(output) + PlaceWork + S
  BY DEF Remaining
<1>7. Remaining' = R + W + 5 * Len(output') + PlaceWork' + S
  BY <1>1 DEF Remaining
<1> HIDE DEF R, W, S
<1> QED
  BY <1>2, <1>3, <1>4, <1>5, <1>6, <1>7

LEMMA SubprocessWorks ==
    ASSUME TypesInv, StreamInv, InCall, Subprocess \/ Die PROVE Remaining' < Remaining
<1>1. /\ UNCHANGED <<client, batch, reader, token, left>> /\ PlaceWork' = PlaceWork /\ subprocess = "up"
  BY DEF Subprocess, Answer, WriteLine, Die, caller, reading, PlaceWork
<1>2. /\ AnswerWork \in Nat /\ AnswerWork * (batch + 1) \in Nat /\ AnswerWork * Len(requests) \in Nat
      /\ Len(requests) \in Nat /\ Len(writing) \in Nat /\ Len(output) \in Nat /\ PlaceWork \in 0..5
  BY WorkType, RemainingType
<1>3. CASE Answer
  <2>1. /\ requests \in Seq(PCs) /\ requests # << >> /\ writing = << >> /\ output' = output
        /\ requests' = Tail(requests) /\ subprocess' = subprocess /\ client = "waiting"
    BY <1>1, <1>3 DEF Answer, TypesInv, StreamInv, Nothing, InCall
  <2>2. PICK pc \in PCs, kinds \in Answers : writing' = AnswerLines(pc, kinds)
    <3>1. Head(requests) \in PCs
      BY <2>1, HeadTailProperties
    <3>2. PICK n \in 1..(IF Head(requests)[2] = 0 THEN 1 ELSE MaxFrames) :
            \E kinds \in [1..n -> IF Head(requests)[2] = 0 THEN {"unknown"} ELSE Kinds] :
              writing' = AnswerLines(Head(requests), kinds)
      BY <1>3 DEF Answer
    <3>3. PICK kinds \in [1..n -> IF Head(requests)[2] = 0 THEN {"unknown"} ELSE Kinds] :
              writing' = AnswerLines(Head(requests), kinds)
      BY <3>2
    <3>4. n \in 1..MaxFrames
      BY BoundsType
    <3>5. kinds \in [1..n -> Kinds]
      BY DEF Kinds
    <3>6. kinds \in Answers
      BY <3>4, <3>5 DEF Answers
    <3> QED
      BY <3>1, <3>3, <3>6
  <2>3. Len(kinds) \in Nat /\ Len(kinds) <= MaxFrames /\ Len(writing') = 1 + 2 * Len(kinds)
    <3>1. PICK n \in 1..MaxFrames : kinds \in [1..n -> Kinds]
      BY DEF Answers
    <3>2. Len(kinds) = n
      BY <3>1, BoundsType
    <3> QED
      BY <2>2, <3>2, AnswerShape, BoundsType
  <2>4. 6 * Len(writing') < AnswerWork /\ Len(writing') \in Nat
    BY <2>3, BoundsType DEF AnswerWork
  <2>5. Len(writing) = 0
    BY <2>1, EmptySeq
  <2>6. Len(requests') \in Nat /\ Len(requests) = Len(requests') + 1
    <3>1. Len(Tail(requests)) = Len(requests) - 1 /\ Tail(requests) \in Seq(PCs)
      BY <2>1, HeadTailProperties
    <3> QED
      BY <3>1, <2>1, <1>2, LenProperties
  <2>7. AnswerWork * Len(requests) = AnswerWork * Len(requests') + AnswerWork
        /\ AnswerWork * Len(requests') \in Nat
    BY <2>6, WorkType
  <2>8. Remaining = AnswerWork * Len(requests) + 5 * Len(output) + PlaceWork + 1
    BY <1>1, <1>2, <2>1, <2>5 DEF Remaining
  <2>9. Remaining' = AnswerWork * Len(requests') + 6 * Len(writing') + 5 * Len(output) + PlaceWork + 1
    BY <1>1, <2>1 DEF Remaining
  <2> QED
    BY <1>2, <2>4, <2>7, <2>8, <2>9
<1>4. CASE WriteLine
  <2>1. writing \in Seq(FrameLines) /\ writing # << >> /\ output \in Seq(FrameLines)
        /\ writing' = Tail(writing) /\ output' = Append(output, Head(writing))
        /\ requests' = requests /\ subprocess' = subprocess
    BY <1>4 DEF WriteLine, TypesInv
  <2>2. Len(writing') = Len(writing) - 1 /\ Len(output') = Len(output) + 1
    BY <2>1, HeadTailProperties, AppendProperties
  <2> DEFINE R == IF client = "writing" THEN AnswerWork * (batch + 1) + 1 ELSE AnswerWork * Len(requests)
             S == IF subprocess = "up" THEN 1 ELSE 0
  <2>3. R \in Nat /\ S \in Nat
    BY <1>2
  <2>4. Remaining = R + 6 * Len(writing) + 5 * Len(output) + PlaceWork + S
    BY DEF Remaining
  <2>5. Remaining' = R + 6 * Len(writing') + 5 * Len(output') + PlaceWork + S
    BY <1>1, <2>1 DEF Remaining
  <2> HIDE DEF R, S
  <2> QED
    BY <1>2, <2>2, <2>3, <2>4, <2>5
<1>5. CASE Die
  <2>1. requests' = << >> /\ writing' = << >> /\ output' = output /\ subprocess' = "dead"
    BY <1>5 DEF Die
  <2>2. Len(requests') = 0 /\ Len(writing') = 0 /\ AnswerWork * 0 = 0
    BY <2>1, <1>2, EmptySeq
  <2>3. Remaining' = (IF client = "writing" THEN AnswerWork * (batch + 1) + 1 ELSE 0)
                       + 5 * Len(output) + PlaceWork
    BY <1>1, <1>2, <2>1, <2>2 DEF Remaining
  <2>4. Remaining = (IF client = "writing" THEN AnswerWork * (batch + 1) + 1 ELSE AnswerWork * Len(requests))
                       + 6 * Len(writing) + 5 * Len(output) + PlaceWork + 1
    BY <1>1 DEF Remaining
  <2> QED
    BY <1>2, <2>3, <2>4
<1> QED
  BY <1>3, <1>4, <1>5 DEF Subprocess

LEMMA FlushWorks ==
    ASSUME TypesInv, StreamInv, LinesInv, Flush PROVE Remaining' < Remaining
<1>1. /\ client = "writing" /\ client' = "waiting"
      /\ UNCHANGED <<batch, reader, token, left, subprocess, output, writing>> /\ PlaceWork' = PlaceWork
  BY DEF Flush, reading, PlaceWork
<1>2. /\ AnswerWork \in Nat /\ AnswerWork * (batch + 1) \in Nat
      /\ batch \in Nat /\ Len(writing) \in Nat /\ Len(output) \in Nat /\ PlaceWork \in 0..5
  BY WorkType, RemainingType
<1>3. Len(requests') = batch + 1 \/ Len(requests') = 0
  <2>1. CASE subprocess = "up"
    <3> DEFINE u == [k \in 1..batch |-> <<call, k>>]
               v == << <<call, 0>> >>
               T == {call} \X Nat
    <3>1. u \in Seq(T) /\ Len(u) = batch /\ v \in Seq(T) /\ Len(v) = 1
      BY <1>2
    <3>2. requests' = u \o v
      BY <2>1 DEF Flush
    <3> HIDE DEF u, v, T
    <3>3. Len(u \o v) = Len(u) + Len(v)
      BY <3>1, ConcatProperties
    <3> QED
      BY <1>2, <3>1, <3>2, <3>3
  <2>2. CASE subprocess # "up"
    <3>1. requests' = requests /\ subprocess = "dead"
      BY <1>1, <2>2 DEF Flush, TypesInv, StreamInv
    <3> QED
      BY <3>1, EmptySeq DEF LinesInv
  <2> QED
    BY <2>1, <2>2
<1>4. AnswerWork * Len(requests') <= AnswerWork * (batch + 1) /\ AnswerWork * Len(requests') \in Nat
  <2>1. AnswerWork * 0 = 0
    BY <1>2
  <2> QED
    BY <1>2, <1>3, <2>1
<1> DEFINE S == IF subprocess = "up" THEN 1 ELSE 0
<1>5. Remaining = AnswerWork * (batch + 1) + 1 + 6 * Len(writing) + 5 * Len(output) + PlaceWork + S
  BY <1>1 DEF Remaining
<1>6. Remaining' = AnswerWork * Len(requests') + 6 * Len(writing) + 5 * Len(output) + PlaceWork + S
  BY <1>1 DEF Remaining
<1> QED
  BY <1>2, <1>4, <1>5, <1>6

(* Until the call returns, every step of the caller, the reader and the    *)
(* subprocess leaves less to do, and its end does too: with CallsNeverHang *)
(* a call returns after as many steps as the pcs and the frames of their   *)
(* answers allow, however they interleave.                                 *)
THEOREM CallsUseUpWork ==
    Spec => /\ [](Remaining \in Nat)
            /\ [][InCall /\ InCall' => Remaining' < Remaining]_vars
<1>1. LinesInvs => Remaining \in Nat
  BY RemainingType DEF LinesInvs
<1>2. ASSUME LinesInvs, Next, InCall, InCall' PROVE Remaining' < Remaining
  <2>1. TypesInv /\ ReaderInv /\ StreamInv /\ LinesInv
    BY <1>2 DEF LinesInvs
  <2>2. CASE Client
    <3>1. Flush
      BY <1>2, <2>2 DEF Client, SymbolizeArray, Await, Close, InCall
    <3> QED
      BY <2>1, <3>1, FlushWorks
  <2>3. CASE Reader
    BY <2>1, <2>3, ReaderWorks
  <2>4. CASE Subprocess \/ Die
    BY <1>2, <2>1, <2>4, SubprocessWorks
  <2> QED
    BY <1>2, <2>2, <2>3, <2>4 DEF Next
<1> QED
  BY <1>1, <1>2, LinesAlways, PTL DEF Spec
=============================================================================
