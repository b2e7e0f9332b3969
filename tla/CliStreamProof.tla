--------------------------- MODULE CliStreamProof ---------------------------
(***************************************************************************)
(* Proofs about CliStream, for pipes of any size and answers of any        *)
(* length: a client learns one end of its answer, and Done means all of it.*)
(***************************************************************************)
EXTENDS CliStream, FiniteSetTheorems, FunctionTheorems, SequenceTheorems, TLAPS

Pieces == {"part", "line", "prompt"}
Ends == [done: BOOLEAN, error: BOOLEAN]

\* The pieces of the answer among those in a pipe.
Places(s) == {i \in DOMAIN s : s[i] # "prompt"}
Count(s) == Cardinality(Places(s))

(***************************************************************************)
(* The inductive invariant.                                                *)
(***************************************************************************)
\* What the handler's goroutine knows of the process, where it is.
Stages ==
    /\ main = "start" => child = "none" /\ stdout = <<>>
    /\ main \in {"read", "deliver", "wait", "final"} => child # "none"
    /\ main \in {"start", "read", "deliver", "wait"} => ~reaped
    /\ main = "wait" => child = "dead" /\ stdout = <<>>
    /\ main = "final" => reaped /\ code = "ok" /\ stdout = <<>>
    /\ reaped => child = "dead"

\* Nobody is told of an end before the request has returned.
Untold == main # "returned" => ends = <<>>

\* How much the process has written, where it is.
Lengths ==
    /\ child \in {"none", "loading", "answering"} => written <= MaxPieces
    /\ child \in {"asking", "exiting", "leaving"} => written <= MaxPieces + 1

\* A piece is delivered, collected, in the pipe or lost; none is lost while
\* the server is there, the request goes well and no terminal takes it.
Safe == /\ server # "down" /\ console # "terminal"
        /\ \/ main \in {"start", "read", "deliver"}
           \/ main \in {"wait", "final"} /\ code = "ok"
Accounted ==
    /\ delivered + line + Count(stdout) <= written
    /\ Safe => delivered + line + Count(stdout) = written

\* The last line of a process that ended well has its newline.
LastLine ==
    code = "ok" /\ server # "down" /\ console # "terminal" /\ request.mode # "once" =>
        /\ main \in {"read", "deliver"} /\ stdout # <<>> => stdout[Len(stdout)] = "line"
        /\ main = "read" /\ stdout = <<>> => line = 0

IInv == /\ TypeOK /\ Stages /\ Untold /\ Lengths /\ Accounted /\ LastLine
        /\ OneEnd /\ DoneMeansAll
-----------------------------------------------------------------------------
(***************************************************************************)
(* Pieces in a pipe.                                                       *)
(***************************************************************************)
\* A pipe holds finitely many pieces.
LEMMA CountTyped == ASSUME NEW s \in Seq(Pieces)
                    PROVE  IsFiniteSet(Places(s)) /\ Count(s) \in Nat
<1>1. DOMAIN s = 1..Len(s) /\ Len(s) \in Nat
  BY LenProperties
<1>2. IsFiniteSet(1..Len(s))
  BY <1>1, FS_Interval
<1>3. IsFiniteSet(Places(s))
  BY <1>1, <1>2, FS_Subset DEF Places
<1> QED BY <1>3, FS_CardinalityType DEF Count

\* An empty pipe holds none.
LEMMA CountEmpty == Count(<<>>) = 0
<1>1. Places(<<>>) = {}
  BY DEF Places
<1> QED BY <1>1, FS_EmptySet DEF Count

\* A write adds the piece it writes, unless that is a prompt.
LEMMA CountAppend ==
    ASSUME NEW s \in Seq(Pieces), NEW p \in Pieces
    PROVE  /\ Append(s, p) \in Seq(Pieces)
           /\ Count(Append(s, p)) = IF p = "prompt" THEN Count(s) ELSE Count(s) + 1
<1> DEFINE t == Append(s, p)
<1>1. /\ t \in Seq(Pieces) /\ Len(t) = Len(s) + 1
      /\ \A i \in 1..Len(s) : t[i] = s[i]
      /\ t[Len(s) + 1] = p
  BY AppendProperties
<1>2. DOMAIN s = 1..Len(s) /\ DOMAIN t = 1..Len(t) /\ Len(s) \in Nat
  BY <1>1, LenProperties
<1> HIDE DEF t
<1>3. Len(s) + 1 \notin Places(s)
  BY <1>2 DEF Places
<1>4. CASE p = "prompt"
  <2>1. Places(t) = Places(s)
    BY <1>1, <1>2, <1>4 DEF Places
  <2> QED BY <1>1, <1>4, <2>1 DEF Count, t
<1>5. CASE p # "prompt"
  <2>1. Places(t) = Places(s) \union {Len(s) + 1}
    BY <1>1, <1>2, <1>5 DEF Places
  <2>2. Count(t) = Count(s) + 1
    BY <1>3, <2>1, CountTyped, FS_AddElement DEF Count
  <2> QED BY <1>1, <1>5, <2>2 DEF t
<1> QED BY <1>4, <1>5

\* A read takes it.
LEMMA CountTail ==
    ASSUME NEW s \in Seq(Pieces), s # <<>>
    PROVE  /\ Tail(s) \in Seq(Pieces)
           /\ Count(s) = IF Head(s) = "prompt" THEN Count(Tail(s))
                                               ELSE Count(Tail(s)) + 1
<1> DEFINE t == Tail(s)
<1>1. /\ t \in Seq(Pieces) /\ Len(t) = Len(s) - 1
      /\ \A i \in 1..Len(t) : t[i] = s[i + 1]
  BY HeadTailProperties
<1>2. /\ DOMAIN s = 1..Len(s) /\ DOMAIN t = 1..Len(t)
      /\ Len(s) \in Nat \ {0} /\ Len(t) \in Nat
  BY <1>1, LenProperties, EmptySeq
<1>3. Head(s) = s[1]
  OBVIOUS
<1> HIDE DEF t
<1> DEFINE rest == {i \in 2..Len(s) : s[i] # "prompt"}
           f == [i \in Places(t) |-> i + 1]
<1>4. ExistsBijection(Places(t), rest)
  <2>1. f \in [Places(t) -> rest]
    BY <1>1, <1>2 DEF Places
  <2>2. \A i, j \in Places(t) : f[i] = f[j] => i = j
    BY <1>2 DEF Places
  <2>3. \A j \in rest : \E i \in Places(t) : f[i] = j
    <3> SUFFICES ASSUME NEW j \in rest PROVE \E i \in Places(t) : f[i] = j
      OBVIOUS
    <3>1. j - 1 \in Places(t) /\ (j - 1) + 1 = j
      BY <1>1, <1>2 DEF Places
    <3> QED BY <3>1
  <2> HIDE DEF f, rest
  <2>4. f \in Bijection(Places(t), rest)
    BY <2>1, <2>2, <2>3, Fun_IsBij
  <2> QED BY <2>4 DEF ExistsBijection
<1>5. IsFiniteSet(rest) /\ Cardinality(rest) = Count(t)
  BY <1>1, <1>4, CountTyped, FS_Bijection DEF Count
<1>6. CASE Head(s) = "prompt"
  <2>1. Places(s) = rest
    BY <1>2, <1>3, <1>6 DEF Places
  <2> QED BY <1>1, <1>5, <1>6, <2>1 DEF Count, t
<1>7. CASE Head(s) # "prompt"
  <2>1. Places(s) = rest \union {1} /\ 1 \notin rest
    BY <1>2, <1>3, <1>7 DEF Places
  <2> HIDE DEF rest
  <2>2. Cardinality(Places(s)) = Cardinality(rest) + 1
    BY <1>5, <2>1, FS_AddElement
  <2> QED BY <1>1, <1>5, <1>7, <2>2 DEF Count, t
<1> QED BY <1>6, <1>7
-----------------------------------------------------------------------------
\* The bounds are numbers.
LEMMA Bounds == MaxPieces \in Nat \ {0} /\ PipeSize \in Nat \ {0}
  BY StreamAssumption

\* The request has begun, llama-cli has not.
THEOREM Initially == Init => IInv
<1> SUFFICES ASSUME Init PROVE IInv
  OBVIOUS
<1> USE DEF Init
<1>1. <<>> \in Seq(Pieces) /\ <<>> \in Seq(StderrLines) /\ <<>> \in Seq(Ends)
      /\ Len(<<>>) = 0
  BY EmptySeq
<1>2. TypeOK
  <2>1. written \in 0..(MaxPieces + 2) /\ line \in 0..written /\ delivered \in 0..written
    BY Bounds
  <2>2. Len(stdout) <= PipeSize /\ Len(stderr) <= PipeSize
    BY <1>1, Bounds
  <2> QED BY <1>1, <2>1, <2>2 DEF TypeOK, Pieces, Ends
<1>3. Stages /\ Untold /\ LastLine
  BY DEF Stages, Untold, LastLine
<1>4. Lengths /\ Accounted
  BY Bounds, CountEmpty DEF Lengths, Accounted, Safe
<1>5. OneEnd /\ DoneMeansAll
  BY <1>1 DEF OneEnd, DoneMeansAll
<1> QED BY <1>2, <1>3, <1>4, <1>5 DEF IInv
-----------------------------------------------------------------------------
(***************************************************************************)
(* A step of llama-cli, or of what ends it.                                *)
(***************************************************************************)
ProcessStep == Work \/ Complain \/ WriteStderr \/ BrokenPipe \/ Fail \/ Kill

\* A write to stdout adds its piece, or is lost when nobody can read.
LEMMA Emitted ==
    ASSUME TypeOK, NEW p \in Pieces, Emit(p)
    PROVE  /\ stdout' \in Seq(Pieces) /\ Len(stdout') <= PipeSize
           /\ Count(stdout) \in Nat /\ Count(stdout') \in Nat
           /\ Count(stdout') <= IF p = "prompt" THEN Count(stdout) ELSE Count(stdout) + 1
           /\ ReadersOpen /\ console # "terminal" =>
                /\ Count(stdout') = IF p = "prompt" THEN Count(stdout) ELSE Count(stdout) + 1
                /\ stdout' # <<>> /\ stdout'[Len(stdout')] = p
<1>1. stdout \in Seq(Pieces) /\ Len(stdout) <= PipeSize /\ Count(stdout) \in Nat
  BY CountTyped DEF TypeOK, Pieces
<1>2. CASE ReadersOpen /\ console # "terminal"
  <2>1. Len(stdout) < PipeSize /\ stdout' = Append(stdout, p)
    BY <1>2 DEF Emit
  <2>2. /\ stdout' \in Seq(Pieces)
        /\ Count(stdout') = IF p = "prompt" THEN Count(stdout) ELSE Count(stdout) + 1
    BY <1>1, <2>1, CountAppend
  <2>3. stdout' # <<>> /\ Len(stdout') = Len(stdout) + 1 /\ stdout'[Len(stdout) + 1] = p
    BY <1>1, <2>1, AppendProperties
  <2>4. Len(stdout) \in Nat
    BY <1>1, LenProperties
  <2> QED BY <1>1, <2>1, <2>2, <2>3, <2>4, Bounds
<1>3. CASE ~(ReadersOpen /\ console # "terminal")
  BY <1>1, <1>3 DEF Emit
<1> QED BY <1>2, <1>3

\* What the others may rely on of such a step.
Moves ==
    /\ Alive /\ child' # "none" /\ code = "none"
    /\ child' \in {"loading", "answering", "asking", "exiting", "leaving", "joining",
                   "dead"}
    /\ interrupted' \in BOOLEAN
    /\ server' \in {"up", "stopping", "down"} /\ (server' = "down" <=> server = "down")
    /\ code' \in {"none", "ok", "fail"} /\ (code' = "none" <=> child' # "dead")
    /\ complaint' \in StderrLines \union {"none"}
    /\ UNCHANGED <<request, console, client, reading, scanner>>
Prints ==
    /\ stdout' \in Seq(Pieces) /\ Len(stdout') <= PipeSize
    /\ stderr' \in Seq(StderrLines) /\ Len(stderr') <= PipeSize
    /\ written' \in written..(written + 1) /\ written' <= MaxPieces + 2 /\ Lengths'
    /\ Count(stdout) \in Nat /\ Count(stdout') \in Nat
    /\ Count(stdout') + written <= Count(stdout) + written'
    /\ ReadersOpen /\ console # "terminal" =>
            Count(stdout') + written = Count(stdout) + written'
    /\ ReadersOpen /\ console # "terminal" /\ code' = "ok" => stdout' # <<>> /\ stdout'[Len(stdout')] = "line"

\* A process that moves is alive, and leaves the handler's state alone.
LEMMA ProcessMoves == ASSUME IInv, ProcessStep PROVE Moves
<1> USE DEF IInv, TypeOK, Moves, Alive, process, pipes
<1>1. CASE Load \/ Say \/ Answered \/ AskAgain
  BY <1>1 DEF Load, Say, Answered, AskAgain, Emit
<1>2. CASE AskOnWindows
  BY <1>2 DEF AskOnWindows, Exit, Emit
<1>3. CASE Leave \/ Hang
  BY <1>3 DEF Leave, Hang, Exit, Emit
<1>4. CASE Complain \/ WriteStderr
  BY <1>4 DEF Complain, WriteStderr
<1>5. CASE BrokenPipe \/ Fail \/ Kill
  BY <1>5 DEF BrokenPipe, Fail, Kill, Exit
<1> QED BY <1>1, <1>2, <1>3, <1>4, <1>5 DEF ProcessStep, Work

\* What it writes is in the pipe while it has a reader; it ends well with a newline.
LEMMA ProcessPrints == ASSUME IInv, ProcessStep PROVE Prints
<1>1. /\ TypeOK /\ Lengths /\ stdout \in Seq(Pieces) /\ Len(stdout) <= PipeSize
      /\ stderr \in Seq(StderrLines) /\ Len(stderr) <= PipeSize
      /\ written \in 0..(MaxPieces + 2) /\ written \in Nat
  BY Bounds DEF IInv, TypeOK, Pieces
<1>2. Count(stdout) \in Nat /\ MaxPieces \in Nat
  BY <1>1, CountTyped, Bounds
<1>3. ASSUME NEW p \in {"part", "line"}, Emit(p), written' = written + 1, UNCHANGED stderr,
             written < MaxPieces + 2, Lengths', code' = "ok" => p = "line"
      PROVE  Prints
  <2>1. /\ stdout' \in Seq(Pieces) /\ Len(stdout') <= PipeSize
        /\ Count(stdout) \in Nat /\ Count(stdout') \in Nat
        /\ Count(stdout') <= Count(stdout) + 1
        /\ ReadersOpen /\ console # "terminal" =>
                /\ Count(stdout') = Count(stdout) + 1
                /\ stdout' # <<>> /\ stdout'[Len(stdout')] = p
    BY <1>1, <1>3, Emitted DEF Pieces
  <2>2. /\ written' \in written..(written + 1) /\ written' <= MaxPieces + 2
        /\ written \in Nat /\ written' = written + 1 /\ UNCHANGED stderr
    BY <1>1, <1>2, <1>3
  <2>3. Count(stdout') + written <= Count(stdout) + written'
    BY <2>1, <2>2
  <2>4. ASSUME ReadersOpen, console # "terminal"
        PROVE  Count(stdout') + written = Count(stdout) + written'
    BY <2>1, <2>2, <2>4
  <2> QED BY <1>1, <1>3, <2>1, <2>2, <2>3, <2>4 DEF Prints
<1>4. ASSUME Emit("prompt"), UNCHANGED <<written, stderr>>, Lengths', code' # "ok"
      PROVE  Prints
  BY <1>1, <1>2, <1>4, Emitted DEF Prints, Pieces
<1>5. ASSUME UNCHANGED <<written, stdout>>, Lengths', code' # "ok",
             stderr' \in Seq(StderrLines), Len(stderr') <= PipeSize
      PROVE  Prints
  BY <1>1, <1>2, <1>5 DEF Prints
<1>6. child # "dead" => code = "none"
  BY <1>1 DEF TypeOK
<1>7. CASE Say
  <2>1. PICK p \in {"part", "line"} : Emit(p)
    BY <1>7 DEF Say
  <2>2. /\ written < MaxPieces /\ written' = written + 1 /\ UNCHANGED <<stderr, code, child>>
        /\ child \in {"loading", "answering"}
    BY <1>7 DEF Say
  <2>3. Lengths'
    BY <1>1, <1>2, <2>2 DEF Lengths
  <2> QED BY <1>1, <1>2, <1>3, <1>6, <2>1, <2>2, <2>3
<1>8. CASE Answered
  <2>1. /\ Emit("line") /\ written' = written + 1 /\ UNCHANGED <<stderr, code>>
        /\ child = "answering" /\ child' = "asking"
    BY <1>8 DEF Answered
  <2>2. Lengths' /\ written < MaxPieces + 2
    BY <1>1, <1>2, <2>1 DEF Lengths
  <2> QED BY <1>3, <1>6, <2>1, <2>2
<1>9. CASE Leave \/ Hang
  <2>1. /\ Emit("line") /\ written' = written + 1 /\ UNCHANGED stderr
        /\ child \in {"exiting", "leaving"} /\ child' \in {"joining", "dead"}
    BY <1>9 DEF Leave, Hang, Exit
  <2>2. Lengths' /\ written < MaxPieces + 2
    BY <1>1, <1>2, <2>1 DEF Lengths
  <2> QED BY <1>3, <2>1, <2>2
<1>10. CASE AskAgain \/ AskOnWindows
  <2>1. /\ Emit("prompt") /\ UNCHANGED <<written, stderr>> /\ code' # "ok"
        /\ child = "asking" /\ child' \in {"asking", "leaving", "dead"}
    BY <1>6, <1>10 DEF AskAgain, AskOnWindows, Exit, process
  <2>2. Lengths'
    BY <1>1, <1>2, <2>1 DEF Lengths
  <2> QED BY <1>4, <2>1, <2>2
<1>11. CASE Load
  <2>1. /\ UNCHANGED <<written, stdout, stderr, code>>
        /\ child = "loading" /\ child' \in {"exiting", "answering"}
    BY <1>11 DEF Load, pipes
  <2>2. Lengths'
    BY <1>1, <1>2, <2>1 DEF Lengths
  <2> QED BY <1>1, <1>5, <1>6, <2>1, <2>2
<1>12. CASE Complain
  <2>1. UNCHANGED <<written, stdout, stderr, code, child>> /\ code' # "ok"
    BY <1>6, <1>12 DEF Complain, Alive, pipes
  <2>2. Lengths'
    BY <1>1, <2>1 DEF Lengths
  <2> QED BY <1>1, <1>5, <2>1, <2>2
<1>13. CASE WriteStderr
  <2>1. UNCHANGED <<written, stdout, code, child>> /\ code' # "ok"
    BY <1>6, <1>13 DEF WriteStderr, Alive
  <2>2. Lengths'
    BY <1>1, <2>1 DEF Lengths
  <2>3. stderr' \in Seq(StderrLines) /\ Len(stderr') <= PipeSize
    <3>1. complaint \in StderrLines
      BY <1>1, <1>13 DEF WriteStderr, TypeOK
    <3>2. CASE Len(stderr) < PipeSize /\ stderr' = Append(stderr, complaint)
      <4>1. stderr' \in Seq(StderrLines) /\ Len(stderr') = Len(stderr) + 1
        BY <1>1, <3>1, <3>2, AppendProperties
      <4>2. Len(stderr) \in Nat
        BY <1>1, LenProperties
      <4> QED BY <3>2, <4>1, <4>2, Bounds
    <3>3. CASE UNCHANGED stderr
      BY <1>1, <3>3
    <3> QED BY <1>13, <3>2, <3>3 DEF WriteStderr
  <2> QED BY <1>5, <2>1, <2>2, <2>3
<1>14. CASE BrokenPipe \/ Fail \/ Kill
  <2>1. UNCHANGED <<written, stdout, stderr>> /\ code' = "fail" /\ child' = "dead"
    BY <1>14 DEF BrokenPipe, Fail, Kill, Exit, pipes
  <2>2. Lengths'
    BY <2>1 DEF Lengths
  <2> QED BY <1>1, <1>5, <2>1, <2>2
<1> QED BY <1>7, <1>8, <1>9, <1>10, <1>11, <1>12, <1>13, <1>14 DEF ProcessStep, Work

\* So no step of the process breaks the invariant.
LEMMA ProcessKeeps == ASSUME IInv, ProcessStep PROVE IInv'
<1>1. Moves /\ Prints
  BY ProcessMoves, ProcessPrints
<1>2. /\ UNCHANGED <<request, console, client, main, line, reaped, delivered, ends, scanner>>
      /\ server' = "down" <=> server = "down"
      /\ child \notin {"none", "dead"} /\ child' # "none" /\ code = "none"
  BY <1>1 DEF Moves, Alive, reading
<1>3. TypeOK /\ Stages /\ Accounted /\ DoneMeansAll
  BY DEF IInv
<1>4. ~reaped /\ main \notin {"start", "wait", "final"}
  BY <1>2, <1>3 DEF TypeOK, Stages
<1>5. /\ written \in Nat /\ written' \in Nat /\ written <= written'
      /\ line \in 0..written' /\ delivered \in 0..written'
      /\ line \in Nat /\ delivered \in Nat
      /\ written' \in 0..(MaxPieces + 2)
  BY <1>1, <1>3, Bounds DEF Prints, TypeOK
<1>6. TypeOK'
  BY <1>1, <1>2, <1>3, <1>5 DEF TypeOK, Moves, Prints, Pieces
<1>7. Stages'
  BY <1>2, <1>3, <1>4 DEF Stages
<1>8. Accounted'
  <2>1. /\ Count(stdout) \in Nat /\ Count(stdout') \in Nat
        /\ Count(stdout') + written <= Count(stdout) + written'
        /\ server # "down" /\ console # "terminal" =>
                Count(stdout') + written = Count(stdout) + written'
    BY <1>1, <1>4 DEF Prints, ReadersOpen
  <2>2. Safe' => Safe /\ server # "down" /\ console # "terminal"
    BY <1>2, <1>4 DEF Safe
  <2>3. /\ delivered + line + Count(stdout) <= written
        /\ Safe => delivered + line + Count(stdout) = written
    BY <1>3 DEF Accounted
  <2> QED BY <1>2, <1>5, <2>1, <2>2, <2>3 DEF Accounted
<1>9. LastLine'
  <2>1. SUFFICES ASSUME code' = "ok", server' # "down", console # "terminal"
                 PROVE  stdout' # <<>> /\ stdout'[Len(stdout')] = "line"
    BY <1>2 DEF LastLine
  <2> QED BY <1>1, <1>2, <1>4, <2>1 DEF Prints, ReadersOpen
<1>10. (Untold /\ OneEnd)'
  BY <1>2 DEF IInv, Untold, OneEnd
<1>11. DoneMeansAll'
  BY <1>2, <1>3, <1>4 DEF DoneMeansAll
<1> QED BY <1>1, <1>6, <1>7, <1>8, <1>9, <1>10, <1>11 DEF IInv, Prints

(***************************************************************************)
(* A step of the handler's goroutine.                                      *)
(***************************************************************************)
\* Read takes one piece out of the pipe and into the line.
LEMMA Taken ==
    ASSUME IInv, Read
    PROVE  /\ stdout \in Seq(Pieces) /\ stdout # <<>> /\ stdout' = Tail(stdout)
           /\ stdout' \in Seq(Pieces) /\ Len(stdout') <= PipeSize
           /\ Count(stdout') \in Nat /\ line' \in Nat
           /\ line' + Count(stdout') = line + Count(stdout)
<1>1. /\ stdout \in Seq(Pieces) /\ stdout # <<>> /\ stdout' = Tail(stdout)
      /\ line' = IF Head(stdout) = "prompt" THEN line ELSE line + 1
      /\ line \in 0..written /\ Len(stdout) <= PipeSize /\ written \in 0..(MaxPieces + 2)
  BY DEF IInv, TypeOK, Read, Pieces
<1>2. /\ stdout' \in Seq(Pieces) /\ Len(stdout') = Len(stdout) - 1
      /\ Count(stdout) = IF Head(stdout) = "prompt" THEN Count(stdout')
                                                    ELSE Count(stdout') + 1
  BY <1>1, HeadTailProperties, CountTail
<1>3. Count(stdout') \in Nat /\ Len(stdout) \in Nat
  BY <1>1, <1>2, CountTyped, LenProperties
<1> QED BY <1>1, <1>2, <1>3, Bounds

\* What is left after Read still ends in the process's last newline.
LEMMA LastTaken ==
    ASSUME IInv, Read, server # "down", console # "terminal", code = "ok",
           request.mode # "once"
    PROVE  /\ stdout' # <<>> => stdout'[Len(stdout')] = "line"
           /\ stdout' = <<>> => main' = "deliver"
<1>1. /\ stdout \in Seq(Pieces) /\ stdout # <<>> /\ stdout' = Tail(stdout)
      /\ main' = IF Head(stdout) = "part" THEN "read" ELSE "deliver"
      /\ stdout[Len(stdout)] = "line"
  BY Taken DEF Read, IInv, LastLine, Goto
<1>2. /\ stdout' \in Seq(Pieces) /\ Len(stdout') = Len(stdout) - 1
      /\ \A i \in 1..Len(stdout') : stdout'[i] = stdout[i + 1]
  BY <1>1, HeadTailProperties
<1>3. Len(stdout) \in Nat \ {0} /\ Head(stdout) = stdout[1]
  BY <1>1, EmptySeq
<1>4. CASE stdout' = <<>>
  <2>1. Len(stdout') = 0
    BY <1>4
  <2>2. Len(stdout) = 1
    BY <1>2, <1>3, <2>1
  <2>3. Head(stdout) = "line"
    BY <1>1, <1>3, <2>2
  <2> QED BY <1>1, <1>4, <2>3
<1>5. CASE stdout' # <<>>
  <2>1. Len(stdout') \in Nat \ {0}
    BY <1>2, <1>5, EmptySeq
  <2>2. Len(stdout') \in 1..Len(stdout') /\ Len(stdout') + 1 = Len(stdout)
    BY <1>2, <1>3, <2>1
  <2> QED BY <1>1, <1>2, <1>5, <2>2
<1> QED BY <1>4, <1>5

\* An end is told once, to a client that is there.
LEMMA Told ==
    ASSUME IInv, NEW end \in Ends, main # "returned", Tell(end)
    PROVE  /\ ends' \in Seq(Ends) /\ Len(ends') <= 1
           /\ client = "here" => Len(ends') = 1
           /\ \A i \in DOMAIN ends' : ends'[i] = end
<1>1. ends = <<>> /\ Len(ends) = 0
  BY DEF IInv, Untold
<1>2. CASE client = "here"
  <2>1. ends' = <<end>>
    BY <1>1, <1>2 DEF Tell
  <2> QED BY <2>1
<1>3. CASE client # "here"
  BY <1>1, <1>3 DEF Tell
<1> QED BY <1>2, <1>3

\* No step of Stream, Generate or the handler breaks the invariant.
LEMMA ServeKeeps == ASSUME IInv, Serve PROVE IInv'
<1>1. /\ TypeOK /\ Stages /\ Accounted /\ LastLine /\ Untold /\ Lengths
      /\ written \in Nat /\ line \in Nat /\ delivered \in Nat /\ Count(stdout) \in Nat
      /\ stdout \in Seq(Pieces) /\ Len(stdout) <= PipeSize
      /\ line \in 0..written /\ delivered \in 0..written
  BY CountTyped, Bounds DEF IInv, TypeOK, Pieces
<1>2. server # "down" /\ main \notin {"returned"} /\ ends = <<>>
  BY <1>1 DEF Serve, Start, StartFails, Read, Deliver, Eof, Wait, Finish, Report, Goto,
     Untold
<1>3. UNCHANGED <<request, console, client, server, code, interrupted, complaint, written,
                  stderr>>
  BY DEF Serve, Start, StartFails, Read, Deliver, Eof, Wait, Finish, Report, process, pipes
<1>4. ASSUME UNCHANGED ends, main' # "returned"
      PROVE  (OneEnd /\ Untold /\ DoneMeansAll)'
  BY <1>2, <1>4 DEF OneEnd, Untold, DoneMeansAll
<1>5. CASE Start
  <2>1. /\ main = "start" /\ child = "none" /\ child' = "loading" /\ main' = "read"
        /\ scanner' \in {"off", "scan"}
        /\ UNCHANGED <<stdout, line, reaped, delivered, ends>>
    BY <1>1, <1>5 DEF Start, Goto, pipes, Stages
  <2>2. TypeOK' /\ code # "ok"
    BY <1>1, <1>3, <2>1 DEF TypeOK
  <2>3. Stages' /\ Lengths' /\ Accounted' /\ LastLine'
    BY <1>1, <1>2, <1>3, <2>1, <2>2 DEF Stages, Lengths, Accounted, Safe, LastLine
  <2> QED BY <1>4, <2>1, <2>2, <2>3 DEF IInv
<1>6. CASE StartFails
  <2>1. /\ main = "start" /\ main' = "error"
        /\ UNCHANGED <<child, stdout, line, reaped, delivered, ends, scanner>>
    BY <1>6 DEF StartFails, Goto, pipes, process
  <2>2. TypeOK'
    BY <1>1, <1>3, <2>1 DEF TypeOK
  <2>3. Stages' /\ Lengths' /\ Accounted' /\ LastLine'
    BY <1>1, <1>2, <1>3, <2>1 DEF Stages, Lengths, Accounted, Safe, LastLine
  <2> QED BY <1>4, <2>1, <2>2, <2>3 DEF IInv
<1>7. CASE Read
  <2>1. /\ main = "read" /\ main' \in {"read", "deliver"}
        /\ UNCHANGED <<child, reaped, delivered, ends, scanner>>
    BY <1>7 DEF Read, Goto, process
  <2>2. /\ stdout' \in Seq(Pieces) /\ Len(stdout') <= PipeSize
        /\ Count(stdout') \in Nat /\ line' \in Nat
        /\ line' + Count(stdout') = line + Count(stdout)
    BY <1>7, Taken
  <2>3. Accounted' /\ line' \in 0..written
    <3>1. Safe' => Safe
      BY <1>2, <1>3, <2>1 DEF Safe
    <3>2. /\ delivered + line + Count(stdout) <= written
          /\ Safe => delivered + line + Count(stdout) = written
      BY <1>1 DEF Accounted
    <3> QED BY <1>1, <1>3, <2>1, <2>2, <3>1, <3>2 DEF Accounted
  <2>4. TypeOK'
    BY <1>1, <1>3, <2>1, <2>2, <2>3 DEF TypeOK, Pieces
  <2>5. Stages' /\ Lengths'
    BY <1>1, <1>3, <2>1 DEF Stages, Lengths
  <2>6. LastLine'
    BY <1>3, <1>7, <2>1, LastTaken DEF LastLine
  <2> QED BY <1>4, <2>1, <2>3, <2>4, <2>5, <2>6 DEF IInv
<1>8. CASE Deliver
  <2>1. /\ main = "deliver"
        /\ \/ delivered' = delivered + line /\ line' = 0 /\ main' = "read"
           \/ main' = "error" /\ UNCHANGED <<delivered, line>>
        /\ UNCHANGED <<child, stdout, reaped, ends, scanner>>
    BY <1>8 DEF Deliver, Goto, process, pipes
  <2>2. /\ main' \in {"read", "error"} /\ delivered' + line' = delivered + line
        /\ delivered' \in Nat /\ line' \in Nat /\ (main' = "read" => line' = 0)
    BY <1>1, <2>1
  <2>3. Accounted' /\ line' \in 0..written /\ delivered' \in 0..written
    BY <1>1, <1>2, <1>3, <2>1, <2>2 DEF Accounted, Safe
  <2>4. TypeOK'
    BY <1>1, <1>3, <2>1, <2>2, <2>3 DEF TypeOK
  <2>5. Stages' /\ Lengths' /\ LastLine'
    BY <1>1, <1>2, <1>3, <2>1, <2>2 DEF Stages, Lengths, LastLine
  <2> QED BY <1>4, <2>1, <2>2, <2>3, <2>4, <2>5 DEF IInv
<1>9. CASE Eof
  <2>1. /\ main = "read" /\ main' = "wait" /\ child = "dead" /\ stdout = <<>>
        /\ line' = IF request.mode = "once" THEN line ELSE 0
        /\ UNCHANGED <<child, stdout, reaped, delivered, ends, scanner>>
    BY <1>9 DEF Eof, Exhausted, Goto, process, pipes
  <2>2. line' \in 0..written /\ line' <= line /\ line' \in Nat
    BY <1>1, <2>1
  <2>3. code = "ok" /\ console # "terminal" => line' = line
    BY <1>1, <1>2, <2>1 DEF LastLine
  <2>4. TypeOK'
    BY <1>1, <1>3, <2>1, <2>2 DEF TypeOK
  <2>5. Accounted'
    BY <1>1, <1>2, <1>3, <2>1, <2>2, <2>3 DEF Accounted, Safe
  <2>6. Stages' /\ Lengths' /\ LastLine'
    BY <1>1, <1>3, <2>1 DEF Stages, Lengths, LastLine
  <2> QED BY <1>4, <2>1, <2>4, <2>5, <2>6 DEF IInv
<1>10. CASE Wait
  <2>1. /\ main = "wait" /\ main' = AfterWait /\ child = "dead" /\ reaped' = TRUE
        /\ UNCHANGED <<child, stdout, line, delivered, ends, scanner>>
    BY <1>10 DEF Wait, Goto, process, pipes
  <2>2. main' \in {"final", "error"} /\ (main' = "final" => code = "ok")
    BY <2>1 DEF AfterWait
  <2>3. TypeOK'
    BY <1>1, <1>3, <2>1, <2>2 DEF TypeOK
  <2>4. Stages' /\ Lengths' /\ LastLine' /\ Accounted'
    BY <1>1, <1>2, <1>3, <2>1, <2>2 DEF Stages, Lengths, LastLine, Accounted, Safe
  <2> QED BY <1>4, <2>1, <2>2, <2>3, <2>4 DEF IInv
<1>11. CASE Finish
  <2>1. /\ main = "final" /\ main' = "returned" /\ delivered' = delivered + line
        /\ line' = 0 /\ Tell([done |-> TRUE, error |-> FALSE])
        /\ UNCHANGED <<child, stdout, reaped, scanner>>
    BY <1>11 DEF Finish, Goto, process, pipes
  <2>2. code = "ok" /\ reaped /\ stdout = <<>>
    BY <1>1, <2>1 DEF Stages
  <2>3. /\ delivered' \in 0..written
        /\ console # "terminal" => delivered' = written
    BY <1>1, <1>2, <2>1, <2>2, CountEmpty DEF Accounted, Safe
  <2>4. /\ ends' \in Seq(Ends) /\ Len(ends') <= 1
        /\ client = "here" => Len(ends') = 1
    <3>1. [done |-> TRUE, error |-> FALSE] \in Ends
      BY DEF Ends
    <3> QED BY <2>1, <3>1, Told
  <2>5. TypeOK'
    BY <1>1, <1>3, <2>1, <2>3, <2>4 DEF TypeOK, Ends
  <2>6. Stages' /\ Lengths' /\ LastLine' /\ Accounted'
    BY <1>1, <1>3, <2>1, <2>2, <2>3, CountEmpty DEF Stages, Lengths, LastLine, Accounted,
       Safe
  <2>7. (Untold /\ OneEnd /\ DoneMeansAll)'
    BY <1>3, <2>1, <2>2, <2>3, <2>4 DEF Untold, OneEnd, DoneMeansAll
  <2> QED BY <2>5, <2>6, <2>7 DEF IInv
<1>12. CASE Report
  <2>1. /\ main = "error" /\ main' = "returned"
        /\ Tell([done |-> request.mode = "native", error |-> TRUE])
        /\ UNCHANGED <<child, stdout, line, delivered, reaped, scanner>>
    BY <1>12 DEF Report, TellError, Goto, process, pipes
  <2>2. /\ ends' \in Seq(Ends) /\ Len(ends') <= 1
        /\ client = "here" => Len(ends') = 1
        /\ \A i \in DOMAIN ends' : ends'[i].error
    <3> DEFINE end == [done |-> request.mode = "native", error |-> TRUE]
    <3>1. end \in Ends /\ end.error
      BY DEF Ends
    <3> HIDE DEF end
    <3>2. Tell(end)
      BY <2>1 DEF end
    <3> QED BY <2>1, <3>1, <3>2, Told
  <2>3. TypeOK'
    BY <1>1, <1>3, <2>1, <2>2 DEF TypeOK, Ends
  <2>4. Stages' /\ Lengths' /\ LastLine' /\ Accounted'
    BY <1>1, <1>3, <2>1 DEF Stages, Lengths, LastLine, Accounted, Safe
  <2>5. (Untold /\ OneEnd /\ DoneMeansAll)'
    BY <1>3, <2>1, <2>2 DEF Untold, OneEnd, DoneMeansAll
  <2> QED BY <2>3, <2>4, <2>5 DEF IInv
<1> QED BY <1>5, <1>6, <1>7, <1>8, <1>9, <1>10, <1>11, <1>12 DEF Serve

(***************************************************************************)
(* A step of the stderr goroutine, of the client or of the server.         *)
(***************************************************************************)
\* The stderr goroutine changes nothing that the answer is about.
LEMMA ScanKeeps == ASSUME IInv, ScanStderr PROVE IInv'
<1>1. /\ UNCHANGED <<request, console, client, server, child, code, interrupted,
                    complaint, written, stdout, main, line, reaped, delivered, ends>>
      /\ scanner' \in {"off", "scan", "report"}
  BY DEF ScanStderr, Scan, ReportProgress, ScanEnds, process, pipes, reading
<1>2. stderr' \in Seq(StderrLines) /\ Len(stderr') <= PipeSize
  <2>1. /\ stderr \in Seq(StderrLines) /\ Len(stderr) <= PipeSize
        /\ stderr' = stderr \/ (stderr # <<>> /\ stderr' = Tail(stderr))
    BY DEF IInv, TypeOK, ScanStderr, Scan, ReportProgress, ScanEnds, pipes
  <2>2. CASE stderr # <<>> /\ stderr' = Tail(stderr)
    BY <2>1, <2>2, HeadTailProperties, LenProperties, Bounds
  <2> QED BY <2>1, <2>2
<1>3. TypeOK'
  BY <1>1, <1>2 DEF IInv, TypeOK
<1>4. (Stages /\ Untold /\ Lengths /\ Accounted /\ LastLine)'
  BY <1>1, <1>2 DEF IInv, Stages, Untold, Lengths, Accounted, Safe, LastLine
<1>5. (OneEnd /\ DoneMeansAll)'
  BY <1>1 DEF IInv, OneEnd, DoneMeansAll
<1> QED BY <1>3, <1>4, <1>5 DEF IInv

\* Clients only leave, and the server only stops.
LEMMA OutsideKeeps ==
    ASSUME IInv, Disconnect \/ Timeout \/ Interrupt \/ ServerExits
    PROVE  IInv'
<1>1. /\ UNCHANGED <<request, console, child, code, complaint, written, stdout, stderr,
                    main, line, reaped, delivered, ends, scanner>>
      /\ interrupted' \in BOOLEAN
      /\ client' \in {"here", "gone", "timedout"} /\ (client' = "here" => client = "here")
      /\ server' \in {"up", "stopping", "down"} /\ (server = "down" => server' = "down")
  BY DEF IInv, TypeOK, Disconnect, Timeout, Interrupt, ServerExits, process, pipes, reading
<1>2. TypeOK'
  BY <1>1 DEF IInv, TypeOK
<1>3. (Stages /\ Untold /\ Lengths /\ Accounted /\ LastLine)'
  BY <1>1 DEF IInv, Stages, Untold, Lengths, Accounted, Safe, LastLine
<1>4. (OneEnd /\ DoneMeansAll)'
  BY <1>1 DEF IInv, OneEnd, DoneMeansAll
<1> QED BY <1>2, <1>3, <1>4 DEF IInv

\* The invariant is about the variables only.
LEMMA StutterKeeps == ASSUME IInv, UNCHANGED vars PROVE IInv'
  BY DEF IInv, vars, process, pipes, reading, TypeOK, Stages, Untold, Lengths, Accounted,
     Safe, LastLine, OneEnd, DoneMeansAll
-----------------------------------------------------------------------------
(***************************************************************************)
(* How the pipes' pieces, the exit status and what the client is told fit  *)
(* together (IInv), whatever fails, in every state of CLIBackend.Stream and*)
(* Generate.                                                               *)
(***************************************************************************)
THEOREM Invariant == Spec => []IInv
<1>1. IInv /\ [Next]_vars => IInv'
  BY ProcessKeeps, ServeKeeps, ScanKeeps, OutsideKeeps, StutterKeeps
     DEF Next, ProcessStep
<1> QED BY Initially, <1>1, PTL DEF Spec

\* Every variable keeps its type, whatever llama-cli writes.
THEOREM TypeCorrect == Spec => []TypeOK
<1>1. IInv => TypeOK
  BY DEF IInv
<1> QED BY Invariant, <1>1, PTL

\* A client that is told Done (backend.go, the last response of Stream and
\* the answer of Generate) has all that llama-cli has written.
THEOREM DoneIsComplete == Spec => []DoneMeansAll
<1>1. IInv => DoneMeansAll
  BY DEF IInv
<1> QED BY Invariant, <1>1, PTL

\* A client that stays is told exactly one end of its answer (handlers.go).
THEOREM EndToldOnce == Spec => []OneEnd
<1>1. IInv => OneEnd
  BY DEF IInv
<1> QED BY Invariant, <1>1, PTL
=============================================================================
