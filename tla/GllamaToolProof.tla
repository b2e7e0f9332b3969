--------------------------- MODULE GllamaToolProof ---------------------------
(***************************************************************************)
(* Proofs about GllamaTool, for any archive, any releases and all options. *)
(***************************************************************************)
EXTENDS GllamaTool, SequenceTheorems

(***************************************************************************)
(* The inductive invariant.                                                *)
(***************************************************************************)
\* The options passed on are ones that were given.
OptionsGiven == Asked => opts \in Given

\* Spinner.Stop is called where the spinner spins, and nowhere else.
SpinnerInStep ==
    /\ command \in {"start", "poll", "wait", "stop"} => spinner = "spinning"
    /\ command = "stopping" => spinner = "clearing"
    /\ command \notin {"start", "poll", "wait", "stop", "stopping"} => spinner = "off"

\* An installation is for one release.
Chosen == command \in {"download", "open", "extract", "installed"} => asset \in Versions

\* EnsureDependencies has looked, and nobody else installs.
StillMissing == command \in {"resolve", "download", "open"} => Missing

\* Only the release itself is ever written into its directory, or junk.
OwnDirectory ==
    \A v \in Versions, f \in Files : file[v][f] # None =>
        /\ Len(file[v][f]) <= Size[v]
        /\ \A i \in 1..Len(file[v][f]) : file[v][f][i] \in {v, Junk}

\* The open file, as far as it has been copied.
CopiedSoFar ==
    command = "extract" /\ block # None =>
        /\ ~Extracted /\ Current \notin Skipped
        /\ file[Target][Current] # None
        /\ block <= Len(file[Target][Current])
        /\ Len(file[Target][Current]) <= Size[asset]
        /\ archive # "gap" => \A i \in 1..block : file[Target][Current][i] = asset

\* The files before it.
ExtractedSoFar ==
    command \in {"extract", "installed"} /\ Trusted => \A i \in 1..position :
        \/ Archive[i] \in Skipped
        \/ block # None /\ Archive[i] = Current
        \/ Whole(Target, Archive[i], asset)

\* Nothing is left open, or out.
AllExtracted == command = "installed" => Extracted

\* Before that, nothing is open.
AtRest == command \notin {"extract", "failed"} => block = None

IInv == /\ TypeOK /\ OptionsGiven /\ SpinnerInStep
        /\ Chosen /\ StillMissing /\ OwnDirectory
        /\ CopiedSoFar /\ ExtractedSoFar /\ AllExtracted /\ AtRest
-----------------------------------------------------------------------------
\* The bounds are numbers.
LEMMA Bounds == Len(Archive) \in Nat /\ MaxPolls \in Nat
  BY ToolAssumption

\* A release is a number other than that of bin/deps, and has files.
LEMMA Releases ==
    ASSUME NEW v \in Versions
    PROVE  /\ v # None /\ v # DepsDir /\ v # Junk
           /\ Size[v] \in Nat \ {0} /\ Size[v] # None /\ 0 \in 0..Size[v]
<1>1. v \in Nat \ {0} /\ Size[v] \in Nat \ {0} /\ None \notin Nat
  BY ToolAssumption
<1> QED BY <1>1 DEF DepsDir, Junk

\* Nothing is installed, and the tool is idle.
THEOREM Initially == Init => IInv
<1> SUFFICES ASSUME Init PROVE IInv
  OBVIOUS
<1> USE ToolAssumption DEF Init
<1>1. TypeOK
  <2>1. file \in [Dirs -> [Files -> Seq(Blocks) \union {None}]]
    OBVIOUS
  <2>2. polls \in 0..MaxPolls /\ position \in 0..Len(Archive)
    BY Bounds
  <2> QED BY <2>1, <2>2 DEF TypeOK
<1>2. OptionsGiven /\ SpinnerInStep /\ Chosen /\ StillMissing
  BY DEF OptionsGiven, Asked, SpinnerInStep, Chosen, StillMissing
<1>3. OwnDirectory
  BY DEF OwnDirectory, Dirs
<1>4. CopiedSoFar /\ ExtractedSoFar /\ AllExtracted
  BY DEF CopiedSoFar, ExtractedSoFar, AllExtracted
<1>5. AtRest
  BY DEF AtRest
<1> QED BY <1>1, <1>2, <1>3, <1>4, <1>5 DEF IInv

(***************************************************************************)
(* The files of an archive and where they go.                              *)
(***************************************************************************)
LEMMA Where ==
    ASSUME TypeOK, ~Extracted
    PROVE  /\ position + 1 \in 1..Len(Archive) /\ Current \in Files
           /\ position \in Nat
<1>1. position \in Nat /\ position + 1 \in 1..Len(Archive)
  BY Bounds DEF TypeOK, Extracted
<1> QED BY <1>1, ToolAssumption DEF Current, Files

\* The files of a release go to a directory there is.
LEMMA There == ASSUME TypeOK, asset \in Versions PROVE Target \in Dirs
  BY DEF Target, Dirs

\* All that setup has to say, outside of an installation.
Installing == {"resolve", "download", "open", "extract", "installed"}
Installs == Chosen /\ StillMissing /\ CopiedSoFar /\ ExtractedSoFar /\ AllExtracted

\* An installation is about the variables it names.
LEMMA SameInstall ==
    ASSUME Installs, UNCHANGED <<format, file, command, setting>>
    PROVE  Installs'
  BY DEF Installs, setting, Chosen, StillMissing, Missing, CopiedSoFar, ExtractedSoFar,
     AllExtracted, Extracted, Current, Target, Skipped, Whole, Trusted

\* What a directory holds is about its files.
LEMMA SameDirectory == ASSUME OwnDirectory, file' = file PROVE OwnDirectory'
  BY DEF OwnDirectory

(***************************************************************************)
(* What becomes of the open file.                                          *)
(***************************************************************************)
Open == file[Target][Current]

\* The open file is typed and no longer than the one it becomes.
LEMMA OpenTyped ==
    ASSUME IInv, command = "extract", block # None
    PROVE  /\ Open \in Seq(Blocks) /\ asset \in Versions
           /\ Target \in Dirs /\ Current \in Files
           /\ block \in Nat /\ block <= Len(Open) /\ Len(Open) <= Size[asset]
           /\ Len(Open) \in Nat /\ Size[asset] \in Nat
<1>1. TypeOK /\ asset \in Versions
  BY DEF IInv, Chosen
<1>2. /\ ~Extracted /\ Open # None /\ block <= Len(Open)
      /\ Len(Open) <= Size[asset]
  BY DEF IInv, CopiedSoFar, Open
<1>3. Target \in Dirs /\ Current \in Files
  BY <1>1, <1>2, Where, There
<1>4. Open \in Seq(Blocks)
  BY <1>1, <1>2, <1>3 DEF TypeOK, Open
<1>5. Size[asset] \in Nat
  BY <1>1, ToolAssumption
<1>6. block \in Nat
  BY <1>1, <1>5 DEF TypeOK
<1>7. Len(Open) \in Nat
  BY <1>4, LenProperties
<1> QED BY <1>1, <1>2, <1>3, <1>4, <1>5, <1>6, <1>7

\* CopyBlock's new blocks: the next one is what has been read, the rest as before.
LEMMA Copying ==
    ASSUME IInv, CopyBlock
    PROVE  \E now \in Seq(Blocks) :
             /\ Store(Target, Current, now)
             /\ block + 1 <= Len(now) /\ Len(now) <= Size[asset]
             /\ archive # "gap" => \A i \in 1..(block + 1) : now[i] = asset
             /\ Len(Open) <= Len(now)
             /\ \A i \in 1..Len(now) :
                  now[i] \in Decoded \/ (i <= Len(Open) /\ now[i] = Open[i])
<1>1. /\ Open \in Seq(Blocks) /\ asset \in Versions
      /\ block \in Nat /\ block <= Len(Open) /\ Len(Open) <= Size[asset]
      /\ block < Size[asset] /\ Len(Open) \in Nat /\ Size[asset] \in Nat
  BY OpenTyped DEF CopyBlock
<1>2. archive # "gap" => \A i \in 1..block : Open[i] = asset
  BY DEF CopyBlock, IInv, CopiedSoFar, Open
<1>0. PICK read \in Decoded :
         Store(Target, Current,
               IF block < Len(Open) THEN [Open EXCEPT ![block + 1] = read]
                                    ELSE Append(Open, read))
  BY DEF CopyBlock, Open
<1>5. /\ read \in Blocks
      /\ archive # "gap" => read = asset
  BY <1>0, <1>1 DEF Decoded, Blocks
<1>3. CASE block < Len(Open)
  <2> DEFINE now == [Open EXCEPT ![block + 1] = read]
  <2>1. (block + 1) \in 1..Len(Open)
    BY <1>1, <1>3
  <2>2. /\ now \in Seq(Blocks) /\ Len(now) = Len(Open)
        /\ \A j \in 1..Len(Open) : now[j] = IF j = block + 1 THEN read ELSE Open[j]
    BY <1>1, <1>5, <2>1, ExceptSeq
  <2>3. Store(Target, Current, now)
    BY <1>0, <1>3
  <2> HIDE DEF now
  <2>4. archive # "gap" => \A i \in 1..(block + 1) : now[i] = asset
    BY <1>1, <1>2, <1>3, <1>5, <2>2
  <2>5. \A i \in 1..Len(now) : now[i] \in Decoded \/ (i <= Len(Open) /\ now[i] = Open[i])
    BY <1>0, <1>1, <2>2
  <2> QED BY <1>1, <1>3, <2>2, <2>3, <2>4, <2>5
<1>4. CASE ~(block < Len(Open))
  <2> DEFINE now == Append(Open, read)
  <2>1. block = Len(Open)
    BY <1>1, <1>4
  <2>2. /\ now \in Seq(Blocks) /\ Len(now) = Len(Open) + 1
        /\ \A j \in 1..Len(Open) : now[j] = Open[j]
        /\ now[Len(Open) + 1] = read
    BY <1>1, <1>5, AppendProperties
  <2>3. Store(Target, Current, now)
    BY <1>0, <1>4
  <2> HIDE DEF now
  <2>4. archive # "gap" => \A i \in 1..(block + 1) : now[i] = asset
    BY <1>1, <1>2, <1>5, <2>1, <2>2
  <2>5. \A i \in 1..Len(now) : now[i] \in Decoded \/ (i <= Len(Open) /\ now[i] = Open[i])
    BY <1>0, <1>1, <2>2
  <2> QED BY <1>1, <2>1, <2>2, <2>3, <2>4, <2>5
<1> QED BY <1>3, <1>4

-----------------------------------------------------------------------------
(***************************************************************************)
(* Types.                                                                  *)
(***************************************************************************)
\* A write leaves the files typed.
LEMMA StoreTyped ==
    ASSUME TypeOK, NEW d \in Dirs, NEW f \in Files,
           NEW blocks \in Seq(Blocks) \union {None}, Store(d, f, blocks)
    PROVE  file' \in [Dirs -> [Files -> Seq(Blocks) \union {None}]]
<1>1. [file[d] EXCEPT ![f] = blocks] \in [Files -> Seq(Blocks) \union {None}]
  BY DEF TypeOK
<1> QED BY <1>1 DEF TypeOK, Store

\* A write changes one file of one directory.
LEMMA StoreAt ==
    ASSUME TypeOK, NEW d \in Dirs, NEW f \in Files, NEW blocks, Store(d, f, blocks)
    PROVE  /\ file'[d][f] = blocks
           /\ \A e \in Dirs, g \in Files : e # d \/ g # f => file'[e][g] = file[e][g]
<1>1. file'[d] = [file[d] EXCEPT ![f] = blocks]
      /\ \A e \in Dirs : e # d => file'[e] = file[e]
  BY DEF TypeOK, Store
<1>2. file[d] \in [Files -> Seq(Blocks) \union {None}]
  BY DEF TypeOK
<1> QED BY <1>1, <1>2

\* OpenFile leaves the file empty, or as it was.
LEMMA Emptied == ASSUME TypeOK, OpenFile, asset \in Versions
                 PROVE  \E blocks \in Seq(Blocks) :
                          /\ Store(Target, Current, blocks)
                          /\ blocks = IF format = "zip" \/ Open = None
                                       THEN <<>> ELSE Open
<1>1. Open \in Seq(Blocks) \union {None}
  BY Where, There DEF TypeOK, OpenFile, Open
<1>2. <<>> \in Seq(Blocks)
  BY EmptySeq
<1> QED BY <1>1, <1>2 DEF OpenFile, Open

\* The steps of setup keep the types.
LEMMA TypeSetup ==
    ASSUME IInv, Setup \/ SetupStep
    PROVE  TypeOK'
<1>0. TypeOK
  BY DEF IInv
<1>1. asset' \in Versions \union {None} /\ archive' \in {"none", "whole", "cut", "gap"}
      /\ UNCHANGED <<format, latest, running, server>>
  BY <1>0 DEF Setup, SetupStep, setting, Resolve, Download, OpenArchive, SkipLink,
     OpenFile, CopyBlock, CloseFile, Finish, SetupFails, Report, Goto, TypeOK
<1>2. command' \in {"idle", "resolve", "download", "open", "extract", "installed",
                    "success", "failed"}
  BY DEF Setup, SetupStep, Resolve, Download, OpenArchive, SkipLink,
     OpenFile, CopyBlock, CloseFile, Finish, SetupFails, Report, Goto
<1>3. /\ position' \in 0..Len(Archive)
      /\ file' \in [Dirs -> [Files -> Seq(Blocks) \union {None}]]
      /\ block' = None \/ (asset' # None /\ block' \in 0..Size[asset'])
  <2>0. /\ 0 \in 0..Len(Archive) /\ position \in 0..Len(Archive)
        /\ file \in [Dirs -> [Files -> Seq(Blocks) \union {None}]]
        /\ block = None \/ (asset # None /\ block \in 0..Size[asset])
    BY <1>0, Bounds DEF TypeOK
  <2>1. CASE Setup \/ Download \/ Finish \/ SetupFails
    BY <2>0, <2>1 DEF Setup, Download, Finish, SetupFails, setting
  <2>2. CASE OpenArchive \/ Report
    BY <2>0, <2>2 DEF OpenArchive, Report
  <2>3. CASE SkipLink \/ CloseFile
    <3>1. CASE SkipLink
      <4>1. position + 1 \in 0..Len(Archive)
        BY <1>0, <3>1, Where, Bounds DEF SkipLink
      <4> QED BY <2>0, <3>1, <4>1 DEF SkipLink
    <3>2. CASE CloseFile
      <4>1. block # None
        BY <3>2, <1>0, ToolAssumption DEF CloseFile, Copied, IInv, Chosen
      <4>2. ~Extracted
        BY <3>2, <4>1 DEF CloseFile, IInv, CopiedSoFar
      <4>3. position + 1 \in 0..Len(Archive)
        BY <1>0, <4>2, Where, Bounds
      <4> QED BY <2>0, <3>2, <4>3 DEF CloseFile
    <3> QED BY <2>3, <3>1, <3>2
  <2>4. CASE Resolve
    <3>1. block = None
      BY <2>4 DEF Resolve, Goto, IInv, AtRest
    <3> QED BY <2>0, <2>4, <3>1 DEF Resolve
  <2>5. CASE OpenFile
    <3>1. asset \in Versions /\ asset # None /\ 0 \in 0..Size[asset]
      BY <2>5, Releases DEF OpenFile, IInv, Chosen
    <3>2. Target \in Dirs /\ Current \in Files
      BY <1>0, <2>5, <3>1, Where, There DEF OpenFile
    <3>3. file' \in [Dirs -> [Files -> Seq(Blocks) \union {None}]]
      BY <1>0, <2>5, <3>1, <3>2, Emptied, StoreTyped
    <3> QED BY <2>0, <2>5, <3>1, <3>3 DEF OpenFile
  <2>6. CASE CopyBlock
    <3>1. /\ asset \in Versions /\ asset # None /\ Target \in Dirs
          /\ Current \in Files /\ block + 1 \in 0..Size[asset]
      <4>1. /\ asset \in Versions /\ Target \in Dirs /\ Current \in Files
            /\ block \in Nat /\ block < Size[asset] /\ Size[asset] \in Nat
        BY <2>6, OpenTyped DEF CopyBlock
      <4> QED BY <4>1, Releases
    <3>2. file' \in [Dirs -> [Files -> Seq(Blocks) \union {None}]]
      BY <1>0, <2>6, <3>1, Copying, StoreTyped
    <3> QED BY <2>0, <2>6, <3>1, <3>2 DEF CopyBlock
  <2> QED BY <2>1, <2>2, <2>3, <2>4, <2>5, <2>6 DEF SetupStep
<1> QED BY <1>0, <1>1, <1>2, <1>3 DEF TypeOK, running

\* So do those of run.
LEMMA TypeRun ==
    ASSUME IInv, Run \/ RunStep \/ Crash \/ ServerSteps \/ Ask \/ Answer
    PROVE  TypeOK'
<1>0. TypeOK
  BY DEF IInv
<1>1. 0 \in 0..MaxPolls /\ 0 \in 0..Len(Archive)
  BY Bounds
<1> USE <1>0, <1>1 DEF TypeOK, setting, running, Goto
<1>2. CASE Run \/ Ask
  BY <1>2 DEF Run, Ask
<1>3. CASE Crash \/ ServerSteps \/ Answer
  BY <1>3 DEF Crash, ServerSteps, Answer
<1>4. CASE Direct \/ Look \/ StartServer
  BY <1>4 DEF Direct, Look, StartServer
<1>5. CASE StartServerFails \/ PollTimedOut \/ Respond \/ ReadBody
  BY <1>5 DEF StartServerFails, GiveUp, PollTimedOut, Respond, ReadBody, StopThen
<1>6. CASE Poll
  <2>1. polls' \in 0..MaxPolls
    BY <1>6, Bounds DEF Poll, MorePolls
  <2> QED BY <1>6, <2>1 DEF Poll, StopThen
<1>7. CASE Post \/ Stop
  BY <1>7 DEF Post, Stop, SendStop
<1>8. CASE Stopped
  BY <1>8 DEF Stopped
<1> QED BY <1>2, <1>3, <1>4, <1>5, <1>6, <1>7, <1>8 DEF RunStep

\* And everybody else's.
LEMMA TypeStep == ASSUME IInv, [Next]_vars PROVE TypeOK'
<1>0. TypeOK
  BY DEF IInv
<1>1. CASE Publish
  BY <1>0, <1>1 DEF Publish, TypeOK, setting, running
<1>2. CASE Delete
  <2>1. DepsDir \in Dirs /\ LlamaCli \in Files
    BY ToolAssumption DEF Dirs
  <2>2. file' \in [Dirs -> [Files -> Seq(Blocks) \union {None}]]
    BY <1>0, <1>2, <2>1, StoreTyped DEF Delete
  <2> QED BY <1>0, <1>2, <2>2 DEF Delete, TypeOK, setting, running
<1>3. CASE UNCHANGED vars
  BY <1>0, <1>3 DEF vars, TypeOK, setting, running
<1> QED BY <1>1, <1>2, <1>3, TypeSetup, TypeRun DEF Next

-----------------------------------------------------------------------------
(***************************************************************************)
(* The options, the spinner and the open file, along every path.           *)
(***************************************************************************)
Paths == OptionsGiven /\ SpinnerInStep /\ AtRest

\* Every step keeps the options, the spinner and the files closed at rest.
LEMMA PathsStep == ASSUME IInv, [Next]_vars PROVE Paths'
<1> USE DEF IInv, Paths, OptionsGiven, Asked, SpinnerInStep, AtRest, Goto, setting,
        running
<1>1. CASE Setup
  BY <1>1 DEF Setup
<1>2. CASE SetupStep
  <2>1. CASE Resolve \/ Download \/ OpenArchive \/ SkipLink
    BY <2>1 DEF Resolve, Download, OpenArchive, SkipLink
  <2>2. CASE OpenFile \/ CopyBlock \/ CloseFile
    BY <2>2 DEF OpenFile, CopyBlock, CloseFile
  <2>3. CASE Finish \/ SetupFails \/ Report
    BY <2>3 DEF Finish, SetupFails, Report
  <2> QED BY <1>2, <2>1, <2>2, <2>3 DEF SetupStep
<1>3. CASE Run \/ Ask \/ Answer
  BY <1>3 DEF Run, Ask, Answer
<1>4. CASE RunStep
  <2>1. CASE Direct \/ Look \/ Post \/ ReadBody
    BY <2>1 DEF Direct, Look, Post, ReadBody
  <2>2. CASE StartServer \/ StartServerFails \/ PollTimedOut \/ Respond
    BY <2>2 DEF StartServer, StartServerFails, PollTimedOut, Respond, GiveUp, StopThen
  <2>3. CASE Poll
    BY <2>3 DEF Poll, StopThen
  <2>4. CASE Stop
    BY <2>4 DEF Stop, SendStop
  <2>5. CASE Stopped
    BY <2>5 DEF Stopped, TypeOK
  <2> QED BY <1>4, <2>1, <2>2, <2>3, <2>4, <2>5 DEF RunStep
<1>5. CASE Crash \/ ServerSteps
  BY <1>5 DEF Crash, ServerSteps
<1>6. CASE Publish \/ Delete
  BY <1>6 DEF Publish, Delete
<1>7. CASE UNCHANGED vars
  BY <1>7 DEF vars
<1> QED BY <1>1, <1>2, <1>3, <1>4, <1>5, <1>6, <1>7 DEF Next

-----------------------------------------------------------------------------
(***************************************************************************)
(* The installation.                                                       *)
(***************************************************************************)
Directory == OwnDirectory /\ Installs

\* Two ways to leave the directory and the installation alone.
LEMMA NotInstalling ==
    ASSUME IInv, file' = file, command' \notin Installing
    PROVE  Directory'
<1>1. Installs'
  BY DEF Installing, Installs, Chosen, StillMissing, CopiedSoFar, ExtractedSoFar,
     AllExtracted
<1>2. OwnDirectory'
  BY SameDirectory DEF IInv
<1> QED BY <1>1, <1>2 DEF Directory

\* The first: the files, the release and the command are as before.
LEMMA SameState ==
    ASSUME IInv, UNCHANGED <<format, file, command, setting>>
    PROVE  Directory'
<1>1. Installs
  BY DEF IInv, Installs
<1> QED BY <1>1, SameInstall, SameDirectory DEF IInv, Directory

LEMMA DirectoryResolved ==
    ASSUME IInv, Setup \/ Resolve \/ Download \/ OpenArchive
    PROVE  Directory'
<1>0. TypeOK /\ OwnDirectory'
  BY SameDirectory DEF IInv, Setup, Resolve, Download, OpenArchive
<1>1. Chosen'
  BY <1>0 DEF IInv, Chosen, Setup, Resolve, Download, OpenArchive, Goto, setting, TypeOK
<1>2. StillMissing'
  BY DEF IInv, StillMissing, Missing, Setup, Resolve, Download, OpenArchive, Goto
<1>3. AllExtracted' /\ CopiedSoFar'
  BY DEF AllExtracted, CopiedSoFar, Setup, Resolve, Download, OpenArchive, Goto
<1>4. ExtractedSoFar'
  <2>1. CASE Setup \/ Resolve \/ Download
    BY <2>1 DEF ExtractedSoFar, Setup, Resolve, Download, Goto
  <2>2. CASE OpenArchive
    <3>1. position' = 0
      BY <2>2 DEF OpenArchive
    <3> QED BY <3>1 DEF ExtractedSoFar
  <2> QED BY <2>1, <2>2
<1> QED BY <1>0, <1>1, <1>2, <1>3, <1>4 DEF Directory, Installs

\* The next file of the archive.
LEMMA DirectoryNext ==
    ASSUME IInv, SkipLink \/ CloseFile
    PROVE  Directory'
<1>0. TypeOK /\ OwnDirectory' /\ command = "extract" /\ asset \in Versions
  BY SameDirectory DEF IInv, SkipLink, CloseFile, Chosen
<1>1. /\ UNCHANGED <<format, file, command, asset, archive>>
      /\ position' = position + 1
  BY DEF SkipLink, CloseFile
<1>2. Target' = Target /\ Skipped' = Skipped /\ Trusted' = Trusted
  BY <1>1 DEF Target, Skipped, Trusted
<1>3. block' = None
  <2>1. CASE SkipLink
    <3>1. block = None
      BY <1>0, <2>1 DEF SkipLink, IInv, CopiedSoFar
    <3> QED BY <2>1, <3>1 DEF SkipLink
  <2>2. CASE CloseFile
    BY <2>2 DEF CloseFile
  <2> QED BY <2>1, <2>2
<1>4. /\ ~Extracted
      /\ \/ Archive[position + 1] \in Skipped
         \/ ~Trusted
         \/ Whole(Target, Archive[position + 1], asset)
  <2>1. CASE SkipLink
    BY <2>1 DEF SkipLink, Current
  <2>2. CASE CloseFile
    <3>1. block # None /\ block = Size[asset]
      BY <1>0, <2>2, Releases DEF CloseFile, Copied
    <3>2. ~Extracted
      BY <1>0, <3>1 DEF IInv, CopiedSoFar
    <3>3. CASE archive # "gap"
      <4>1. /\ Open \in Seq(Blocks) /\ Len(Open) = block
            /\ \A i \in 1..block : Open[i] = asset
        BY <1>0, <3>1, <3>3, OpenTyped DEF IInv, CopiedSoFar, Open
      <4>2. DOMAIN Open = 1..Size[asset]
        BY <3>1, <4>1, LenProperties
      <4>3. Open = [i \in 1..Size[asset] |-> asset]
        BY <3>1, <4>1, <4>2, LenProperties
      <4> QED BY <3>2, <4>3 DEF Whole, Open, Current
    <3>4. CASE format = "zip"
      BY <2>2, <3>2, <3>4 DEF CloseFile, Copied, Current
    <3> QED BY <3>2, <3>3, <3>4 DEF Trusted
  <2> QED BY <2>1, <2>2
<1>5. Trusted => \A i \in 1..position :
        Archive[i] \in Skipped \/ Archive[i] = Current \/ Whole(Target, Archive[i], asset)
  BY <1>0 DEF IInv, ExtractedSoFar
<1>6. Trusted => \A i \in 1..(position + 1) :
        Archive[i] \in Skipped \/ Whole(Target, Archive[i], asset)
  BY <1>0, <1>4, <1>5, Where DEF Current
<1>7. ExtractedSoFar'
  BY <1>1, <1>2, <1>6 DEF ExtractedSoFar, Whole
<1>8. Chosen' /\ StillMissing' /\ CopiedSoFar' /\ AllExtracted'
  BY <1>0, <1>1, <1>3 DEF Chosen, StillMissing, CopiedSoFar, AllExtracted
<1> QED BY <1>0, <1>7, <1>8 DEF Directory, Installs

\* The archive's two formats.
LEMMA Forms == ASSUME TypeOK PROVE format \in {"zip", "tar.gz"}
  BY ToolAssumption DEF TypeOK

\* What a write into the open file leaves alone.
LEMMA Written ==
    ASSUME IInv, command = "extract", command' = "extract", ~Extracted,
           Current \notin Skipped, NEW blocks \in Seq(Blocks),
           Store(Target, Current, blocks), UNCHANGED <<format, asset, archive, position>>,
           block' # None, block' <= Len(blocks), Len(blocks) <= Size[asset],
           archive # "gap" => \A i \in 1..block' : blocks[i] = asset,
           format = "tar.gz" => \A i \in 1..Len(blocks) : blocks[i] \in {asset, Junk}
    PROVE  Directory'
<1>0. TypeOK /\ asset \in Versions
  BY DEF IInv, Chosen
<1>1. Target \in Dirs /\ Current \in Files
  BY <1>0, Where, There
<1>2. /\ Target' = Target /\ Skipped' = Skipped /\ Current' = Current
      /\ ~Extracted' /\ Trusted' = Trusted
  BY DEF Target, Skipped, Current, Extracted, Trusted
<1>3. /\ file'[Target][Current] = blocks
      /\ \A e \in Dirs, g \in Files :
           e # Target \/ g # Current => file'[e][g] = file[e][g]
  BY <1>0, <1>1, StoreAt
<1>4. blocks # None
  BY ToolAssumption
<1>5. CopiedSoFar'
  BY <1>2, <1>3, <1>4 DEF CopiedSoFar
<1>6. ExtractedSoFar'
  <2>1. ASSUME NEW i \in 1..position, Trusted
        PROVE  \/ Archive[i] \in Skipped
               \/ Archive[i] = Current
               \/ file'[Target][Archive[i]] = [j \in 1..Size[asset] |-> asset]
    <3>1. Archive[i] \in Files
      BY <1>0, Where, ToolAssumption DEF Files, TypeOK
    <3>2. \/ Archive[i] \in Skipped
          \/ Archive[i] = Current
          \/ Whole(Target, Archive[i], asset)
      BY <2>1 DEF IInv, ExtractedSoFar
    <3> QED BY <1>1, <1>3, <3>1, <3>2 DEF Whole
  <2> QED BY <1>2, <2>1 DEF ExtractedSoFar, Whole
<1>7. OwnDirectory'
  <2> SUFFICES ASSUME NEW v \in Versions, NEW f \in Files, file'[v][f] # None
               PROVE  /\ Len(file'[v][f]) <= Size[v]
                      /\ \A i \in 1..Len(file'[v][f]) : file'[v][f][i] \in {v, Junk}
    BY DEF OwnDirectory
  <2>1. v \in Dirs /\ v # DepsDir
    BY Releases DEF Dirs
  <2>2. CASE v = Target /\ f = Current
    <3>1. format = "tar.gz" /\ v = asset
      BY <1>0, <2>1, <2>2, Forms DEF Target, TypeOK
    <3> QED BY <1>3, <2>2, <3>1
  <2>3. CASE v # Target \/ f # Current
    <3>1. file'[v][f] = file[v][f]
      BY <1>3, <2>1, <2>3
    <3> QED BY <3>1 DEF IInv, OwnDirectory
  <2> QED BY <2>2, <2>3
<1>8. Chosen' /\ StillMissing' /\ AllExtracted'
  BY <1>0 DEF Chosen, StillMissing, AllExtracted
<1> QED BY <1>5, <1>6, <1>7, <1>8 DEF Directory, Installs

\* OpenFile starts the next file.
LEMMA DirectoryOpen == ASSUME IInv, OpenFile PROVE Directory'
<1>0. /\ TypeOK /\ asset \in Versions /\ command = "extract" /\ command' = "extract"
      /\ ~Extracted /\ Current \notin Skipped /\ block' = 0
      /\ UNCHANGED <<format, asset, archive, position>>
  BY DEF IInv, Chosen, OpenFile
<1>1. PICK blocks \in Seq(Blocks) :
         /\ Store(Target, Current, blocks)
         /\ blocks = IF format = "zip" \/ Open = None THEN <<>> ELSE Open
  BY <1>0, Emptied
<1>2. /\ Len(blocks) \in Nat /\ Size[asset] \in Nat /\ block' # None
      /\ block' <= Len(blocks) /\ \A i \in 1..block' : blocks[i] = asset
  <2>1. Len(blocks) \in Nat
    BY LenProperties
  <2>2. 0 # None
    BY ToolAssumption
  <2> QED BY <1>0, <2>1, <2>2, Releases
<1>3. CASE format = "zip" \/ Open = None
  <2>1. Len(blocks) = 0
    BY <1>1, <1>3, EmptySeq
  <2>2. Len(blocks) <= Size[asset] /\ \A i \in 1..Len(blocks) : blocks[i] \in {asset, Junk}
    BY <1>0, <1>2, <2>1, Releases
  <2> QED BY <1>0, <1>1, <1>2, <2>2, Written
<1>4. CASE format # "zip" /\ Open # None
  <2>1. Target = asset /\ Current \in Files /\ blocks = Open
    BY <1>0, <1>1, <1>4, Where DEF Target
  <2>2. Len(blocks) <= Size[asset] /\ \A i \in 1..Len(blocks) : blocks[i] \in {asset, Junk}
    BY <1>0, <1>4, <2>1 DEF IInv, OwnDirectory, Open
  <2> QED BY <1>0, <1>1, <1>2, <2>2, Written
<1> QED BY <1>3, <1>4

\* CopyBlock copies one block more.
LEMMA DirectoryCopy == ASSUME IInv, CopyBlock PROVE Directory'
<1>0. /\ TypeOK /\ asset \in Versions /\ command = "extract" /\ command' = "extract"
      /\ block # None /\ block' = block + 1
      /\ ~Extracted /\ Current \notin Skipped
      /\ UNCHANGED <<format, asset, archive, position>>
  BY DEF IInv, Chosen, CopyBlock, CopiedSoFar
<1>1. PICK now \in Seq(Blocks) :
         /\ Store(Target, Current, now)
         /\ block + 1 <= Len(now) /\ Len(now) <= Size[asset]
         /\ archive # "gap" => \A i \in 1..(block + 1) : now[i] = asset
         /\ Len(Open) <= Len(now)
         /\ \A i \in 1..Len(now) :
              now[i] \in Decoded \/ (i <= Len(Open) /\ now[i] = Open[i])
  BY Copying
<1>2. block' # None
  BY <1>0, OpenTyped, ToolAssumption
<1>3. format = "tar.gz" => \A i \in 1..Len(now) : now[i] \in {asset, Junk}
  <2> SUFFICES ASSUME format = "tar.gz"
               PROVE  \A i \in 1..Len(now) : now[i] \in {asset, Junk}
    OBVIOUS
  <2>1. Target = asset /\ Current \in Files /\ Open # None /\ Len(Open) \in Nat
    BY <1>0, OpenTyped DEF Target, IInv, CopiedSoFar, Open
  <2>2. \A i \in 1..Len(Open) : Open[i] \in {asset, Junk}
    BY <1>0, <2>1 DEF IInv, OwnDirectory, Open
  <2>3. Len(now) \in Nat /\ Decoded \subseteq {asset, Junk}
    BY LenProperties DEF Decoded
  <2> QED BY <1>1, <2>1, <2>2, <2>3
<1> QED BY <1>0, <1>1, <1>2, <1>3, Written

\* Finish comes after the last file.
LEMMA DirectoryFinish == ASSUME IInv, Finish PROVE Directory'
<1>0. /\ command = "extract" /\ command' = "installed" /\ asset \in Versions
      /\ Extracted /\ UNCHANGED <<format, file, setting>>
  BY DEF IInv, Chosen, Finish, Goto
<1>1. OwnDirectory' /\ ExtractedSoFar'
  BY <1>0, SameDirectory DEF IInv, ExtractedSoFar, setting, Skipped, Target, Whole, Current,
     Trusted
<1>2. Chosen' /\ StillMissing' /\ CopiedSoFar' /\ AllExtracted'
  BY <1>0 DEF Chosen, StillMissing, CopiedSoFar, AllExtracted, Extracted, setting
<1> QED BY <1>1, <1>2 DEF Directory, Installs

\* The user deletes llama-cli while no installation is under way.
LEMMA DirectoryDelete == ASSUME IInv, Delete PROVE Directory'
<1>0. TypeOK /\ DepsDir \in Dirs /\ LlamaCli \in Files /\ command' = "idle"
  BY ToolAssumption DEF IInv, Delete, Dirs
<1>1. \A v \in Versions, f \in Files : file'[v][f] = file[v][f]
  BY <1>0, StoreAt, Releases DEF Delete, Dirs
<1>2. OwnDirectory'
  BY <1>1 DEF IInv, OwnDirectory
<1>3. Installs'
  BY <1>0 DEF Installs, Chosen, StillMissing, CopiedSoFar, ExtractedSoFar, AllExtracted
<1> QED BY <1>2, <1>3 DEF Directory

\* Every step keeps what is known of the files.
LEMMA DirectoryStep == ASSUME IInv, [Next]_vars PROVE Directory'
<1>1. CASE SetupFails \/ Report \/ Crash
  BY <1>1, NotInstalling DEF SetupFails, Report, Crash, Goto, Installing
<1>2. CASE Run \/ Ask \/ Answer
  BY <1>2, NotInstalling DEF Run, Ask, Answer, Goto, Installing
<1>3. CASE RunStep
  <2>1. file' = file
    BY <1>3 DEF RunStep, Direct, Look, StartServer, StartServerFails, Poll, PollTimedOut,
       Post, Respond, ReadBody, Stop, Stopped
  <2>2. command' \notin Installing
    BY <1>3 DEF RunStep, Direct, Look, StartServer, StartServerFails, Poll, PollTimedOut,
       Post, Respond, ReadBody, Stop, SendStop, Stopped, Goto, StopThen, GiveUp, IInv, TypeOK,
       Installing
  <2> QED BY <2>1, <2>2, NotInstalling
<1>4. CASE ServerSteps \/ Publish \/ UNCHANGED vars
  BY <1>4, SameState DEF ServerSteps, Publish, vars
<1> QED
  BY <1>1, <1>2, <1>3, <1>4, DirectoryResolved, DirectoryNext, DirectoryOpen,
     DirectoryCopy, DirectoryFinish, DirectoryDelete DEF Next, SetupStep

-----------------------------------------------------------------------------
\* The inductive invariant holds in every reachable state, with setups and runs
\* killed anywhere.
THEOREM Invariant == Spec => []IInv
<1>1. ASSUME IInv, [Next]_vars PROVE IInv'
  BY <1>1, TypeStep, PathsStep, DirectoryStep DEF IInv, Paths, Directory, Installs
<1> QED BY Initially, <1>1, PTL DEF Spec

\* Every variable stays in its type.
THEOREM TypeCorrect == Spec => []TypeOK
<1> QED BY Invariant, PTL DEF IInv

\* extractZip, extractTarGz: without an error every file is there, whole.
THEOREM HonestInstall == Spec => []InstallHonest
<1>1. IInv => InstallHonest
  <2> SUFFICES ASSUME IInv, command = "installed", Trusted, NEW f \in Files \ Skipped
               PROVE  Whole(Target, f, asset)
    BY DEF InstallHonest
  <2>1. position = Len(Archive) /\ block = None
    BY DEF IInv, AllExtracted, AtRest, Extracted
  <2>2. PICK i \in 1..position : f = Archive[i]
    BY <2>1, ToolAssumption DEF Files
  <2> QED BY <2>1, <2>2 DEF IInv, ExtractedSoFar
<1> QED BY <1>1, Invariant, PTL

\* executeRun, generate: the spinner is off when a command has ended.
THEOREM SpinnerOff == Spec => []NoSpinnerLeft
<1>1. IInv => NoSpinnerLeft
  BY DEF IInv, SpinnerInStep, NoSpinnerLeft
<1> QED BY <1>1, Invariant, PTL

\* NormalizeOptions, BuildArguments: what is given reaches llama-cli.
THEOREM ExplicitKept == Spec => []KeepsExplicit
<1>1. IInv => KeepsExplicit
  BY ExplicitValuesWin, ToolAssumption DEF IInv, OptionsGiven, KeepsExplicit
<1> QED BY <1>1, Invariant, PTL

\* NormalizeOptions: a preset makes a request fail in the listed cases only.
THEOREM PresetsSafe == Spec => []PresetIsSafe
<1>1. IInv => PresetIsSafe
  BY PresetsConservative, ToolAssumption DEF IInv, OptionsGiven, PresetIsSafe
<1> QED BY <1>1, Invariant, PTL

-----------------------------------------------------------------------------
(***************************************************************************)
(* A complete installation is not damaged.                                 *)
(***************************************************************************)
\* The same files make the same installation.
LEMMA SameFiles ==
    ASSUME NEW d \in Dirs, Complete(d, Files \ Skipped), format' = format,
           \A f \in Files \ Skipped : file'[d][f] = file[d][f]
    PROVE  Complete(d, Files \ Skipped)'
<1>1. Skipped' = Skipped
  BY DEF Skipped
<1> QED BY <1>1 DEF Complete, Whole

\* A file that is whole is there.
LEMMA WholeIsThere ==
    ASSUME NEW d, NEW f, NEW v \in Versions, Whole(d, f, v)
    PROVE  file[d][f] # None
<1> DEFINE blocks == [i \in 1..Size[v] |-> v]
<1>1. Size[v] \in Nat /\ v \in Blocks
  BY Releases DEF Blocks
<1>2. blocks \in [1..Size[v] -> Blocks]
  BY <1>1
<1>3. blocks \in Seq(Blocks)
  BY <1>1, <1>2
<1>4. None \notin Seq(Blocks)
  BY ToolAssumption
<1>5. file[d][f] = blocks
  BY DEF Whole
<1> QED BY <1>3, <1>4, <1>5

\* A complete directory has a llama-cli.
LEMMA CompleteHasCli ==
    ASSUME NEW d \in Dirs, Complete(d, Files \ Skipped)
    PROVE  file[d][LlamaCli] # None
<1>1. LlamaCli \in Files \ Skipped
  BY ToolAssumption DEF Skipped
<1>2. PICK v \in Versions : Whole(d, LlamaCli, v)
  BY <1>1 DEF Complete
<1> QED BY <1>2, WholeIsThere

\* A tar.gz extracted over a complete directory writes what is there.
LEMMA OpenKeeps ==
    ASSUME IInv, OpenFile, NEW d \in Dirs, d # DepsDir, Complete(d, Files \ Skipped)
    PROVE  \A f \in Files \ Skipped : file'[d][f] = file[d][f]
<1>0. /\ TypeOK /\ asset \in Versions /\ ~Extracted /\ Current \notin Skipped
  BY DEF IInv, Chosen, OpenFile
<1>1. Target \in Dirs /\ Current \in Files
  BY <1>0, Where, There
<1>2. PICK blocks \in Seq(Blocks) :
         /\ Store(Target, Current, blocks)
         /\ blocks = IF format = "zip" \/ Open = None THEN <<>> ELSE Open
  BY <1>0, Emptied
<1>3. /\ file'[Target][Current] = blocks
      /\ \A e \in Dirs, g \in Files :
           e # Target \/ g # Current => file'[e][g] = file[e][g]
  BY <1>0, <1>1, <1>2, StoreAt
<1>4. d = Target => blocks = file[d][Current]
  <2> SUFFICES ASSUME d = Target PROVE blocks = Open
    BY DEF Open
  <2>1. format # "zip"
    BY DEF Target
  <2>2. PICK v \in Versions : Whole(d, Current, v)
    BY <1>0, <1>1 DEF Complete
  <2>3. Open # None
    BY <2>2, WholeIsThere DEF Open
  <2> QED BY <1>2, <2>1, <2>3
<1> QED BY <1>3, <1>4

\* And so does each of its blocks.
LEMMA CopyKeeps ==
    ASSUME IInv, CopyBlock, Trusted,
           NEW d \in Dirs, d # DepsDir, Complete(d, Files \ Skipped)
    PROVE  \A f \in Files \ Skipped : file'[d][f] = file[d][f]
<1>0. /\ TypeOK /\ asset \in Versions /\ Target \in Dirs /\ Current \in Files
      /\ Current \notin Skipped /\ Open \in Seq(Blocks) /\ Len(Open) \in Nat
      /\ Open # None
  BY OpenTyped DEF IInv, CopyBlock, CopiedSoFar, Open
<1>1. PICK now \in Seq(Blocks) :
         /\ Store(Target, Current, now)
         /\ Len(now) <= Size[asset] /\ Len(Open) <= Len(now)
         /\ \A i \in 1..Len(now) :
              now[i] \in Decoded \/ (i <= Len(Open) /\ now[i] = Open[i])
  BY Copying
<1>2. /\ file'[Target][Current] = now
      /\ \A e \in Dirs, g \in Files :
           e # Target \/ g # Current => file'[e][g] = file[e][g]
  BY <1>0, <1>1, StoreAt
<1>3. d = Target => now = file[d][Current]
  <2> SUFFICES ASSUME d = Target PROVE now = Open
    BY DEF Open
  <2>1. Target = asset /\ Decoded = {asset}
    BY DEF Target, Trusted, Decoded
  <2>2. \A i \in 1..Len(Open) : Open[i] \in {asset, Junk}
    BY <1>0, <2>1 DEF IInv, OwnDirectory, Open
  <2>3. PICK v \in Versions : Open = [i \in 1..Size[v] |-> v]
    BY <1>0 DEF Complete, Whole, Open
  <2>4. Size[v] \in Nat \ {0} /\ Len(Open) = Size[v]
    <3>1. Size[v] \in Nat \ {0} /\ DOMAIN Open = 1..Size[v]
      BY <2>3, Releases
    <3>2. DOMAIN Open = 1..Len(Open)
      BY <1>0, LenProperties
    <3> QED BY <1>0, <3>1, <3>2
  <2>5. v = asset /\ \A i \in 1..Len(Open) : Open[i] = asset
    <3>1. Open[1] = v
      BY <2>3, <2>4
    <3>2. v = asset
      BY <2>2, <2>4, <3>1, Releases
    <3> QED BY <2>3, <2>4, <3>2
  <2>6. Len(now) \in Nat /\ Len(now) = Len(Open)
    BY <1>0, <1>1, <2>4, <2>5, LenProperties
  <2>7. \A i \in 1..Len(now) : now[i] = Open[i]
    BY <1>0, <1>1, <2>1, <2>5, <2>6
  <2> QED BY <1>0, <2>6, <2>7, SeqEqual
<1> QED BY <1>2, <1>3

\* EnsureDependencies: only the user makes a complete installation incomplete, or
\* a tar.gz with a gap.
THEOREM GoodKept == Spec => SetupKeepsGood
<1>1. ASSUME IInv, Next, ~Delete, Trusted, NEW d \in Dirs, Sound(d)
      PROVE  Sound(d)'
  <2>0. Complete(d, Files \ Skipped) /\ (d = DepsDir => command # "extract")
    BY <1>1 DEF Sound
  <2>1. format' = format
    BY <1>1 DEF Next, Setup, SetupStep, Resolve, Download, OpenArchive, SkipLink, OpenFile,
       CopyBlock, CloseFile, Finish, SetupFails, Report, Run, RunStep, Direct, Look,
       StartServer, StartServerFails, Poll, PollTimedOut, Post, Respond, ReadBody, Stop, Stopped,
       Crash, ServerSteps, Ask, Answer, Publish
  <2>2. CASE OpenFile
    <3>1. d # DepsDir
      BY <2>0, <2>2 DEF OpenFile
    <3> QED BY <1>1, <2>0, <2>1, <2>2, <3>1, OpenKeeps, SameFiles DEF Sound
  <2>3. CASE CopyBlock
    <3>1. d # DepsDir
      BY <2>0, <2>3 DEF CopyBlock
    <3> QED BY <1>1, <2>0, <2>1, <2>3, <3>1, CopyKeeps, SameFiles DEF Sound
  <2>4. CASE OpenArchive
    <3>1. file[DepsDir][LlamaCli] = None /\ file' = file
      BY <1>1, <2>4 DEF OpenArchive, Goto, IInv, StillMissing, Missing
    <3>2. d # DepsDir
      BY <2>0, <3>1, CompleteHasCli
    <3> QED BY <2>0, <2>1, <3>1, <3>2, SameFiles DEF Sound
  <2>5. CASE ~OpenFile /\ ~CopyBlock /\ ~OpenArchive
    <3>1. file' = file /\ (command' = "extract" => command = "extract")
      <4>1. CASE Setup \/ Run \/ Crash \/ ServerSteps \/ Ask \/ Answer \/ Publish
        BY <4>1 DEF Setup, Run, Crash, ServerSteps, Ask, Answer, Publish, Goto
      <4>2. CASE SetupStep
        BY <2>5, <4>2 DEF SetupStep, Resolve, Download, SkipLink, CloseFile, Finish,
           SetupFails, Report, Goto
      <4>3. CASE RunStep
        BY <1>1, <4>3 DEF RunStep, Direct, Look, StartServer, StartServerFails, Poll,
           PollTimedOut, Post, Respond, ReadBody, Stop, SendStop, Stopped, Goto, StopThen, GiveUp,
           IInv, TypeOK
      <4> QED BY <1>1, <4>1, <4>2, <4>3 DEF Next
    <3> QED BY <2>0, <2>1, <3>1, SameFiles DEF Sound
  <2> QED BY <2>2, <2>3, <2>4, <2>5
<1>2. IInv /\ [Next]_vars =>
        [\A d \in Dirs : Sound(d) => Sound(d)' \/ Delete \/ ~Trusted]_vars
  BY <1>1
<1> QED BY <1>2, Invariant, PTL DEF Spec, SetupKeepsGood
=============================================================================
