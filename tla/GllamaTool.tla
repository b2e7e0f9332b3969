----------------------------- MODULE GllamaTool -----------------------------
(***************************************************************************)
(* The command-line tool (cmd/gllama/main.go), one command after another:  *)
(* "setup", with which the dependency manager (internal/deps/manager.go)   *)
(* installs a llama.cpp release into bin/deps, and "run", which executes   *)
(* the installed llama-cli with the arguments made from its options        *)
(* (Options), or else starts gllama-server, polls it and posts a request,  *)
(* with a spinner on the screen.  The tool can be killed at every point;   *)
(* the directory and the server stay as they are.  The server's address is *)
(* local, as by default, and a prompt is given.                            *)
(*                                                                         *)
(* A file is the sequence of its blocks, each one of a release or Junk,    *)
(* bytes of none.  The files of a zip are at its root, those of a tar.gz in*)
(* a directory named for the release (llama.cpp/.github/workflows/         *)
(* release.yml).                                                           *)
(***************************************************************************)
EXTENDS Options, Sequences

CONSTANTS Archive,     \* the files of a release, in the order of its archive
          Links,       \* those that are symbolic links in a tar.gz
          Size,        \* versions -> how many blocks their files have
          Formats,     \* a subset of {"zip", "tar.gz"}
          Given,       \* the options that are tried
          MaxPolls,    \* 20 in the code
          None

Files == {Archive[i] : i \in DOMAIN Archive}
Versions == DOMAIN Size
LlamaCli == "llama-cli"

\* What is not any release's.
Junk == 0
Blocks == Versions \union {Junk}

\* The directories under bin/deps, itself among them.
DepsDir == 0
Dirs == Versions \union {DepsDir}

ASSUME ToolAssumption ==
    /\ Len(Archive) \in Nat /\ DOMAIN Archive = 1..Len(Archive)
    /\ LlamaCli \in Files \ Links
    /\ Versions \subseteq Nat \ {0} /\ \A v \in Versions : Size[v] \in Nat \ {0}
    /\ Given \subseteq OptionSpace /\ Given # {}
    /\ Formats \subseteq {"zip", "tar.gz"} /\ MaxPolls \in Nat
    /\ None \notin Nat \union Given \union Seq(Blocks)

VARIABLES
    format,    \* of the platform's archives
    latest,    \* the release that GitHub calls the latest
    file,      \* directory, name -> the file's blocks, None if there is none
    command,   \* where the tool is; "asked": it rests, and the server is asked
    asset,     \* setup: the version it installs
    archive,   \* setup: the state of the downloaded archive
    position,  \* setup: the files extracted
    block,     \* setup: the blocks copied of the open file, None if closed
    opts,      \* the options passed on to llama-cli
    server,    \* gllama-server
    polls,     \* run: the looks at it so far
    spinner,   \* the spinner's goroutine
    after      \* where the tool goes on after Spinner.Stop

setting == <<asset, archive, position, block>>
running == <<opts, polls, spinner, after>>
vars == <<format, latest, file, command, setting, running, server>>

Init ==
    /\ format \in Formats
    /\ latest \in Versions
    /\ file = [d \in Dirs |-> [f \in Files |-> None]]
    /\ command = "idle"
    /\ asset = None /\ archive = "none" /\ position = 0 /\ block = None
    /\ opts = None /\ server = "none" /\ polls = 0
    /\ spinner = "off" /\ after = "idle"

Goto(from, to) == command = from /\ command' = to

Store(d, f, blocks) == file' = [file EXCEPT ![d] = [@ EXCEPT ![f] = blocks]]

-----------------------------------------------------------------------------
(***************************************************************************)
(* gllama setup: EnsureDependencies(true).                                 *)
(***************************************************************************)
\* Mutant: it installs whether or not llama-cli is there.
AlwaysMissing == TRUE
Missing == file[DepsDir][LlamaCli] = None

Setup ==
    /\ Goto("idle", IF Missing THEN "resolve" ELSE "success")
    /\ UNCHANGED <<format, latest, file, setting, running, server>>

\* GetLatestRelease and ResolveAsset.
Resolve ==
    /\ Goto("resolve", "download")
    /\ asset' = latest
    /\ UNCHANGED <<format, latest, file, archive, position, block, running, server>>

\* The body was read to its end; the errors of out.Write are dropped, so a
\* full disk may have cost the temporary file its end or, if space became free
\* again, a part before that.
Download ==
    /\ Goto("download", "open")
    /\ archive' \in {"whole", "cut", "gap"}
    /\ UNCHANGED <<format, latest, file, asset, position, block, running, server>>

\* A zip file without its directory does not open, a tar.gz does.
OpenArchive ==
    /\ Goto("open", "extract")
    /\ format = "zip" => archive # "cut"
    /\ position' = 0 /\ block' = None
    /\ UNCHANGED <<format, latest, file, asset, archive, running, server>>

Extracted == position = Len(Archive)
Current == Archive[position + 1]
Target == IF format = "zip" THEN DepsDir ELSE asset

\* The switch over header.Typeflag knows no links.
Skipped == IF format = "zip" THEN {} ELSE Links

SkipLink ==
    /\ command = "extract" /\ ~Extracted /\ Current \in Skipped
    /\ position' = position + 1
    /\ UNCHANGED <<format, latest, file, command, asset, archive, block, running, server>>

\* O_TRUNC for zip only.
OpenFile ==
    /\ command = "extract" /\ ~Extracted /\ block = None /\ Current \notin Skipped
    /\ LET old == file[Target][Current]
       IN  Store(Target, Current, IF format = "zip" \/ old = None THEN <<>> ELSE old)
    /\ block' = 0
    /\ UNCHANGED <<format, latest, command, asset, archive, position, running, server>>

\* What decompressing gives; where it ends in an error, SetupFails.
Decoded == IF archive = "gap" THEN {asset, Junk} ELSE {asset}

CopyBlock ==
    /\ command = "extract" /\ block # None /\ block < Size[asset]
    /\ LET old == file[Target][Current]
       IN  \E read \in Decoded :
             Store(Target, Current,
                   IF block < Len(old) THEN [old EXCEPT ![block + 1] = read]
                                       ELSE Append(old, read))
    /\ block' = block + 1
    /\ UNCHANGED <<format, latest, command, asset, archive, position, running, server>>

Whole(d, f, v) == file[d][f] = [i \in 1..Size[v] |-> v]

\* Mutant: what io.Copy returns is not looked at.
CopiedSomehow == block # None
\* A file of a zip has a checksum, which is compared at the file's end; that of
\* a tar.gz comes at the very end, after the mark where the reading stops.
Copied == /\ block = Size[asset]
          /\ format = "zip" => Whole(Target, Current, asset)

CloseFile ==
    /\ command = "extract" /\ Copied
    /\ position' = position + 1
    /\ block' = None
    /\ UNCHANGED <<format, latest, file, command, asset, archive, running, server>>

\* The end of the archive, which a cut off one does not have.
Finish ==
    /\ Goto("extract", "installed")
    /\ Extracted /\ block = None /\ archive # "cut"
    /\ UNCHANGED <<format, latest, file, setting, running, server>>

\* Any step may fail: network, disk, permissions, a corrupt archive.
SetupFails ==
    /\ command \in {"resolve", "download", "open", "extract"}
    /\ command' = "failed"
    /\ UNCHANGED <<format, latest, file, setting, running, server>>

Report ==
    /\ \/ Goto("installed", "success")
       \/ command \in {"success", "failed"} /\ command' = "idle"
    /\ asset' = None /\ archive' = "none" /\ position' = 0 /\ block' = None
    /\ UNCHANGED <<format, latest, file, running, server>>

-----------------------------------------------------------------------------
(***************************************************************************)
(* gllama run: executeRun.                                                 *)
(***************************************************************************)
\* Of the options of Options the tool has only turboquant.
TurboQuantOnly(o) == /\ {o.fa, o.kv, o.k, o.v} = {"none"}
                     /\ {o.kvo, o.swa, o.kvu} = {"nil"}
                     /\ o.batch = 0

\* findLlamaCli looks for the file, as EnsureDependencies does.
Run ==
    /\ \/ Missing /\ Goto("idle", "look") /\ UNCHANGED opts
       \/ /\ ~Missing /\ Goto("idle", "direct")
          /\ opts' \in {o \in Given : TurboQuantOnly(o)}
    /\ UNCHANGED <<format, latest, file, setting, polls, spinner, after, server>>

\* runDirect: the user's session with llama-cli; it may not even start.
Direct ==
    /\ Goto("direct", "idle")
    /\ opts' = None
    /\ UNCHANGED <<format, latest, file, setting, polls, spinner, after, server>>

\* isServerRunning.
Look ==
    /\ command = "look"
    /\ IF server = "listening"
       THEN command' = "post" /\ UNCHANGED spinner
       ELSE command' = "start" /\ spinner' = "spinning"
    /\ UNCHANGED <<format, latest, file, setting, opts, polls, after, server>>

\* Spinner.Stop, then on with l.
StopThen(from, l) == Goto(from, "stop") /\ after' = l

\* Mutant: the spinner is left on.
LeaveIt(from) == Goto(from, "idle") /\ UNCHANGED after
GiveUp(from) == StopThen(from, "idle")

StartServer ==
    /\ Goto("start", "poll")
    /\ server' = IF server = "none" THEN "starting" ELSE server
    /\ polls' = 0
    /\ UNCHANGED <<format, latest, file, setting, opts, spinner, after>>

StartServerFails ==
    /\ GiveUp("start")
    /\ UNCHANGED <<format, latest, file, setting, opts, polls, spinner, server>>

\* Mutant: one look too many.
OneMorePoll == polls <= MaxPolls
MorePolls == polls < MaxPolls

Poll ==
    /\ MorePolls
    /\ \/ server = "listening" /\ StopThen("poll", "post") /\ UNCHANGED polls
       \/ /\ server # "listening" /\ command = "poll"
          /\ polls' = polls + 1
          /\ UNCHANGED <<command, after>>
    /\ UNCHANGED <<format, latest, file, setting, opts, spinner, server>>

\* "Server timed out"; the server may still be starting.
PollTimedOut ==
    /\ ~MorePolls
    /\ GiveUp("poll")
    /\ polls' = 0
    /\ UNCHANGED <<format, latest, file, setting, opts, spinner, server>>

\* generate: a spinner of its own until the response's header is there.
Post ==
    /\ Goto("post", "wait")
    /\ spinner' = "spinning"
    /\ UNCHANGED <<format, latest, file, setting, opts, polls, after, server>>

\* No connection, or the header of an answer.
Respond ==
    /\ StopThen("wait", "idle") \/ StopThen("wait", "read")
    /\ UNCHANGED <<format, latest, file, setting, opts, polls, spinner, server>>

\* The body: responses, one after another, up to one with Done, the body's end
\* or an error of either; with a status other than 200, all of it.
ReadBody ==
    /\ Goto("read", "idle")
    /\ UNCHANGED <<format, latest, file, setting, opts, polls, spinner, after, server>>

\* Mutant: the goroutine goes without sending on doneChan.
StopUnheard == Goto("stop", "stopping") /\ spinner' = "off"
\* stopChan <- true, which the goroutine receives between two frames.
SendStop == /\ Goto("stop", "stopping")
            /\ spinner = "spinning" /\ spinner' = "clearing"

Stop ==
    /\ SendStop
    /\ UNCHANGED <<format, latest, file, setting, opts, polls, after, server>>

\* doneChan, after the line is cleared.
Stopped ==
    /\ Goto("stopping", after)
    /\ spinner = "clearing" /\ spinner' = "off"
    /\ after' = "idle" /\ polls' = 0
    /\ UNCHANGED <<format, latest, file, setting, opts, server>>

-----------------------------------------------------------------------------
(***************************************************************************)
(* Everybody else.                                                         *)
(***************************************************************************)
\* The tool is killed; the spinner dies with it.
Crash ==
    /\ command \notin {"idle", "asked"}
    /\ command' = "idle"
    /\ asset' = None /\ archive' = "none" /\ position' = 0 /\ block' = None
    /\ opts' = None /\ polls' = 0 /\ spinner' = "off" /\ after' = "idle"
    /\ UNCHANGED <<format, latest, file, server>>

ServerSteps ==
    /\ \/ server = "starting" /\ server' \in {"listening", "none"}
       \/ server = "listening" /\ server' = "none"
    /\ UNCHANGED <<format, latest, file, command, setting, running>>

\* A request to the server gives any options.  It has nothing in common with
\* the tool's commands, so it comes between them.
Ask ==
    /\ server = "listening" /\ Goto("idle", "asked")
    /\ opts' \in Given
    /\ UNCHANGED <<format, latest, file, setting, polls, spinner, after, server>>

Answer ==
    /\ Goto("asked", "idle")
    /\ opts' = None
    /\ UNCHANGED <<format, latest, file, setting, polls, spinner, after, server>>

Publish ==
    /\ latest + 1 \in Versions
    /\ latest' = latest + 1
    /\ UNCHANGED <<format, file, command, setting, running, server>>

\* The user deletes llama-cli, for lack of another way to update it.
Delete ==
    /\ command = "idle"
    /\ Store(DepsDir, LlamaCli, None)
    /\ UNCHANGED <<format, latest, command, setting, running, server>>

-----------------------------------------------------------------------------
SetupStep == \/ Resolve \/ Download \/ OpenArchive \/ SkipLink \/ OpenFile
             \/ CopyBlock \/ CloseFile \/ Finish \/ SetupFails \/ Report
RunStep == \/ Direct \/ Look \/ StartServer \/ StartServerFails \/ Poll
           \/ PollTimedOut \/ Post \/ Respond \/ ReadBody \/ Stop \/ Stopped
Next == \/ Setup \/ SetupStep \/ Run \/ RunStep
        \/ Crash \/ ServerSteps \/ Ask \/ Answer \/ Publish \/ Delete

Spec == Init /\ [][Next]_vars

\* Where a command waits for GitHub, for the user of llama-cli or for the server,
\* without a timeout of its own.
Waiting == {"resolve", "download", "direct", "wait", "read"}

\* A command runs on except there; nobody has to give one.
FairSpec == /\ Spec
            /\ WF_vars(SetupStep /\ command \notin Waiting)
            /\ WF_vars(RunStep /\ command \notin Waiting)
-----------------------------------------------------------------------------
TypeOK ==
    /\ format \in Formats /\ latest \in Versions
    /\ file \in [Dirs -> [Files -> Seq(Blocks) \union {None}]]
    /\ command \in {"idle", "resolve", "download", "open", "extract", "installed",
                    "success", "failed", "asked", "direct", "look", "start", "poll",
                    "post", "wait", "read", "stop", "stopping"}
    /\ asset \in Versions \union {None}
    /\ archive \in {"none", "whole", "cut", "gap"}
    /\ position \in 0..Len(Archive)
    /\ block = None \/ (asset # None /\ block \in 0..Size[asset])
    /\ opts \in Given \union {None}
    /\ server \in {"none", "starting", "listening"}
    /\ polls \in 0..MaxPolls
    /\ spinner \in {"off", "spinning", "clearing"}
    /\ after \in {"idle", "post", "read"}

Complete(d, files) == \E v \in Versions : \A f \in files : Whole(d, f, v)

(***************************************************************************)
(* An extraction that reports no error (extractZip, extractTarGz) has put  *)
(* every file of the release where the archive has it, whatever was there  *)
(* and whatever went wrong with the download; from a tar.gz the links are  *)
(* missing, and nothing is promised of one with a gap.                     *)
(***************************************************************************)
Trusted == format = "zip" \/ archive # "gap"
InstallHonest ==
    command = "installed" /\ Trusted =>
        \A f \in Files \ Skipped : Whole(Target, f, asset)

(***************************************************************************)
(* setup never gets to extract a zip over a complete installation, three   *)
(* steps after the early return of EnsureDependencies; a tar.gz, which it  *)
(* does extract again, leaves a complete directory complete all the time,  *)
(* unless it has a gap; and nothing else damages one, whatever fails or has*)
(* been published.                                                         *)
(***************************************************************************)
Sound(d) == Complete(d, Files \ Skipped) /\ (d = DepsDir => command # "extract")
SetupKeepsGood ==
    [][\A d \in Dirs : Sound(d) => Sound(d)' \/ Delete \/ ~Trusted]_vars

(***************************************************************************)
(* The spinner is gone from the screen whenever a command has ended or     *)
(* shows an answer, on every path of executeRun and generate.              *)
(***************************************************************************)
NoSpinnerLeft == command \in {"idle", "post", "read"} => spinner = "off"

(***************************************************************************)
(* Every command ends, unless it waits for ever for GitHub, for llama-cli's*)
(* user or for the server: no step of setup loops, the polls are bounded,  *)
(* and the two channels of Spinner.Stop do not wait for each other.        *)
(***************************************************************************)
CommandEnds == command # "idle" ~> command \in {"idle", "asked"} \union Waiting

(***************************************************************************)
(* What a user gives, in a request to the server or with turboquant of the *)
(* tool, survives NormalizeOptions and BuildArguments, whatever the preset *)
(* and the common cache type say.                                          *)
(***************************************************************************)
Asked == command \in {"direct", "asked"}
KeepsExplicit == Asked => ExplicitWins(opts)

(***************************************************************************)
(* A preset makes llama.cpp refuse a request's options in the cases that   *)
(* PresetBreaks lists and in no others, whatever the model; and so it is   *)
(* with the same options in a config of the CGO backend.                   *)
(***************************************************************************)
PresetIsSafe == Asked => PresetSafe(opts)

(***************************************************************************)
(* main.go:270, "Gllama is ready to go.": after a setup that reports       *)
(* success a release is there, whole, where run looks for it.              *)
(***************************************************************************)
ReadyIsComplete == command = "success" => Complete(DepsDir, Files)
=============================================================================
