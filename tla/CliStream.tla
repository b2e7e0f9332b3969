------------------------------ MODULE CliStream ------------------------------
(***************************************************************************)
(* One request served by the CLI backend: the handler's goroutine runs     *)
(* CLIBackend.Stream or Generate (internal/backend/cli/backend.go), which  *)
(* starts a llama-cli process, reads its pipes and waits for it; the       *)
(* goroutine that parses its stderr; os/exec, which kills the process when *)
(* the request's context is cancelled; the client; the server process; and *)
(* llama-cli itself (tools/cli/cli.cpp), whose inference ServerQueue       *)
(* models.                                                                 *)
(*                                                                         *)
(* A pipe holds pieces of text: "part" does not end its line, "line" does, *)
(* and "prompt" is the line llama-cli writes each time it wants input.     *)
(* The console is "posix" for a process without a controlling terminal;    *)
(* with one, "terminal", llama-cli shows its answer there, not in its pipe.*)
(***************************************************************************)
EXTENDS Naturals, Sequences

CONSTANTS Consoles,     \* a subset of {"posix", "terminal", "windows"}
          Modes,        \* a subset of {"native", "openai", "once"}
          StderrLines,  \* a subset of {"progress", "long", "other"}
          MaxPieces,    \* bound on the pieces of the answer
          PipeSize      \* how many pieces a pipe holds

ASSUME StreamAssumption ==
    /\ Consoles \subseteq {"posix", "terminal", "windows"}
    /\ Modes \subseteq {"native", "openai", "once"}
    /\ StderrLines \subseteq {"progress", "long", "other"}
    /\ MaxPieces \in Nat \ {0} /\ PipeSize \in Nat \ {0}

VARIABLES
    request,    \* its mode and whether its prompt is a command, "/exit"
    console,    \* what llama-cli runs on
    client,     \* "here", "gone" or, after five minutes, "timedout"
    server,     \* the server process
    child,      \* llama-cli: where it is
    code,       \* its exit status
    interrupted,  \* g_is_interrupted: it has had a Ctrl+C
    complaint,  \* the line it is about to write to stderr
    written,    \* history: pieces it has written to stdout
    stdout, stderr,  \* the pipes
    main,       \* the handler's goroutine: where it is
    line,       \* pieces of the line that ReadString has collected
    reaped,     \* Wait has returned
    scanner,    \* the stderr goroutine: where it is
    delivered,  \* history: pieces handed to the client
    ends        \* history: how the client was told that its answer ends

process == <<child, code, interrupted, complaint, written>>
pipes == <<stdout, stderr>>
reading == <<main, line, reaped, delivered, ends>>
vars == <<request, console, client, server, process, pipes, reading, scanner>>

Init ==
    /\ request \in [mode: Modes, prompt: {"text", "exit"}]
    /\ console \in Consoles
    /\ client = "here" /\ server = "up"
    /\ child = "none" /\ code = "none" /\ interrupted = FALSE
    /\ complaint = "none" /\ written = 0
    /\ stdout = <<>> /\ stderr = <<>>
    /\ main = "start" /\ line = 0 /\ reaped = FALSE
    /\ scanner = "off"
    /\ delivered = 0 /\ ends = <<>>

Alive == child \notin {"none", "dead"}
\* net/http cancels a request's context when its client leaves, its
\* deadline passes or its handler returns.
Cancelled == client # "here" \/ main = "returned"
\* Mutant: another child has inherited the read ends.
ReadersInherited == ~reaped
\* The pipes' read ends: closed by Wait, and with the server.
ReadersOpen == ~reaped /\ server # "down"

-----------------------------------------------------------------------------
(***************************************************************************)
(* llama-cli.                                                              *)
(***************************************************************************)
\* Mutant: the status is lost.
ExitSilently(c) == child' = "dead" /\ complaint' = "none" /\ UNCHANGED code
Exit(c) == child' = "dead" /\ code' = c /\ complaint' = "none"

\* A piece of text for the console: for the terminal, if it has one, else for
\* stdout, which blocks while the pipe is full.  Nobody reading, a write to a
\* pipe ends the process on POSIX and is lost on Windows.
Emit(piece) ==
    /\ complaint = "none"
    /\ \/ console = "terminal" /\ UNCHANGED stdout
       \/ /\ console # "terminal" /\ ReadersOpen
          /\ Len(stdout) < PipeSize
          /\ stdout' = Append(stdout, piece)
       \/ /\ ~ReadersOpen /\ console = "windows"
          /\ UNCHANGED stdout

BrokenPipe ==
    /\ Alive /\ child # "joining" /\ ~ReadersOpen
    /\ console = "posix" \/ (console = "terminal" /\ complaint # "none")
    /\ Exit("fail")
    /\ UNCHANGED <<request, console, client, server, interrupted, written, pipes, reading, scanner>>

\* The prompt is read, and a Ctrl+C so far, before it is answered.
Load ==
    /\ child = "loading" /\ complaint = "none"
    /\ child' = IF interrupted \/ request.prompt = "exit" THEN "exiting"
                                                          ELSE "answering"
    /\ interrupted' = FALSE
    /\ UNCHANGED <<request, console, client, server, code, complaint, written, pipes,
                   reading, scanner>>

\* Arguments it rejects, a model it cannot load, an assertion, no memory; or a
\* second Ctrl+C.
Fail ==
    /\ Alive
    /\ Exit("fail")
    /\ UNCHANGED <<request, console, client, server, interrupted, written, pipes, reading, scanner>>

\* The banner while loading, then the answer piece by piece.
Say ==
    /\ child \in {"loading", "answering"}
    /\ written < MaxPieces
    /\ \E piece \in {"part", "line"} : Emit(piece)
    /\ written' = written + 1
    /\ UNCHANGED <<request, console, client, server, child, code, interrupted, complaint,
                   stderr, reading, scanner>>

\* The end of the answer, which a Ctrl+C brings about too: a newline.
Answered ==
    /\ child = "answering"
    /\ Emit("line")
    /\ written' = written + 1
    /\ child' = "asking"
    /\ interrupted' = FALSE
    /\ UNCHANGED <<request, console, client, server, code, complaint, stderr, reading,
                   scanner>>

\* Without --single-turn it asks for the next message.  Its stdin is the null
\* device: on POSIX it reads an empty message and asks again, unless it has had
\* a Ctrl+C.
AskAgain ==
    /\ child = "asking" /\ console # "windows"
    /\ Emit("prompt")
    /\ child' = IF interrupted THEN "leaving" ELSE "asking"
    /\ interrupted' = FALSE
    /\ UNCHANGED <<request, console, client, server, code, complaint, written, stderr,
                   reading, scanner>>

\* On Windows it sends itself, and every process of its console, a Ctrl+C:
\* it leaves, or is ended by the second one, and the server shuts down.
AskOnWindows ==
    /\ child = "asking" /\ console = "windows"
    /\ Emit("prompt")
    /\ \/ child' = "leaving" /\ UNCHANGED <<code, complaint>>
       \/ Exit("fail")
    /\ interrupted' = FALSE
    /\ server' = IF server = "up" THEN "stopping" ELSE server
    /\ UNCHANGED <<request, console, client, written, stderr, reading, scanner>>

\* "Exiting..." on a line, terminate and join.
Leave ==
    /\ child \in {"exiting", "leaving"}
    /\ Emit("line")
    /\ written' = written + 1
    /\ Exit("ok")
    /\ UNCHANGED <<request, console, client, server, interrupted, stderr, reading, scanner>>

\* It can leave faster than its inference thread starts, whose start undoes
\* the terminate(): it joins for ever.
Hang ==
    /\ child = "exiting"
    /\ Emit("line")
    /\ written' = written + 1
    /\ child' = "joining"
    /\ UNCHANGED <<request, console, client, server, code, interrupted, complaint, stderr,
                   reading, scanner>>

\* Its log: a write to stderr blocks the process while that pipe is full.
\* Generate has both streams in one pipe, which it reads to the end.
Complain ==
    /\ Alive /\ complaint = "none" /\ request.mode # "once"
    /\ complaint' \in StderrLines
    /\ UNCHANGED <<request, console, client, server, child, code, interrupted, written,
                   pipes, reading, scanner>>

WriteStderr ==
    /\ Alive /\ complaint # "none"
    /\ \/ /\ ReadersOpen /\ Len(stderr) < PipeSize
          /\ stderr' = Append(stderr, complaint)
       \/ ~ReadersOpen /\ console = "windows" /\ UNCHANGED stderr
    /\ complaint' = "none"
    /\ UNCHANGED <<request, console, client, server, child, code, interrupted, written,
                   stdout, reading, scanner>>

-----------------------------------------------------------------------------
(***************************************************************************)
(* os/exec: the goroutine that Start leaves behind.                        *)
(***************************************************************************)
\* Mutant: nobody watches the context until Wait is called.
KillOnceWaiting ==
    /\ Alive /\ Cancelled /\ server # "down" /\ main = "wait"
    /\ Exit("fail")
    /\ UNCHANGED <<request, console, client, server, interrupted, written, pipes, reading, scanner>>
Kill ==
    /\ Alive /\ Cancelled /\ server # "down"
    /\ Exit("fail")
    /\ UNCHANGED <<request, console, client, server, interrupted, written, pipes, reading, scanner>>

(***************************************************************************)
(* The handler's goroutine.                                                *)
(***************************************************************************)
Goto(l) == main = l /\ server # "down"
\* A write to a client that has left, or is past its deadline, is lost.
Tell(end) == ends' = IF client = "here" THEN Append(ends, end) ELSE ends

Start ==
    /\ Goto("start") /\ ~Cancelled
    /\ child' = "loading"
    /\ main' = "read"
    /\ scanner' = IF request.mode = "once" THEN "off" ELSE "scan"
    /\ UNCHANGED <<request, console, client, server, code, interrupted, complaint,
                   written, pipes, line, reaped, delivered, ends>>

\* No such file, or the context is cancelled already.
StartFails ==
    /\ Goto("start")
    /\ main' = "error"
    /\ UNCHANGED <<request, console, client, server, process, pipes, line, reaped,
                   delivered, ends, scanner>>

\* ReadString collects up to a newline; Generate keeps what it reads.
Read ==
    /\ Goto("read") /\ stdout # <<>>
    /\ stdout' = Tail(stdout)
    /\ line' = IF Head(stdout) = "prompt" THEN line ELSE line + 1
    /\ main' = IF Head(stdout) = "part" \/ request.mode = "once" THEN "read"
                                                                 ELSE "deliver"
    /\ UNCHANGED <<request, console, client, server, process, stderr, reaped, delivered,
                   ends, scanner>>

\* The native callback returns the error of its write, the OpenAI one none.
Deliver ==
    /\ Goto("deliver")
    /\ \/ delivered' = delivered + line /\ line' = 0 /\ main' = "read"
       \/ /\ client # "here" /\ request.mode = "native"
          /\ main' = "error"
          /\ UNCHANGED <<delivered, line>>
    /\ UNCHANGED <<request, console, client, server, process, pipes, reaped, ends,
                   scanner>>

\* Mutant: the end of the process is taken for the end of its output.
ProcessGone == child = "dead"
\* Mutant: the log is awaited too.
BothExhausted == child = "dead" /\ stdout = <<>> /\ stderr = <<>>
Exhausted == child = "dead" /\ stdout = <<>>

\* End of file, once every write end is closed: what is left of a line
\* without a newline comes back with the error and is dropped.
Eof ==
    /\ Goto("read") /\ Exhausted
    /\ main' = "wait"
    /\ line' = IF request.mode = "once" THEN line ELSE 0
    /\ UNCHANGED <<request, console, client, server, process, pipes, reaped, delivered,
                   ends, scanner>>

AfterWait == IF code = "ok" THEN "final" ELSE "error"

\* Wait closes the pipes, whatever the stderr goroutine has not read.
Wait ==
    /\ Goto("wait") /\ child = "dead"
    /\ reaped' = TRUE
    /\ main' = AfterWait
    /\ UNCHANGED <<request, console, client, server, process, pipes, line, delivered,
                   ends, scanner>>

\* The response that says Done, the answer as a whole for Generate.
Finish ==
    /\ Goto("final")
    /\ Tell([done |-> TRUE, error |-> FALSE])
    /\ delivered' = delivered + line
    /\ line' = 0
    /\ main' = "returned"
    /\ UNCHANGED <<request, console, client, server, process, pipes, reaped, scanner>>

\* Mutant: the error is dropped.
TellNothing == UNCHANGED ends
\* A text in the response, which for a native client also says Done.
TellError == Tell([done |-> request.mode = "native", error |-> TRUE])

\* The handler reports the error of Stream or Generate.
Report ==
    /\ Goto("error")
    /\ TellError
    /\ main' = "returned"
    /\ UNCHANGED <<request, console, client, server, process, pipes, line, reaped,
                   delivered, scanner>>

(***************************************************************************)
(* The goroutine for stderr: a progress line becomes a response, a line of *)
(* 64 KB ends the Scanner for good.                                        *)
(***************************************************************************)
Scan ==
    /\ scanner = "scan" /\ server # "down"
    /\ stderr # <<>> /\ ~reaped
    /\ stderr' = Tail(stderr)
    /\ scanner' = IF Head(stderr) = "progress" THEN "report"
                  ELSE IF Head(stderr) = "long" THEN "off" ELSE "scan"
    /\ UNCHANGED <<request, console, client, server, process, stdout, reading>>

\* The callback, also while the handler is in it, or after its return.
ReportProgress ==
    /\ scanner = "report" /\ server # "down"
    /\ scanner' = "scan"
    /\ UNCHANGED <<request, console, client, server, process, pipes, reading>>

ScanEnds ==
    /\ scanner = "scan" /\ server # "down"
    /\ reaped \/ (child = "dead" /\ stderr = <<>>)
    /\ scanner' = "off"
    /\ UNCHANGED <<request, console, client, server, process, pipes, reading>>

-----------------------------------------------------------------------------
(***************************************************************************)
(* The client and the server process.                                      *)
(***************************************************************************)
Disconnect ==
    /\ client = "here" /\ main # "returned"
    /\ client' = "gone"
    /\ UNCHANGED <<request, console, server, process, pipes, reading, scanner>>

\* ReadTimeout and WriteTimeout: reads and writes fail from now on.
Timeout ==
    /\ client = "here" /\ main # "returned" /\ server # "down"
    /\ client' = "timedout"
    /\ UNCHANGED <<request, console, server, process, pipes, reading, scanner>>

\* SIGTERM, or Ctrl+C, which reaches every process of a terminal or console.
Interrupt ==
    /\ server = "up"
    /\ server' = "stopping"
    /\ \/ UNCHANGED interrupted
       \/ console # "posix" /\ Alive /\ interrupted' = TRUE
    /\ UNCHANGED <<request, console, client, child, code, complaint, written, pipes, reading, scanner>>

\* Shutdown gives up after 5 ns and main returns, or log.Fatalf comes first.
ServerExits ==
    /\ server = "stopping"
    /\ server' = "down"
    /\ UNCHANGED <<request, console, client, process, pipes, reading, scanner>>

-----------------------------------------------------------------------------
Serve == Start \/ StartFails \/ Read \/ Deliver \/ Eof \/ Wait \/ Finish \/ Report
ScanStderr == Scan \/ ReportProgress \/ ScanEnds
Work == Load \/ Say \/ Answered \/ AskAgain \/ AskOnWindows \/ Leave \/ Hang

Next == \/ Serve \/ ScanStderr
        \/ Work \/ Complain \/ WriteStderr \/ BrokenPipe \/ Fail \/ Kill
        \/ Disconnect \/ Timeout \/ Interrupt \/ ServerExits

Spec == Init /\ [][Next]_vars

\* The goroutines and processes run on; llama-cli does not log for ever
\* instead of working.
FairSpec == /\ Spec
            /\ WF_vars(Serve) /\ WF_vars(ScanStderr)
            /\ SF_vars(Work) /\ WF_vars(WriteStderr) /\ WF_vars(BrokenPipe)
            /\ WF_vars(Kill) /\ WF_vars(ServerExits)
\* Five minutes pass.
TimelySpec == FairSpec /\ WF_vars(Timeout)
-----------------------------------------------------------------------------
TypeOK ==
    /\ request \in [mode: Modes, prompt: {"text", "exit"}] /\ console \in Consoles
    /\ client \in {"here", "gone", "timedout"}
    /\ server \in {"up", "stopping", "down"}
    /\ child \in {"none", "loading", "answering", "asking", "exiting", "leaving",
                  "joining", "dead"}
    /\ interrupted \in BOOLEAN
    /\ code \in {"none", "ok", "fail"} /\ (code = "none" <=> child # "dead")
    /\ complaint \in StderrLines \union {"none"}
    /\ written \in 0..(MaxPieces + 2)
    /\ stdout \in Seq({"part", "line", "prompt"}) /\ Len(stdout) <= PipeSize
    /\ stderr \in Seq(StderrLines) /\ Len(stderr) <= PipeSize
    /\ main \in {"start", "read", "deliver", "wait", "final", "error", "returned"}
    /\ line \in 0..written /\ delivered \in 0..written
    /\ reaped \in BOOLEAN
    /\ scanner \in {"off", "scan", "report"}
    /\ ends \in Seq([done: BOOLEAN, error: BOOLEAN])

(***************************************************************************)
(* Stream says Done without an error's text, and Generate answers          *)
(* (backend.go:121, "performs a single completion"), only after llama-cli  *)
(* has ended well and all it has written has reached the client, the end of*)
(* its last line included.  For a native client the flag alone says nothing*)
(* of that: its handler reports a failure as Done too (handlers.go:60-65). *)
(* With a controlling terminal llama-cli has written to it, and the client *)
(* has nothing: only the exit status is promised there.                    *)
(***************************************************************************)
DoneMeansAll == \A i \in DOMAIN ends : ends[i].done /\ ~ends[i].error =>
                    /\ code = "ok" /\ reaped
                    /\ console # "terminal" => delivered = written

(***************************************************************************)
(* A client that stays learns exactly once how its answer ended: the last  *)
(* response or [DONE], or else the handler's error (handlers.go), whichever*)
(* of the pipes, the exit status and the start of the process went wrong.  *)
(***************************************************************************)
OneEnd == /\ Len(ends) <= 1
          /\ main = "returned" /\ client = "here" => Len(ends) = 1

(***************************************************************************)
(* When llama-cli is dead, Stream and Generate return: end of file comes   *)
(* after what is left in the pipes, and the exit status is there to fetch. *)
(***************************************************************************)
EndsWithChild == child = "dead" ~> (main = "returned" \/ server = "down")

(***************************************************************************)
(* No llama-cli outlives its request: also when Stream has returned early  *)
(* without Wait because a callback failed, and also when the server has    *)
(* exited without killing it: it ends by itself or on a broken pipe, unless*)
(* it hangs in its join or draws at a terminal, which does not break.      *)
(***************************************************************************)
NoOrphan == (Alive /\ (Cancelled \/ server = "down"))
                ~> \/ child = "dead"
                   \/ server = "down" /\ (child = "joining" \/ console = "terminal")

(***************************************************************************)
(* The server's timeouts bound every request, whatever llama-cli does.     *)
(***************************************************************************)
RequestEnds == main = "read" ~> (main = "returned" \/ server = "down")

(***************************************************************************)
(* backend.go:121, "Generate performs a single completion": a request      *)
(* whose answer is complete is answered, unless its client leaves or the   *)
(* server or llama-cli is stopped from outside.                            *)
(***************************************************************************)
AnswerEnds == child = "asking" ~> (Len(ends) = 1 \/ child = "dead"
                                     \/ client # "here" \/ server # "up")
=============================================================================
