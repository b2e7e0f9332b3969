# Gllama in TLA+

A verification development of Gllama, a Go server and command-line tool around
llama.cpp: TLA+ modules for its request coordinator, its two backends, the
options they share and the tool's installer, for the part of llama.cpp that
schedules completions; TLC configurations that check them on small instances,
and TLAPS proofs for every instance. Paths are relative to the repository;
`engine.go:119` is line 119 of `internal/engine/engine.go`, `cgo/` and `cli/`
stand for `internal/backend/cgo/` and `internal/backend/cli/`.

## 1. Inventory

| Component | State it keeps | Operations | Called by |
|---|---|---|---|
| **Engine** `internal/engine` | `models` (name to path), `modelConfigs`, `activeModel`, the backend; all behind the RWMutex `mu` | RegisterModel, RegisterConfig, LoadModel, UnloadModel, Generate, Stream, Embed, ListModels | HTTP handlers, server main |
| **CGO backend** `cgo/backend.go` | `model`, `ctx`, telemetry counters, behind one Mutex held for a whole call; in llama.cpp: the allocations and the KV cache | LoadModel, UnloadModel, Generate, Stream, Embed | Engine |
| **CLI backend** `cli/backend.go` | none of its own; per request a process, two pipes, a goroutine for stderr and one of os/exec | LoadModel (a stat), UnloadModel (nothing), Generate, Stream (a process per request), Embed (an error) | Engine |
| **Options** `internal/backend/backend.go`, `internal/wrapper` | none | NormalizeOptions (TurboQuant presets), BuildArguments, ParseProgress | both backends, the tool |
| **HTTP API** `api/http` | none of its own; one goroutine per request | generate, chat, embeddings, models, load, unload | clients |
| **Server process** `cmd/gllama-server` | none | registration, start, shutdown on a signal | operating system |
| **Command-line tool** `cmd/gllama` | spinner channels, the stream filter's buffer | setup, run, pull, serve, list, rm... | user |
| **Dependency manager** `internal/deps` | files in `bin/deps` | release lookup, download, extraction | the tool |
| **llama-cli, server queue** `llama.cpp/tools` (vendored) | queues of tasks and results, slots | post, defer, decode, release; the dialogue on its pipes | CLI backend, the tool |
| **llama.cpp** (vendored, the rest) | - | external; only its contract is used | CGO backend, `llama-cli` |

How they interact: every request runs in a goroutine of net/http and calls the
Engine; the Engine holds `mu` for single reads and single stores and calls the
backend with no lock held; the CGO backend serialises calls with a mutex of its
own, the CLI backend starts a `llama-cli` for each; in a `llama-cli` the main
thread posts tasks to an inference thread; a streamed answer flows back through
a callback of the handler, whose error ends the generation; net/http cancels the
request's context when the client disconnects, or the handler returns, and
os/exec kills the process of a cancelled context. The tool installs the
`llama-cli` that it and the CLI backend run, and starts the server if it finds
none.

What is hard, and what makes each component correct:

- *Engine*: check-then-act over three unlocked steps, a data race on
  `activeModel`, changes stored in another order than made, failed loads.
  Correct when a request gets the model it asked for, `activeModel` says what
  the backend holds, and every request is answered.
- *CGO backend*: partial failure of a load, state of llama.cpp shared by all
  calls, limits (tokens, context, batch), cancellation. Correct when handles
  neither dangle nor leak, an answer is computed on its own prompt only, it is
  bounded, calls appear atomic, and the mutex always comes back.
- *CLI backend*: two full pipes, an exit status that comes after the output, a
  process that outlives its reader or its server, or writes to a terminal in
  place of its pipe. Correct when Done without an error means a complete answer,
  the client learns one end, and no process is left behind.
- *Options*: overlapping presets applied in several places, two parsers. Correct
  when explicit values win, a config means to the CGO backend what the same
  options in a request mean to `llama-cli`, and presets do not break what works.
- *Server queue*: one task moved between two queues, a thread's hands and a slot
  by several threads, results of all in one queue. Correct when no task is
  served twice or forgotten and no result outlives its reader.
- *Tool and dependency manager*: downloads and extractions that fail or are
  killed in the middle, polling, channel handshakes. Correct when an
  installation reported as done is whole and commands end.

`PROJECT.json` lists the components and, under "hazards", each of these at its
line, with the properties that would catch it.

## 2. Modules

| Module | What it is |
|---|---|
| `Engine` | the request coordinator: catalogue, active model, auto-load, both backends as seen by it |
| `EngineIsolation` | `Engine` with two history variables, and the properties |
| `EngineProof` | its inductive invariant and theorems |
| `ModelHost` | abstract: what a resident backend promises the Engine |
| `CgoBackend` | the CGO backend step by step, its properties and its refinement of `ModelHost` |
| `CgoBackendProof` | its inductive invariant, its safety theorems and the refinement |
| `Options` | the options as functions on records: NormalizeOptions, the arguments for `llama-cli` and what it makes of them, the CGO backend's parameters; with its theorems |
| `CliStream` | one request through the CLI backend: handler, pipes, stderr goroutine, os/exec, `llama-cli`, client, server process |
| `CliStreamProof` | its inductive invariant and theorems |
| `Completions` | abstract: what a llama.cpp process promises those who ask it for completions |
| `ServerQueue` | server_queue, server_response, readers and slots, its properties and its refinement of `Completions` |
| `ServerQueueProof` | its inductive invariant, lemmas on counting in sequences, and its safety theorems |
| `CompletionsProof` | the refinement |
| `GllamaTool` | setup with the dependency manager, run with or without a server, the spinner; EXTENDS `Options` |
| `GllamaToolProof` | its inductive invariant and theorems |
| `MCEngine`, `MCCgoBackend`, `MCCliStream`, `MCServerQueue`, `MCGllamaTool` | constants for TLC |

### Engine

`pc[p]` is where a request stands; the steps are the sections between two
operations on shared state.

| Action | Code |
|---|---|
| `RegisterConfig`, `RegisterModel` | main registers every config, then every model file, then starts the server (`Serving`) |
| `Arrive` | a handler calls Generate or Stream ("generate", or "hf" with a Hugging Face repository), Embed, LoadModel or UnloadModel |
| `Snapshot` | the RLock section: the model asked for, or `activeModel` |
| `NoModelGiven`, `AutoLoad`, `SkipLoad`, `ReadHalfStored` | the unlocked tests (engine.go:114-119) |
| `Lookup`, `LoadSucceeds`, `LoadFails` | LoadModel, first lock section and backend call |
| `Lookup`, `UnloadBackend` | UnloadModel, the same |
| `BeginStore`, `EndStore` | the second lock section, `e.activeModel = ...` |
| `NotRegistered`, `Serve`, `ServeNotLoaded`, `ServeFails` | the hand-over to the backend and its answer |

*The data race.* `modelName != e.activeModel` reads without the lock. A Go string
is a pointer and a length, stored one after the other; so the store is two
steps (`writer` is the goroutine between them), and a comparison made meanwhile
comes out either way, or faults when one of the two strings is empty (net/http
recovers the panic and drops the connection).

*Abstractions.* A backend call is one step, which `ModelHost` and the refinement
of `CgoBackend` justify. Generate and Stream have the same control in the Engine.
A path and an `options` section are opaque values; the model that the CGO
backend holds is a pair of both (`Instance`), as the options of the config are
what LoadModel passes on. The path a request looked up stays valid because the
catalogue does not change after start-up.

*History.* `clash` and `calm` (module `EngineIsolation`) record which changes
overlapped and which requests were overtaken. Theorem `HistoryRestrictsNothing`
shows that every initial state of `Engine`, and every step from a well-typed
state whatever the history there, has a history with which it is one of `HSpec`.

### CgoBackend

The state is the Go struct's (`mu`, `model`, `ctx`, `tokenCount`), llama.cpp's as far as
this file relies on it (`heap`: what is allocated; `kv`: who filled the cache and
how far), and each call's locals (`past`, `emitted`). "stream" stands for Stream
and Generate. A prompt is its number of tokens. The actions follow the code
from `Lock` through `FreeOld`, `OpenFile`, `CreateContext` for a load, `Unload`, and
`DecodePrompt`, `Cancel`, `Sample`, `Emit`, `DecodeToken`, `Finish` for an inference, with
an action for every error exit. `Disconnect` cancels a call's context at any
point. `PromptAborts` is llama.cpp's assertion that a batch is no longer than
`n_batch`, which ends the process: the Go code decodes a prompt of any length as
one batch.

llama.cpp limits the batch by the context size asked for and then rounds the
latter up to a multiple of 256 (`CtxPad`): `Cells`, where decoding fails, can be
more than `ContextSize`, and `CacheIsMine` and `BoundedOutput` are about `Cells`. A
negative `BatchSize`, which the code passes on, becomes a large unsigned number
and is limited like one; so any number above the context stands for it.

A call refines `ModelHost`: it takes effect when it returns. While `b.mu` is held,
the abstract model is the one held when it was taken (`before`, a history
variable), so what a load does on its way is not seen by anybody.

### Options

A record has the options that overlap: preset, flash attention, the common
cache type, the types for K and V, offloading, sliding window, unified cache and
batch. `NormalizeOptions` resolves presets; `CliContext` of `BuildArguments` is
what llama.cpp's own argument parser makes of them (defaults, letters' case,
errors), `CgoContext` the context parameters of the CGO backend. The module has
no state; `GllamaTool` uses it in its commands, and the theorems quantify over
all of `OptionSpace`.

`llama-cli` gets a request's options; the CGO backend makes its context from the
`options` of a model's config only (engine.go:64-69), and a request's cache types,
flash attention and preset do nothing there. So `BackendsAgree` compares a request
to the one with a config of the other, and names what differs: "enabled",
"true", "1", "disabled", "false" and "0" are on and off to `llama-cli` and "auto" to
the CGO backend. `ExplicitWins` is about `llama-cli`. It says nothing of a negative
batch size, which BuildArguments drops without a word (wrapper.go:49).

`ContextPossible` is the refusals of llama.cpp that these options can cause, for
every kind of model (`ModelKinds`): one whose architecture forbids flash attention
(Grok), head sizes of K or V that are not a multiple of a quantized type's block,
devices without flash attention. `PresetBreaks` lists where a preset turns a
context that is possible into one that is refused; `PresetSafe` says that the list
is exact.

Outside the model, as no other option depends on them: the rest of the options.
Of these BuildArguments never passes TopP, TopK, MinP, System, Stop, Template and
ExtraArgs, and not a Temperature of 0, so for them "explicit values win" does
not hold on the CLI backend.

### CliStream

`main` is where the handler's goroutine is (start, read, deliver, wait, final,
error, returned), `child` where the process is, `stdout` and `stderr` are bounded
pipes of pieces of text: "part" does not end its line, "line" does, "prompt" is
`llama-cli`'s request for input. `written` and `delivered` count pieces at both
ends; `ends` records what the client was told: whether the response says Done, and
whether it carries an error's text. The native handler reports an error in a
response that says Done too (handlers.go:60-65), so `DoneMeansAll` is about those
without an error.

`console` is "windows", or on POSIX "posix" or "terminal": a server started from a
shell has a controlling terminal, and so has one that the tool starts
(main.go:613-614 asks for no session of its own). `llama-cli` then writes banner,
answer and prompts to /dev/tty (console.cpp:141-144): the client is told Done and
gets nothing, and no broken pipe ends a `llama-cli` that outlives the server.
`DoneMeansAll` and `NoOrphan` make exactly these exceptions. Its input is the null
device in any case (os/exec), so it never reads the user's keys. A Ctrl+C at a
terminal or console goes to all its processes: `interrupted` is `llama-cli`'s flag
for the first one; a second ends it (`Fail`).

| Action | Code |
|---|---|
| `Start`, `StartFails`, `Read`, `Deliver`, `Eof`, `Wait`, `Finish`, `Report` | Stream and Generate from exec to the last callback, and the handler's report of an error |
| `Scan`, `ReportProgress`, `ScanEnds` | the goroutine that parses stderr (cli/backend.go:90); a line over 64 KB ends its Scanner |
| `Load`, `Say`, `Answered`, `AskAgain`, `AskOnWindows`, `Leave`, `Hang`, `Complain`, `WriteStderr` | `tools/cli/cli.cpp`: banner, answer, the next prompt, exit, log; `Emit` is `console.cpp`'s choice between terminal and stdout |
| `Fail`, `BrokenPipe`, `Kill` | an exit with an error, a write that nobody can read, os/exec on a cancelled context |
| `Disconnect`, `Timeout`, `Interrupt`, `ServerExits` | the client, the server's five-minute timeouts, SIGTERM or Ctrl+C |

`Hang` is `start_loop` undoing a `terminate()` that came too early: what
`ServerQueue` shows between the threads, seen from the pipes.

### ServerQueue

One action per section under a lock: a reader registers, posts, receives the
oldest result of its own, stops and cancels; the inference thread pops a task,
defers, launches, refuses or cancels it, decodes one token for every busy slot
and releases slots, which moves one deferred task; main terminates and joins.

A token need not give a result: while the text ends within a character the slot
withholds it, and the next result has it too. So `Sample` counts a token in
`decoded` always and in `sampled` only with the result that carries it. The
thread waits for a task or the end with a look, a sleep that a notification or
a second ends, and a look again (`Wait`): a lost notification costs a second, so
the mutant of `TerminateEndsLoop` takes the end out of the condition itself.

`std::remove_if` is `Without`, defined by the ranks of the elements that stay and not
by recursion, so that a prover can use it; an ASSUME of `MCServerQueue` has TLC
compare it with `SelectSeq` on every sequence up to length 5 over three letters.

To those who ask, the process is `Completions`: a completion is queued, runs
while there is room, is over for good, and its caller receives token after
token and then the end. The mapping (`Task`, `Caller`) forgets where a task waits:
in either queue or in the inference thread's hands it is queued, in a slot it
runs until its last result is sent.

A cancel may be posted while the inference thread has its task in its hands,
popped and neither queued nor in a slot, so that posting it cleans up nothing. If
the thread then launches the task, the cancel, popped later, finds it in its slot
and releases it. If the thread defers the task, the cancel finds no slot to
release, and the task is launched later for a reader that has gone
(server-queue.cpp:41-61, server-context.cpp:1896-1905). It is served once and its
results are dropped; `Completions` allows that, as `Close` does not end the task.

### GllamaTool

The tool runs one command after another; it can be killed at every step, the
directory and the server stay. A file is the sequence of the versions its blocks
were written by, so an old release under a new one, a truncated file and a mix
can be told apart. Releases are published in between. A zip has its files at
the root and truncates a file it opens, a tar.gz has them in a directory of the
release, does not truncate, and its links are skipped.

The download drops the errors of its writes (manager.go:177), so an archive may
have lost its end ("cut") or a part before it ("gap"); decompressing a gap gives
an error or some blocks of `Junk`. A zip has a checksum for each file, which is
compared when the file is read to its end; that of a tar.gz comes after the end
mark at which tar stops reading, so nobody compares it. Hence `InstallHonest` and
`SetupKeepsGood` except a tar.gz with a gap (`Trusted`), of which indeed nothing is
known.

`run` finds `llama-cli`, or
starts the server and polls it, with the two channels of the spinner
(`SendStop`, `Stopped`), posts a request and reads the body of its answer. Other clients' requests to the server, with any options,
come between the tool's commands, as they share nothing with them.

## 3. Runs

| Run | Instance | Shows |
|---|---|---|
| `engine_isolation` | CGO, 3 goroutines (symmetric), 2 names, generate/load/unload; 694 284 states | `TypeOK`, `IsolatedServe`, `ActiveAgrees` |
| `engine_cli` | CLI, 2 goroutines, 3 names, 2 files, all operations, fair; 128 446 states | `IsolatedServe` for every request, `ActiveWasLoaded`, `EveryRequestAnswered` |
| `engine_wrong_model` | CGO, 2 goroutines, generate | *violation* of `ServedByRequestedModel` |
| `engine_stale_active` | CGO, 1 goroutine, generate | *violation* of `ActiveIsServable` |
| `cgo_backend` | 2 calls, 2 models, 2 handles, fair; 126 291 states | `TypeOK`, `HandlesConsistent`, `CacheIsMine`, `BoundedOutput`, `StopsAfterDisconnect`, `TelemetryHonest`, the refinement `ImplementsHost`, `EveryCallReturns` |
| `cgo_gone` | 2 calls, 1 model | *violation* of `NoWorkForTheGone` |
| `server_queue` | 2 readers, 1 slot, 2 tokens, fair; 200 259 states | `TypeOK`, `TaskOnce`, `NoStaleResult`, `CompleteAnswer`, the refinement `ImplementsCompletions`, `EveryTaskServed`, `TerminateEndsLoop` |
| `server_deferred` | 3 readers, 1 slot, 1 token | *violation* of `LaterComes` |
| `cli_stream` | all handlers, all three consoles, timeouts; 353 142 states | `TypeOK`, `DoneMeansAll`, `OneEnd`, `EndsWithChild`, `NoOrphan`, `RequestEnds` |
| `cli_endless` | POSIX with and without a terminal, no timeouts, fair | *violation* of `AnswerEnds` |
| `tool` | 2 releases, zip and tar.gz, about 100 options, fair; 422 258 states | `TypeOK`, `InstallHonest`, `SetupKeepsGood`, `NoSpinnerLeft`, `CommandEnds`, `KeepsExplicit`, `PresetIsSafe` |
| `setup_ready` | 2 releases, tar.gz | *violation* of `ReadyIsComplete` |

*Bounds.*
- *Engine*: three goroutines are needed for the second kind of overtaking: a
  request, a change that overtakes it, and one that clashes with that change.
  Two names give a wrong model; the third, in `engine_cli`, is a name that is
  itself a file, next to one whose file does not load. The catalogue has a
  config without a path and one whose path the scan overrides.
- *CgoBackend*: contexts are rounded up to multiples of 4, in place of 256. One
  model asks for a context of 3 and a batch of 5, which the context limits to 3:
  the prompt of 3 just fits, and the 4 cells are full after one more token. The
  other has the default context of 3 and a batch of 2, which the prompt exceeds.
  The limits 0 (the default, here 1) and 3 end an answer at its limit in one case
  and at the full cache in the other. Two handles are exactly one model and its
  context: a leaked one blocks the next load.
- *ServerQueue*: two readers and one slot defer a task; two tokens make a partial
  result other than the last, sent or withheld. A third reader is what
  `server_deferred` needs.
- *CliStream*: pipes of one piece fill with every write; two pieces besides the
  newlines make a line of two and two lines; "long" and "progress" are the stderr
  lines with an effect. `cli_endless` has none, as the log plays no part in it.
- *GllamaTool*: files of two blocks in the old release and one in the new leave a
  tail when a file is not truncated; three files are a program, a link and a
  library; 2 polls stand for 20, as nothing depends on the number. The options
  are those that change anything a preset touches, in both cases of letters, a
  spelling that the CGO backend does not know, and a negative batch size.

No other counter needs a cap. Mutants of the code, defined next to what they
replace, show for each property that it can fail.

*Deadlock* is checked in the engine runs and in the tool's. It is not in the
others, where the system may stop: an abort of the process in `CgoBackend`, all
readers served and the loop ended in `ServerQueue`, an answered request in
`CliStream`.

*Fairness.*
- Go's scheduler runs every runnable goroutine, and the system's every thread
  and process: weak fairness of their steps (of a request's, of the handler's,
  the stderr goroutine's and os/exec's in `CliStream`, of readers and the
  inference thread in `ServerQueue`, of a command's in `GllamaTool`).
- A `sync.RWMutex` lets no waiter starve (a waiting writer stops new readers, and
  the readers that waited go before the next writer), and a `sync.Mutex` hands
  itself to a waiter after a millisecond: strong fairness of the steps that
  acquire a lock, since the lock is free again and again but taken by others in
  between.
- `llama-cli` does not log for ever instead of working: strong fairness of `Work`,
  which a line of log disables until it is written.
- ReadTimeout and WriteTimeout (api/http/server.go:35-36) pass: weak fairness of
  `Timeout`, in `cli_stream` only. `cli_endless` leaves it out to ask whether an
  answer ends by itself.
- llama.cpp is assumed to return from its calls, and callbacks to return. Nothing
  is assumed of clients and users: `Arrive`, `Begin`, `Disconnect`, `Setup`, `Run`,
  `Interrupt`, a reader's leaving and `Terminate` are not fair. Nor is anything
  assumed of GitHub, of the user of a `llama-cli` run directly, or of a server that
  the tool has asked: http.Get and http.Post have no timeout, so a command may
  wait there for ever (`Waiting`, without fairness), and `CommandEnds` says that it
  waits nowhere else. The look whether the server runs has a timeout of its own
  (200 ms).

### What the violations show

- `engine_wrong_model`: request 1 auto-loads model *a*; before it reaches the
  backend, request 2 auto-loads *b*; request 1 is answered by *b*, without an
  error. The comment at engine.go:118 promises the auto-load for exactly this
  request.
- `engine_stale_active`: *a* is active; a request for *b* fails to load. The CGO
  backend has freed *a* before it tried *b* (cgo/backend.go:81-83), the Engine still
  names *a*: later requests for *a* skip the auto-load and fail.
- `cgo_gone`: README.md:12 promises immediate cancellation on disconnect; a call
  that waited for the mutex decodes its whole prompt for a client long gone.
  What does hold is `StopsAfterDisconnect`: once it generates, at most one more
  token is passed on.
- `server_deferred`: two tasks are deferred; the slot's release moves one, which is
  then cancelled or refused, so that no release follows for the other: the
  thread goes to sleep with no task in its queue, every slot idle and a task
  deferred, where the comment at server-context.cpp:1857 promises "later". It
  takes a server with three requests at a time; the
  `llama-cli` that Gllama runs has one reader, for which `server_queue` shows that
  all goes well.
- `cli_endless`: BuildArguments does not ask for a single turn, so `llama-cli` asks
  for the next message, finds its input at its end, and asks again, with a
  controlling terminal as without one. "Generate
  performs a single completion" (backend.go:121) returns only when the server's
  timeout ends it, with an error.
- `setup_ready`: on Linux and macOS the archive's files arrive in a directory of
  the release, where nobody looks; "Gllama is ready to go." (main.go:270), and run
  finds no `llama-cli`. With zip archives the property fails too, in a longer way:
  a setup killed after `llama-cli` is written and before its libraries are leaves
  an installation that the next setup takes for complete.

## 4. Proofs

Every theorem holds for all values of the constants that satisfy the named
assumption of its module, which TLC evaluates in the runs of that module.

`EngineProof`, from `EngineAssumption` (names, paths and goroutines are not the
empty value, a name has at most one config, the backend is "cgo" or "cli"):

| Theorem | States |
|---|---|
| `TypeCorrect` | `HSpec => []TypeOK` |
| `Invariant` | `HSpec => []IInv` |
| `Isolation` | `HSpec => []IsolatedServe` |
| `Agreement` | `HSpec => []ActiveAgrees` |
| `ActiveAccepted` | `HSpec => []ActiveWasLoaded` |
| `HistoryRestrictsNothing` | from `TypeOK`: `HNext` is a recorded step, and every step of `Engine` can be recorded |

`IsolatedServe` is not inductive: that an answer is right depends on what the
backend held at the hand-over (`CalmAgrees`); that on no other change being under
way since the snapshot (`CalmAlone`) or on `activeModel` agreeing with the backend
when the load was skipped (`ActiveAgrees`); and that on at most one change waiting
to be stored, which is what the backend holds (`OnePending`), and on the lock, so
that the unlocked comparison is exact when nobody stores (`LockHeld`).
`PendingLoaded` carries "the file was accepted" from the load to the store,
`UnloadNamesNone` fixes what an unload will store, `CliHoldsNothing` makes the
CLI case of `ActiveAgrees` true, `BootQuiet` keeps start-up apart, where the
catalogue still changes. Steps that only move a request on share lemma
`MoveStep`.

That the history restricts nothing is not `HSpec => Spec`, which its definition
says already, but the converse: `Recorded(c, k)` is a step of `Engine` after which
the history is `c` and `k`, and lemma `RecordedIsHNext` and the theorem show that
HNext is `Recorded` and that some `c` and `k` exist for each step. Adding them state
by state to a behaviour of `Spec` (an argument outside the logic, which has no
such rule) gives one of `HSpec`.

`CgoBackendProof`, from `BackendAssumption` (sizes, prompts and limits are
numbers, the defaults positive; None is not among them, or the names):

| Theorem | States |
|---|---|
| `TypeCorrect`, `Invariant` | `Spec => []TypeOK`, `Spec => []IInv` |
| `MemorySafe` | `Spec => []HandlesConsistent` |
| `CachePrivate` | `Spec => []CacheIsMine` |
| `OutputBounded` | `Spec => []BoundedOutput` |
| `CancellationPrompt` | `Spec => []StopsAfterDisconnect` |
| `TelemetryTrue` | `Spec => []TelemetryHonest` |
| `Refinement` | `Spec => ImplementsHost` |

All rests on `Owner`, `b.mu` is held exactly by the call past Lock: so there is one
such call, and what is said of it cannot be disturbed by the others. `Memory` says
what is allocated at each stage of a load; `Kinds` which call can be where;
`Counters` relates `tokenCount`, the backend's, to the tokens of the call that
generates, `Latest` bounds what it passes on after its client has left, and `Kept`
ties `before` to what is held while nobody loads. The refinement has one lemma
per part of a call: each step is unseen (the host stutters) or is the return.

`CliStreamProof`, from `StreamAssumption` (sizes are positive numbers, the sets of
kinds are among those named):

| Theorem | States |
|---|---|
| `TypeCorrect`, `Invariant` | `Spec => []TypeOK`, `Spec => []IInv` |
| `DoneIsComplete` | `Spec => []DoneMeansAll` |
| `EndToldOnce` | `Spec => []OneEnd` |

The heart is `Accounted`: what is delivered, collected and in the pipe adds up to
what was written, as long as the server is there, nothing has failed and no
terminal takes the text. At the
end of file the last, unfinished line is dropped; that nothing is lost then
needs `LastLine`: a process that ends well has a newline as the last piece in the
pipe. `Stages` says what the handler knows of the process, `Untold` that no end is
told before the return, `Lengths` bounds the history. Pieces in a pipe are
counted by lemmas on `Append` and `Tail`. A step of the process is summed up in
`Moves` and `Prints`, so that each conjunct is argued once for all of them.

`ServerQueueProof` and `CompletionsProof`, from `QueueAssumption` (there are slots,
finitely many; answers have a token at least; None is neither reader nor slot):

| Theorem | States |
|---|---|
| `Typing`, `Invariance` | `Spec => []TypeOK`, `Spec => []IInv` |
| `OneCopy` | `Spec => []TaskOnce` |
| `ResultsHaveReaders` | `Spec => []NoStaleResult` |
| `AnswersComplete` | `Spec => []CompleteAnswer` |
| `Refinement` | `Spec => ImplementsCompletions` |

`Copies` adds up where a task may be: two queues, the thread's hands, the slots. A
section of lemmas says what each operation on a sequence or on the slots does
to a count (`\o`, `Append`, `Tail`, `RemoveAt`, `Without`); with them every action has a lemma
on copies (`PostCopies` to `OtherCopies`), and only post_task makes one. That a reader
posts a task that is nowhere yet is `Posted`.

That an answer is complete needs more than the balance of tokens sampled, queued
and received (`Balance`): no token may come after the final result. `Ends` says that
a task whose last result was sent has no copy left, but for the slot that is
being released; `LastIsLast` that no result follows the last one, in a queue that
all tasks share and from which every reader takes its oldest (`TakenFirst`);
`Waits` that results of a reader that still asks are not dropped. `Hands` types
what the inference thread carries from one step to the next.

The refinement has one lemma per action or group of actions: it is a step of
`Completions` for one caller, or unseen. `RoomLeft` bounds the running tasks by the
busy slots: every running task is in a slot of its own (`OnlyInSlot`).

`GllamaToolProof`, from `ToolAssumption` and `OptionsAssumption`:

| Theorem | States |
|---|---|
| `TypeCorrect`, `Invariant` | `Spec => []TypeOK`, `Spec => []IInv` |
| `HonestInstall` | `Spec => []InstallHonest` |
| `GoodKept` | `Spec => SetupKeepsGood` |
| `SpinnerOff` | `Spec => []NoSpinnerLeft` |
| `ExplicitKept`, `PresetsSafe` | `Spec => []KeepsExplicit`, `Spec => []PresetIsSafe` |

A tar.gz is not truncated over an older file, and still an installation is
whole, but for gaps: `OwnDirectory` says that a release's directory only ever
holds blocks of that release or junk, not more than its files have; `CopiedSoFar` follows the open file
and `ExtractedSoFar` the closed ones. `StillMissing` carries the early return of
EnsureDependencies to the extraction, which is why a zip, which does truncate,
never meets a complete installation. An archive may name a file twice.

`Options` has the theorems `ExplicitValuesWin`, `NormalizeIdempotent`,
`BackendsUnderstandAlike` (`BackendsAgree`) and `PresetsConservative` (`PresetSafe`), for
all of `OptionSpace` over any words, from `OptionsAssumption` (what lowering the
letters does to the words the code compares with). The tool's two follow from
the first and the last; `BackendsAgree` is proved only, as no state of the tool has
a config and a request at once. `PresetSafe` rests on lemma `BreaksExactly`, which
compares two contexts, without and with a preset, for both backends.

*Only model-checked*: liveness (`EveryRequestAnswered`, `EveryCallReturns`,
`EndsWithChild`, `NoOrphan`, `RequestEnds`, `CommandEnds`, `EveryTaskServed`,
`TerminateEndsLoop`), as fairness is out of the prover's reach; and that `Without` is
`SelectSeq`, which is defined by recursion (what `Without` keeps is proved: lemmas
`WithoutPlaces` and `CountWithout`). The safety properties of the passing runs are
all proved.

## 5. Assumptions and what is not modelled

Assumed:

- The tool's server address is local and a prompt is given. Another `llama-cli`
  on the PATH is not considered: the one in `bin/deps` is looked for first.
- What a concurrent callback does to net/http's buffers (cli/backend.go:90, where
  the stderr goroutine calls back beside the handler and after its return) is a
  data race inside the library: `ReportProgress` is there at all those times, no
  property speaks of the bytes.

Not modelled:

- *EphemeralFilter* (main.go:749): it cuts text at markers, letter by letter; its
  correctness is about wording, which the models leave out.
- *The interactive session, pull, list, rm, logo and help*: sequential input and
  output with no state that outlives the step.
- *The embeddings of a list* (handlers.go:238): one Engine.Embed after the other,
  each of which `Engine` has; that another request's load comes in between is the
  race that `engine_wrong_model` shows.
- *Two setups at a time*: the tool is run by one user; nothing in the code
  considers it.
- *YAML and JSON, routing, searches of the file system for binaries, telemetry's
  clock*: pure functions or pure I/O.
- *The rest of llama.cpp* (ggml and its kernels, models, tokenizers, samplers, the
  other tools): vendored third-party code, more than nine tenths of the
  repository's lines, mostly numeric kernels for hardware. Of it the models have
  what Gllama depends on: the scheduling of completions, the dialogue of
  `llama-cli`, the arguments, and the contract of the C interface in
  `CgoBackend`. Of `server-context.cpp`, speculative decoding, the prompt cache,
  checkpoints, child tasks and sleeping are left out, as `llama-cli` with
  Gllama's arguments does not use them.

What could follow: a composition of `Engine` with `ModelHost` in place of its
one-step backend calls; `CliStream` on top of `Completions`; several `llama-cli` processes competing
for memory.
