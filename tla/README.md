# fingered: TLA+ models and proofs

fingered is a Finger daemon in Go: plain Finger (RFC 1288) on one port, the
TLS variant "fingers" on another, optionally behind a proxy that announces the
client's address with a PROXY header. It answers with static text files or with
the output of CGI programs. This directory holds TLA+ models of the daemon, the
TLC configurations that check them on small instances, and theorems that TLAPS
proves for every value of the constants. `PROJECT.json` lists runs, mutants,
the source lines behind each definition, hazards, findings and theorems.

Paths below are relative to `src/`. `server.go`, `request.go`, `logger.go` and
`cgi_helper_linux.go` are in `internal/server/`, `config.go` is in
`internal/config/`.

## 1. The system

| Component | State it keeps | Operations | Talks to |
|---|---|---|---|
| `main` (`cmd/fingered/main.go`) | logger and server handles, signal context | load, `server.New`, `Run`, `Close`, exit status | everything below, the service manager |
| Listeners (`Run`, `runListener`) | listening sockets, context, error channel, two levels of `WaitGroup`, closer goroutines | bind, accept, back off, drain, report an error | `main` through `errCh`, `done` and the context; connections through the inner `WaitGroup` |
| Connection (`serveConn`, `prepareConn`, `readLine`, `discardLine`, `writeAndLog`) | readers over the socket and over TLS, deadlines, peer and client address | PROXY header, handshake, request line, answer, log, close | client, parser, content, logger |
| Request parser (`request.go`) | none between requests | raw line to flags, target and canonical form | connection |
| PROXY parser (`parseProxyLine`) | none | header line to address | connection |
| Content (`buildValidResponse`, `loadStatic`, templates, `open*NoFollow`) | none; reads the document root | static file, program, header and footer, credits, size limit | file system, CGI |
| CGI (`runCGI`, `cappedBuffer`) | process, group, pipes, buffers, deadline | start, copy, wait, time out, kill the group | helper process |
| CGI helper (`cgi_helper_linux.go`) | its own process's privileges | chroot, drop privileges, exec | the CGI program |
| Logger (`logger.go`) | two files, a mutex | open, access entry, error entry, close | connections of both listeners |
| Configuration (`config.go`) | the `Config` value | parse, default, validate | `main` |
| Output filters (`sanitizeBody`, `sanitizeLog`) | none | replace or refuse bytes | content, logger |
| Scripts and tools (`bin/`, `contrib/`, `debug/`) | none of the daemon's | install, fuzz | - |

What is hard here, and hard to test:

- **Shutdown.** A signal, a failing listener, a closer goroutine, draining
  connections and a non-blocking error send race for one `select`. It must end,
  with nothing in flight, with the right exit status.
- **Two readers over one socket.** The reader that took the PROXY header may hold
  the start of the TLS handshake, and deadlines are set and cleared at each stage.
  Silence and answer are told apart by which read met which error.
- **Processes.** A CGI program forks, detaches and leaves its group while pipes
  drain and a deadline passes.
- **A document root that changes** between `Lstat`, `Open` and `Fstat`, and
  between the look for a text and the look for a program.
- **Three request parsers** that must agree, with order-dependent rules on
  repeated flags, and a canonical form that programs read as a request.
- **Partial failure.** Two log files and a key pair are opened one after the
  other; the CGI helper gives up its privileges in several calls; a write to a
  log may stop half way.
- **A configuration file** whose lines come in any order, may repeat a key, and
  where one key's absence means another key's value.
- **Shared log files**, written by every connection of both listeners.
- **Numeric edges**: the line limit, the response limit, address blocks that
  end inside an octet, milliseconds multiplied into durations.

What makes each component correct is stated as the properties of section 3;
the hazards with their source lines are in `PROJECT.json`.

## 2. The models

| Module | Models | State and actions against the code |
|---|---|---|
| `Lifecycle` | `main`, `Server.New/Run/Close`, `runListener` | One variable per thing goroutines share: `ctx`, `errCh`, `sock[m]`, `pending[m]` (the inner `WaitGroup`), and a program counter each for main (`mpc`), every listener (`lpc`) and every closer. `Select`, `WakeOnDone` and `Collect` are the two selects of `Run`; a send to a main that is parked goes straight to it. `CheckCtx`, `SendErr` and `CancelCtx` are the three statements after `runListener` returned an error. |
| `Conn` | `serveConn` and what it calls up to `writeAndLog` | A client with a script of byte classes, the kernel's buffer `net`, and the two `bufio` readers `buf` and `tbuf`. `Fill` and `FillFromFirst` are their refills; `HeaderByte`, `RequestByte` and `DiscardByte` are one iteration of a reading loop. Deadlines are `armed` and `expired`. |
| `Exchange` | the promise of one connection | Abstract: at most one answer, one access entry for each answer, then closed for good. `Conn` implements it under the mapping at its end. |
| `ProxyLine` | `parseProxyLine`, `isPublicUnicastIP` | Operators over the fields of a header; an address is its octets. `Blocks4`, `Blocks6` and `Public` are the address blocks the function's comment names, as prefixes: the reference it is compared with. `Conn` calls `parseProxyLine` in `HeaderByte`. |
| `CGIRun` | `runCGI`, the `exec.Cmd` under it, the processes | The leader, its kids in or out of the group, who holds a pipe, bytes piped and stored. `WatcherKill`, `Reap`, `CopyOutput` and `CopyEnds` are os/exec's share (external); `Check` is what follows `cmd.Run`; `Helper` is a step of the next module. |
| `CGIHelper` | `ExecCGIHelper`, `dropCGIPrivileges`, `execveatFD` | One action per system call, in the order of the code, on the credentials of the process (root, directory, groups) and of the thread (no_new_privs, capabilities). A call that fails is `Gone`. `Migrate` is the Go scheduler continuing on another thread; `Exec` is the kernel's rule for a new program. |
| `RequestParser` | `parseRequest` and everything below it | A line is tokens, spacing and ending. `ScanFlag` and `ScanTarget` are an iteration of the loop in `parseStructuredRequest`, `PlainFinger` is the parser without `extend_finger`. `Meaning` is a loop-free definition of the language. |
| `Content` | `buildValidResponse` down to the three system calls | One step per look at the document root (`Lstat`, `Open`, `Read`, `OpenExec`) and `RunCGI` as its outcome, for the request's own content, then header, then footer; `Settle` records part, outcome and log entries; `Add` is one iteration of `joinSegments` over bytes; `Assemble` is the size limit and the answer. `Edit` is somebody else changing the root. |
| `Sanitize` | `sanitizeBody` | Operators over classes of bytes: `ReplaceLineEnds`, `Units` (runes or bytes) and `ValidOutput` are its steps. `sanitizeBody` returns the set of bodies a text makes, one or, when it is refused, none. `Content` extends the module and calls it on what `Read` and `RunCGI` read. |
| `Config` | `config.go`: `applyValue` and its parsers, `Validate`, the effective settings, `listenerModes` | A `Config` is a record by key. A value is the word it spells and the number it spells (words as `filepath.Clean` and `ToLower` leave them). `ApplyLine` gives the Configs one line leads to: one, or none on an error. `Wrap` is the overflow of `time.Duration`. |
| `Logger` | `logger.go` | Goroutines that log (`at[w]`: before the mutex, writing, unlocking), `handle` and `file` for the two files, `mutex`. A write is a series of system calls, each of which may take less than all or fail. Texts are sequences of rune classes, so that `sanitizeLog` is modelled by what it does. |
| `LogFile` | the promise of the logger | Abstract: an open file grows by entries, whole or cut short, one at a time; what is open is closed together. `Logger`'s files implement it as seen whenever the mutex is free. |
| `Startup` | `config.Load`, `server.New`, and the process's end, on top of `Config` and `Logger` | `ReadLine` is one iteration of the scanner loop, `FinishLoad` what follows it; `OpenErrorLog`, `OpenAccessLog` and `LoadKeyPair` are the steps of `New`, each of which may fail; during `Run` goroutines log; `CloseServer` is the deferred `Close`. |

`MC<module>` gives the constants their values for TLC. `<module>Proofs` holds the
theorems. A definition whose name ends in `_` is a faulty variant of the one
after it: no specification uses it, and `PROJECT.json` names the property that
notices it when it takes the place of the real one.

How the modules fit: `Lifecycle` treats a connection as spawned, serving, done,
and assumes `serveConn` returns. `Conn` shows that it does, given that
`buildValidResponse` returns; `Content` has no loop, so it does if `runCGI`
returns; `CGIRun`, which `CGIHelper` is a part of, shows when that is so, and that
it is not always (finding 4). `Conn` uses only whether a request line is
acceptable; `RequestParser` says what it means. `Lifecycle` starts from "loaded or
not, made or not"; `Startup` opens those two steps up and in turn knows of `Run`
only that goroutines log meanwhile and that it returns an error or does not.

## 3. What the runs show

| Run | Instance | Properties |
|---|---|---|
| `lifecycle_safety` | 2 listeners, 2 clients, symmetric; 90 thousand states | `AbandonedOnlyByFatalAccept`: `Run` returns with a connection in flight only if that listener's `Accept` failed for good. `CleanStop`: a signal that cancels the context before any reported error always ends with status 0. `ErrorsNotDropped`: the non-blocking send loses nothing. `StopsOnlyForCause`: a shortage of descriptors does not stop the daemon. `SocketsClosedOnReturn`: on every path. |
| `lifecycle_liveness` | 2 listeners, 1 client | `CancelLeadsToExit`: a cancelled daemon ends. `QueuedIsSettled`: a client in the backlog is accepted or reset. |
| `conn` | 56 client scripts and 137 PROXY headers, TLS or not, proxied or not; 344 thousand states | `NoByteLost`, `AnsweredLineIsWhole`, `LoggedForClient`, `SilenceMeansNoLine`, `EveryConnEnds`, `ImplementsExchange`. `HeaderNamesPublicClient`: whoever a header brings into the logs has an address outside every listed block. |
| `cgi` | 2 forked processes, twice the output limit, every start credential | `BodyIsComplete`: a served body is the whole output of a program that succeeded. `TimeoutKillsGroup`, `LeaderIsReaped`, and `DeadlineEndsRun`: past the deadline the run ends unless a forked process sits on the pipes. `ProgramIsConfined`: whichever step of the helper fails, no program runs outside the document root, with a group, or, if the goroutine stayed on its thread, with a capability or a way to one. |
| `request_parser` | every line of up to 4 tokens, 3 flag names, limit 2, 3 modes; 2 million states | `ParsesAsDefined`: the loop accepts and builds exactly what `Meaning` says. `CanonicalIsStable`: a canonical form parses to itself. `ModesAgree`: extended finger and fingers keep target and canonical form of what plain finger accepted. |
| `content` | 54 document roots and 165 more of one short text each, 16 configurations, 2 edits; 3 million states | `OnlyRegularServed`: no race makes a link or directory part of a page. `MissMeansNoFile`: unless a text appears during the request, a silent miss means a moment with neither file. `OutcomeNamesBody`: the logged outcome names the body sent. `AnswerIsItsParts`: an answer is the bytes of header, content, footer and credits, each as whole lines, exactly when so many bytes are within the limit, and `NoContentBody` otherwise; nothing that must not be sent arises where two parts meet. `SanitizedIsTidy`: a body has the lines of its text, each ended by CRLF, no control byte, neither 0x80 to 0x9f alone nor U+0080 to U+009F, stays UTF-8, and sanitising it again changes nothing. |
| `startup` | 105 configuration files, 2 goroutines that log once each; 101 thousand states | `LoadMeansFile`: `Load` accepts exactly the files whose lines are well formed and whose last values are valid together, and the Config holds the last value of every key. `StartedConfigIsSound`: distinct ports, absolute roots, positive deadlines. `FingersFallsBack`. `LogsMatchStage`: a failed start leaves no file open. `EntryIsOneLine`: a client's text cannot forge or overrun an entry, and one that is cut ends in three dots. `ImplementsLogFile`: entries are not interleaved, nor written after the close. `LogCallsReturn`: neither a log call nor the final close hangs. |
| `conn_proxy_header` | the first probe of `debug/fuzz_live.sh` in proxy mode | `LiveProbeIsAnswered` is violated: findings 3 and 6. With an address that is let through (8.8.8.8) in place of the script's, it holds. |
| `lifecycle_lost_error`, `conn_oversized`, `cgi_timeout`, `cgi_output_cap` | as above | each finds one disagreement, section 6 |

Every module also has one type invariant, `TypeOK`.

### Bounds, and why they are enough

- *Listeners, clients.* The daemon has at most two listeners. Two clients let
  one be served while another waits or is reset, at the same or at different
  listeners. Connections share nothing but the counters of their own listener.
- *Line limits* are one byte of text (`MaxRequestBytes = MaxHeaderBytes = 1`),
  with scripts one byte below, at, one over and far over each; `readLine` looks
  at the length and the last byte only. Scripts hold two lines, so a second
  request in the same packet, after either kind of first line, is met. The
  client may stop, half-close or reset after any byte.
- *PROXY headers*: for each address block the first and the last address in it
  and the neighbours outside, as IPv4 and mapped into IPv6; and headers with
  each field wrong in turn, ports 0 and 65536 included.
- *CGI*: two kids are one child and one grandchild or two children; `MaxOut = 2`
  with `Cap = 1` is output at and over the limit. The helper starts as root or
  not, with or without groups and with any capabilities, ambient ones included.
- *Parser*: with a limit of 2 flags, four tokens give a repeated flag at the
  limit, a third name over it, and a target before, between and after.
- *Content*: `MaxEdits = 2` is replacing a text by a program, or back, and an
  edit in each gap of one open. The size limit is 11 bytes, so that texts sit below
  it, pass it by CRLF conversion, pass it only with templates, credits or the CRLF
  added to them, or start over it; a page comes to the limit exactly and to one
  byte more. Header and footer share their initial text to keep the number of
  roots down; edits tell them apart. The fixed texts are stood for by short ones
  of the same shape (one line; a blank line and a line). Texts for the sanitiser
  are all of up to two bytes of the ten classes, and of three where only UTF-8 or
  only line ends matter: a rune and its neighbours, and CR CR LF.
- *Signals.* `Signal` is the moment the context is cancelled. The goroutine of
  `signal.NotifyContext` does that some time after the signal was delivered; a
  listener error reported in between comes before `Signal`, and the properties of
  `Lifecycle` are to be read as of the cancellation.
- *Startup*: integers of six bits with four units to a millisecond (`MaxInt = 31`,
  `Milli = 4`), so that 7 is the last timeout that fits and 8, 16 and 17 wrap to a
  negative, a zero and a positive duration; `MaxPort = 9`. Every parser meets a value
  it takes and one it refuses, under one or more of its keys; keys that bear on
  one another appear in both orders around a valid file. Two goroutines
  contend for the mutex; the system takes a line in one, two or more pieces or
  fails at any of them. The field limit is 8, which a field of two wide runes, a
  blank and an escape passes.

`Content` and `RequestParser` end in states with no successor: one request has
been answered, one line parsed. Their configurations therefore allow deadlock;
all others forbid it, and the end of a process or connection is an explicit
stutter (`Terminated`, `Closed`, `Ended`).

### Fairness, and why the code justifies it

- Every goroutine that can run is eventually scheduled: weak fairness of each
  listener's, closer's and main's steps. Go's scheduler gives no less.
- `Accept` on a closed socket returns: weak fairness of `AcceptFails` then.
- `AcceptConn` has strong fairness: `Accept` may fail with temporary errors any
  number of times, and the 50 ms back-off loop only helps if the shortage ends.
- `Finish` is fair, which is the assumption that `serveConn` returns. `Conn`
  shows it from deadlines that pass (`Expire` fair) and a server that runs.
- In `CGIRun` the server and the clock are fair, the program's processes are
  not: a program owes nothing. `WatcherKill` is the server's.
- In `Startup` main runs, a goroutine inside a log call runs and its system
  calls return; taking the mutex has strong fairness, for writers and for the
  final `Close`, since `sync.Mutex` hands itself to whoever has waited a
  millisecond. A goroutine need never log.
- Clients, signals and failures are never fair.

## 4. What is proved

TLAPS checks eight modules to the last leaf: `LifecycleProofs`, `ConnProofs`,
`ProxyLineProofs`, `CGIRunProofs`, `ContentProofs`, `RequestParserProofs`,
`StartupProofs`, and `TextProofs`, on which two of them rest; for any sets of
listeners, connections, processes, goroutines, scripts, headers, texts, document
roots and edits, configuration files and lines of any length, and any limits. The
assumptions are the named `ASSUME`s: finitely many listeners, at least one; positive
limits, the one of a log field above the three dots of a cut; scripts are sequences of
bytes, headers of fields and texts of byte or rune classes; document roots are made of the listed kinds of file;
credentials are of the listed kind. No `ASSUME` says anything of what an operator
of the models returns. Every safety invariant that a run checks is stated by a
theorem.

**Lifecycle.** None of the safety invariants is inductive by itself: to know
that `Run` did not return early one must know that `wg.Wait()` had returned, so
that every listener went through `Drain` or failed. `Inductive` proves the
conjunction of `TypeOK` and five parts: `MainInv` (what main's program counter says about
result, log and listeners), `ListenerInv` (socket and closer against the
listener's place), `ConnInv` (a listener's counter holds exactly its connections in service),
`ErrInv` (each reported error is in one place, at most once) and `CauseInv` (why
the context was cancelled, and so why a listener has stopped). That
`errCh` never overflows needs a counting argument: its entries are distinct
listeners that have left `send`, so when one is about to send there is room for
one more (`RoomForOneMore`, from the finite-set theorems). From it follow
`Drained`, `CleanStopHolds`, `NoErrorDropped`, `SocketsClosed`, `StopHasCause`.

The shutdown's liveness is proved in its parts, for any number of goroutines and under
the fairness of the model. `ConnEnds`: every accepted connection
ends. `ListenerStops`: a listener whose context is done comes to its `wg.Wait()` or exits,
from wherever it is; `StandInv` supplies that a listener in `Accept`, in its back-off
or about to look at an error still has a closer that will shut its socket, and that
none has yet to be spawned. `ListenerDrains`: one whose connections have ended exits.
`MainEnds`: once all have exited, so does the process, by whichever of the three
places main waits at. `ShutdownEnds` puts them together to `CancelLeadsToExit` for one or two
listeners, as many as the daemon has, under the hypothesis that a listener's
`WaitGroup` comes to zero (`Emptied`). Since each connection ends, it does; but that finitely many
have then all ended at some time is an induction over temporal formulas.

**Conn.** `AnswerInv` (an answer is settled before it is written, and written and
logged once), `ClientInv` (from the end of the header on, the announced
address is used exactly behind a trusted proxy) and `HeaderInv` (whoever is used
comes from a header that parses) are inductive together and give
`LoggedAddress`, `HeaderClientIsPublic` and `KeepsPromise`: every step of `Conn` is a
step of `Exchange` or leaves its variables alone (the safety half of
`ImplementsExchange`). `ByteInv`, inductive by itself, gives `BytesKept`: what was
consumed, what the readers and the kernel hold and what is still to come are the
script, because the second reader stays empty until the request is read over
TLS. Taking and refilling are lemmas about concatenation (`TakeKeepsBytes`).
`LineInv` relates the line, the bytes consumed since the preamble and the place in
`readLine` or `discardLine`: it gives `WholeLine`, and `NoSilentLine`, where the one
line feed that may go unanswered is the swallowed one of finding 2. `EveryStepCounts`
is the ranking behind `EveryConnEnds`: every step, of the client and of the clock
included, lowers `Left`, which starts at no more than 4n + 20 for a script of n bytes (a
byte moves at most four times, a stage is left for good, a deadline passes once), so
that only idling could keep a connection open; and `WaitsHaveDeadlines` says that no
read is left without a deadline.

**ProxyLine.** `AcceptedIsPublic` compares the code's comparisons of octets with the
list of prefixes, block by block; an IPv6 address in the block of a mapped IPv4
block is one whose `Unmap` is in the IPv4 block. No finite instance could say so
for all addresses.

**CGIRun.** `RunInv` ties the place of `runCGI` to the leader (from its start until
it is reaped), to the pipes (past `CopyEnds` nobody holds a write end, and what
was written is what is stored) and to the result. `WholeBody`, `GroupKilled`, `NoZombie`
follow. `HelperInv` says what each step of the helper leaves behind for the
next ones, with the thread's share claimed only for a goroutine that has not moved;
at the step before the exec that is `Confined`.

`LateRunEnds` is `DeadlineEndsRun` for any number of processes and any output: behind
the deadline a run goes through starting, running, killed, copying, copied and
checking, never back, and weak fairness of the server, or of the copying goroutine
where bytes are left, takes it from each to the next.

**Content.** `IInv` joins `StepInv` (what is open at which step), `MainInv` (the
outcome agrees with the part of the request's own name until the size limit
overrules both) and `GapInv`: whenever the program is looked for, the text is
still missing or has appeared since. That is what turns two looks at different
moments into one moment with neither file (`MissIsReal`). `RegularOnly`,
`OutcomeRight` and `ContentTypeCorrect` follow. `AnswerHolds` is about the bytes of
the answer: every part is neat, which is to say it may be sent as it stands
(`BodiesAreNeat`, from what `sanitizeBody` returns); neat bytes followed by neat bytes are
neat (`NeatConcat`); and `joinSegments` adds exactly the CRLFs that make whole lines of
the parts (`AddLines`, `JoinLines`), so that the page is the lines of its parts
(`PageIsParts`) and its length theirs. The joining of three parts is written out,
since that of any number would be a fold. `RequestIsBounded`: a
request is resolved in 19 steps of its own at the most, and edits of the document
root meanwhile cannot add to them.

**Texts.** What `sanitizeBody` and `sanitizeLog` return is a fact about flattened sequences,
by induction over their length. The library's induction theorems take a predicate,
which no prover here can instantiate, so `TextProofs` has induction for sets: a set of
numbers that holds 0 and the successor of each of its members holds all, since its
complement has no least element (`LeastNumber`, from the well-founded order). It
gives what `FlattenSeq` returns, and then the laws of `Spread`, the replacement of every
letter by its spelling: it goes through concatenation (`SpreadConcat`), two of
them in a row are one (`SpreadSpread`), and letters are counted spelling by spelling (`NumberSpread`).

`ContentProofs` shows that both halves of `sanitizeBody`, `ReplaceLineEnds` and what follows
it, are such replacements, with the runes of UTF-8 taken apart into their two bytes
(`BodyOf`). The texts in which every byte of one kind is followed, and every one of
another preceded, by a byte of the other kind are closed under concatenation
(`BoundConcat`): with CR and LF that is the shape of the lines, with leading and following bytes that is UTF-8.
Counts are sums over the spellings (`CountLineEnds`, `CountBody`), and a body
that is sanitised again goes through two replacements that undo one another
(`LineEndsBody`, `BodyAgain`). `AllTidy` puts them together. `StartupProofs` does the same for
`sanitizeLog`: escaping leaves no control character, trimming and fitting leave a part
of what was there, and a field that was cut is short enough for its three dots
(`SanitizedField`). A field that is not the whole text has the dots (`Shows`), since `sanitizeLog` escapes
the longest beginning that fits and a text that fits is its own longest beginning.
`EntriesAreLines` follows, and `Typing` for the state of start-up and logger.

**RequestParser.** A loop that returns what a definition over the whole line says
usually takes induction over the line; here the induction is that over the steps
of the behaviour. `FlagsInv` says that the flags kept are exactly the first
occurrences among the tokens scanned so far, each at the position of its rank;
`LoopInv` and `ShapeInv` say which tokens are left and what those behind were. At
the end of the line that is `Meaning` (`LoopIsDefinition`). A canonical form is
well formed and its flags are distinct already, so they are all first occurrences
and ranks are positions (`CanonicalStable`); `ParsersAgree` compares the definitions.
`ParserEnds`: every step lowers a number that starts at the number of tokens and two more.

**Startup.** `LoadInv` is the loop invariant: after n lines the Config is what the
first n lines say (`StatedBy(n)`). The step is the lemma that the last setting of a
key among n + 1 lines is the new line or the last among n. With `LastInv` (that
last value is one its parser returns) and `ServeInv` (a daemon that serves has a
valid Config and listens for its modes) follow `LoadIsDeclarative`, `StartedIsSound`,
including that a deadline is the stated one unless it overflows (arithmetic of
`Wrap`), `Fallback` and `LogsMatch`. For `LogsImplement`, `WriterInv` says that only the
holder of the mutex is past it, and `FileInv` that a file is what it was when the
mutex was last free and the part of the holder's entry that was written; so the
`Unlock` of the code is the abstract file's growth by one entry. `CallsAreBounded` is the
ranking behind `LogCallsReturn`: the steps `Ahead` of a call, at most the runes of its entry
and two more, fall with each of its own and stay with everybody else's.

**ENABLED.** No prover here knows what ENABLED means, and weak fairness speaks of it. The
six theorems of liveness (`LateRunEnds`, `ConnEnds`, `ListenerStops`, `ListenerDrains`, `MainEnds`,
`ShutdownEnds`) therefore have the hypothesis `[]GuardsSuffice`: wherever the guard of a fair action,
written out beside it, holds, the action can be taken and changes something. TLC evaluates ENABLED:
in a module that extends both the MC module and the proofs, `GuardsSuffice` is an
INVARIANT of `LifecycleSafety.cfg` and of `CGIRun.cfg`, and every guard but the closer's, which
leaves out its second case, is exactly when the action is enabled there.

Model-checked only: `CancelLeadsToExit`, `QueuedIsSettled`, `EveryConnEnds`, `LogCallsReturn` and
the fair half of `ImplementsExchange`. Each needs an induction under `~>`: over the
connections that have yet to end, the clients ahead in the backlog, the bytes that have
yet to move or to be written. `ShutdownEnds` is the first without that induction, `EveryStepCounts`
the ranking of the third, `CallsAreBounded` that of the fourth.

## 5. What is not modelled, and why

- What happens to an answer after `Close` (unread input makes the kernel reset
  the connection): the models end at `Close`.
- Reuse of process numbers between reaping the leader and killing the group.
- `Pdeathsig`, panics, and running out of memory.
- A named pipe put in place of a file between `Lstat` and `Open`.
- A text edited in place while it is read; the editor of `Content` renames.
- Which texts are well-formed names, values and targets (character classes and
  lengths): constants of `RequestParser`. Runes of three and more bytes in
  `sanitizeBody`: the code treats them like those of two.
- Timestamps and formats of log entries, and so their order in time. The umask,
  which is set and restored in one call before any goroutine runs. A negative
  `log_umask`, which the parser takes.
- `validateCGIHelper`, whose conditions `runCGI` always meets.
- Whom else a PROXY header may name: 240.0.0.0/4 and addresses of 0.0.0.0/8 other
  than 0.0.0.0 pass, and the code's comment does not list them.
- Limits near the largest `int`, where `max+2` and `MaxResponseBytes+1` overflow.
- Errors of `SetReadDeadline` and `SetDeadline`, which only a closed connection
  returns and nobody else closes one.
- Architecture constants, shell scripts, service files, and the probe and fuzz
  tools: no state of the daemon.

## 6. Findings

1. *An error can be lost at the end of `Run`* (`server.go:102`). If every
   goroutine has exited before main reaches the select, `errCh` and `done` are
   both ready and `Run` may return nil; the process exits 0 and
   `Restart=on-failure` does not restart it. Run `lifecycle_lost_error`.
2. *A line exactly one byte too long is closed in silence* (`request.go:60`):
   its line feed is read and dropped, and `discardLine` waits for another. Run
   `conn_oversized`.
3. *A PROXY header that is refused gets a silent close* (`server.go:290`) where
   `debug/fuzz_live.sh:491-509` expects the invalid-request body. Run
   `conn_proxy_header`, in which the header is refused for its address; any other
   error of `parseProxyLine` takes the same path.
4. *`cgi_timeout_ms` does not bound a run* whose forked process keeps stdout
   open (`server.go:469`): the group is killed only after `cmd.Run` has returned,
   and that waits for the pipe. Run `cgi_timeout`.
5. *`cgi_max_stdout_bytes` is not enforced* (`server.go:742`): the copy uses the
   embedded buffer's `ReadFrom`, never `cappedBuffer.Write`. Run `cgi_output_cap`.
6. *The live scripts announce a client the server refuses.* In proxy mode
   `debug/fuzz_live.sh`, `fuzz_cgi_live.sh`, `fuzz_tpl_live.sh` and
   `stress_cgi_live.sh` put `CLIENT_IP`, by default 203.0.113.10, into the header and
   expect valid answers; `isPublicUnicastIP` refuses 203.0.113.0/24
   (`server.go:685`), as `security_test.go:93` wants. Which side is right the
   repository does not say; `HeaderNamesPublicClient` takes the one of the code, its
   comment and its test. Run `conn_proxy_header`.

## 7. Plan

The components of the daemon are modelled. What is left, in this order:

1. A composition of `Lifecycle` with the promise of `Exchange` per connection: at
   shutdown every accepted connection has its access entry, unless its listener
   failed for good.
2. The same as a theorem: the promise of `Exchange` for every connection that a listener
   counts, from `ConnInv` and `KeepsPromise`.
3. A ranking for the one liveness property that has none yet, `QueuedIsSettled` (clients
   ahead in the backlog).

## 8. Running

    tlc -config LifecycleSafety.cfg MCLifecycle
    tlapm LifecycleProofs.tla

The configuration and module of each run are in `PROJECT.json`.
