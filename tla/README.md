# Model Rocket: a verification project

Model Rocket is a loopback HTTP bridge. Claude Code talks to it as if it were the
Anthropic API; requests for Claude models are forwarded to Anthropic, and requests
for a configured GPT route become turns of one `codex app-server` child process.
This directory holds TLA+ models of that bridge, the TLC configurations that check
them, and TLAPS proofs about them. Paths below are relative to the repository's
`src/` unless they start with `docs/`, `tests/` or `scripts/`.

Contents: 1 the system, 2 the modules and how they correspond to the code,
3 what the runs check, 4 what is proved, 5 fairness, 6 what is not modelled,
7 the plan.

## 1. The system

| component | code | state | operations | works with |
|---|---|---|---|---|
| App Server connection | `adapters/outbound/codex/runtime.rs` | `next_id`, `pending_requests`, `thread_senders`, `alive`, `failure`, the child's stdin | `request`, `send`, `register_thread`, `unregister_thread`, `read_loop`, `dispatch`, `fail` | one child, every GPT session |
| turn reader and output limiter | the same file: `CodexRuntime`, `TurnProgress`, `OutputLimiter` | pending text, emitted tokens, usage and its epoch, fatal error | `read_turn_inner`, `complete_turn`, `emit_delta`, `resolve_pending`, `interrupt_turn`, `continue_tool` | the connection's event channel; the router's output |
| shared connection | `CodexRuntimeFactory::shared_connection` | the current connection, under a mutex | reuse, replace when dead, launch, preflight | the connection |
| model router | `application/model_router.rs` | `pending_calls`, the admission semaphore, one timer per retained call | `handle`, `admit_turn`, `finish_outcome`, `retain_pending_session`, `dispatch_request` | HTTP adapter above, sessions below |
| HTTP adapter | `adapters/inbound/http.rs` | per exchange: head, chunk and outcome channels, phase of the body | `dispatch`, `model_stream_step`, `anthropic_body_step`, `non_stream_message` | router task, client |
| response encoding | `contracts/anthropic/response.rs` | frame queue, whether a text block is open, accumulated text | `accept_delta`, `finish`, `fail`, `pop`, `push` | HTTP adapter |
| Anthropic gateway | `adapters/outbound/anthropic.rs` | per exchange: the aggregate of a non-stream body | `exchange` | HTTP adapter, Anthropic |
| request decoding, headers | `contracts/anthropic/{request,messages,transport}.rs` | none | acceptance of a Messages body, continuation or new turn; which headers cross the proxy | HTTP adapter, gateway |
| App Server messages | `contracts/codex/messages.rs` | none | validation of responses, notifications and terminal snapshots | connection, turn reader |
| catalogue and routing | `domain/catalogue.rs`, `config/model_catalogue.rs`, `policies/model_routing.rs` | immutable after start | construction with its checks; routing decision | HTTP adapter |
| preflight | `runtime.rs`: `preflight`, `model_ids` | cursor set, page count | account check; paged model list | connection |
| tool names | `contracts/codex/tool_names.rs` | alias table of a turn | alias, restore | turn reader |
| settings guard, launcher, executable verification | `claude_settings.rs`, `scripts/model-rocket`, `contracts/claude_executable.rs`, `contracts/codex/executable.rs` | launch-scoped files, two child processes, traps | validation, start, readiness, signals, cleanup | the operating system, the release origin, the user's editor |

How a GPT request travels: the HTTP adapter spawns a task and waits for the head of
the response. The task runs `ModelRouterService::handle`: a tool result first claims
the session its call was retained with; the request waits for one of 64 permits,
launches or resumes a session, and reads a turn. The session sends JSON-RPC requests
over the shared connection and receives the events of its thread from the
connection's one reader task. Text goes through the output limiter into a channel of
32 chunks and from there to the client. A turn that stops at a tool call leaves its
session in `pending_calls`; a timer drops it after its time to live.

What is hard, and what correctness means:

* **connection**: tasks share three tables with three kinds of lock and an atomic
  flag, and any of them may observe a fault and run `fail` while the others go on.
  Nobody may be left waiting for an answer that no one will send; an answer must
  reach the request it was written for; one turn's end must not fail the others.
* **turn reader**: the ceiling is counted in tokens that do not align with deltas, an
  interrupt races with the end of the turn, tool calls arrive after the ceiling, and
  usage may be stale. What was emitted, what was withheld and what is reported have
  to agree.
* **router**: a session has one owner; permits are neither lost nor invented;
  continuations cannot starve behind new turns; timers must not drop a newer call
  with the same key.
* **HTTP**: three channels end independently and the client may leave at any step; a
  response that looks complete must be complete, and no task may remain.
* **request admission**: three parties are told of a catalogue in three formats
  (Claude Code, the launcher, Codex). A request that fits what Claude Code was told
  must be served, one that is served must fit what Codex was told; and headers pass
  two filters of which the second no longer sees the `Connection` header.
* **App Server messages**: one stream carries all turns. A bad line must fail the turn
  it belongs to, or the connection when it belongs to none, and nobody else.
* **preflight and launcher**: the executables, the catalogue and the settings may be
  replaced between the step that checks them and the step that uses them; a step may
  fail or a signal arrive with half of the files created and a bridge starting.

`PROJECT.json` lists the hazards with the line at which each bites.

## 2. The modules

    ResponseRelay        what an exchange promises            (abstract)
      ^ implemented by
    HttpDispatch         HTTP adapter, encoding, gateway
    RequestAdmission     catalogue file to routed request and relayed reply
      extends Catalogue, MessageDecoding, HeaderForwarding
    ModelRouter          admission, retained calls, timers
      v implements
    ToolConversation     what the router promises of a conversation (abstract)
    TurnReader           one session's reads of a turn
      v implements
    TurnOutput           what a turn's output promises        (abstract)
    AppServerMessages    bytes, frames, messages and events of several turns
    AppServerConnection  the JSON-RPC connection
    SharedConnection     which connection a session gets, and its child process
    Preflight            the `preflight` command     } both extend
    Launcher             scripts/model-rocket        } Executables

The modules meet at the interfaces the code has. ModelRouter sees a turn as "text,
tool call or error", which are the verdicts of TurnOutput; HttpDispatch sees the
router's task as a producer of chunks and an outcome, and begins where a decoded
request of RequestAdmission is dispatched; TurnReader sees the connection as a stream
of events and a request that succeeds or fails, which AppServerConnection delivers and
whose content AppServerMessages checks; Launcher sees Preflight as a command with a
verdict and the bridge as a process that publishes an address, serves and drains.

### AppServerConnection (`MCAppServerConnection`, `AppServerConnection_proofs`)

A caller is a `CodexRuntime` session with its program counter. A step is the code
between two points at which another task can observe or change shared state: an
await, a lock, an atomic. `request` is therefore seven steps: `AllocateId` (815-821),
`LockPending` (lock and alive check, 822-826), `InsertPending`, `SendCheck`,
`WriteStdin` or `WriteError`, and the wait, ended by `ReceiveResult`, `ReceiveError`
or `RpcTimeout`; `RemovePending` undoes the insertion after a failed send. `fail` is
five: the swap of the flag (`FailSwap`, which only one task wins), `RecordFailure`,
`TakePending` (with the lock), `NotifyPending`, `NotifyThreads`. The reader has
`ReadResponse`/`DeliverResponse`, `ReadEvent`/`ForwardEvent` and its faults.
`register_thread` is two steps, because it reads the flag before it takes the table's
lock. The App Server answers each request with a result or an error, in any order, or
never; it emits events, perhaps before the answer to `turn/start`.

Left out: the failed upgrade of the reader's `Weak` (it ends the reader when nobody
uses the connection any more), `initialize` (it runs before the connection is shared;
the model starts after it), and aborted or panicking tasks.

### AppServerMessages (`MCAppServerMessages`, `AppServerMessages_proofs`)

What the lines of that connection contain. The App Server writes bytes into a pipe;
`ReadAvailable` is one turn of the loop of `read_capped_line` with any part of them in
its buffer, so that a line may come in pieces and meet the cap in any of them. A whole
line is decoded and dispatched (`DispatchResponse`, `DispatchEvent`,
`IgnoreWarning`), a line that is cut by the end of the file is lost (`ReadEnd`). Each
turn checks its events (`Accepts`, from `contracts/codex/messages.rs`) and keeps its
tools under numbered aliases from `StartTurn` on (`contracts/codex/tool_names.rs`).

Several turns share the connection. The steps inside `dispatch` and `fail` are those
of AppServerConnection and are one step here; usage reports, errors and the other
terminal states of a turn are in TurnReader.

### TurnReader and TurnOutput (`TurnReader_proofs`)

Text is counted in *units*, the shortest piece a token can stand for. The model does
not fix what the tokenizer does: when a delta arrives, any number of units may be
stable, any number of tokens may stand for them, as long as a token covers at least
one unit. `EmitStable` (650-691) emits stable tokens up to the ceiling;
`Truncate` emits the part of a batch that fits; `ResolvePending` (693-721) resolves
what is held back when the turn ends. `ReadUsage`, `ReadTool`, `ReadItem`, `ReadError`,
`ReadCompleted`, `ReadInvalid` and `ReadFails` are the branches of `read_turn_inner`.
`ContinueTool` starts another read of the turn, with a new ceiling and fresh progress:
a fatal error that an earlier read has seen is not there any more (`fatalSeen`).
The events are in the order the App Server sent them; the model sends every order that
a turn can have. The wording of upstream errors is not kept.

`TurnOutput` is what the caller of a turn relies on: no more tokens than the ceiling,
nothing after a cut, and a verdict that says whether there was one. TurnReader
implements it with `cut <- reached`.

### ModelRouter and ToolConversation (`ModelRouter_proofs`)

A request is the task that the HTTP adapter spawned; it is not cancelled when its
client leaves. `Arrive`, then `Claim` or `RefuseClaim` (the whole section under the
write lock of `pending_calls`, 129-153), `Admit` (FIFO semaphore, 95-115), `Launch`,
`TurnEnds`, `Retain` (`finish_outcome` and `retain_pending_session`), `Return` (the
permit is dropped last), and `TimerFires` for each spawned timer. Identifiers of tool
calls are chosen by the App Server and may be reused; an expiry identifier is a UUID
in the code and a fresh number in the model.

`ToolConversation` is what Claude Code relies on, without permits, queues, timers or
identifiers of retentions: a conversation is begun by one request, is in the hands of
one request at a time, stops at a tool call whose name no other open call of its
Claude session has, and is answered once, by a request of its own Claude session and
route, or forgotten. No request takes part twice. ModelRouter implements it with
`served <- Served` (past the launch or the claim), `inHand <- InHand` (who holds which
session) and `open <- Open` (which session is retained for which call); `Admit`,
`Return`, a turn that stops, and a timer whose call is gone are stutters. That no session
has two owners (`SessionInOnePlace`) follows from it and has no run of its own; the proof
needs it first, and states it as a theorem.

### SharedConnection (`RequestPath_proofs`)

`shared_connection` holds a mutex over the check, the launch and the entry into the
slot: `Reuse`, or `BeginLaunch`, `PrepareFails` or `Spawn`, `Initialize` or
`InitializeFails`, `Store`. A connection lives as long as somebody refers to it (the
slot, a session, or the reader while it dispatches), and its child is killed with the
last reference (`DropUnreferenced`, in the very step that gives one up) or by `fail`
(`SessionFails` or `ReaderFails`, then `KillChild`). Each request launches at most one
connection, so connections are named by requests and nothing needs a bound. The order
of waiting for the mutex is left open. The model knows the requests on a connection
only as "the session fails it"; AppServerConnection has them in detail.

### HttpDispatch and ResponseRelay (`HttpDispatch_proofs`)

One exchange of one of four kinds: a GPT stream, a GPT message, a proxied stream, a
proxied body. The task (`Connect`, `Fetch`, `SendHead`, `Emit`, `ProducerEnds`,
`DropSink`, `SendOutcome`) and the handler (`SelectHead`, `SelectOutcome`, and the
steps of the body) run concurrently over three channels. The two polls of the
`select` at 157 are two steps, since the task runs on another thread of the runtime.
Frames are what `ResponseSequence` queues, a content frame carrying the number of its
chunk. `ClientLeaves` drops the handler or the body, with the receivers.

The arms for a closed outcome channel and for a mismatch of head and chunk kinds need
a task that panics or a router that mixes kinds; neither exists in the code, and the
arms are left out. The failure of JSON encoding is modelled where it can happen (the
limit of an encoded message, a proxied head that cannot be represented).

`ResponseRelay` says: the client receives the produced chunks in order, nothing
twice and nothing else, and a response that looks complete has all of them and a
producer that ended well. Anything may fail visibly.

### RequestAdmission (`MCRequestAdmission`, `RequestPath_proofs`), with Catalogue, MessageDecoding, HeaderForwarding

`Catalogue` has the checks of `decode` and `ModelCatalogue::new` and the views derived
from what they accept: routing settings, launcher contract, worker definition, and the
catalogue given to Codex. `MessageDecoding` has the checks of a Messages body in their
order, with the rule that tells a continuation from a new turn. `HeaderForwarding` has
the two header filters in each direction. These three are operators without state.

`RequestAdmission` runs them in the order of the program: `Load` (any document;
a refused one stops the process), then requests one at a time: `Messages`, `Models`
and `Model` are the three handlers up to the dispatch (body limit, authorization,
decoding, output-token policy), `Send` and `Relay` the gateway's request and reply, and
`Answer` the end of the exchange. Handlers share only the immutable catalogue, which is
why one request at a time loses nothing. Its specification is `AdmissionSpec`, because
`RequestPath_proofs` holds its theorems beside those of SharedConnection. A block, header or identifier is a member of
a small set that has one value for each case the code tells apart.

### Executables and Preflight (`MCPreflight`, `Preflight_proofs`)

`Executables` says which files are accepted as Codex or as an official Claude Code
release, with the file's size at opening and the bytes really read kept apart.

`Preflight` is the command from `ReadEnvironment` (configuration) through the
discovery launch (`Revalidate`, `CheckVersion`, `CreateHome`, `FillHome`, `Recheck`,
`Spawn`, `Initialize`) to the account (`ReadAccount`) and the list of models
(`PageLimit`, `ReadPage`, `ReadBadPage`, `Compare`). `RpcFails` is a refused request, a
timeout or a lost connection. Every early return is `End`, which drops what is owned
at that point: a running child is sent its kill, and dies later, perhaps after the
command (`ChildDies`); the isolated home, if a value owns it already, is removed, or its
removal fails with a warning (`DropHome`). `Replace`
puts another file at the path of the executable between any two steps. The replies of
the App Server are arbitrary, except that it lists what the account may use, or what
a generated catalogue names if it was started with one.

### Launcher (`MCLauncher`, `Launcher_proofs`)

One action per command of `scripts/model-rocket` that can fail or that others
observe: `CreateReadyFile` to `ValidateClaude` (`PrepareStep`), `ProbeVersion`,
`RunPreflight`, `StartBridge` to `StartClaude` (`LaunchStep`), `ClaudeEnds`, and the
cleanup (`Interrupt`, `Terminate`, `Kill`, `Reap`, `RemoveFiles`). `known` is what the
script's variables name, which is what its cleanup can act on. A signal ends the
script before its traps exist, waits for a foreground command, and cuts off a cleanup
(`Signal`).

The bridge is a process with the states of `serve` and `shutdown_signal`: it publishes
its address, then installs its handler, drains open exchanges and removes its isolated
home, or is killed without. `EditCatalogue` and `ReplaceClaude` are the user's.

The settings of Claude Code are one file for each of several scopes. A user may edit one
before every read, so what `ValidateSettings`, the start (`ReadSettings`), the hook
(`GuardChange`, which is `guard_config_change` on the one file it is told of) and Claude
Code's use of a change (`ApplyChange`) find is a choice of its own each time. A change
that the hook has let through is kept in `granted` and acted on at any later time, with
any file then on disk, and perhaps with the other scopes read again; when the hook does
not decide within its 5 seconds, or cannot write its decision, the change may be acted on
nevertheless (`ApplyUndecided`); once a file that disables hooks is in use nobody is
asked (`ApplyUnguarded`). `basis` records whether all that came into use had been read
by a check as it was. Three things about Claude Code, which the code relies on, are
assumed: it works with what it has read last of each scope, it runs its hook on a change
unless hooks are disabled, and it does not act on a change that was blocked. Its settings
have no other effect in the model, and a file that does not parse has none.

## 3. The runs

| run | bounds | what it shows |
|---|---|---|
| `connection` | 2 sessions, 2 threads, ids to 6, 1 non-terminal event per turn | `RequestNeverStranded`: who awaits an answer has it or is owed it. `AnswerReachesItsRequest`. `ReaderNeverStranded`: a session that reads its events on a dead connection is registered, or will be told. `NoLeakedRegistration`: a session that has ended has no sender in the table. `OnlyLeaversCutOthersOff`: a turn that ends in the regular way does not fail the connection |
| `connection_live` | 2 sessions, 1 thread, ids to 5 | `FailureReachesEverySession` without timers: a fault is not merely cleaned up by the timeouts. `EverySessionEnds` if the timers fire, also when the App Server never answers |
| `turn_reader` | ceilings 1 and 2, deltas of 1 or 2 units, 3 contents, 2 unread events | `TextIsWholeOrCut`, `UsageIsFinal`, `EveryReadReturns`, and TurnReader implements TurnOutput. `FatalWinsAtTheEnd`: a read that has seen a fatal error fails its turn or surfaces a tool call |
| `turn_reader_fatal` | ceiling 1, deltas of 1 unit, 2 contents, 1 unread event | a violation of `FatalErrorFailsTheTurn`, see below |
| `router` | 3 requests, 1 permit, 2 Claude sessions, 2 routes, 1 tool id | `PermitsAreAccountedFor`, `ContinuesItsOwnTurn`, `ToolCallStaysOpen`, ModelRouter implements ToolConversation, and, with fairness, `EveryRequestIsAnswered` and `RetentionEnds` |
| `http` | channel of 2, limit of 3 chunks, 5 chunks | `FramesAreWellFormed`, `AggregatesAreLimited`, `EveryExchangeEnds`, and HttpDispatch implements ResponseRelay |
| `shared_connection` | 2 requests | `OneConnectionAlive`: sessions that outlive a replacement are on dead connections. `NextRequestIsFresh`: what had failed when a request arrived is not given to it. `HandshakeComesFirst`. `ProcessesAreReaped`: children of failed or dropped connections end, and a crash is noticed |
| `requests` | catalogues of at most 2 models and 2 routes, 4 histories with a last message of at most 2 blocks, statuses 200, 302, 404, 600 | `AdvertisedRoutesAreServed`: the views of a catalogue agree with what is accepted. `ContinuationIsExplicit`. `OnlyEndToEndHeadersCross` |
| `preflight` | 2 models, 3 cursors, 3 pages, 8 kinds of files | `VerdictIsJustified`, `PinnedUnlessReplacedLate`, `EveryPreflightEnds`. `NothingLeftBehind`: however the command ends, its child has been sent its kill, and its home is gone or its removal has failed with a warning |
| `launcher` | 2 catalogues, one of them acceptable, 2 releases of Claude Code, 1 round of the readiness poll, 2 settings scopes, 4 settings files, 3 hook inputs, 1 change of a scope waiting to be acted on | `OneCatalogue`, `OnlyOfficialClaude`, `NothingOutlivesTheLaunch`, `EveryLaunchEnds`. `SettingsStaySafe`: as long as only settings have come into use that a check had read as they are, none redirects models or disables the hook |
| `launcher_second_signal` | as `launcher` | a violation of `FilesAreRemovedAfterClaude`, see below |
| `messages` | 2 turns, 17 kinds of lines, frames of at most 2 bytes, 3 lines | `FaultsHitTheirTurn`: the connection fails exactly for lines of no turn, a turn only for its own. `ToolCallsKeepTheirMeaning` |

Each property is paired with a mutant: an operator, mostly beside the definition it
changes and marked "Mutant:", that puts a plausible mistake into the code (an unchecked
lock, a missing release, a timer that looks at the key only). With the mutant in place
the run fails.

Deadlock is checked except in `requests`, where a refused catalogue ends the
process, and in `messages`, where the App Server stops after its last line and the turns
end.

Why the bounds are enough to be interesting. Two callers and the reader give every
pair of concurrent operations on the tables, and a third party that fails; ids to 6
cover three requests of each caller, so that late answers meet later requests, and
the counter's end. Two threads let a thread be used by the wrong caller. A delta of
two units and ceilings of one and two give a token that spans the ceiling, one that
ends at it and one that is held back. Three requests on one permit give a turn that
stops at a tool call, its result, and a second result for it, a stranger's, or a new turn
that takes the permit; the only tool id is reused by every turn. In the
HTTP run the limit and the channel are smaller than what is produced, so both are met.
Two requests on the shared connection give one session on a dead connection and one
launch in progress; its safety is proved for any number of requests. Two models of
different windows and two routes give a minimum that is not the window of the requested
model, and dangling and duplicate entries. Two scopes give a change that is acted on while
another one waits, and a scope that is read along with another; one of the four settings
files is harmless, one absent, one redirects models and one disables hooks. Three cursors on three pages let the
last page of the budget offer a new cursor or an old one. One round of the launcher's poll has both
its ends; the proofs cover any number. Lines
of one, two and three bytes are below, at and above the frame's cap, and three lines
are an answer, a tool call or another event, and one more after it.

Symmetry is used for callers in `connection`; the other runs use none.

### Two disagreements with the requirements

`turn_reader_fatal` violates what `docs/specs/bridge-spec.md:30` (REQ-008) requires: that
a non-retryable provider error remains fatal. `read_turn_inner` looks at
`fatal_upstream_error` only where the turn ends (`runtime.rs:607`). A tool call that
follows the error is surfaced as `Ok(ToolCall)` (`runtime.rs:575`), the error goes with
the `TurnProgress` of that read, and the read after `continue_tool` may end with a
success. `FatalWinsAtTheEnd` is what the code does guarantee: the read that saw the
error does not end its turn well.

`launcher_second_signal` violates what `docs/specs/bridge-spec.md:40` requires:
that the routing settings and the catalogue snapshot are removed when Claude Code
exits. The cleanup runs in the trap on EXIT while the traps on INT and TERM
(`scripts/model-rocket:91-92`) are still installed. If one of the two signals arrives
while the cleanup waits for the bridge (up to about two seconds), the `exit` of its trap
ends the script, and both files stay. `NothingOutlivesTheLaunch` names this lapse and
two others, and holds without them: a signal or an error before the traps are
installed (42-51), and a signal between the start of the bridge and the assignment of
its process id.

## 4. What is proved

For every value of the constants, under the named assumptions on them (for instance
`ConnectionAssumption`: the reader is not a caller, `MaxId >= 2`):

* **connection**: type correctness, `RequestNeverStranded`,
  `AnswerReachesItsRequest` and `DrainedMapStaysClosed` (nothing enters the map after
  `fail` emptied it, which no run checks). None of them is inductive:
  that an awaiting caller is owed an answer depends on where its sender can be. The
  invariant `IInv` follows the sender of a request from the map to the reader's hand
  or to the set that `fail` has taken out (`SenderInv`, `HandInv`), says that a
  request the child has not answered is its caller's last one (`WrittenInv`), that
  ids are fresh (`IdsInv`), that who holds the lock across a step comes before the
  drain (`LockInv`), and that an unanswered request is owed its answer from the
  insertion on (`OwedInv`, `RequestInv`). Steps that leave the requests alone are
  dealt with by shared lemmas about what they leave unchanged.
  `ReaderNeverStranded` and `NoLeakedRegistration` follow from a second invariant,
  `RegInv`, that rests on `IInv`: a registration is that of a session present
  (`OwnerInv`), and until `fail` has taken the table a session that is present has its
  registration, or the reader has met a fault before the session saw the answer to its
  `turn/start` (`RegisteredInv`). Two sessions may have got one thread, and then one
  undoes the registration of the other; the second alternative is what keeps that
  harmless. `OnlyLeaversCutOthersOff` follows from a third, `CutInv`, on top of both: as
  long as nobody has left and the connection is up, each running turn has a session
  registered for it that waits for more events (`TurnInv`).
* **turn reader**: type correctness, `TextIsWholeOrCut` from an account of units
  (received is written plus pending until the ceiling is reached), `FatalWinsAtTheEnd`,
  `UsageIsFinal`, and that every step is a step of TurnOutput or a stutter. That a
  report is final needs to know that what it does not cover is still behind it in the
  channel (`ReportInv`, `CountInv`), that the reports of one request to the model are
  told from those of the next (`EpochInv`, `ToolInv`), and what an ended turn has left
  there (`EndInv`).
* **router**: type correctness, `PermitsAreAccountedFor`, `SessionInOnePlace`,
  `ContinuesItsOwnTurn`, `ToolCallStaysOpen`. `CallsInv` says that a retained call is
  under the key of the session it keeps, and bound to the route of that session;
  `HoldInv` says at which point of `handle` a request holds a session, and what it may
  rely on there. ModelRouter implements ToolConversation (`ConversationsAreKept`): one
  lemma for each action names the abstract step it is. That a claim removes the one
  call of its session, and a timer at most one, comes from `SessionInOnePlace`; that
  the answer is of the right Claude session and route from `CallsInv`; that a
  retention brings no second open call of a name from the guard under the lock.
* **shared connection**: type correctness, `OneConnectionAlive`, `NextRequestIsFresh`,
  `HandshakeComesFirst`. The invariant says that a live connection with an owner is
  the one in the slot or the one being launched, and that while one is launched the
  one in the slot is dead and nobody else has the new one (`AliveInv`); a connection
  exists only from its spawn on (`LaunchInv`); what had failed stays failed
  (`FreshInv`).
* **request admission**: `AdvertisedRoutesAreServed`, `ContinuationIsExplicit`,
  `OnlyEndToEndHeadersCross`, for catalogue files, conversations and header maps of any
  size. The first error of a list of checks is absent exactly if every check passes
  (`FirstError`, from the least number of a set); level by level this gives that the
  decoder's verdict on a block, a message, a conversation, a body and a request is the
  requirement's (`BlockIsSupported` up to `LocalIsExact`). `GoodCatalogue` says what
  survives loading, `HeadersAreFiltered` that two runs of the filter are one.
  `DocumentsAssumption` and `PostsAssumption` say what the JSON decoder can produce,
  `HeadersAssumption` that `connection` is one of the names that occur.
* **App Server messages**: type correctness, `FaultsHitTheirTurn`,
  `ToolCallsKeepTheirMeaning`, under `LinesAssumption` (an empty line is no JSON; an
  identifier is a number or a string). The bytes written are those read, those of the
  line at hand and those in the pipe, in this order, so that what a read ends with is
  one of the lines, cut by the cap or by the end of the file, or whole (`BytesInv`,
  `ReadOutcome`). As long as the connection lives, every line read was of some turn,
  and the requests still awaited are those no line has answered (`RequestInv`,
  `ScopeInv`); a connection that failed met a line that forces it, or the end of the output
  (`FailureInv`). A
  turn's channel holds the lines of its thread in their order, up to the connection's
  failure and nothing else (`QueueInv`), so a turn that failed met a fault of its own, in
  an event or in the answer to its start, or the connection's, and one that succeeded met
  none (`OutcomeInv`). The alias table of a turn,
  and the identifier it will answer, are the declared ones (`ToolInv`).
* **HTTP**: type correctness, `FramesAreWellFormed`, `AggregatesAreLimited`. That a
  stream's frames are well formed needs to know what the task can still send
  (`OutcomeInv`), which phase the handler is in for which kind of exchange
  (`HandlerInv`), and that the frames sent and queued, read as one sequence, are a
  prefix of a well-formed stream whose open block is the encoder's (`StreamInv`).
  `CollectInv` and `FetchInv` bound the two aggregates while they grow. HttpDispatch
  implements ResponseRelay (`ContractIsKept`): the chunks received, then those queued,
  in the channel and in hand, are 1, 2, 3 and so on up to the number produced, and
  every step either keeps what the client received or appends the next of them. The
  chunks of a sequence of frames are computed by a recursive function over its length;
  what it gives for a sequence with one more frame is proved by induction.
* **preflight**: type correctness, `VerdictIsJustified`, `NothingLeftBehind`,
  `PinnedUnlessReplacedLate`. The pages asked for are the start and the cursors seen,
  in the order in which they were offered, and as many as the budget has lost
  (`ListInv`, `UnlistedInv`); what is available is what was listed and, in a discovery
  launch, what the account may use (`AvailableInv`); the home exists only with an owner
  or after a warning, and no child runs on after the end (`LaunchInv`); a comparison takes place only after the last page of a managed account
  (`CompareInv`).
* **launcher**: type correctness, `OneCatalogue`, `OnlyOfficialClaude`,
  `SettingsStaySafe`, `NothingOutlivesTheLaunch`, under `OriginAssumption`: the digest
  that the release origin publishes for a version is that of this version's file. Each
  part of the invariant says what is known of one object after which command:
  `CatalogueInv`, `ClaudeInv` and `ReleaseInv`, `SettingsInv`; `FilesInv` says that the
  script's variables name every file and the bridge as long as nothing has lapsed, and
  that each cleanup step leaves what the next ones remove; `HomeInv` ties the
  isolated home to a bridge that serves, drains or was killed. `SettingsInv` says that
  what `validate-settings` has read and what the hook has let through is harmless until
  it is used, however late.

Every invariant, every safety property of an action and all three refinements that the
passing runs check are stated by a theorem. Only model-checked is what is liveness:
`FailureReachesEverySession`, `EverySessionEnds`, `EveryReadReturns`,
`EveryRequestIsAnswered`, `RetentionEnds`, `ProcessesAreReaped`, `EveryExchangeEnds`,
`EveryPreflightEnds` and `EveryLaunchEnds`. Fairness and `ENABLED` are out of the provers'
reach, and the library's induction theorems, which take an operator as a parameter,
are too. Where an induction is needed (the chunks of a stream of frames) it is done on
a set of numbers: `LeastNumber` finds the least counterexample, because the
library proves that the strict subsets of finite sets are well-founded, and `Induction`
and `SequenceInduction` of `HttpDispatch_proofs` follow from it.

## 5. Fairness

* `AppServerConnection!PromptFairness`: every task that can take a step takes it; the
  runtime polls a woken task. This includes that a write to the child's stdin ends,
  with success or an error: the code has no timeout there, and a child that neither
  reads nor dies would hold the stdin lock. The App Server itself is not fair: it may
  never answer. That the timers (`RPC_TIMEOUT`, `TURN_TIMEOUT`, `TOOL_SESSION_TTL`)
  fire is `TimersFire`, a hypothesis of `EverySessionEnds` only.
* `TurnReader!FairSpec`: the reader is polled, and the App Server completes a turn
  sooner or later. `TURN_TIMEOUT` is per event, so a turn that keeps sending is not
  bounded by the code.
* `ModelRouter!FairSpec`: each request's task is polled and its turn ends (which is
  `EveryReadReturns` with the connection's `EverySessionEnds`); timers fire. The
  semaphore's queue is part of the model, so no fairness is needed for admission.
* `SharedConnection!FairSpec`: tasks are polled, launches and sessions end (each waits
  under a timeout), a killed child dies, and the reader is told of the end of its
  child's output. A child that was not killed need not die.
* `HttpDispatch!FairSpec`: the task is polled and its provider answers, which for a
  proxied exchange is an assumption about Anthropic: the client of `anthropic.rs:27-30`
  has no timeout; the handler is polled; the client goes on reading or leaves.
* `Preflight!FairSpec`: the program's own steps are taken, and a wait for the App Server
  ends (`RpcFails`, `RPC_TIMEOUT`); that it answers is not assumed. Nothing ends the
  wait for `codex --version`, so `EveryPreflightEnds` excepts it.
* `Launcher!FairSpec`: the script's own commands end. Nothing is assumed of the
  bridge, which may drain for ever, nor of the commands without a time limit (the
  version probe, preflight, Claude Code itself): `EveryLaunchEnds` excepts a launch that
  waits for one of them.

RequestAdmission and AppServerMessages have safety properties only.

## 6. What is not modelled

Of "Domain values, configuration and wiring" only what decides something at run time is
modelled (the paths in the environment, the isolated home and the order of start and
shutdown, in Preflight and Launcher). The rest has no protocol between its operations:
constructors of value types that check one string or number, the command line,
the wiring in `main.rs`, the redaction of log output. Test support and the stand-in
servers of `tests/` are no part of the program.

Panics and aborted tasks are outside all modules. So is the content of what is
passed on unread (instructions, tool schemas, text), and the wording of errors.

Of the launcher, the `rm` of the cleanup is assumed to succeed, a SIGKILL of the script
itself is left out, and its log file is no state: it is kept by design (REQ-024). Of
the executables, what is checked is the file that is spawned as App Server or started as
Claude Code; the earlier `--version` runs are not told apart from it. A preflight does
not wait for the child it has killed (`docs/specs/bridge-spec.md:98`), so that it ends in
the end is the kernel's promise, not the command's.

Three hazards have no property; each has its reason in `PROJECT.json`: a child that
does not read its stdin (`runtime.rs:861`) and a turn that keeps sending
(`runtime.rs:644`) are not bounded by the code and appear as the fairness assumed, and
the race of the head with the outcome (`http.rs:158`) is the observation below.

An observation from SharedConnection: `fail` clears the flag before it kills the
child, so the replacement may be spawned while the old child still runs, for as long
as the old task takes to get to `start_kill`. Two processes may overlap; two usable
connections never do.

An observation from HttpDispatch: the sink, with the head's sender in it, is dropped
before the outcome is sent (`http.rs:149-154`), and the select polls the head first.
An error before the head (a refused redirect, an unreachable upstream, a non-stream
body over the limit) is therefore answered as "ended without response headers" rather
than with its own text, except when both polls fall around the two sends. The client
sees a failure with an explicit status in both cases, as the specification demands.

## 7. Plan

Done, in this order: AppServerConnection, TurnReader, ModelRouter, HttpDispatch,
SharedConnection; then RequestAdmission with its three modules of operators, Preflight
and Executables, Launcher, AppServerMessages; each with its runs; then the proofs of
section 4, the last of them the refinements of ResponseRelay and ToolConversation, the
content of AppServerMessages and the admission of requests. What is left:

1. An abstract promise of the connection (each request is answered once or fails),
   refined by AppServerConnection, with the proof.
2. The composition of ModelRouter with HttpDispatch: a client that does not read holds
   its turn's permit.
