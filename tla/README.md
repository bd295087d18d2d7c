# Verification of the AGS CLI

TLA+ models of the AccelByte AGS command-line tool: the multiplexed debug tunnel
(`crates/extend-proxy-client`), the remote-debug command around it, the stored
session and the configuration files that concurrent invocations share
(`crates/ags-runtime`), the workflow engine, self-update and the AMS upload. TLC
checks them on small instances; TLAPS proves the properties that matter most for
every value of the constants. `PROJECT.json` lists the runs, what each definition
models (`map`), the hazards and the findings.

    tlc -workers 2 -config Profiles.cfg MCProfiles
    tlapm TunnelSessionProofs.tla

## 1. Inventory

| Part | State | Operations | What is hard | What makes it correct |
|---|---|---|---|---|
| Tunnel streams: `session/core.rs`, `session/stream.rs` | `streams` map, `StreamState`, bounded outbound channel, cancellation token | `open_remote_stream`, `handle_open_stream`, `read_pump`, `reader_loop`/`dispatch_frame`, `writer_task`, `stream_cleanup_loop`, `rst_all_streams` | one task per stream, per OPEN, per loop, suspended at every `.await`; one local application that does not read suspends the reader of all streams; teardown at any moment | bytes in order and on their own stream; no connection leaked; every OPEN answered; half-closed streams end |
| Stream ids: `session/idgen.rs` | counter | `next` | two endpoints allocate without coordination; wrap | ids free, of their parity, in range |
| Tunnel RPC: `session/core.rs` | `in_flight_calls`, `cmd_semaphore` | `call_rpc`, `handle_cmd`, `handle_cmd_response` | late, lost and repeated responses; exhausted permits | each call gets its own answer, or ends |
| Heartbeat: `session/core.rs` | `awaiting_pong`, `pong_deadline`, `last_activity` | `heartbeat_loop`, `ack_pong`, `run` | timers against a slow peer; blocked sends; a reader that is writing to a local application | no false timeout; silence noticed; cancellation ends the session |
| Wire format: `protocol/` | none | encode, decode, `validate` | | frames survive the round trip |
| Agent, forwarder, bridge: `client/`, `forwarder/`, `tunnel/bridge.rs` | `SessionHolder`, listeners, one relay per connection | `Agent::run`, `forwarder::run`, `run_tunnel`, `dial_with_retry` | `select!` drops the running session on cancellation; accept loops are aborted and not joined; a 401 in one task is a closed connection in another | what outlives an attempt has no session and reaches no server |
| Remote debug: `remote_debug/` | attempt counter, cancellation tokens, component handles | `run_connect_loop`, `connect_once`, ordered shutdown | Ctrl-C against four tasks that end by themselves | one attempt at a time; Ctrl-C ends the command, with status 0 |
| Workflows: `workflows/`, `phase_execution.rs`, the forms | inputs, captures, `RunFacts` | compile, gather, review, confirm, dispatch, skip, retry | a skip far from the reference it strands; edits after resolution; a prompt nobody answers | references resolve, mirrors agree, every step accounted for, no prompt without input |
| Self-update: `update.rs`, `update_install.rs` | binary, `.old`, install lock with heartbeat | `handle_install`, `InstallLock` | kills between two renames; two invocations; a lock that goes stale | a runnable binary is left; the report is true; one installer |
| Configuration: `config/store.rs`, `facade/profile.rs` | global and profile files, their locks, directories | `update`, `set`, create, use, delete, rename, first run | read-modify-write by several processes; killed in between | updates are atomic; the active profile exists |
| Session: `auth/session.rs`, `operations.rs`, `locking.rs` | refresh mutex, token file lock | `resolve_access_token`, `force_refresh_session`, `refresh_profile`, login, `logout_profile` | several processes and tasks; rotating refresh tokens; failures between any two steps | a rotated token is never sent; one writer; no other client's token |
| Token and secret store: `auth/store.rs` | keychain entry, `token.json`, `credentials.json` | store, get, delete | two places for one value; the keychain comes and goes | a read returns what was written last |
| AMS upload: `ams_upload/` | image record, tasks and ETags of the parts | `run_upload` | parts in parallel, renewed signatures, lost answers | a complete image is the archive |
| Request dispatch: `dispatch/` | none shared | requests, pagination, ranged `PUT` | retries of what already happened | bounded retries, every page once |
| Update check, app lifecycle, telemetry, diagnostics, catalogue, protocol types, output | | | no state another part relies on | |

The parts meet as follows. A command resolves a token through the auth session,
dispatches its requests with it and renders the result. The remote-debug handler
reads the app's debug info, starts a tunnel (a local listener whose connections
are bridged to a WebSocket), an agent that dials through it, performs the
handshake and runs a tunnel session, and a forwarder that gives accepted local
connections to `open_remote_stream`; a 401 from the bridge's dial leads to
`force_refresh_session`. A workflow run dispatches its steps like commands.
Concurrent invocations of the tool share nothing but the keychain, the files and
the file locks.

## 2. Modules

| Module | Models | A step is |
|---|---|---|
| `TunnelSession` | both endpoints of a session and the transport | from one `.await` to the next |
| `TunnelAnyPeer` | the client's half of `TunnelSession` against a peer that sends any valid frame | the same |
| `IdGenerator` | `IdGenerator::next`, against a reference definition | one loop iteration |
| `TunnelRpc` | calls, handlers and their frames | from one `.await` to the next |
| `TunnelHeartbeat` | one endpoint's loops in discrete time, with a writer that can be stuck in its sink | from one `.await` to the next, or a unit of time |
| `RemoteDebug` | the reconnect loop and the tunnel, agent, forwarder and signal tasks of an attempt | from one `.await` to the next |
| `AuthSession` | callers, token store, locks, token endpoint | one store, lock or network operation |
| `Profiles` | invocations that read and write the configuration | one file or lock operation |
| `AtomicConfig` | what a config store promises: updates that take effect at once | one update |
| `Workflow` | `compile_workflow`, `WorkflowExecutor::execute`, the review form, the phase driver | one stage of a step |
| `UpdateInstall` | `ags update --install` in several processes | one file operation or await |
| `AmsUpload` | `ags ams upload` after packing | one request |
| `MCParts` | an instance of `TunnelRpc`, `IdGenerator`, `TunnelHeartbeat`, `AmsUpload` and `RemoteDebug`, which name everything apart so that one module can extend all five | |
| `MCProfiles`, `MCWorkflow` | instances for TLC | |
| `TunnelSessionProofs` | theorems about `TunnelSession` and `TunnelAnyPeer`, which it extends | |
| `PartsProofs` | theorems about `IdGenerator`, `TunnelHeartbeat` and `AmsUpload` | |
| `TunnelRpcProofs`, `RemoteDebugProofs`, `AuthSessionProofs`, `ProfilesProofs`, `WorkflowProofs`, `UpdateInstallProofs` | theorems about the module each is named for | |

Composition. `TunnelAnyPeer` puts half of `TunnelSession` beside another peer.
`TunnelSession` takes from `IdGenerator` that `next` yields the next free id of
its parity (`AllocatesNext`). `RemoteDebug` composes the tasks of an attempt and
holds a tunnel session as up or over: over by itself (`SessionCloses`), or because
the agent dropped `run` (`SessionDropped`, `AgentCancels` in `TunnelSession`).
`AuthSession` takes one update of a profile's config as one step, which is what
`Profiles` shows of the detailed lock, load, change and replace.

### TunnelSession

Both endpoints run the same code with another id parity and other dial targets,
so the module is parameterised by the connections each accepts (`ClientOpens`,
`ServerOpens`) and dials (`ClientDials`, `ServerDials`). A `Stream` object owns
exactly one connection and is identified with it. `map[e]` is the `streams`
HashMap, `state` the four flags of `StreamState`, `out` the `mpsc` channel, `net`
the frames in the WebSocket, `pump`, `opener`, `acc`, `rd`, `writer` the program
counters of the tasks. A task that sends waits while the channel is full and
gets an error once the writer has returned; the code's three reactions (ignore,
close, undo the insert and close) are the actions' disjuncts. `rst_all_streams`
takes the map in one step and then sends and closes stream by stream.

The reader is a single task, and DATA suspends it in the local connection's
`write_all` with the write half's lock held (`rd[e].pc = "write"`, `DispatchData`)
until `LocalWritten`: it reads no other frame, does not see the token, and a
`close` of that stream shuts the write half down only when the lock is free
(`WriteHeld`). `got` has a chunk from the moment it is given to `write_all`.

Ways to end: the token is cancelled while `run` goes on, by the heartbeat or by a
holder of `cancel_token` (`Cancel`), so that `rst_all_streams` runs; the agent's
own cancellation wins its `select!` and drops `run` wherever it is suspended
(`AgentCancels`), so that it never does: the streams stay in the map, their pumps
end only when they find the channel closed; or the transport breaks
(`Disconnect`), when frames in flight are lost.

Abstractions. The rest of `close` is one step: its flag, `cancel_tx` and shutdown
are not separated otherwise. `sink.send` is atomic here and a state of its own in
`TunnelHeartbeat`; `sink.close` waits for room in the transport. Each dialable
connection serves one inbound OPEN, so a `HandleOpen` waits when none is left: a
bound, not a behaviour of the code. Ids do not wrap in this module. Malformed
frames, which the reader discards, are left out. The handshake is over when the
model begins.

### TunnelRpc, TunnelHeartbeat

`TunnelRpc` gives each call its id by `fetch_add`, inserts the entry, sends, and
then races the oneshot channel against the timer; the callee either takes a
permit and spawns a handler or answers "server busy" from its reader. A
duplicated or late response finds no entry. `req` and `resp` stand for the
channel and the transport together. The callee may stall for good with the
connection up (`CalleeStalls`).

In `TunnelHeartbeat` timers count down on `Pass`, which waits until no task can
run: tokio runs every ready task before a timer that is not due. A live peer's
next frame comes within `PeerDelay`; a stalled one neither reads nor sends while
the connection stays up, though frames it sent before may still be unread
("stalling"). The reader may be in a local `write_all` for any time
(`ReceiveOther`, `LocalWritten`); a frame that lies unread meanwhile is `overdue`.
The writer closes its sink before it ends (`WriterCloses`), which a stalled peer
can hold up, and `run` joins the heartbeat before it returns (`RunCancels`,
`RunEnds`). `DetectBound` is the time the code's own arithmetic allows: one
interval to the next PING and then the first tick at or after the PONG deadline
(server), or the idle timeout and one tick (client). `LivePeerSettings` says which
timeouts a peer with that delay can meet: its PONG comes before the tick that
tests the deadline, and the server's next PING (or, for a server, its own next
tick) before the idle timeout. The command's server announces the idle timeout a
client uses, so for a client this concerns the server's settings.

### RemoteDebug

`phase` is where the command is: at the top of `run_connect_loop`, in the backoff,
in `fetch_debug_info` and the preconditions, in the three `select!`s of `run_session`
or awaiting a component in its ordered shutdown. The tunnel, agent, forwarder and
signal tasks have a state each; `outerCancel` is the command's token and `stopping`
the attempt's child of it. An await of a component ends with its end or with the
timeout that aborts it, and time is abstract: an armed timer may fire at any
moment. `Preconditions`, `ClassifyAgent` and `RetryDecision` are the code's
tables. The bridge's dial (one retry, after a forced refresh) and its relay serve
the agent's one connection. `attempt = 0` means, as in the code, that no session
has ended cleanly. A panicking task is left out.

A session is over when `run` returns, for its connection's end or for the idle
timeout (`SessionCloses`), or when the agent's cancellation drops `run`
(`SessionDropped`). `live` says that the session's own token is still to be
cancelled. `left` is what nobody joins: the session's loops, the bridges of its
local connections, and the accept loops that `ServiceListener::stop` aborts
(`ListenersStopped`), each of which ends in its own time (`LeftoverEnds`), also
during later attempts, where a forwarder may then find its port taken.

### Workflow

A definition is data: declared inputs, a briefing, and steps with their kind,
flow-control flags, bindings (literal, input, format, earlier step, mirror) and at
most one output. `Compile` applies the rules of `compile_workflow` or rejects. A
value is where it came from (flag, default, form, prompt, edit, literal, body),
`"null"` a JSON null that counts as supplied, `"unset"` none; that is all that
resolution and the checks look at. One action per stage of `execute`: seeding
with the no-input precheck, briefing, gathering up front with the run mode, then
for each step local resolution or schema, review, gather, assembly, confirm, dry
run, dispatch with capture of the output, and the failure gate with its retry,
skip and default bindings. `?` in the code is `Escape`: the step stays started and
the run fails. The user, the API and the local actions answer in any way their
interface allows; a form returns edits of `Editable` fields with nothing required
left empty. `asked` records each kind of prompt shown.

### UpdateInstall

Files are the version they hold. `preserve_previous_binary` is two steps,
`InstallLock::acquire` four (create, look at the age, rename, create again), and
restoring is two on Windows, which cannot replace a binary. The lock's age is
counted in heartbeat periods; `Tick` lets a period pass only when every live
heartbeat has beaten, so the staleness window (ten beats in the code, `StaleAfter`
here) is what separates a slow holder from a dead one. A beat that is writing when
its holder releases still lands. A write may fail (`BeatsFail` says whose), and
then that heartbeat has ended for good while its command goes on. Ctrl-C reaches
the process-wide handler, which decides by the ownership flag it reads then, and
the command's own watcher; after it the process may exit at any step (`Die`),
which is also the second Ctrl-C. The installer script is external: it writes the
binary well, badly or not at all, and outlives a killed parent.

### Profiles and AtomicConfig

A profile directory is an object that a name points to, because a profile's lock
file lives inside the directory that `rename` moves and `delete` removes. Writers
(`config set`, `persist_login`, `logout_profile`) open the lock, wait for it, load,
change and replace; `resolve_profile_name` creates the default profile on a first
run; `use`, `delete`, `rename` and the first-run hint update the global config
after what they do to the directories. `Fault` lets a write fail or a process
die anywhere; the operating system frees its locks.

`AtomicConfig` is the abstract store: one value, and updates that each take effect
once and at once on the value before. `GlobalAtomic` is the refinement: with
`value` as the global file, `update` as the commands and `committed` as the
history variable, every step of `Profiles` is a step of it or a stutter. It
covers all the commands together, in every order `Together` admits, crashes
included.

### AuthSession

A token is its mint number, the client and the grant it was minted for. The
server (external) accepts a refresh token once and replaces it. A caller is one
of: a resolver (`resolve_access_token`), a refresher (`refresh_profile`), a forcer
(`force_refresh_session`), a login (`probe_existing_session`, the grant,
`persist_login`) or a logout. Callers in `OneProcess` also share the in-process
refresh mutex; everyone shares the token file lock, which the operating system
frees when its holder dies (`Crash`). `kcState` distinguishes a keychain that works,
one that is absent (reads and writes go to the file) and one that fails (reads
are errors, which `.ok().flatten()` turns into "no token"). `secret` is the set of
places a client secret is stored in. `latest` is what the last write or removal
that succeeded left: a failed one does not move it.

Tokens always carry a client and a grant: tokens of older versions without them
are not modelled. Refresh tokens come with authorization-code grants only.
The reads at the start of `refresh_profile` and of the login probe are one step.

Bounds: `MaxTokens` caps what the server mints, `MaxExpired` how many refresh
tokens run out, `Sessions` the session a run starts from, `Faults` which failures
may happen. A constraint on faults is part of a property's meaning where a
failure outside the program's reach would refute it (a lost response to a
refresh, for example, loses the session whatever the client does).

### AmsUpload

A byte of the archive is its position and an ETag the bytes it was given for;
the storage service joins the parts in the order `finalize` lists them. A request
may fail although the service did it. `put_file_range`, which sends the same
range again after a timeout or a server error, is one step.

## 3. Runs

Each run finishes within about three minutes on two cores.

| Run | Checks | Instance |
|---|---|---|
| `tunnel_any_peer` | `Registered`, `NoLeak`, `BothEofClosed`, `StateMonotonic` | the peer sends any three valid frames (two when the token is cancelled before the last) on ids of either parity; one stream opened, two dialled and interchangeable, failing dials; cancellation, a dropped `run` and a broken transport at any step |
| `tunnel_duplex` | `IdsNeverCollide`, `StreamIntegrity`, `AckPrecedesData`, `OpenAnswered` | one stream from each side at once, one with two chunks from its opener, the other with two from its dialler, failing dials, local writes that may not return |
| `tunnel_streams` | `NoEarlyData`, `OpenAnswered`, `HalfCloseCompletes` | one stream, one chunk each way, failing dials, reads and writes, local writes that may not return, a server that cancels, fair scheduling |
| `parts` | `AllocatesNext`; `OwnAnswer`, `NoStaleEntry`, `CommandAnswered`; `NoFalseTimeout`, `DetectedInTime`, `RunReturns`; `ImageWhole`; `NothingReaches`, `CancelWins`, `CtrlCEnds` | ids: threshold 11, three active, both parities. RPC: two calls, one permit, queues of one, errors, duplicates, the session's end, a stalled callee. Heartbeat: both roles, two streams to reset, local data, local writes that may not return, a peer as slow as the timeouts allow or stalled, cancellation. Upload: one to three parts, two at a time. Remote debug: three failed attempts in a row (five in the code), any number of sessions, one Ctrl-C |
| `workflow` | `NoStrandedReference`, `MirrorAgrees`, `FactsBalance`, `NoGateUnattended`, `UnattendedEnds` | a producer with every set of flags before a consumer of its output; one step with every binding and declaration; six kinds of invocation; one retry |
| `update_install` | `RollbackKept`, `OutcomeTrue`, `LiveHolderNotStale`, `InterruptEnds` | two invocations at a time, one with a heartbeat that may fail to write, three in all, Unix and Windows |
| `profiles` | `ActiveExists`, `GlobalAtomic`, `FieldsPreserved` | three invocations, two names, one fault, every mix of writers, of first runs and of profile commands |
| `auth_callers` | `OneWriter`, `RotatedNeverSent`, `LatestRead`, `OwnClient`, `LogoutSticks` | a resolver and a forced refresh in one process, a resolver of another client, a login and a logout in others; an expiring refresh token, a keychain that may refuse tokens |
| `auth_faults` | `CallersEnd` | a resolver and a forced refresh in one process, with its mutex, a refresh of another process with its own client and a logout, from no session or an authorization-code one; network, disk and keychain failures, revocation, killed processes |
| `tunnel_orphan` | `NoOrphanOnRetry` is violated | one stream whose dial fails once, while the server's session is cancelled |
| `workflow_briefing` | `NoPromptUnattended` is violated | as `workflow` |
| `update_lock` | `OneInstaller` is violated | as `update_install` |

`parts` holds five components that do not interact: `part` says which one a
behaviour is of, the others stay in their initial state, and each is the instance
it would be in a run of its own.

Why the bounds are enough: a channel and a transport of one frame already block
every sender behind every other; two chunks show reordering, loss and
duplication; two streams show crossing (`Senders` says which
connections send at all); one stream in each direction shows ids
meeting; a threshold of 11 lets the generator wrap with three ids in use. For
the session, a rotated token needs two callers and one refresh, a shadowed entry
one write to each place; three tokens are two rotations, after which a third
caller's request is still examined before the server would mint a fourth. A
stranded reference needs one producer and one consumer, a stale mirror two
fields. A third upgrade meets what a killed first and a second left. A lost
update needs two writers; the third invocation is the hint or another command
that writes the global file.

`Together` keeps create, delete and rename of profiles away from one another and
from writers of a profile: a comment in `profile_rename` says that they "are not
designed for concurrent invocation", and TLC confirms it (`FieldsPreserved` fails
for a rename beside a writer, `ActiveExists` for a `use` beside a `delete`).

In `tunnel_duplex` nobody ends the session, in `tunnel_streams` the server does, and
`tunnel_any_peer` has every way to end one. Its `DialSymmetry` is sound: the
connections the client can dial occur only as model values that no
definition or property tells apart.

`CHECK_DEADLOCK FALSE` is set because every system here stops by design: sessions
end, calls return, commands finish.

Every property of a passing run has a mutant, a plausible mistake in one
definition, defined beside it in the module, that TLC finds with the run's own
configuration.

### Where documentation and code disagree

Three runs state what the repository says and find the code doing otherwise.

- `tunnel_orphan` (`NoOrphanOnRetry`). `handle_open_stream` races the wait before its
  second dial against cancellation, "otherwise a session torn down mid-retry ...
  could still register an orphaned stream". Only the wait is raced: a second dial
  that is under way when the session is torn down registers one all the same, in
  a map that is never looked at again. So does a first dial.
- `workflow_briefing` (`NoPromptUnattended`). `--no-input` is to "disable all
  interactive prompts", but the briefing of a workflow is shown unless `--yes` is
  given, and on the fullscreen surface it waits for a key. `NoGateUnattended` and
  `UnattendedEnds` show that it is the only exception.
- `update_lock` (`OneInstaller`). The rename in `InstallLock::acquire` is to make one
  of two processes fail "rather than both claiming the lock"; it moves whatever
  is at the path, also the lock the other has just created.

The following were met while modelling and have no run of their own; the
properties that come near them carry the exception in their statement.

- Cancelling the agent drops `run` in its `select!`, so that `rst_all_streams`, which
  "sends RST to each and closes it", never runs: streams stay open in a map nobody
  empties, and their local connections stay until an application ends them.
- The reader of a session writes to the local applications itself. One that does
  not read keeps it in `write_all`, when no stream of the session receives
  anything, PONGs of a live peer go unread until its deadline or the idle timeout
  cuts the session off (`overdue` in `NoFalseTimeout`), and cancelling the token
  does not stop the reader (`RunReturns`).
- `acquire_with_heartbeat`: "A failed write is benign -- the next beat will try
  again". The loop ends with the first failed write, and the lock of a live
  upgrade then goes stale (`LiveHolderNotStale`'s exception).
- `store_token_data_unlocked` clears the keychain's entry before it writes
  `token.json`; when that write fails an older token in the file shows through
  (`ReadFindsLastWrite` excludes disk failures).
- A failed OPEN_ACK removes whatever stream is under its id. After
  `rst_all_streams`, and with an id the peer uses twice, that is another
  handler's stream, which then stays open unregistered (`NoLeak`'s exception).
- `heartbeat_loop` "watches for PONG timeout ... and checks idle timeout" but does
  neither while it waits to queue its PING. `DetectedInTime` shows that this is
  the only exception.
- `call_rpc` "waits for a CMD_RESPONSE or `timeout` to elapse", but the timer starts
  after the send, which a full channel can hold for ever.
- Cancelling the token "stops `run`'s reader/heartbeat/cleanup loops", except one
  that is blocked in a send to a peer that no longer reads (`RunReturns`).
- The reader replies through the channel its own writer drains. With both
  directions full, two readers that each owe a reply block each other
  (`Gridlock`, the exception in `HalfCloseCompletes` and `OpenAnswered`); so do such
  a reader and a stopped endpoint whose writer waits for room. In a real session
  128 frames and the socket buffers have to fill first.
- `clear_keychain_token_entry`, called "so a stale keychain entry can never shadow the
  fresh file token", can delete nothing during the outage that sends the token to
  the file; the old entry comes back with the keychain.
- "No usable stored token survives the gap" between the two critical sections of
  `resolve_access_token`: another resolver can store one in it, and this one then
  asks for a second token and overwrites the first.
- `remote-debug connect` promises exit 0 on Ctrl-C; the embedded tunnel listens
  for Ctrl-C too, and when it stops before the signal task has cancelled the
  token the command ends with a network failure (4). It promises 2 for an
  authentication failure while opening the session; a 401 at the bridge reaches
  the agent as a closed connection and exits 4. With the token provider it is 2.
- `spawn_interrupt_handler`: "the command declared ownership before any signal could
  arrive" does not hold for a Ctrl-C during the confirmation of an upgrade; the
  process then exits after its flush wherever the upgrade has got to.
- `InstallLock::drop` aborts the heartbeat "so a beat in flight cannot recreate a
  file we just deleted"; aborting does not stop a beat that is already writing.
- `review_steps_for` is "true only on the interactive fullscreen surface" but is true
  on the inline and plain ones as well; on the plain one the review is empty.
- AMS upload: "every fallible call below is tagged" with the image to clean up;
  `create_image` itself is above, and when only its answer is lost an image is
  left that no message names.
- A first run that ends between creating the profiles directory and setting the
  active profile makes every later command answer "No active profile".
  `ensure_profile_exists` saves its default config without looking again, over a
  field that another first run may have written.
- `rename` and `delete` of a profile take no lock: a writer that holds the lock of
  the moved directory writes to the old name again.

## 4. Fairness

- tokio polls every task that is ready and its channels are first come, first
  served: weak fairness on each task's steps (`OpenSent`, `AcceptStep`, the pump's
  sends, `ReaderStep`, `WriterStep`, `Cleanup`). Nothing makes a local application
  send or read, so `PumpRead` and `LocalWritten` have none. `OpenAnswered` and
  `HalfCloseCompletes` take that applications read (`AppsRead`) as a premise, and
  `RunReturns` that the reader is not in a local write for ever; without it the
  code does not promise these.
- `tokio::select!` chooses among ready branches at random, so a token that stays
  cancelled is eventually seen although frames keep arriving: strong fairness on
  the heartbeat model's `ReaderStops`.
- RPC: the caller's tasks and timers run, and so does the callee until it stalls;
  a stalled one owes nothing.
- `auth_faults` assumes that each caller keeps running until it ends or is killed,
  that a file lock that stays free is granted, and that requests end (the HTTP
  client has a timeout).
- Remote debug: the command's task and the signal task run; nothing is assumed of
  the tunnel, the agent and the forwarder, which depend on the network. That the
  command ends is due to its timeouts.
- `update_install`: a live process runs on, except that a download or an installer
  may never answer; the cancellation branch of their `select!` is polled.
- `workflow`: only a run without input is sure to go on, as its calls have timeouts
  and it waits for nobody. A user may leave a prompt unanswered for ever.

## 5. Proofs

Eight modules hold theorems, checked by `tlapm` with Z3, Zenon and LS4. All 25
invariants the passing runs check are proved for every value of the constants
that meets the assumptions below (three of `AuthSession` exclude some faults), and
so are the action properties `StateMonotonic`, `AllocatesNext`,
`FieldsPreserved`, `OutcomeTrue` and `LiveHolderNotStale` and the refinement
`GlobalAtomic`.

What the proofs assume of the constants, and TLC evaluates in the runs: the
connections of the two sides of a session, and those opened and dialled, are
different (`ConnsAssumption`); capacities are positive and the ends and faults are
among those the model has (`BoundsAssumption`, `PeerAssumption`,
`AuthBoundsAssumption`); a caller has one kind (`TasksAssumption`); limits and counts
are numbers (`AttemptsAssumption`, `StartsAssumption`, `RetriesAssumption`,
`RootsAssumption`); no invocation has the name of the absent one
(`ProcsAssumption`); a lock is stale after two heartbeats or more
(`StaleAssumption`, ten in the code); a workflow definition has the shape of the file
format (`ShapeAssumption`); and delete and rename of a profile run beside nothing
but the first-run hint (`TogetherAssumption`, which the comment in `profile_rename`
asks for). The parts of `MCParts` share a run, so what most of them assume is a
definition that its theorems take as a hypothesis and `MCParts` states as an
assumption, which TLC evaluates: `RpcConstants`, `GeneratorConstants`,
`HeartbeatConstants`, `UploadConstants`, and `LivePeerSettings` for
`LivePeerKept`. `SilenceDetected` also asks that a client have an idle timeout:
only servers send PINGs, so without one (0 in the code) a client notices no silence.

### TunnelSessionProofs

For any number of streams, ids, chunks, any capacities and any faults.

| Theorem | Property | Argument |
|---|---|---|
| `TypeCorrect` | `TypeOK` | inductive as it is |
| `RegistrationCorrect` | `Registered` | a handler gives a stream its id long after it was spawned: `Fresh` says that a connection whose opener or handler has not come to its insert has no id yet |
| `EofSettles`, `Monotonic` | `BothEofClosed`, `StateMonotonic` | each flag is set together with the test of the other; by cases over `Next` |
| `ParityKeepsApart` | `IdsNeverCollide` | `Numbering`, below |
| `StreamsReachable` | `NoLeak` without its exception for dialled streams (`OpenReached`) | `Kept`: only a failed send removes an entry without asking whose it is, and the ids of a side are all different. It says where the code's own promise ends: a stream registered after `rst_all_streams` took the map (`RegisteredLate`) and the streams of a `run` that the agent dropped are registered, but nothing will close them |
| `NoDataBeforeStream` | `NoEarlyData` | `Talks`: a pump runs, and OPEN_ACK, DATA and FIN are on the wire, only for a stream both of whose ends exist; what is not in the map is closed by `Kept` |
| `AckBeforeData` | `AckPrecedesData` | `AckFirst`: while the opener's stream is OPENING, the OPEN_ACK is before every DATA and FIN of the stream, and is there as soon as the peer's pump runs |
| `BytesInOrder` | `StreamIntegrity` | `Ascending`, `Gapless`, `Delivered`: chunks are on the wire in ascending order; for a stream that can still receive, none is missing between what was delivered and what the pump has passed on; what was delivered is 1..n of the partner |

A frame an endpoint has sent is in `wire[e]`: what its peer's transport holds
followed by its own channel. Every argument about order is about this one
sequence, which a step appends to, takes the head of, or cuts at its end
(`WireShifts`); the close of the writer drops what is in the channel, so the cut
never leaves a hole between delivered chunks and kept ones.

`Numbering` has three parts. `Issued`: an endpoint gives its own streams ids of its
parity, below its counter and all different. `Accepted`: a handler that has begun
has the id of an OPEN that the peer's opener has sent, and no two handlers of a
side have the same. `OpensOnce`: an OPEN is on the wire at most once, and not
after a handler was given it. None is inductive without the others: the two
checks of `handle_open_stream` pass because the only stream that could be under the
id is another handler's, and there is none since each OPEN is taken once.

The last part extends the theorems to a peer that sends any valid frame
(`TunnelAnyPeer`). `RegisteredWithAnyPeer`, `EofSettlesWithAnyPeer` and
`MonotonicWithAnyPeer` hold by the same steps, since they ask nothing of the frames.
`StreamsReachableWithAnyPeer` cannot use `Numbering`, which such a peer need not
respect. It has `Issued` for the client's own streams and `AcceptedParity` for the
others, which share an id with each other at most; `HeldStep` is the common core
of both proofs of `NoLeak`, and asks that an id be of one stream only where the
writer is gone. That is why this exception, beside the two of `StreamsReachable`,
is in `NoLeak`, and why it names dialled streams only.

### The other modules

- `PartsProofs`, the generator: `GeneratorInRange` (`InRange`), up to `u64::MAX`, and
  `NextIsReference` (`AllocatesNext`): `next` returns what the reference defines.
  `Searched` says where a running call is: it has either gone up from where it
  began (`PassedUp`) or wrapped (`Wrapped`), and every id of its parity it has
  passed is in use.
- `PartsProofs`, the heartbeat: `HeartbeatTypeCorrect`, `SilenceDetected`
  (`DetectedInTime`) and `LivePeerKept` (`NoFalseTimeout`), for any interval and any
  timeouts. `Clocks` bounds the time since the peer stalled by what the loop reads
  off its own clocks: a client's idle time, or what has passed of the interval
  (`Elapsed`) together with the PONG deadline, which is met at the first tick at
  or after it (`Deadline`, `FirstTick`). `Answered` is the other direction: while
  the peer lives and no frame of it has lain unread (`overdue`), a PING that waits
  for its PONG has either just been queued, with no time passed since, or its PONG
  is due within `PeerDelay` and before the tick that tests the deadline. The
  exception is needed: a reader in a local `write_all` reads no PONG.
- `PartsProofs`, the upload: `ImageIsArchive` (`ImageWhole`) for an archive of any
  size. `Uploaded`: an ETag that is kept stands for the bytes of its own part.
  `JoinedParts`: whole parts in order, joined, are the archive. It is about a
  recursive function and proved without an induction theorem: the least part at
  which the joined bytes would differ (`LeastNumber`, from the well-foundedness of
  `<`) has a part before it at which they agree.
- `TunnelRpcProofs`: `RpcTypeCorrect`, `AnswersAreOwn` (`OwnAnswer`) and
  `ReturnedCallsForgotten` (`NoStaleEntry`), for any finite set of calls. `Counted`
  ties the counter to the number of calls begun, so that ids stay in their type and
  are given once (`IdsOnce`). `EntriesLive` ties an entry to a call that still waits,
  `FramesOwn` and `MailOwn` every frame, task and oneshot to its call.
- `RemoteDebugProofs`: `RemoteDebugTypeCorrect`, `AttemptsStartClean`
  (`NothingReaches`) and `CtrlCIsClean` (`CancelWins`). `StoppedInOrder` says what is
  over at each phase of the shutdown, `Owned` that the connection goes with the tunnel
  and the session with the agent, `EarlyStop` what an attempt can still come to after a
  Ctrl-C, `WatchedOnce` that nothing else cancels.
- `AuthSessionProofs`: `AuthTypeCorrect`, `WritersExclusive` (`OneWriter`) and
  `HandedOwnClient` (`OwnClient`) for all faults. The others have the faults they
  exclude as a hypothesis, each of which refutes the property:
  - `NoRotatedToken` (`RotatedNeverSent`) without outage, revocation, disk or network
    failure and crash (`Quiet`), each of which can lose or hide the live token.
    `Rotation`: a caller that was given a token and has not stored it holds a live
    one, nobody else has it, the stored one is live outside the window between
    the answer and the write, and a caller about to send has just read it;
  - `ReadFindsLastWrite` (`LatestRead`) without outages, disk failures and crashes:
    `EntryDeleted`, a caller that rewrites the store has already deleted the
    keychain's entry;
  - `LogoutIsFinal` (`LogoutSticks`) without outages and disk failures: `NoneLeft`,
    after a logout nobody but a login holds an authorization-code token on its way
    to the store, as the others look again under the lock.
- `ProfilesProofs`: `ProfilesTypeCorrect`, `UpdatesAreAtomic` (`GlobalAtomic`),
  `WritersKeepFields` (`FieldsPreserved`) and `ActiveProfileExists` (`ActiveExists`).
  `GlobalExclusive` and `WriterExclusive`: between lock and save the lock is held and
  what was loaded is still what is stored. With it each step of `Profiles` maps to a
  whole update of `AtomicConfig` or to a stutter. A profile's lock is in the
  directory that a name points to, so `WriterExclusive` also needs that no directory
  is moved under a writer (`Alone`) and that two names share none (`Tree`). For the
  active profile: it is missing only while the command that took it away has yet to
  say so (`ActiveOrPending`), and a command that will make a profile active finds it
  there (`TargetExists`).
- `WorkflowProofs`: `ReferencesResolve` (`NoStrandedReference`), `MirrorsSendTarget`
  (`MirrorAgrees`), `TallyBalances` (`FactsBalance`) and `PrecheckComplete`
  (`NoGateUnattended`), for every definition of any length. `Compiled`, that only what
  `CompileWorkflow` accepts runs, carries the static rules to the run; `Captured`
  says that what the steps before this one put out is there, `SkipsSucceed` that no skip
  wants a default, `Prechecked` that what an unattended run needs it has from the
  start.
- `UpdateInstallProofs`: `UpdateTypeCorrect`, `RollbackCopyKept` (`RollbackKept`),
  `ReportsAreTrue` (`OutcomeTrue`), `HeartbeatProvesLife` (`LiveHolderNotStale`),
  and `LockExcludes`, that what `OneInstaller` claims is true until a lock is
  taken over as stale. `Alone` is that exclusion, `FilesInStep` the two files at
  each step of the one holder, `Beats` that a live holder's lock is at most one
  period old until a write of its heartbeat fails, `RunningKept` that Windows
  spares the version that runs.

TLC finds the inductive invariants to hold as well, on the instances of the runs;
those of `TunnelSession` on smaller ones than `tunnel_duplex`: two streams with one
chunk each way, and one stream with two chunks and both ways to end the session.

### Only model-checked

- Everything under fairness, as the prover does not reason about `ENABLED`:
  `OpenAnswered`, `HalfCloseCompletes`, `CommandAnswered`, `RunReturns`,
  `CallersEnd`, `UnattendedEnds`, `InterruptEnds` and `CtrlCEnds`.
- The three runs that expect a violation, and the disagreements listed in section 3
  that no property states.

## 6. Not modelled

- Code whose result depends on its input alone and that keeps no state between
  calls: command-line parsing and the command catalogue, output in human and JSON
  form, drawing and keyboard handling of the terminal surfaces, request building,
  classification and shaping of responses, the wire encoding, JSONPath, workflow
  file parsing, packing of archives, diagnostics. Together with the test modules
  inside the source files this is nine tenths of the implementation, and a
  model of it could only repeat it.
- Sequential commands of one task: the other extend handlers (a chain of API
  calls and a polling loop with a deadline), `enable` and `disable` of debug mode,
  pagination, `logout_all_profiles`, `status`.
- Best-effort side channels nothing depends on: telemetry, the update-check cache.
- The tunnel handshake's contents, tokens of older versions, file permissions, a
  task that panics.

## 7. Plan

Done: the tunnel with its ids, RPC and heartbeat, the remote-debug command, the
auth session, the configuration store with its refinement, the workflow engine,
self-update and the AMS upload; and the theorems above.

Next:

- the safety that the liveness properties rest on, where it can be stated as an
  invariant: that a stream owed an OPEN_ACK has a task that will answer it, that a
  caller that waits has a timer, that a heartbeat's stop reaches the other loops;
- type correctness of `TunnelAnyPeer`, `IdGenerator` and `AmsUpload`;
- what stays behind when `run` is dropped: that the pumps and local connections of
  `AgentCancels` end once their applications do, and what a next forwarder meets
  on the ports of the last one;
- the hazards of `PROJECT.json` that no property covers, of which the profile lock
  that moves with its directory is the next to state;
- the other callers of the shared state: `logout_all_profiles`, `status`, and the
  update-check cache.
