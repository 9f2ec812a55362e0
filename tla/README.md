# Verification of the Restcomm iOS SDK

TLA+ models of the control logic of the SDK (`src/RestCommClient/Classes`),
checked with TLC on small instances, and theorems about them checked by TLAPS
for every value of the constants.

The SDK lets an App register with a SIP server and make and receive WebRTC
calls. Two threads do the work. The **main thread** runs the App, `RCDevice`,
`RCConnection`, `SipManager` and `MediaWebRTC`. A **Sofia thread** runs the C++
SIP client in `CliInterface/` on top of the Sofia-SIP library (NUA). They talk
over two pipes: *commands* (`write_pipe`, one or two letters and arguments) and
*replies* (`read_pipe`, a code and text).

## 1. Inventory

| Component | State it keeps | Operations | Talks to |
|---|---|---|---|
| `RCDevice` (listening) | `state`, `reachabilityStatus` | `initWithParams`, `listen`, `unlisten`, `checkNetworkStatus:`, register callbacks | `SipManager`, App |
| Signalling thread: `SipManager eventLoop`, `sofsip_cli.cpp`, `ssc_sip.cpp` | `_signallingInstances`, pipes, `restartSignalling`, `stackIsShuttingDown`, the Sofia root | start, `q`, `qr`, `mr`, `r`, `ssc_create`, `ssc_shutdown`, `ssc_r_shutdown` | both pipes, NUA |
| `RCDevice` (calls), `RCConnection` | `currentConnection`, connection `state`, `isIncoming`, `cancelPending` | `connect`, `accept`, `reject`, `disconnect`, `disconnectAll`, the `SipManager` delegate methods | `SipManager`, App |
| `SipManager` (calls) | `media`, `activeCallParams`, weak `connectionDelegate`, microphone permission | `invite`, `answerWithVideo`, `permissionFsm`, `handleCall`, `disconnectMedia`, `handleSofiaInput`, media delegate methods | pipes, `MediaWebRTC`, `RCConnection` |
| `MediaWebRTC` and the TURN clients | peer connection, `_isInitiator`, TURN request | `connect`, `processSignalingMessage`, `disconnect`, callbacks | `SipManager`, WebRTC |
| SIP user agent: `ssc_sip.cpp`, `ssc_oper.mm` | list of operations, `op_callstate` of each | `ssc_invite`, `ssc_answer`, `ssc_bye`, `ssc_cancel`, the INVITE/BYE/CANCEL callbacks | pipes, NUA |
| Operation list and authentication: `ssc_oper.mm`, `ssc_sip.mm` | `ssc_operations`, `ssc_auth_pend`, each operation's password, `sm_state` of the media stub | `ssc_oper_create` with its cleaning, `ssc_oper_destroy`, `ssc_oper_check`, `ssc_store_pending_auth`, `ssc_auth` | NUA |
| Text messages, DTMF | operations in the same list | `ssc_message`, `ssc_info` | pipes |
| Pipe framing | read buffers | `pipeToSofia`, `SofiaReply::Send`, `ssc_input_read_char`, `inputCallback` | pipes |
| Parameter updates | parameters, registrar | `updateParams` | pipes |
| Background task | `backgroundTaskId`, a timer | `unlisten`, `handleSignlingBackgroundTimeout` | iOS |
| Push registration: `PushHandler`, `PushApiManager` | identifiers in `NSUserDefaults` | chain of REST calls | Restcomm server |
| CallKit | `currentUUID` | provider delegate methods | `RCConnection` |
| Reachability, utilities, logging, errors | none the properties depend on | | |

Hard behaviours, which no unit test of the repository reaches:

* `listen`, `unlisten` and network switches come at any time, while the end of
  an old Sofia loop takes its time on another thread. The two threads share a
  counter (under a lock), globals that outlive a stack, and a pipe that one of
  them may have stopped reading.
* Replies carry no call identity. They are handed to whatever connection the
  weak `connectionDelegate` points to when they are read; a command finds its
  SIP operation by `op_callstate` alone.
* A permission prompt and a TURN request are answered long after the call they
  were started for may have been replaced.
* Hang-up before the 180, answers that cross a CANCEL, a caller's CANCEL that
  crosses `accept`, repeated 180s.
* All requests share one list of operations that is cleaned on the way, and a
  challenge (401/407) is answered through a second list that keeps addresses.
* Messages on the pipes have a delimiter and no length, and the readers keep
  nothing from one read to the next.
* A push registration is five requests long; the App can be killed, and another
  registration can start, between any two of them. Its result waits in the main
  queue, some of it with nothing but a weak reference to what would deliver it.
* `unlisten` and network switches come in the middle of calls.

`hazards` in `PROJECT.json` lists these at their lines with the properties that
cover them.

What makes each part correct:

* *Signalling thread*: one Sofia stack at a time; the instance count is never
  stuck; a restart mark belongs to a stack that is going down and is honoured;
  a quit that nothing undoes ends the loop; background time is given back.
* *Device and connections*: a busy device has a live call; the delegate is the
  current connection; an ended connection stays ended; hanging up reaches the
  peer; the end of a call in SIP reaches the App.
* *SIP user agent*: the operation list is the set of calls NUA still has; calls
  with a callstate and registrations are never cleaned away, so that only a
  challenged call can vanish unseen; a challenge is answered with the
  challenged operation's own password; the media is released with the last call.
* *Pipes*: every message is handled once, whole and in order.
* *Push registration*: nothing is created twice, what is kept is true, success
  means that the server pushes to the token.
* *SipManager and media*: media belongs to the call in progress; a call is
  answered only when the App accepted it.

## 2. Modules

| Module | What it is |
|---|---|
| `Signalling` | life of the Sofia thread and the listening side of `RCDevice` |
| `SingleStack` | abstract specification: the Sofia globals have one owner at a time |
| `Signalling_proofs` | theorems about `Signalling`, and that it implements `SingleStack` |
| `Background` | `Signalling` composed with the background task of `unlisten` and its timer |
| `Background_proofs` | that `Background` implements `Signalling`, and theorems about the task |
| `CallControl` | calls: App, device, connections, media, permission, both pipes, SIP operations, NUA and the peers |
| `CallControl_proofs` | theorems about `CallControl` |
| `CallShutdown` | `CallControl` composed with the end and the restart of the Sofia stack: `unlisten`, `listen` and network switches in the middle of a call |
| `CallShutdown_proofs` | theorems about `CallShutdown`, and `CallControl`'s there |
| `Operations` | the operation list and authentication, for INVITE, MESSAGE, REGISTER and INFO |
| `Operations_proofs` | theorems about `Operations` |
| `PipeFraming` | the two pipes byte by byte (in chunks): framing, partial writes, reads, tokenizers |
| `Channel` | abstract specification of a pipe: messages are handled once, whole and in order |
| `PipeFraming_proofs` | theorems about `PipeFraming`, and that it implements `Channel` |
| `PushRegistration` | the chain of a push registration, `NSUserDefaults` and the server |
| `PushRegistration_proofs` | theorems about `PushRegistration` |
| `NumberInduction` | induction over numbers, as lemmas the proofs about lists use |
| `MC...` | small instances, with symmetry where it is used |

`map` in `PROJECT.json` gives, for each definition, the lines it stands for.
Definitions whose comment starts with "Mutant of" are variants of one
definition with a plausible mistake in it; no specification uses them. They
show that a property can fail: with the variant in place TLC finds it violated.

### Signalling

One element of `Loops` is one call of `sofsip_loop()`. `pc[l]` is where it is
(`create` is the top of its `while`, `run` is `su_root_run`, `left` is between
leaving the run loop and the test of `restartSignalling`, `returned` is before
the dispatched block gives its instance back). `instances` is
`_signallingInstances`, `current` the loop whose pipes the main thread writes
to, `commands` and `replies` the contents of the pipes. `mainPc = "mark"` is
`eventLoop` after it has left the lock and before it pipes `mr`: the one main
thread handler that is not atomic with respect to the Sofia thread, because its
decision and its effect are on different sides of an unlock. A network change
has two steps, the change and its notification on the main thread.

`CertDirMissing = TRUE` is a configuration with `signaling-secure` and no
certificate directory; `CreateMayFail = FALSE` leaves out stacks that do not
start (`ssc_create` returns NULL). `UpdateParams` is `updateParams` with a registrar: the
device goes Offline and an un-REGISTER and a REGISTER are piped; what they do
to the operations is in `Operations`.

### Background

Every step of `Background` is a step of `Signalling` or leaves it alone. An
`unlisten` of an online device (`UnlistenTask`, also on loss of the network)
begins a task and schedules the timer; `Timer` and `Expire` (iOS runs out of
patience) both run `handleSignlingBackgroundTimeout`, which ends whatever task
`backgroundTaskId` names by then. `overrun` are tasks that iOS found still open
after their handler, for which it ends the process.

### CallControl

A call is identified with the `RCConnection` made for it. Commands and replies
carry the call they are about; the destination of `i` and the sender of
INCOMING_CALL are real data, the other tags exist for the properties and for
NUA, and no action of the SDK reads them: a reply goes to `Delegate`, a command
to `FindOp`.

* App actions: `ConnectRefused`, `Connect`, `ConnectDenied` (the outcomes of
  `connect:delegate:`), `Accept`, `AcceptDenied`, `Reject`, `Disconnect` (also
  `disconnectAll`), `Release` (the App drops a connection that ended, and with
  it the weak delegate).
* Permission and media: `PromptAnswered`, `TurnComplete`, `TurnFails`,
  `CreateSdp`, `IceConnected`, `MediaError`.
* Replies: one `Receive...` action per group of codes in `handleSofiaInput`,
  each with all that the delegate method does.
* Sofia thread: `SscInvite`, `SscInviteInvalid`, `SscAnswer`, `SscDecline`,
  `SscBye`, `SscCancel`.
* NUA and peers (external): `PeerRings`, `PeerAnswers`, `InviteChallenged`,
  `InviteUnauthorized`, `InviteFails`,
  `PeerCalls`, `PeerCancels`, `PeerAcks`, `PeerByes`, `ByeAnswered`,
  `Registration`, each with the `ssc_*` callback it runs.

Choices to know about:

* Main thread handlers and media callbacks are atomic: they run on one run
  loop. WebRTC callbacks arrive through `dispatch_async` to the main queue.
* Where the code raises an Objective-C exception (a message built with a nil
  destination, an accept with no offer) the model has no step.
* The microphone and the camera prompt are one prompt, and one prompt is up at
  a time.
* Sounds, audio routes, `mute`, statistics and the background task of a BYE
  that arrives in the background are left out; re-INVITE is not modelled; INFO
  and MESSAGE, and the challenges of other requests than INVITE, are in
  `Operations`. The different register errors are one.
* A challenge (`Challenges = TRUE`) comes before the call rings: a proxy asks
  for credentials before it passes an INVITE on. It clears `opc_sent`, so from
  there to its ACK the call has callstate zero, and the next INVITE cleans it
  away. The newest operation's INVITE is sent again at once; an older one waits
  (`waiting`). A refused password ends the call with no reply. Both ends are
  `vanished`: over in SIP, unknown to the App. Cleaning by a MESSAGE or INFO and
  the pending challenges themselves are in `Operations`.
* What NUA does is taken from the callbacks the code has for it and from SIP:
  180s may repeat, a CANCEL only works on an INVITE without a final answer,
  either side may send BYE, every INVITE and BYE gets a final response.

### CallShutdown

All of `CallControl`, and around it one Sofia loop: `run`, `shutdown` (after
`nua_shutdown`) and `ended`. `unlisten` has two steps, the hang-up of a busy
device and the rest, with nothing of the main thread in between: it is one
handler, but the Sofia thread reads the pipe meanwhile. `ShutdownResponse` is
the first response to `nua_shutdown`: `ssc_r_shutdown` breaks the run loop, so
every call still in the list ends at its peer and no callback says so
(`severed`). Until then NUA may still report what happened before, which is
more than it really does. How a loop is started, and its race with the instance
count, is in `Signalling` only.

### Operations

An operation is its address, since `ssc_auth_pend` keeps addresses and freed
memory comes back. The list is pushed at its head only, so it is a set with
time stamps; `Newest` is the head. `requests` is the queue NUA keeps for the
operation's handle (`nua_client.c`), `waiting` says that its first request
waits for `nua_authenticate`. `CheckFinds` and `CheckGivesUp` are what the loop
of `ssc_oper_check` computes as it is written (it steps to `op->op_next`, not
`tmp->op_next`): it finds the newest operation, gives up on the oldest and does
not end for one in the middle; for a dangling address it depends on what the
freed memory reads as, which is a free choice.

Choices to know about:

* Commands and events are handled one at a time: `su_root_threading(0)` makes
  NUA run on the Sofia thread.
* `ssc_cancel` changes no operation; on an INVITE that waits for credentials
  NUA answers it with 481. `k` is never sent. The branch of `ssc_register` for
  a missing registrar cannot be reached. The reply for an invalid address of
  `ssc_message` and `ssc_register` is built and never sent, and no operation is
  made: no step.
* With a wrong password the server challenges again; `Challenged` can repeat.

### PipeFraming

`side` is the command or the reply pipe, one of `Sides`. Bytes are grouped to chunks, of
which `$` is one. `Write` moves as much as the pipe has room for, a read takes
up to the size of the buffer. `CommandTokens` is the `strsep` loop, which stops
at the first empty piece; `ReplyTokens` the loop around `Deserialize`, which
handles the reply before once more when the rest has no `$`. The real sizes are
65535 and 65536 bytes.

### PushRegistration

One element of `Registrations` is one call of `registerPushToken:`. Looking
into `NSUserDefaults`, the request, its handling by the server and the
completion handler are separate steps. A request can fail before or after the
server handled it; `Kill` ends the App and leaves `NSUserDefaults`, the server
and a request on its way (`orphan`). The result goes to the main queue
(`reporting`), from where the delegate is told (`Delivered`), unless the report
is one of the binding steps and the session has released the completion handler
first: `weakSelf` is nil then and the registration ends unseen (`HandlerGone`).
`formatAndDelegateError`, which reports all earlier failures, keeps `self`.
A request of a running App that the server handles after its timeout is left
out; for a killed App it is the orphan. There is one account; the server lists by
account and application. Certificates are assumed readable
(a missing file would raise in `createCredentials`).

## 3. Runs

| Run | Instance | Shows |
|---|---|---|
| `signalling` | `Background`: 3 loops, registrar, 3 requests, fair | `OneStack`, `CountedMeansRunning`, `RestartIsBacked`; refinement of `SingleStack`; marked restarts happen; an unchallenged quit ends the loop; only an `unlisten` within the timeout of another leaves a background task behind, and the current one always ends |
| `signalling_lost_restart` | 2 loops, 2 requests, stacks that start, fair | **violated**: a listen that meets the end of a running stack is lost, its `mr` still in the pipe when the shutdown response breaks the run loop |
| `signalling_quit_undone` | 2 loops, 3 requests, fair | **violated**: a network switch after `unlisten` starts Sofia again |
| `call_safety` | 2 calls of either direction, challenges, TURN, prompt, 503, releases, a REGISTER | `BusyHasLiveCall`, `DelegateIsCurrent`, `HungUpStaysDown`, `OpsTrackCalls`, `OnlyLateEventsRevive`, `OnlyChallengedCallsVanish` hold |
| `call_live` | `CallShutdown`: 1 call, challenges, TURN, prompt, two 180s, a REGISTER, 2 listens, unlistens or network switches, fair | hang-up reaches the peer, the pending CANCEL is sent, an end in SIP reaches the App, `unlisten` ends every call at its peer |
| `call_answer_crosses_cancel` | 1 outgoing call, fair | **violated**: a 200 that crosses the CANCEL leaves the call up |
| `call_media_leak` | 2 calls | **violated**: a CANCEL that crosses `accept` leaves `media` behind and the next `connect` is refused |
| `call_auto_answer` | 2 calls, prompt | **violated**: a late prompt answers a call nobody accepted |
| `operations_safety` | 3 operations, 3 addresses, 2 requests each, 2 pending items | a challenge at the head of the list is answered, and with the right password; only an operation in the middle hangs `ssc_oper_check`; calls and registrations survive cleaning; the media is released |
| `pipe_framing` | 4 messages of one or two chunks, backlog of 3, either pipe, fair | no exit, refinement of `Channel`, every message is handled |
| `pipe_delimiter` | the command pipe, 2 messages, one with `$` in its text | **violated**: it is handled as two |
| `push_registration` | 2 registrations, 3 users (one without a client), 2 tokens, both kinds of application, one kill | nothing twice, what is kept is true, only reports of the binding steps are lost, success means bound |

The violated properties quote what the repository says of itself; `findings` in
`PROJECT.json` has the quotations and the lines.

Bounds. `MaxRequests` limits what the App and the network do in `Signalling`
and `CallShutdown`: the shortest behaviours into every loop state need two
requests, and with the listen of the start three allow listen, unlisten, listen
again and a network switch around one shutdown. Three loops are as many as that
can dispatch. In `CallControl` each call is used once, so the number of calls
bounds a behaviour: two calls give every pair of interest (old and new,
incoming and outgoing, both ringing). `MaxQueue` makes the App and the peers
wait when a pipe holds two messages; the SDK's own handlers do not wait.
`MaxRings` bounds 180s per INVITE, `MaxRegistrations` the REGISTER results. In
`Operations`, three operations are the fewest with one in the middle, two
requests per handle put a BYE behind an INFO, and two pending items are a
challenge with both headers, or two left over. `MaxBacklog` messages fit the
pipe and the buffer in `pipe_framing`, as some hundred commands do in the
real ones. Two registrations and a kill give every pair of steps of a
registration and its repetition. Behaviours end when the bounds are used up,
so deadlock is not checked.

Symmetry (of calls, addresses, registrations and tokens) is used in
`call_safety`, `operations_safety` and `push_registration`, none of which
checks liveness; no definition tells two of them apart.

Fairness. Both run loops keep draining their pipes and their queues, and fire
their timers. The response 100 to `nua_shutdown` always comes (`ssc_r_shutdown`
relies on it). A blocked `write()` goes on when there is room. SIP's timers
give a BYE a final response, and an INVITE that does not ring or that was
cancelled. Nothing makes the App, the user, the media, a registrar or a ringing
peer act, and no property needs it.

What these runs do not promise, found while choosing the instances and the
properties' exemptions:

* With `CertDirMissing = TRUE`, `CountedMeansRunning` is violated at once:
  `eventLoop` counts the instance, then returns for the missing directory
  (`SipManager.mm`, 386-399), and every later `listen` bails out.
* A REGISTER result, or any reply that ends a call, read after `unlisten` makes
  the device Ready with no stack behind it; an `i` piped to a loop that has
  ended is lost.
* A second `unlisten` before the timer of the first leaves the first background
  task open: `OnlyOverlappingUnlistensLeak` says that this is the only way.
* With `AppKeeps = FALSE`, `PendingCancelSent` is violated: the App drops the
  connection it hung up, the weak delegate goes with it, and nobody sends the
  CANCEL when the 180 arrives.
* A 401 or 407 is no reply to the App. When the password is refused, or the next
  INVITE cleans a challenged call away while it rings, the call has vanished in
  SIP and its connection stays pending; `EndedCallIsSeen` is about calls that end
  with a reply (`down`). `OnlyChallengedCallsVanish` says that no other call can
  meet this, but one that is being hung up.
* With `Unavailable = TRUE`, `EndedCallIsSeen` is violated: the reply for a 503
  (`ssc_sip.mm`, 876) has no branch in `handleSofiaInput`.
* A network switch in the middle of a call ends it at the peer and the App is
  never told: the connection stays Connected and the device Busy until ICE
  fails. `EndedCallIsSeen` exempts such calls (`severed`).
* The 487 of a call that was hung up is handed to the next call's connection; a
  180 already in the pipe at hang-up revives the ended connection.
  `OnlyLateEventsRevive` says what exactly can.
* After `reject` a connection stays Connecting and stays `currentConnection`;
  after `accept` with a denied microphone it ends up Connected although it was
  just disconnected.
* An incoming call that arrives while an outgoing one gathers candidates
  replaces `activeCallParams`, and the SDP of the outgoing call then has no
  destination: `CreateSdp` has no step there.
* `HangUpReachesPeer` and `EndedCallIsSeen` are about one call at a time. With
  two, `ssc_bye` takes the first operation with any callstate and replies go to
  the newer connection.
* An operation challenged while it is not the newest waits for its credentials
  for ever (`NewestIsAuthenticated` says that no other does), or hangs the
  thread when it is in the middle of the list; a BYE behind a challenged INFO
  waits with it.
* An INVITE that was challenged, until it is answered, and a MESSAGE without an
  answer, are destroyed by the next MESSAGE or INVITE. `ssc_register` adds an operation
  each time: its comment speaks of removing the old one, the code is commented
  out.
* With a buffer or a pipe smaller than the backlog, `ReaderSurvives` and
  `ImplementsChannel` are violated: half a command ends the process, half a
  reply repeats the one before.
* A push registration that got as far as the binding may never tell the App
  whether it succeeded, if the report outlives its `PushHandler`.
* Two push registrations that overlap can create an application each; after
  another user signs in, the client sid that is kept is still the first one's.
  `NothingTwice` and `SuccessMeansBound` exempt these.

## 4. Proofs

`Signalling_proofs`, for any `Loops`, `MaxRequests` and configuration:

* `TypeCorrect`, `OneStackAlways`, `RestartBackedAlways`: the invariants hold.
* `CountedAlways`: so does `CountedMeansRunning`, when the certificate
  directory is not missing.
* `Implements`: every step of `Signalling` is a step of `SingleStack` or leaves
  the owner alone.

The inductive invariant `IInv` adds two facts. `InstanceInv`: the count is 0 or
1 and is 1 whenever a loop is alive. `OneStack` alone is not inductive, as it
does not say why `listen` may not start a loop; the count does. `ShutdownInv`:
`stackIsShuttingDown` implies that `nua_shutdown` was called on the running
stack, without which an `mr` could mark a stack that is going to stay.

`CallControl_proofs`, for any `Calls`, any bounds and configuration:

* `CallInductive`: the inductive invariant below.
* `BusyAlways`, `DelegateAlways`, `HungUpAlways`: device, connections and
  delegate stay consistent whatever the pipes, the media, the prompt and the
  peers deliver.
* `ReviveOnlyLate`: only a 180 or an ICE connection can bring an ended
  connection back, and only the delegate's, and never one hung up while
  pending.

Its invariant needs three more facts. `AnnouncedInv`: an incoming call is
announced at most once in the reply pipe, and until that reply is read the App
has no connection for it; otherwise `sipManagerDidReceiveCall` could overwrite
a hung-up connection. `MadeInv`: whatever the App or `SipManager` can reach has
been made, so that ending the delegate's connection never touches a call that
is still in the pipe. `ActiveInv`: `activeCallParams` are about a call when a
prompt, media or an incoming call needs them, so that no command is ever about
nil. The invariant splits into a part about the main thread alone (`MainInv`),
which the Sofia thread and NUA cannot disturb, and the pipes.

* `CallTyped`, `OpsTrackAlways`: the types of all variables, and that the
  operation list is the set of calls NUA still has, each with the callstate the
  finders look for (zero from a challenge to the answer).
* `VanishOnlyChallenged`: a call leaves the list without a reply only after a
  challenge, or while it is being hung up. It follows from `OpsTrackCalls`, by
  which callstate zero, all that the cleaning looks at, means just that.

`OpsTrackCalls` needs that no call is invited twice, which takes a second
layer, `CallInv`. `InvitesInv`: an INVITE is in the command pipe at most once,
only for a call NUA does not know yet, and only after the call's media has left
the stages it never enters again. `SetUpInv` is why: the call that
`activeCallParams` are about is the one with media, unless an incoming call
took over, and a prompt is up only for a call without media.

`CallShutdown_proofs`, for any calls, bounds and number of requests. A step is
a step of `CallControl`, a command to the stack (which leaves calls and
operations alone), or the shutdown response, which ends every call at once.
`ShutdownInductive` has `CallControl`'s `CallInv` under all three, so
`CallsSurviveShutdown` carries its invariants over; `StackAlways` adds
`StackOK`, for which `EndedInv` says that an ended loop has no call in progress.

`Background_proofs`: `BackgroundIsSignalling` (the composition implements
`Signalling`, the background variables forgotten), hence `BackgroundOneStack`
and the rest of `Signalling_proofs`; `TasksAlways` and `LeakOnlyOverlapping`,
for which the invariant adds that a task that outlived its time is never the
current one.

`Operations_proofs`, for any number of operations, addresses and requests:
`OperationsTyped`, `PendingAlways`, `NewestAlways`, `StuckAlways`,
`MediaAlways`, and the action properties `RegistrationsAlways` and
`CallsAlways`. Every action is shown to have one of four shapes (an operation is
created and others are cleaned away, one changes, one is destroyed, or there is
a challenge), and the invariant is kept by each shape. It needs `OpersFit`:
only an INVITE has a callstate, and a handle queues only requests of its
operation's method; without it the response that removes a registration could
be one to an INVITE or a BYE.

`PushRegistration_proofs`, for any registrations, users, tokens and kills:
`PushTyped`, `NothingTwiceAlways`, `DefaultsAlways`, `EarlyFailuresReported` and
the action property `SuccessBound`. `ChainInv` says what each step of the chain has
established by then, whatever other registrations do (the sids it found exist
on the server; the server only grows). `ServerInv` is about what the server
holds. `AloneInv` is what a registration that nobody interferes with knows in
addition: it is the only busy one, `NSUserDefaults` are what it left there, and
what it is about to create is absent. `NothingTwice` follows for such a
registration, and is not inductive without it: a creation looks at no list.
`SuccessBound` needs `ReportInv` besides: a success that waits in the main queue
is still true, since a registration that starts meanwhile counts as overlapping.

`PipeFraming_proofs`: `PipeTyped` for any messages and sizes. `ReaderAlways` and
`PipeImplements` (the refinement of `Channel`) under two hypotheses on the
constants. `PlainText`: no message is empty or has the delimiter in it; the run
`pipe_delimiter` shows what happens otherwise, and no command or reply is empty.
`Fits`: `MaxBacklog` messages, each with its delimiter, fit the pipe and the
buffer; a smaller pipe or buffer violates both. The instance of `pipe_framing`
satisfies them. The invariant `PipeInv`: what was handled is a prefix of what
was sent, and the pipe holds the messages after it, framed (`FramedAs` names the
places of the delimiters), but for one that is still to be written, all of it.
The pieces a tokenizer cuts such a buffer into are those messages
(`PiecesOfFramed`).

Lists. What the recursive functions `WithoutOps` and `Pieces` compute for every
list is proved by induction over numbers. The library's induction theorems take
a predicate; `NumberInduction` has the same for the *set* of numbers it holds
for, from the well-foundedness of `<`.

Assumptions are the types of the constants, named in the modules that declare
them (`SignallingAssumption`, `CallControlAssumption`, `CallShutdownAssumption`,
`OperationsAssumption`, `PushAssumption`, `PipeFramingAssumption`); `CountedAlways`
adds a complete configuration, `ReaderAlways` and `PipeImplements` the two
hypotheses above. The inductive invariants were model-checked on the instances of
the runs too (`PipeInv` with `cut` bounded by `Capacity`).

Only model-checked: liveness (the prover has no fairness or ENABLED):
`RestartHonoured`, `QuitEndsLoop`, `CurrentTaskEnds`, `HangUpReachesPeer`,
`PendingCancelSent`, `EndedCallIsSeen`, `UnlistenEndsCalls`, `SentIsHandled`; and
what the violated runs show. All other properties of the passing runs are proved.

## 5. Not modelled, and the plan

Next, proofs of what the liveness properties rest on: which steps a hang-up, a
restart mark or a sent message can be waiting for, as invariants.

Not modelled:

* CallKit (`RCCallKitProvider`): it forwards between `RCConnection` and Apple's
  closed `CXProvider`, whose order of calls no code here describes. To know: it
  keeps a single `currentUUID`, which the completion of one call's end clears
  whichever call it is about by then.
* The parts of `updateParams` that drop the registrar or replace TURN and media
  parameters; re-INVITE and hold; the camera prompt as a prompt of its own.
* `Reachability` (Apple sample code, its notifications are `NetworkChange`),
  string utilities, logging, error texts, sounds, the WebRTC and Sofia
  libraries themselves (external, modelled by what the code relies on, with
  their source where it decides: NUA's request queue and shutdown), the commands
  of the original command line client that the SDK never sends, and the example
  Apps.
