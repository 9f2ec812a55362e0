----------------------------- MODULE CallControl -----------------------------
(***************************************************************************)
(* Making, answering and ending calls.                                     *)
(*                                                                         *)
(* Main thread: the App drives RCDevice and RCConnection; SipManager asks  *)
(* for the microphone permission, owns one MediaWebRTC and writes commands *)
(* to the pipe; replies come back to whatever RCConnection its weak        *)
(* connectionDelegate points to at that moment.  Sofia thread: ssc_* keeps *)
(* one operation per INVITE and finds the operation a command is meant for *)
(* by its callstate alone.  NUA and the peers are external.                *)
(*                                                                         *)
(* A call is identified with the RCConnection made for it, and commands    *)
(* and replies are tagged with the call they are about.  The tag of an "i" *)
(* (the destination) and of an INCOMING_CALL (the sender) is real data;    *)
(* the code never sees the other tags and neither do the actions here.     *)
(* The signalling stack is up throughout (see Signalling).                 *)
(***************************************************************************)
EXTENDS Integers, Sequences, FiniteSets

CONSTANTS
    Calls,
    NoCall,
    Turn,              \* TRUE: turn-enabled, TURN servers are fetched first
    FirstPermission,   \* microphone permission when the App starts
    AppKeeps,          \* TRUE: the App keeps its reference to an ended RCConnection
    IncomingCalls,     \* TRUE: peers call this device
    Unavailable,       \* TRUE: an INVITE may be answered with 503
    Challenges,        \* TRUE: an INVITE may be answered with 401 or 407
    MaxQueue,          \* bound: messages in a pipe before the App or a peer waits
    MaxRings,          \* bound: 180 responses to one INVITE
    MaxRegistrations   \* bound: results of periodic REGISTERs

Permissions == {"undetermined", "granted", "denied"}

ASSUME CallControlAssumption ==
    /\ NoCall \notin Calls
    /\ Turn \in BOOLEAN /\ AppKeeps \in BOOLEAN
    /\ IncomingCalls \in BOOLEAN /\ Unavailable \in BOOLEAN /\ Challenges \in BOOLEAN
    /\ FirstPermission \in Permissions
    /\ MaxQueue \in Nat /\ MaxRings \in Nat /\ MaxRegistrations \in Nat

VARIABLES
    deviceState,         \* RCDevice.state
    currentConnection,   \* RCDevice.currentConnection
    connectionDelegate,  \* SipManager.connectionDelegate, before it is zeroed
    held,                \* the RCConnections the App has a reference to
    state,               \* RCConnection.state of each call, "unborn" before
    incoming,            \* RCConnection.isIncoming
    cancelPending,       \* RCConnection.cancelPending
    permission,          \* AVCaptureDevice authorization status
    prompting,           \* a permission prompt is up (bound: one at a time)
    activeCall,          \* the call activeCallParams is about
    media,               \* SipManager.media: the call it was connected for
    isInitiator,         \* MediaWebRTC._isInitiator of SipManager.media
    mediaStage,          \* progress of the MediaWebRTC made for each call
    commands,            \* write_pipe
    replies,             \* read_pipe
    ops,                 \* ssc_operations, newest first, INVITE operations only
    callstate,           \* op_callstate of each call's operation
    sip,                 \* the call in NUA and at the peer (external)
    cancelSent,          \* nua_cancel() was called
    rings,               \* bound: 180s received
    challenged,          \* history: calls whose INVITE got a 401 or 407
    registrations,       \* bound: REGISTER results received
    refused              \* history: a connect was refused as "already ongoing"
                         \* while no connection was

deviceVars == <<deviceState, currentConnection, connectionDelegate, held>>
connVars == <<state, incoming, cancelPending>>
mediaVars == <<permission, prompting, activeCall, media, isInitiator, mediaStage>>
sofiaVars == <<ops, callstate, sip, cancelSent, rings, challenged>>
boundVars == <<registrations, refused>>
vars == <<deviceVars, connVars, mediaVars, commands, replies, sofiaVars, boundVars>>

ConnStates == {"unborn", "Pending", "Connecting", "Connected", "Disconnected"}

(***************************************************************************)
(* A MediaWebRTC waits for the TURN servers, gathers candidates, has its   *)
(* SDP sent, (initiator) has the answer applied, is connected.  "failed":  *)
(* WebRTC refused a description and will report it.  "closed" is final.    *)
(***************************************************************************)
MediaStages == {"none", "turn", "gather", "sent", "answered", "ice", "failed", "closed"}

\* op_callstate: "complete" is opc_sent | opc_recv.
CallStates == {"none", "sent", "recv", "complete", "active"}

\* "waiting": the INVITE waits for credentials.  "answered": our 200 waits for
\* its ACK.  "rejected": ended by our own response.  "vanished": ended without a
\* reply to the App.
SipStates == {"idle", "calling", "waiting", "ringing", "received", "answered", "up",
              "byeing", "down", "rejected", "vanished"}

CommandNames == {"i", "a", "d", "c", "b"}
ReplyCodes == {"INCOMING_CALL", "INCOMING_CANCELLED", "INCOMING_ESTABLISHED", "INCOMING_BYE",
               "OUTGOING_RINGING", "OUTGOING_ESTABLISHED", "OUTGOING_DECLINED",
               "OUTGOING_CANCELLED", "OUTGOING_BYE_RESPONSE", "ERROR_SIP_INVITE",
               "ERROR_SIP_INVITE_SERVICE_UNAVAILABLE", "REGISTER_SUCCESS", "ERROR_REGISTER"}

\* The weak delegate: gone once neither the App nor the device holds it.
Delegate ==
    IF connectionDelegate \in held \cup {currentConnection}
    THEN connectionDelegate ELSE NoCall

Live(c) == state[c] \in {"Pending", "Connecting", "Connected"}
-----------------------------------------------------------------------------
(* SipManager and MediaWebRTC: helpers of the main thread's actions *)

PipeToSofia(cmd, c) == commands' = Append(commands, [cmd |-> cmd, call |-> c])

\* MediaWebRTC disconnect returns early while its TURN servers are awaited:
\* the request stays out there, and its handler keeps the object alive.
ClosedMedia ==
    IF media = NoCall \/ mediaStage[media] = "turn" THEN mediaStage
    ELSE [mediaStage EXCEPT ![media] = "closed"]

DisconnectMedia ==
    /\ media' = NoCall
    /\ mediaStage' = ClosedMedia

\* handleCall: media for the call c that activeCallParams is about, as the
\* initiator when those are the parameters of an invite.
HandleCall(c) ==
    IF media # NoCall
    THEN UNCHANGED <<media, isInitiator, mediaStage>>
    ELSE /\ media' = c
         /\ isInitiator' = ~incoming[c]
         /\ mediaStage' = [mediaStage EXCEPT ![c] = IF Turn THEN "turn" ELSE "gather"]

\* Mutant of DisconnectCommand: a ringing incoming call is cancelled instead
\* of declined.
DisconnectCommandCancels(c) ==
    IF state[c] = "Connecting" THEN <<[cmd |-> "c", call |-> c]>>
    ELSE IF state[c] = "Connected" THEN <<[cmd |-> "b", call |-> c]>> ELSE <<>>

\* What [RCConnection disconnect] writes to the pipe, by state and direction.
DisconnectCommand(c) ==
    IF state[c] = "Connecting"
    THEN <<[cmd |-> IF incoming[c] THEN "d" ELSE "c", call |-> c]>>
    ELSE IF state[c] = "Connected" THEN <<[cmd |-> "b", call |-> c]>> ELSE <<>>

\* [RCConnection disconnect], but for the connection's own state and the
\* progress of the media.
DisconnectEffects(c) ==
    /\ commands' = commands \o DisconnectCommand(c)
    /\ cancelPending' =
         [cancelPending EXCEPT ![c] = @ \/ (state[c] = "Pending" /\ ~incoming[c])]
    /\ media' = NoCall
    /\ deviceState' = "Ready"
    /\ currentConnection' = NoCall

\* [RCConnection disconnect]; also all that didMediaError and
\* didSignallingError do to a connection.
RCDisconnect(c) ==
    /\ DisconnectEffects(c)
    /\ mediaStage' = ClosedMedia
    /\ state' = [state EXCEPT ![c] = "Disconnected"]
-----------------------------------------------------------------------------
Init ==
    /\ deviceState = "Ready"
    /\ currentConnection = NoCall /\ connectionDelegate = NoCall
    /\ held = {}
    /\ state = [c \in Calls |-> "unborn"]
    /\ incoming = [c \in Calls |-> FALSE]
    /\ cancelPending = [c \in Calls |-> FALSE]
    /\ permission = FirstPermission
    /\ prompting = FALSE
    /\ activeCall = NoCall /\ isInitiator = FALSE
    /\ media = NoCall
    /\ mediaStage = [c \in Calls |-> "none"]
    /\ commands = <<>> /\ replies = <<>>
    /\ ops = <<>>
    /\ callstate = [c \in Calls |-> "none"]
    /\ sip = [c \in Calls |-> "idle"]
    /\ cancelSent = [c \in Calls |-> FALSE]
    /\ rings = [c \in Calls |-> 0]
    /\ challenged = {}
    /\ registrations = 0
    /\ refused = FALSE
-----------------------------------------------------------------------------
(* The App: operations of RCDevice and RCConnection *)

\* [RCDevice connect:delegate:] up to [SipManager invite:...].
NewConnection(c) ==
    /\ deviceState = "Ready"
    /\ state[c] = "unborn" /\ sip[c] = "idle"
    /\ connectionDelegate' = c
    /\ UNCHANGED <<incoming, permission, replies, sofiaVars, registrations>>

\* invite: media is left over from another call.  The App gets nil and the
\* device stays busy.
ConnectRefused(c) ==
    /\ NewConnection(c)
    /\ media # NoCall
    /\ currentConnection' = c
    /\ deviceState' = "Busy"
    /\ state' = [state EXCEPT ![c] = "Pending"]
    /\ refused' = (refused \/ \A d \in Calls : ~Live(d))
    /\ UNCHANGED <<held, cancelPending, prompting, activeCall, media, isInitiator,
                   mediaStage, commands>>

\* invite with the microphone authorised, or to be asked for.
Connect(c) ==
    /\ NewConnection(c)
    /\ media = NoCall
    /\ permission # "denied"
    /\ held' = held \cup {c}
    /\ currentConnection' = c
    /\ deviceState' = "Busy"
    /\ state' = [state EXCEPT ![c] = "Pending"]
    /\ activeCall' = c
    /\ IF permission = "granted"
       THEN HandleCall(c) /\ UNCHANGED prompting
       ELSE ~prompting /\ prompting' = TRUE /\ UNCHANGED <<media, isInitiator, mediaStage>>
    /\ UNCHANGED <<cancelPending, commands, refused>>

\* invite with the microphone denied: the new connection is disconnected
\* before connect returns, and the App gets nil.
ConnectDenied(c) ==
    /\ NewConnection(c)
    /\ media = NoCall
    /\ permission = "denied"
    /\ currentConnection' = NoCall
    /\ deviceState' = "Ready"
    /\ state' = [state EXCEPT ![c] = "Disconnected"]
    /\ cancelPending' = [cancelPending EXCEPT ![c] = TRUE]
    /\ activeCall' = c
    /\ UNCHANGED <<held, prompting, media, isInitiator, mediaStage, commands, refused>>

\* Mutant of Accept: the connection's state is not looked at.
AcceptAnyState(c) ==
    /\ c \in held
    /\ incoming[c] /\ (incoming[activeCall] \/ media # NoCall)
    /\ permission # "denied"
    /\ state' = [state EXCEPT ![c] = "Connected"]
    /\ IF permission = "granted"
       THEN HandleCall(activeCall) /\ UNCHANGED prompting
       ELSE ~prompting /\ prompting' = TRUE /\ UNCHANGED <<media, isInitiator, mediaStage>>
    /\ UNCHANGED <<deviceVars, incoming, cancelPending, permission, activeCall, commands,
                   replies, sofiaVars, boundVars>>

\* [RCConnection accept:] of a ringing incoming connection, with the
\* microphone authorised or to be asked for.  When media is there already it
\* is left as it is; when it is not and a later connect has replaced
\* activeCallParams, there is no offer to answer: an exception, no step.
Accept(c) ==
    /\ c \in held
    /\ incoming[c] /\ state[c] = "Connecting"
    /\ incoming[activeCall] \/ media # NoCall
    /\ permission # "denied"
    /\ state' = [state EXCEPT ![c] = "Connected"]
    /\ IF permission = "granted"
       THEN HandleCall(activeCall) /\ UNCHANGED prompting
       ELSE ~prompting /\ prompting' = TRUE /\ UNCHANGED <<media, isInitiator, mediaStage>>
    /\ UNCHANGED <<deviceVars, incoming, cancelPending, permission, activeCall, commands,
                   replies, sofiaVars, boundVars>>

\* accept: with the microphone denied: the delegate is disconnected inside
\* answerWithVideo, and only then is this connection set to connected.
AcceptDenied(c) ==
    /\ c \in held
    /\ incoming[c] /\ state[c] = "Connecting"
    /\ permission = "denied"
    /\ IF Delegate = NoCall
       THEN /\ state' = [state EXCEPT ![c] = "Connected"]
            /\ UNCHANGED <<deviceState, currentConnection, cancelPending, media, mediaStage,
                           commands>>
       ELSE /\ DisconnectEffects(Delegate)
            /\ mediaStage' = ClosedMedia
            /\ state' = [state EXCEPT ![Delegate] = "Disconnected", ![c] = "Connected"]
    /\ UNCHANGED <<connectionDelegate, held, incoming, permission, prompting, activeCall,
                   isInitiator, replies, sofiaVars, boundVars>>

\* [RCConnection reject]: neither the connection nor currentConnection changes.
Reject(c) ==
    /\ c \in held
    /\ incoming[c] /\ state[c] = "Connecting"
    /\ PipeToSofia("d", c)
    /\ deviceState' = "Ready"
    /\ UNCHANGED <<currentConnection, connectionDelegate, held, connVars, mediaVars,
                   replies, sofiaVars, boundVars>>

\* [RCConnection disconnect], on any connection the App still has; and
\* [RCDevice disconnectAll], which reaches the current one while busy.
Disconnect(c) ==
    /\ \/ c \in held /\ state[c] # "unborn"
       \/ deviceState = "Busy" /\ c = currentConnection
    /\ RCDisconnect(c)
    /\ UNCHANGED <<connectionDelegate, held, incoming, permission, prompting, activeCall,
                   isInitiator, replies, sofiaVars, boundVars>>

\* The App drops its reference to a connection it is done with.
Release(c) ==
    /\ ~AppKeeps
    /\ c \in held /\ state[c] = "Disconnected"
    /\ held' = held \ {c}
    /\ UNCHANGED <<deviceState, currentConnection, connectionDelegate, connVars, mediaVars,
                   commands, replies, sofiaVars, boundVars>>
-----------------------------------------------------------------------------
(* Permission prompt and MediaWebRTC callbacks, all on the main thread *)

\* didMediaError sent to the delegate, if there is one.
MediaErrorToDelegate ==
    IF Delegate # NoCall THEN RCDisconnect(Delegate)
    ELSE UNCHANGED <<deviceState, currentConnection, state, cancelPending, media, mediaStage,
                     commands>>

\* The completion handler of a permission prompt: it acts on the call that is
\* active by then.
PromptAnswered ==
    /\ prompting
    /\ prompting' = FALSE
    /\ permission' \in {"granted", "denied"}
    /\ IF permission' = "granted"
       THEN /\ HandleCall(activeCall)
            /\ UNCHANGED <<deviceState, currentConnection, state, cancelPending, commands>>
       ELSE MediaErrorToDelegate /\ UNCHANGED isInitiator
    /\ UNCHANGED <<connectionDelegate, held, incoming, activeCall, replies, sofiaVars, boundVars>>

\* The TURN servers arrive.  A media that was disconnected meanwhile lives
\* only for this handler.
TurnComplete(c) ==
    /\ mediaStage[c] = "turn"
    /\ mediaStage' = [mediaStage EXCEPT ![c] = IF media = c THEN "gather" ELSE "closed"]
    /\ UNCHANGED <<deviceVars, connVars, permission, prompting, activeCall, media, isInitiator,
                   commands, replies, sofiaVars, boundVars>>

\* The TURN request fails: didError, whether or not this media is still the
\* current one.
TurnFails(c) ==
    /\ mediaStage[c] = "turn"
    /\ IF Delegate = NoCall
       THEN /\ mediaStage' = [mediaStage EXCEPT ![c] = "closed"]
            /\ UNCHANGED <<deviceState, currentConnection, state, cancelPending, media, commands>>
       ELSE /\ DisconnectEffects(Delegate)
            /\ mediaStage' = [ClosedMedia EXCEPT ![c] = "closed"]
            /\ state' = [state EXCEPT ![Delegate] = "Disconnected"]
    /\ UNCHANGED <<connectionDelegate, held, incoming, permission, prompting, activeCall,
                   isInitiator, replies, sofiaVars, boundVars>>

\* Candidates gathered, didCreateSdp: the INVITE, to the destination in
\* activeCallParams, or the answer is piped.  Without a destination the
\* message cannot be built and the App dies with an exception: no step.
CreateSdp(c) ==
    /\ media = c /\ mediaStage[c] = "gather"
    /\ isInitiator => ~incoming[activeCall]
    /\ mediaStage' = [mediaStage EXCEPT ![c] = "sent"]
    /\ PipeToSofia(IF isInitiator THEN "i" ELSE "a", IF isInitiator THEN activeCall ELSE c)
    /\ UNCHANGED <<deviceVars, connVars, permission, prompting, activeCall, media, isInitiator,
                   replies, sofiaVars, boundVars>>

\* didError of the media: no candidates, a description refused, ICE failed.
MediaError(c) ==
    /\ media = c /\ mediaStage[c] \in {"gather", "sent", "answered", "ice", "failed"}
    /\ MediaErrorToDelegate
    /\ UNCHANGED <<connectionDelegate, held, incoming, permission, prompting, activeCall,
                   isInitiator, replies, sofiaVars, boundVars>>

\* didIceConnectAsInitiator: for the initiator the call is established now,
\* or terminated with a BYE when it had been hung up before it rang.
OutgoingEstablished ==
    IF cancelPending[Delegate]
    THEN /\ PipeToSofia("b", Delegate)
         /\ cancelPending' = [cancelPending EXCEPT ![Delegate] = FALSE]
         /\ UNCHANGED state
    ELSE /\ state' = [state EXCEPT ![Delegate] = "Connected"]
         /\ UNCHANGED <<cancelPending, commands>>

IceConnected(c) ==
    /\ media = c
    /\ mediaStage[c] = IF isInitiator THEN "answered" ELSE "sent"
    /\ mediaStage' = [mediaStage EXCEPT ![c] = "ice"]
    /\ IF isInitiator /\ Delegate # NoCall
       THEN OutgoingEstablished
       ELSE UNCHANGED <<state, cancelPending, commands>>
    /\ UNCHANGED <<deviceVars, incoming, permission, prompting, activeCall, media, isInitiator,
                   replies, sofiaVars, boundVars>>
-----------------------------------------------------------------------------
(* handleSofiaInput: a reply is taken from the pipe and handed to the device *)
(* or to the current connection delegate                                     *)

Reply == Head(replies)

TakeReply(rcs) ==
    /\ replies # <<>>
    /\ Reply.rc \in rcs
    /\ replies' = Tail(replies)
    /\ UNCHANGED <<permission, prompting, isInitiator, sofiaVars, boundVars>>

\* Mutant of ReceiveCall: the connection delegate is not replaced.
ReceiveCallKeepsDelegate ==
    /\ TakeReply({"INCOMING_CALL"})
    /\ activeCall' = Reply.call
    /\ state' = [state EXCEPT ![Reply.call] = "Connecting"]
    /\ incoming' = [incoming EXCEPT ![Reply.call] = TRUE]
    /\ currentConnection' = Reply.call
    /\ held' = held \cup {Reply.call}
    /\ deviceState' = "Busy"
    /\ UNCHANGED <<connectionDelegate, cancelPending, media, mediaStage, commands>>

\* sipManagerDidReceiveCall: a new connection takes over, whatever was there.
ReceiveCall ==
    /\ TakeReply({"INCOMING_CALL"})
    /\ activeCall' = Reply.call
    /\ state' = [state EXCEPT ![Reply.call] = "Connecting"]
    /\ incoming' = [incoming EXCEPT ![Reply.call] = TRUE]
    /\ currentConnection' = Reply.call
    /\ connectionDelegate' = Reply.call
    /\ held' = held \cup {Reply.call}
    /\ deviceState' = "Busy"
    /\ UNCHANGED <<cancelPending, media, mediaStage, commands>>

\* Mutant of ReceiveRinging: cancelPending is not looked at.
ReceiveRingingAnyway ==
    /\ TakeReply({"OUTGOING_RINGING"})
    /\ state' = IF Delegate = NoCall THEN state
                ELSE [state EXCEPT ![Delegate] = "Connecting"]
    /\ UNCHANGED <<deviceVars, incoming, cancelPending, activeCall, media, mediaStage, commands>>

\* Mutant of ReceiveRinging: returns before it cancels.
ReceiveRingingReturns ==
    /\ TakeReply({"OUTGOING_RINGING"})
    /\ state' = IF Delegate = NoCall \/ cancelPending[Delegate] THEN state
                ELSE [state EXCEPT ![Delegate] = "Connecting"]
    /\ UNCHANGED <<deviceVars, incoming, cancelPending, activeCall, media, mediaStage, commands>>

\* Mutant of ReceiveRinging: cancels the device's current connection, which
\* disconnect has already cleared.
ReceiveRingingCancelsCurrent ==
    /\ TakeReply({"OUTGOING_RINGING"})
    /\ IF Delegate = NoCall
       THEN UNCHANGED <<state, commands>>
       ELSE IF cancelPending[Delegate]
       THEN PipeToSofia("c", currentConnection) /\ UNCHANGED state
       ELSE state' = [state EXCEPT ![Delegate] = "Connecting"] /\ UNCHANGED commands
    /\ UNCHANGED <<deviceVars, incoming, cancelPending, activeCall, media, mediaStage>>

\* sipManagerDidReceiveOutgoingRinging: a call hung up while it was pending
\* can be cancelled now.
ReceiveRinging ==
    /\ TakeReply({"OUTGOING_RINGING"})
    /\ IF Delegate = NoCall
       THEN UNCHANGED <<state, commands>>
       ELSE IF cancelPending[Delegate]
       THEN PipeToSofia("c", Delegate) /\ UNCHANGED state
       ELSE state' = [state EXCEPT ![Delegate] = "Connecting"] /\ UNCHANGED commands
    /\ UNCHANGED <<deviceVars, incoming, cancelPending, activeCall, media, mediaStage>>

\* OUTGOING_ESTABLISHED: the answer goes to the media, if there is one.  It
\* is refused unless it is the answer that media waits for; before the peer
\* connection exists the call does nothing (an assertion in debug builds).
ReceiveAnswer ==
    /\ TakeReply({"OUTGOING_ESTABLISHED"})
    /\ mediaStage' =
         IF media = NoCall \/ mediaStage[media] = "turn" THEN mediaStage
         ELSE [mediaStage EXCEPT ![media] =
                  IF isInitiator /\ @ = "sent" THEN "answered" ELSE "failed"]
    /\ UNCHANGED <<deviceVars, connVars, activeCall, media, commands>>

\* Replies nothing is done about.
ReceiveIgnored ==
    /\ TakeReply({"INCOMING_ESTABLISHED", "ERROR_SIP_INVITE_SERVICE_UNAVAILABLE"})
    /\ UNCHANGED <<deviceVars, connVars, activeCall, media, mediaStage, commands>>

\* Mutant of Ended: the device is not freed.
EndedStaysBusy(ready) ==
    /\ IF Delegate = NoCall
       THEN UNCHANGED <<state, currentConnection>>
       ELSE /\ state' = [state EXCEPT ![Delegate] = "Disconnected"]
            /\ currentConnection' = NoCall
    /\ UNCHANGED <<deviceState, connectionDelegate, held, incoming, cancelPending, activeCall,
                   commands>>

\* Mutant of Ended: the connection keeps its state.
EndedKeepsState(ready) ==
    /\ IF Delegate = NoCall
       THEN UNCHANGED <<deviceState, currentConnection>>
       ELSE /\ deviceState' = ready
            /\ currentConnection' = NoCall
    /\ UNCHANGED <<state, connectionDelegate, held, incoming, cancelPending, activeCall,
                   commands>>

\* A connection the peer ended; "ready" is what the device becomes.
Ended(ready) ==
    /\ IF Delegate = NoCall
       THEN UNCHANGED <<state, deviceState, currentConnection>>
       ELSE /\ state' = [state EXCEPT ![Delegate] = "Disconnected"]
            /\ deviceState' = ready
            /\ currentConnection' = NoCall
    /\ UNCHANGED <<connectionDelegate, held, incoming, cancelPending, activeCall, commands>>

ReceiveIncomingCancelled ==
    /\ TakeReply({"INCOMING_CANCELLED"})
    /\ Ended("Ready")
    /\ UNCHANGED <<media, mediaStage>>

ReceiveRefusal ==
    /\ TakeReply({"OUTGOING_CANCELLED", "OUTGOING_DECLINED"})
    /\ DisconnectMedia
    /\ Ended("Ready")

\* sipManagerDidReceiveBye, with the App in the foreground.
ReceiveBye ==
    /\ TakeReply({"OUTGOING_BYE_RESPONSE", "INCOMING_BYE"})
    /\ DisconnectMedia
    /\ Ended(IF deviceState = "Offline" THEN "Offline" ELSE "Ready")

\* An INVITE error: disconnectMedia, then didSignallingError.
ReceiveInviteError ==
    /\ TakeReply({"ERROR_SIP_INVITE"})
    /\ IF Delegate # NoCall
       THEN RCDisconnect(Delegate)
       ELSE DisconnectMedia /\ UNCHANGED <<deviceState, currentConnection, state,
                                            cancelPending, commands>>
    /\ UNCHANGED <<connectionDelegate, held, incoming, activeCall>>

\* The result of a periodic REGISTER, during a call or not.
ReceiveRegistration ==
    /\ TakeReply({"REGISTER_SUCCESS", "ERROR_REGISTER"})
    /\ deviceState' = IF Reply.rc = "ERROR_REGISTER" THEN "Offline"
                      ELSE IF deviceState = "Offline" THEN "Ready" ELSE deviceState
    /\ UNCHANGED <<currentConnection, connectionDelegate, held, connVars, activeCall, media,
                   mediaStage, commands>>

HandleSofiaInput ==
    \/ ReceiveCall \/ ReceiveRinging \/ ReceiveAnswer \/ ReceiveIgnored
    \/ ReceiveIncomingCancelled \/ ReceiveRefusal \/ ReceiveBye
    \/ ReceiveInviteError \/ ReceiveRegistration
-----------------------------------------------------------------------------
(* Commands in the Sofia thread: ssc_invite, ssc_answer, ssc_bye, ssc_cancel *)

Command == Head(commands)

mainVars == <<deviceVars, connVars, mediaVars, boundVars>>

\* The first operation of the list whose call is in S.
FindOp(S) ==
    LET found == {i \in DOMAIN ops : ops[i] \in S}
    IN  IF found = {} THEN NoCall ELSE ops[CHOOSE i \in found : \A j \in found : i <= j]

WithCallstate(states) == {c \in Calls : callstate[c] \in states}

\* ssc_oper_destroy: out of the list, and NUA reports nothing more.
WithoutOps(S) ==
    LET kept[i \in 0..Len(ops)] ==
          IF i = 0 THEN <<>>
          ELSE IF ops[i] \in S THEN kept[i - 1] ELSE Append(kept[i - 1], ops[i])
    IN  kept[Len(ops)]

TakeCommand(cmd) ==
    /\ commands # <<>>
    /\ Command.cmd = cmd
    /\ commands' = Tail(commands)
    /\ UNCHANGED <<mainVars, rings>>

\* Mutant of SscInvite: operations not yet answered are cleaned as well.
SscInviteCleansUnanswered ==
    /\ TakeCommand("i")
    /\ LET stale == {c \in WithCallstate({"none", "recv"}) : \E i \in DOMAIN ops : ops[i] = c} IN
         /\ ops' = <<Command.call>> \o WithoutOps(stale)
         /\ sip' = [c \in Calls |-> IF c = Command.call THEN "calling"
                                     ELSE IF c \in stale THEN "vanished" ELSE sip[c]]
    /\ callstate' = [callstate EXCEPT ![Command.call] = "sent"]
    /\ challenged' = challenged \ {Command.call}
    /\ UNCHANGED <<replies, cancelSent>>

\* ssc_invite with ssc_oper_create: operations whose callstate is zero, calls
\* being hung up and calls that were challenged, are cleaned first, then the
\* INVITE is sent.
SscInvite ==
    /\ TakeCommand("i")
    /\ LET stale == {c \in WithCallstate({"none"}) : \E i \in DOMAIN ops : ops[i] = c} IN
         /\ ops' = <<Command.call>> \o WithoutOps(stale)
         /\ sip' = [c \in Calls |-> IF c = Command.call THEN "calling"
                                     ELSE IF c \in stale THEN "vanished" ELSE sip[c]]
    /\ callstate' = [callstate EXCEPT ![Command.call] = "sent"]
    /\ challenged' = challenged \ {Command.call}
    /\ UNCHANGED <<replies, cancelSent>>

\* ssc_invite to an address that is not one.
SscInviteInvalid ==
    /\ TakeCommand("i")
    /\ replies' = Append(replies, [rc |-> "ERROR_SIP_INVITE", call |-> Command.call])
    /\ UNCHANGED <<ops, callstate, sip, cancelSent, challenged>>

\* ssc_answer 200: the first unanswered operation.
SscAnswer ==
    /\ TakeCommand("a")
    /\ LET c == FindOp(WithCallstate({"recv"})) IN
         IF c = NoCall THEN UNCHANGED <<callstate, sip>>
         ELSE /\ callstate' = [callstate EXCEPT ![c] = "complete"]
              /\ sip' = [sip EXCEPT ![c] = "answered"]
    /\ UNCHANGED <<replies, ops, cancelSent, challenged>>

\* Mutant of SscDecline: the refused operation stays in the list.
SscDeclineKeeps ==
    /\ TakeCommand("d")
    /\ LET c == FindOp(WithCallstate({"recv"})) IN
         IF c = NoCall THEN UNCHANGED <<callstate, sip>>
         ELSE /\ callstate' = [callstate EXCEPT ![c] = "none"]
              /\ sip' = [sip EXCEPT ![c] = "rejected"]
    /\ UNCHANGED <<replies, ops, cancelSent, challenged>>

\* ssc_answer 480: the first unanswered operation is refused and destroyed.
SscDecline ==
    /\ TakeCommand("d")
    /\ LET c == FindOp(WithCallstate({"recv"})) IN
         IF c = NoCall THEN UNCHANGED <<ops, callstate, sip>>
         ELSE /\ ops' = WithoutOps({c})
              /\ callstate' = [callstate EXCEPT ![c] = "none"]
              /\ sip' = [sip EXCEPT ![c] = "rejected"]
    /\ UNCHANGED <<replies, cancelSent, challenged>>

\* ssc_bye: the first operation with any callstate, answered or not.
SscBye ==
    /\ TakeCommand("b")
    /\ LET c == FindOp(WithCallstate(CallStates \ {"none"})) IN
         IF c = NoCall THEN UNCHANGED <<callstate, sip>>
         ELSE /\ callstate' = [callstate EXCEPT ![c] = "none"]
              /\ sip' = [sip EXCEPT ![c] = "byeing"]
    /\ UNCHANGED <<replies, ops, cancelSent, challenged>>

\* ssc_cancel: an INVITE that was sent, or else one whose callstate is zero.
\* nua_cancel() only means something for an INVITE of ours without an answer,
\* and not while it waits for credentials.
SscCancel ==
    /\ TakeCommand("c")
    /\ LET sent == FindOp(WithCallstate({"sent", "complete"}))
           c == IF sent # NoCall THEN sent ELSE FindOp(WithCallstate({"none"}))
       IN  IF c # NoCall /\ sip[c] \in {"calling", "ringing"}
           THEN cancelSent' = [cancelSent EXCEPT ![c] = TRUE]
           ELSE UNCHANGED cancelSent
    /\ UNCHANGED <<replies, ops, callstate, sip, challenged>>

HandleInput == SscInvite \/ SscInviteInvalid \/ SscAnswer \/ SscDecline \/ SscBye \/ SscCancel
-----------------------------------------------------------------------------
(* NUA and the peers (external), with the ssc_* callback each event runs *)

appVars == <<mainVars, commands>>

SendReply(rc, c) == replies' = Append(replies, [rc |-> rc, call |-> c])

\* ssc_i_state terminated: the operation is destroyed.
Destroyed(c, end) ==
    /\ ops' = WithoutOps({c})
    /\ callstate' = [callstate EXCEPT ![c] = "none"]
    /\ sip' = [sip EXCEPT ![c] = end]
    /\ UNCHANGED <<appVars, cancelSent, rings, challenged>>

Terminated(c) == Destroyed(c, "down")

\* ssc_r_invite 180.
PeerRings(c) ==
    /\ sip[c] \in {"calling", "ringing"}
    /\ rings[c] < MaxRings
    /\ rings' = [rings EXCEPT ![c] = @ + 1]
    /\ sip' = [sip EXCEPT ![c] = "ringing"]
    /\ SendReply("OUTGOING_RINGING", c)
    /\ UNCHANGED <<appVars, ops, callstate, cancelSent, challenged>>

\* ssc_r_invite 200, with or without a 180 before it, and ssc_i_state ready.
PeerAnswers(c) ==
    /\ sip[c] \in {"calling", "ringing"}
    /\ sip' = [sip EXCEPT ![c] = "up"]
    /\ callstate' = [callstate EXCEPT ![c] = "active"]
    /\ SendReply("OUTGOING_ESTABLISHED", c)
    /\ UNCHANGED <<appVars, ops, cancelSent, rings, challenged>>

\* ssc_r_invite 401 or 407: opc_sent is cleared, and ssc_auth sends the INVITE
\* again if its operation is the newest.  ssc_oper_check does not find an older
\* one, which waits for ever (or hangs the thread: Operations, also for other
\* operations in the list).  A CANCEL goes with the INVITE it was meant for.
\* A proxy challenges an INVITE before it passes it on, so before it rings.
InviteChallenged(c) ==
    /\ Challenges
    /\ sip[c] = "calling"
    /\ callstate' = [callstate EXCEPT ![c] = "none"]
    /\ sip' = [sip EXCEPT ![c] = IF c = Head(ops) THEN "calling" ELSE "waiting"]
    /\ cancelSent' = [cancelSent EXCEPT ![c] = FALSE]
    /\ challenged' = challenged \cup {c}
    /\ UNCHANGED <<appVars, replies, ops, rings>>

\* A wrong password: NUA gives up after some attempts.  ssc_r_invite stores this
\* challenge as well, without a reply, and the call is terminated.
InviteUnauthorized(c) ==
    /\ sip[c] = "calling" /\ c \in challenged
    /\ Destroyed(c, "vanished")
    /\ UNCHANGED replies

\* ssc_r_invite with a failure, 487 only after our CANCEL.  A call nobody
\* answers fails with 408.
InviteFails(c) ==
    /\ sip[c] \in {"calling", "ringing"}
    /\ \E rc \in {"OUTGOING_DECLINED", "ERROR_SIP_INVITE"}
                  \cup (IF cancelSent[c] THEN {"OUTGOING_CANCELLED"} ELSE {})
                  \cup (IF Unavailable THEN {"ERROR_SIP_INVITE_SERVICE_UNAVAILABLE"} ELSE {}) :
         SendReply(rc, c)
    /\ Terminated(c)

\* ssc_i_invite: a new operation, and the App is told.
PeerCalls(c) ==
    /\ IncomingCalls
    /\ sip[c] = "idle" /\ state[c] = "unborn"
    /\ sip' = [sip EXCEPT ![c] = "received"]
    /\ ops' = <<c>> \o ops
    /\ callstate' = [callstate EXCEPT ![c] = "recv"]
    /\ SendReply("INCOMING_CALL", c)
    /\ UNCHANGED <<appVars, cancelSent, rings, challenged>>

\* ssc_i_cancel.
PeerCancels(c) ==
    /\ sip[c] = "received"
    /\ SendReply("INCOMING_CANCELLED", c)
    /\ Terminated(c)

\* ssc_i_state ready after the ACK to our 200.
PeerAcks(c) ==
    /\ sip[c] = "answered"
    /\ sip' = [sip EXCEPT ![c] = "up"]
    /\ callstate' = [callstate EXCEPT ![c] = "active"]
    /\ SendReply("INCOMING_ESTABLISHED", c)
    /\ UNCHANGED <<appVars, ops, cancelSent, rings, challenged>>

\* ssc_i_bye, also while our own BYE is on its way.
PeerByes(c) ==
    /\ sip[c] \in {"answered", "up", "byeing"}
    /\ SendReply("INCOMING_BYE", c)
    /\ Terminated(c)

\* ssc_r_bye.
ByeAnswered(c) ==
    /\ sip[c] = "byeing"
    /\ SendReply("OUTGOING_BYE_RESPONSE", c)
    /\ Terminated(c)

\* ssc_r_register for a periodic REGISTER.
Registration ==
    /\ registrations < MaxRegistrations /\ Len(replies) < MaxQueue
    /\ registrations' = registrations + 1
    /\ \E rc \in {"REGISTER_SUCCESS", "ERROR_REGISTER"} : SendReply(rc, NoCall)
    /\ UNCHANGED <<deviceVars, connVars, mediaVars, refused, commands, sofiaVars>>
-----------------------------------------------------------------------------
AppStep(c) ==
    /\ Len(commands) < MaxQueue
    /\ \/ ConnectRefused(c) \/ Connect(c) \/ ConnectDenied(c)
       \/ Accept(c) \/ AcceptDenied(c) \/ Reject(c) \/ Disconnect(c) \/ Release(c)

MediaStep(c) ==
    \/ TurnComplete(c) \/ TurnFails(c) \/ CreateSdp(c) \/ MediaError(c) \/ IceConnected(c)

NuaStep(c) ==
    /\ Len(replies) < MaxQueue
    /\ \/ PeerRings(c) \/ PeerAnswers(c)
       \/ InviteChallenged(c) \/ InviteUnauthorized(c) \/ InviteFails(c)
       \/ PeerCalls(c) \/ PeerCancels(c) \/ PeerAcks(c)
       \/ PeerByes(c) \/ ByeAnswered(c)

Next ==
    \/ \E c \in Calls : AppStep(c) \/ MediaStep(c) \/ NuaStep(c)
    \/ PromptAnswered
    \/ HandleSofiaInput
    \/ HandleInput
    \/ Registration

Spec == Init /\ [][Next]_vars

(***************************************************************************)
(* Both run loops keep draining their pipes; a BYE gets a final response   *)
(* (SIP's timers make one up otherwise); so does an INVITE that does not   *)
(* even ring, and one that was cancelled.  Nothing makes the App, the      *)
(* user, the media or a ringing peer act.                                  *)
(***************************************************************************)
InviteTimer(c) ==
    /\ Len(replies) < MaxQueue
    /\ sip[c] = "calling" \/ cancelSent[c]
    /\ InviteFails(c)

ByeTimer(c) == Len(replies) < MaxQueue /\ ByeAnswered(c)

Fairness ==
    /\ WF_vars(HandleSofiaInput)
    /\ WF_vars(HandleInput)
    /\ \A c \in Calls : WF_vars(ByeTimer(c)) /\ WF_vars(InviteTimer(c))

FairSpec == Spec /\ Fairness
-----------------------------------------------------------------------------
(* Properties *)

\* What the pipe carries: commands about calls, and those to the stack itself,
\* which CallShutdown adds.
StackCommands == {"q", "qr", "mr"}
Command_ == [cmd : CommandNames, call : Calls] \cup [cmd : StackCommands, call : {NoCall}]
RegisterCodes == {"REGISTER_SUCCESS", "ERROR_REGISTER"}
Reply_ == [rc : ReplyCodes \ RegisterCodes, call : Calls] \cup [rc : RegisterCodes, call : {NoCall}]

\* Every variable keeps its type: in particular every command for a call is
\* about one, never about the nil connection that disconnect leaves behind.
TypeOK ==
    /\ deviceState \in {"Offline", "Ready", "Busy"}
    /\ currentConnection \in Calls \cup {NoCall}
    /\ connectionDelegate \in Calls \cup {NoCall}
    /\ held \subseteq Calls
    /\ state \in [Calls -> ConnStates]
    /\ incoming \in [Calls -> BOOLEAN]
    /\ cancelPending \in [Calls -> BOOLEAN]
    /\ permission \in Permissions
    /\ prompting \in BOOLEAN
    /\ activeCall \in Calls \cup {NoCall}
    /\ media \in Calls \cup {NoCall}
    /\ isInitiator \in BOOLEAN
    /\ mediaStage \in [Calls -> MediaStages]
    /\ commands \in Seq(Command_)
    /\ replies \in Seq(Reply_)
    /\ ops \in Seq(Calls)
    /\ callstate \in [Calls -> CallStates]
    /\ sip \in [Calls -> SipStates]
    /\ cancelSent \in [Calls -> BOOLEAN]
    /\ rings \in [Calls -> Nat]
    /\ challenged \subseteq Calls
    /\ registrations \in Nat
    /\ refused \in BOOLEAN

\* A busy device is busy with a connection that has not ended: whatever ends
\* a connection (the App, a reply meant for another call, a media error, a
\* failed registration) also frees the device.
BusyHasLiveCall ==
    deviceState = "Busy" => currentConnection # NoCall /\ Live(currentConnection)

\* Replies and media events reach the device's current connection whenever
\* there is one: the two references, kept by different objects, agree.
DelegateIsCurrent ==
    currentConnection # NoCall => connectionDelegate = currentConnection

\* A call hung up before it rang never comes back to life in the App, however
\* late its 180 or its ICE connection is.
HungUpStaysDown == \A c \in Calls : cancelPending[c] => state[c] = "Disconnected"

\* What the three above rest on (CallControl_proofs).  A call is announced
\* once, before the App knows of it; every connection the App or SipManager
\* can reach has been made; and once a call was accepted, asked a permission
\* for or given media, activeCallParams are about a call.
Announces(i, c) == replies[i].rc = "INCOMING_CALL" /\ replies[i].call = c

AnnouncedInv ==
    \A i \in DOMAIN replies, c \in Calls :
        Announces(i, c) =>
            /\ state[c] = "unborn" /\ sip[c] # "idle"
            /\ \A j \in DOMAIN replies : Announces(j, c) => i = j

MadeInv ==
    \A c \in Calls : c \in held \/ c = connectionDelegate => state[c] # "unborn"

ActiveInv ==
    prompting \/ media # NoCall \/ (\E c \in Calls : incoming[c]) => activeCall # NoCall

\* A call SIP has done with, or not seen yet.
SipEnded(c) == sip[c] \in {"idle", "down", "rejected", "vanished"}

\* The operations are exactly the calls in progress, each once, and each has
\* the callstate the finders of ssc_oper.mm look for; one that was challenged
\* has none until it is answered.
OpsTrackCalls ==
    /\ \A i, j \in DOMAIN ops : ops[i] = ops[j] => i = j
    /\ \A c \in Calls :
         /\ (\E i \in DOMAIN ops : ops[i] = c) <=> ~SipEnded(c)
         /\ callstate[c] = CASE sip[c] \in {"calling", "ringing"} /\ c \notin challenged -> "sent"
                             [] sip[c] = "received" -> "recv"
                             [] sip[c] = "answered" -> "complete"
                             [] sip[c] = "up" -> "active"
                             [] OTHER -> "none"

\* The cleaning of old handles for a new INVITE, and a password refused, end a
\* call without a word to the App.  That happens to a call on its way out and
\* to one whose INVITE was challenged, never to an incoming call, to one that
\* is up or to one that was not challenged.
OnlyChallengedCallsVanish ==
    [][\A c \in Calls :
          sip[c] # "vanished" /\ sip'[c] = "vanished" =>
              \/ sip[c] \in {"byeing", "waiting"}
              \/ sip[c] \in {"calling", "ringing"} /\ c \in challenged]_vars

\* "considered RCConnectionStateConnecting until it is either accepted [...]
\* or rejected" (RCConnection.h): no incoming call is answered, by a 200 with
\* our SDP, before the App has accepted it.
AnswerNeedsAccept ==
    \A c \in Calls : incoming[c] /\ sip[c] \in {"answered", "up"} => state[c] # "Connecting"

\* What does revive an ended connection (handlers of RCConnection that look at
\* cancelPending and not at the state) is a 180 that was on its way when it
\* ended, or ICE connecting a media that INCOMING_CANCELLED left open: no
\* answer, permission, other reply or operation of the App brings one back,
\* and nothing brings back a call that was hung up before it rang.
OnlyLateEventsRevive ==
    [][\A c \in Calls :
          state[c] = "Disconnected" /\ state'[c] # "Disconnected" =>
              /\ c = Delegate /\ ~cancelPending[c]
              /\ \/ replies # <<>> /\ Reply.rc = "OUTGOING_RINGING"
                 \/ media # NoCall /\ mediaStage[media] # "ice" /\ mediaStage'[media] = "ice"]_vars

\* Hanging up reaches the peer.  An unanswered call that the App ended is
\* ended in SIP too, unless the peer's answer crosses the CANCEL; a BYE that
\* was piped ends the call, answered or not yet.
HangUpReachesPeer ==
    \A c \in Calls :
        /\ (state[c] = "Disconnected" /\ (incoming[c] \/ sip[c] # "up"))
              ~> (SipEnded(c) \/ (~incoming[c] /\ sip[c] = "up"))
        /\ (\E i \in DOMAIN commands : commands[i] = [cmd |-> "b", call |-> c])
              ~> SipEnded(c)

\* "Let's mark for cancelation once we get that response" (disconnect): a call
\* hung up while pending is cancelled once it rings.
PendingCancelSent ==
    \A c \in Calls :
        (cancelPending[c] /\ sip[c] = "ringing") ~> (cancelSent[c] \/ sip[c] # "ringing")

\* "if the cancel when we got the ringing didn't make it on time [...] we need
\* to terminate the call with a BYE" (outgoing established): no hung-up call
\* stays up, even when the answer crosses the CANCEL.
HungUpCallEnds == \A c \in Calls : (state[c] = "Disconnected") ~> SipEnded(c)

\* "Error connecting: connection already ongoing" (connect): a connect is only
\* refused for that reason while a connection is.
RefusedOnlyWhenOngoing == ~refused

=============================================================================
