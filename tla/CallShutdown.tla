----------------------------- MODULE CallShutdown -----------------------------
(***************************************************************************)
(* CallControl composed with the end of the Sofia stack: unlisten, loss of *)
(* the network and a switch between WiFi and mobile while calls are in     *)
(* progress.                                                               *)
(*                                                                         *)
(* nua_shutdown() ends every call at its peer; the run loop is broken at   *)
(* the first response to it, so no callback tells the App.  The life of    *)
(* the loop is that of Signalling, reduced to one loop and without         *)
(* failures to start.                                                      *)
(***************************************************************************)
EXTENDS CallControl

CONSTANTS
    Registrar,     \* TRUE: Ready needs a REGISTER that succeeds
    MaxRequests    \* bound: requests to listen or unlisten, and network switches

ASSUME CallShutdownAssumption == Registrar \in BOOLEAN /\ MaxRequests \in Nat

VARIABLES
    loop,          \* "run", "shutdown": nua_shutdown() was called, "ended"
    restart,       \* restartSignalling
    unlistening,   \* the main thread is inside unlisten
    severed,       \* history: calls in progress when the run loop was broken
    requests       \* bound: requests and switches so far

stackVars == <<loop, restart, unlistening, severed, requests>>

ShutdownInit ==
    /\ Init
    /\ loop = "run" /\ restart = FALSE /\ unlistening = FALSE
    /\ severed = {} /\ requests = 0

Request ==
    /\ ~unlistening /\ requests < MaxRequests /\ Len(commands) < MaxQueue
    /\ requests' = requests + 1
-----------------------------------------------------------------------------
(* Main thread *)

\* [RCDevice unlisten], by the App or by checkNetworkStatus when connectivity
\* is lost: a busy device hangs up first.
Unlisten ==
    /\ Request
    /\ unlistening' = TRUE
    /\ \/ deviceState = "Busy" /\ Disconnect(currentConnection)
       \/ deviceState # "Busy" /\ UNCHANGED vars
    /\ UNCHANGED <<loop, restart, severed>>

\* Mutant of UnlistenQuits: nothing is shut down when the device is offline.
UnlistenQuitsOnline ==
    /\ unlistening
    /\ unlistening' = FALSE
    /\ deviceState' = "Offline"
    /\ IF deviceState = "Offline" THEN UNCHANGED commands ELSE PipeToSofia("q", NoCall)
    /\ UNCHANGED <<currentConnection, connectionDelegate, held, connVars, mediaVars, replies,
                   sofiaVars, boundVars, loop, restart, severed, requests>>

\* The rest of unlisten: offline, and "q" even when it was offline before.
UnlistenQuits ==
    /\ unlistening
    /\ unlistening' = FALSE
    /\ deviceState' = "Offline"
    /\ PipeToSofia("q", NoCall)
    /\ UNCHANGED <<currentConnection, connectionDelegate, held, connVars, mediaVars, replies,
                   sofiaVars, boundVars, loop, restart, severed, requests>>

\* checkNetworkStatus, a switch between WiFi and mobile: the device and its
\* connection are left alone.
NetworkSwitch ==
    /\ Request
    /\ PipeToSofia("qr", NoCall)
    /\ UNCHANGED <<mainVars, replies, sofiaVars, loop, restart, unlistening, severed>>

\* [RCDevice listen] of an offline device: a new loop with new pipes when the
\* old one has ended, else "mr" for that one.
Listen ==
    /\ Request /\ deviceState = "Offline"
    /\ deviceState' = IF Registrar THEN "Offline" ELSE "Ready"
    /\ IF loop = "ended"
       THEN commands' = <<>> /\ loop' = "run"
       ELSE PipeToSofia("mr", NoCall) /\ UNCHANGED loop
    /\ UNCHANGED <<currentConnection, connectionDelegate, held, connVars, mediaVars, replies,
                   sofiaVars, boundVars, restart, unlistening, severed>>

\* Everything else on the main thread.
AppOrMedia ==
    /\ ~unlistening
    /\ PromptAnswered \/ \E c \in Calls : AppStep(c) \/ MediaStep(c)
    /\ UNCHANGED stackVars

InputCallback == ~unlistening /\ HandleSofiaInput /\ UNCHANGED stackVars
-----------------------------------------------------------------------------
(* Sofia thread *)

\* sofsip_handle_input_cb for "q" and "qr": ssc_shutdown.
HandleQuit ==
    /\ loop # "ended"
    /\ commands # <<>> /\ Command.cmd \in {"q", "qr"}
    /\ commands' = Tail(commands)
    /\ loop' = "shutdown"
    /\ restart' = (restart \/ Command.cmd = "qr")
    /\ UNCHANGED <<mainVars, replies, sofiaVars, unlistening, severed, requests>>

\* Mutant of HandleMark: a stack that is not shutting down is marked too.
HandleMarkAlways ==
    /\ loop # "ended"
    /\ commands # <<>> /\ Command.cmd = "mr"
    /\ commands' = Tail(commands)
    /\ restart' = TRUE
    /\ UNCHANGED <<mainVars, replies, sofiaVars, loop, unlistening, severed, requests>>

\* "mr": only a stack that is shutting down is restarted.
HandleMark ==
    /\ loop # "ended"
    /\ commands # <<>> /\ Command.cmd = "mr"
    /\ commands' = Tail(commands)
    /\ restart' = (restart \/ loop = "shutdown")
    /\ UNCHANGED <<mainVars, replies, sofiaVars, loop, unlistening, severed, requests>>

SofiaInput ==
    \/ loop # "ended" /\ HandleInput /\ UNCHANGED stackVars
    \/ HandleQuit
    \/ HandleMark

\* NUA reports what it did before the shutdown until its first response is
\* handled.
NuaEvent ==
    /\ loop # "ended"
    /\ Registration \/ \E c \in Calls : NuaStep(c)
    /\ UNCHANGED stackVars

\* nua_stack_shutdown has sent a BYE, CANCEL or 480 for every call;
\* ssc_r_shutdown breaks the run loop, the operations go with their memory
\* pool, and sofsip_loop starts over, on the same pipes, or returns.
ShutdownResponse ==
    /\ loop = "shutdown"
    /\ LET inProgress == {c \in Calls : \E i \in DOMAIN ops : ops[i] = c}
       IN  /\ sip' = [c \in Calls |-> IF c \in inProgress THEN "down" ELSE sip[c]]
           /\ severed' = severed \cup inProgress
    /\ ops' = <<>>
    /\ callstate' = [c \in Calls |-> "none"]
    /\ loop' = IF restart THEN "run" ELSE "ended"
    /\ restart' = FALSE
    /\ UNCHANGED <<mainVars, commands, replies, cancelSent, rings, challenged, unlistening,
                   requests>>
-----------------------------------------------------------------------------
ShutdownNext ==
    \/ Unlisten \/ UnlistenQuits \/ NetworkSwitch \/ Listen
    \/ AppOrMedia \/ InputCallback
    \/ SofiaInput \/ NuaEvent \/ ShutdownResponse

ShutdownSpec == ShutdownInit /\ [][ShutdownNext]_<<vars, stackVars>>

\* CallControl's fairness as long as the loop runs; the response to
\* nua_shutdown() always comes, and unlisten returns.
ShutdownFairSpec ==
    /\ ShutdownSpec
    /\ WF_<<vars, stackVars>>(InputCallback)
    /\ WF_<<vars, stackVars>>(SofiaInput)
    /\ WF_<<vars, stackVars>>(ShutdownResponse)
    /\ WF_<<vars, stackVars>>(UnlistenQuits)
    /\ \A c \in Calls :
         /\ WF_<<vars, stackVars>>(NuaEvent /\ ByeTimer(c))
         /\ WF_<<vars, stackVars>>(NuaEvent /\ InviteTimer(c))
-----------------------------------------------------------------------------
(* Properties *)

\* The stack's variables keep their types; a restart is only marked on a stack
\* that is going down, and a loop that has ended has no call in progress: what
\* listens, quits and switches leave in the pipe never keeps one alive.
StackOK ==
    /\ loop \in {"run", "shutdown", "ended"}
    /\ restart \in BOOLEAN /\ unlistening \in BOOLEAN
    /\ severed \subseteq Calls /\ requests \in 0..MaxRequests
    /\ restart => loop = "shutdown"
    /\ loop = "ended" => ops = <<>> /\ \A c \in Calls : SipEnded(c)

\* unlisten in the middle of a call ends it at the peer, whatever state the
\* call, the device and an earlier shutdown are in ("need to shut down sofia
\* even if we are already offline").
UnlistenEndsCalls == unlistening ~> \A c \in Calls : SipEnded(c)

\* A call that ended in SIP, by the peer, by a failure or by our BYE, is
\* disconnected in the App: unlisten and a restart of the stack take no reply
\* with them, but for the calls that were in progress when it went down.  (An
\* INVITE whose password is refused is not "down": it vanishes.)
EndedCallIsSeen ==
    \A c \in Calls : (sip[c] = "down" /\ c \notin severed) ~> (state[c] = "Disconnected")
=============================================================================
