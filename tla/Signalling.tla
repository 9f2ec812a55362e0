------------------------------ MODULE Signalling ------------------------------
(***************************************************************************)
(* The life of the Sofia signalling thread.                                *)
(*                                                                         *)
(* RCDevice (main thread) asks SipManager to start the signalling stack    *)
(* (listen -> eventLoop) and to stop it (unlisten -> shutdown).  Every     *)
(* start dispatches one call of sofsip_loop() on a background queue with   *)
(* its own pair of pipes; the loop creates a Sofia stack, runs it until a  *)
(* "q" or "qr" command has shut it down, and then either leaves or, when   *)
(* restartSignalling is set, creates a new stack inside the same call.     *)
(* _signallingInstances keeps a second loop from being started.            *)
(*                                                                         *)
(* The main thread and the loops share: the pipes, _signallingInstances    *)
(* (under a lock), and, between loops, the globals restartSignalling and   *)
(* stackIsShuttingDown.  Calls are not part of this module.                *)
(***************************************************************************)
EXTENDS Integers, Sequences, FiniteSets

CONSTANTS
    Loops,         \* the calls of sofsip_loop() that can ever be dispatched
    NoLoop,        \* write_pipe/read_pipe before the first pipe()
    Registrar,     \* TRUE: params name a registrar; FALSE: registrar-less mode
    CertDirMissing,\* TRUE: signaling-secure is set without signaling-certificate-dir
    CreateMayFail, \* FALSE: only stacks that start are looked at
    MaxRequests    \* bound: App requests and network changes in a behaviour

ASSUME SignallingAssumption ==
    /\ NoLoop \notin Loops
    /\ Registrar \in BOOLEAN
    /\ CertDirMissing \in BOOLEAN
    /\ CreateMayFail \in BOOLEAN
    /\ MaxRequests \in Nat

VARIABLES
    deviceState,    \* RCDevice.state without Busy (calls are in CallControl)
    reachability,   \* RCDevice.reachabilityStatus, the cached network status
    network,        \* what currentReachabilityStatus would return now
    networkNotice,  \* a kReachabilityChangedNotification is queued on the main thread
    mainPc,         \* "mark": eventLoop has left the lock and will pipe "mr"
    instances,      \* SipManager._signallingInstances
    current,        \* the loop whose pipes write_pipe and read_pipe hold
    pc,             \* where each loop is
    commands,       \* commands in each loop's write_pipe
    replies,        \* replies in each loop's read_pipe
    nuaShutdown,    \* nua_shutdown() was called on the loop's stack
    registrations,  \* REGISTER requests of the loop's stack without a final response
    restartSignalling,
    stackIsShuttingDown,
    wanted,         \* history: the App's latest request
    requests        \* bound: requests made so far

vars == <<deviceState, reachability, network, networkNotice, mainPc, instances,
          current, pc, commands, replies, nuaShutdown, registrations,
          restartSignalling, stackIsShuttingDown, wanted, requests>>

DeviceStates == {"Offline", "Ready"}
NetworkStatus == {"NotReachable", "WiFi", "WWAN"}
Commands == {"q", "qr", "mr", "r"}
Replies == {"SIGNALLING_INITIALIZED", "ERROR_INITIALIZING_SIGNALING",
            "REGISTER_SUCCESS", "ERROR_REGISTER"}

(***************************************************************************)
(* A loop is "unborn" until eventLoop dispatches it; "create" is the top   *)
(* of sofsip_loop's while; "run" is su_root_run(); "left" is after the     *)
(* run loop was broken, before restartSignalling is tested; "returned" is  *)
(* after sofsip_loop(), before the instance count is given back.           *)
(***************************************************************************)
LoopPc == {"unborn", "create", "run", "left", "returned", "done"}

Alive(l) == pc[l] \notin {"unborn", "done"}
-----------------------------------------------------------------------------
(* Helpers *)

\* pipeToSofia: the write goes to the write_pipe of the loop started last,
\* whether or not that loop still reads it.
PipeToSofia(cmd) ==
    IF current = NoLoop
    THEN UNCHANGED commands
    ELSE commands' = [commands EXCEPT ![current] = Append(@, cmd)]

\* SofiaReply::Send on the loop's output_fd.
SendReply(l, reply) ==
    replies' = [replies EXCEPT ![l] = Append(@, reply)]

\* One more request of the App or change of the network, within the bound.
Request ==
    /\ mainPc = "idle"
    /\ requests < MaxRequests
    /\ requests' = requests + 1

\* The part of [SipManager eventLoop] that starts a loop: fresh pipes and a
\* dispatched sofsip_loop().
Dispatch(l) ==
    /\ pc[l] = "unborn"
    /\ pc' = [pc EXCEPT ![l] = "create"]
    /\ current' = l
-----------------------------------------------------------------------------
(* The App and RCDevice: main thread *)

\* [RCDevice initWithParams:delegate:]: the device is online at once when it
\* needs no registration, and the first loop is dispatched.
InitReachable(l) ==
    /\ network \in NetworkStatus \ {"NotReachable"}
    /\ deviceState = IF Registrar \/ CertDirMissing THEN "Offline" ELSE "Ready"
    /\ instances = 1
    /\ current = IF CertDirMissing THEN NoLoop ELSE l
    /\ pc = [m \in Loops |-> IF m = l /\ ~CertDirMissing THEN "create" ELSE "unborn"]

InitUnreachable ==
    /\ network = "NotReachable"
    /\ deviceState = "Offline"
    /\ instances = 0
    /\ current = NoLoop
    /\ pc = [m \in Loops |-> "unborn"]

Init ==
    /\ \/ \E l \in Loops : InitReachable(l)
       \/ InitUnreachable
    /\ reachability = network
    /\ networkNotice = FALSE
    /\ mainPc = "idle"
    /\ commands = [l \in Loops |-> <<>>]
    /\ replies = [l \in Loops |-> <<>>]
    /\ nuaShutdown = [l \in Loops |-> FALSE]
    /\ registrations = [l \in Loops |-> 0]
    /\ restartSignalling = FALSE
    /\ stackIsShuttingDown = FALSE
    /\ wanted = "listen"
    /\ requests = 0

\* What [RCDevice listen] does around eventLoop while offline and reachable.
\* The registrar-less device is Ready even when eventLoop has just failed.
ListenState ==
    /\ deviceState' = IF Registrar THEN "Offline" ELSE "Ready"
    /\ reachability' = network

\* Mutant of ListenStarts: a loop is dispatched whatever the count.
ListenStartsAnyway(l) ==
    /\ deviceState = "Offline" /\ reachability # "NotReachable"
    /\ instances' = instances + 1
    /\ IF CertDirMissing THEN UNCHANGED <<pc, current>> ELSE Dispatch(l)
    /\ ListenState
    /\ UNCHANGED <<mainPc, commands>>

\* Mutant of ListenStarts: the new loop is not counted.
ListenStartsUncounted(l) ==
    /\ deviceState = "Offline" /\ reachability # "NotReachable"
    /\ instances = 0
    /\ IF CertDirMissing THEN UNCHANGED <<pc, current>> ELSE Dispatch(l)
    /\ ListenState
    /\ UNCHANGED <<mainPc, commands, instances>>

\* listen while Offline, no instance counted: a new loop is dispatched.
ListenStarts(l) ==
    /\ deviceState = "Offline" /\ reachability # "NotReachable"
    /\ instances = 0
    /\ instances' = instances + 1
    /\ IF CertDirMissing THEN UNCHANGED <<pc, current>> ELSE Dispatch(l)
    /\ ListenState
    /\ UNCHANGED <<mainPc, commands>>

\* listen while Offline, an instance counted: eventLoop leaves the lock and
\* will ask that instance to restart.
ListenBails ==
    /\ deviceState = "Offline" /\ reachability # "NotReachable"
    /\ instances > 0
    /\ mainPc' = "mark"
    /\ ListenState
    /\ UNCHANGED <<instances, pc, current, commands>>

\* listen while Offline and unreachable: an error for the App, nothing else.
ListenUnreachable ==
    /\ deviceState = "Offline" /\ reachability = "NotReachable"
    /\ UNCHANGED <<deviceState, reachability, mainPc, instances, pc, current, commands>>

\* listen while Ready: registers again through the pipe.
ListenAgain ==
    /\ deviceState = "Ready"
    /\ IF Registrar THEN PipeToSofia("r") ELSE UNCHANGED commands
    /\ UNCHANGED <<deviceState, reachability, mainPc, instances, pc, current>>

Listen ==
    /\ Request
    /\ wanted' = "listen"
    /\ \/ \E l \in Loops : ListenStarts(l)
       \/ ListenBails
       \/ ListenUnreachable
       \/ ListenAgain
    /\ UNCHANGED <<network, networkNotice, replies, nuaShutdown, registrations,
                   restartSignalling, stackIsShuttingDown>>

\* The rest of eventLoop's bail-out: markForRestartIfShuttingDown, outside
\* the lock.
MarkForRestart ==
    /\ mainPc = "mark"
    /\ mainPc' = "idle"
    /\ PipeToSofia("mr")
    /\ UNCHANGED <<deviceState, reachability, network, networkNotice, instances,
                   current, pc, replies, nuaShutdown, registrations,
                   restartSignalling, stackIsShuttingDown, wanted, requests>>

\* [RCDevice unlisten]: offline at once, "q" even when already offline.
UnlistenState ==
    /\ deviceState' = "Offline"
    /\ PipeToSofia("q")

Unlisten ==
    /\ Request
    /\ wanted' = "unlisten"
    /\ UnlistenState
    /\ UNCHANGED <<reachability, network, networkNotice, mainPc, instances, current,
                   pc, replies, nuaShutdown, registrations, restartSignalling,
                   stackIsShuttingDown>>

\* [RCDevice updateParams:] with a registrar: registers through the pipe, and
\* the device is offline until that is answered.  (A "u" may go before it; the
\* answer to an un-REGISTER is not reported.)
UpdateParams ==
    /\ Request
    /\ Registrar /\ reachability # "NotReachable"
    /\ deviceState' = "Offline"
    /\ PipeToSofia("r")
    /\ UNCHANGED <<reachability, network, networkNotice, mainPc, instances, current,
                   pc, replies, nuaShutdown, registrations, restartSignalling,
                   stackIsShuttingDown, wanted>>

\* The operating system changes the network and queues the notification.
NetworkChange ==
    /\ requests < MaxRequests
    /\ requests' = requests + 1
    /\ network' \in NetworkStatus \ {network}
    /\ networkNotice' = TRUE
    /\ UNCHANGED <<deviceState, reachability, mainPc, instances, current, pc, commands,
                   replies, nuaShutdown, registrations, restartSignalling,
                   stackIsShuttingDown, wanted>>

\* [RCDevice checkNetworkStatus:]: connectivity lost means unlisten, a switch
\* between WiFi and mobile restarts the stack.
CheckNetworkStatus ==
    /\ networkNotice /\ mainPc = "idle"
    /\ networkNotice' = FALSE
    /\ reachability' = network
    /\ \/ /\ network = "NotReachable"
          /\ deviceState # "Offline" \/ reachability # "NotReachable"
          /\ wanted' = "unlisten"
          /\ UnlistenState
       \/ /\ {network, reachability} = {"WiFi", "WWAN"}
          /\ PipeToSofia("qr")
          /\ UNCHANGED <<deviceState, wanted>>
       \/ /\ network = "NotReachable" => deviceState = "Offline" /\ reachability = "NotReachable"
          /\ {network, reachability} # {"WiFi", "WWAN"}
          /\ UNCHANGED <<deviceState, commands, wanted>>
    /\ UNCHANGED <<network, mainPc, instances, current, pc, replies, nuaShutdown,
                   registrations, restartSignalling, stackIsShuttingDown, requests>>

\* inputCallback and handleSofiaInput for the replies that are not about a
\* call, with the RCDevice delegate method each one calls.
HandleSofiaInput(l) ==
    /\ mainPc = "idle"
    /\ replies[l] # <<>>
    /\ replies' = [replies EXCEPT ![l] = Tail(@)]
    /\ deviceState' = CASE Head(replies[l]) = "REGISTER_SUCCESS" -> "Ready"
                        [] Head(replies[l]) \in {"ERROR_REGISTER", "ERROR_INITIALIZING_SIGNALING"}
                             -> "Offline"
                        [] OTHER -> deviceState
    /\ UNCHANGED <<reachability, network, networkNotice, mainPc, instances, current, pc,
                   commands, nuaShutdown, registrations, restartSignalling,
                   stackIsShuttingDown, wanted, requests>>
-----------------------------------------------------------------------------
(* sofsip_loop(): the background thread *)

\* ssc_create succeeds: the stack runs, and registers when there is a registrar.
SscCreate(l) ==
    /\ pc[l] = "create"
    /\ network # "NotReachable"
    /\ pc' = [pc EXCEPT ![l] = "run"]
    /\ stackIsShuttingDown' = FALSE
    /\ registrations' = [registrations EXCEPT ![l] = IF Registrar THEN 1 ELSE 0]
    /\ SendReply(l, "SIGNALLING_INITIALIZED")
    /\ UNCHANGED <<deviceState, reachability, network, networkNotice, mainPc, instances,
                   current, commands, nuaShutdown, restartSignalling, wanted, requests>>

\* ssc_create fails: no interface to bind to, which is reported, or
\* nua_create() returned NULL, which is not.
SscCreateFails(l) ==
    /\ CreateMayFail
    /\ pc[l] = "create"
    /\ pc' = [pc EXCEPT ![l] = "left"]
    /\ stackIsShuttingDown' = FALSE
    /\ IF network = "NotReachable"
       THEN SendReply(l, "ERROR_INITIALIZING_SIGNALING")
       ELSE UNCHANGED replies
    /\ UNCHANGED <<deviceState, reachability, network, networkNotice, mainPc, instances,
                   current, commands, nuaShutdown, registrations, restartSignalling,
                   wanted, requests>>

\* Mutant of HandleQuit: only "qr" shuts the stack down.
HandleQuitWithoutShutdown(l, cmd) ==
    /\ cmd \in {"q", "qr"}
    /\ nuaShutdown' = [nuaShutdown EXCEPT ![l] = @ \/ cmd = "qr"]
    /\ stackIsShuttingDown' = TRUE
    /\ restartSignalling' = (restartSignalling \/ cmd = "qr")
    /\ UNCHANGED registrations

\* Mutant of HandleMarkForRestart: marks a stack that is not shutting down.
HandleMarkAlways(l, cmd) ==
    /\ cmd = "mr"
    /\ restartSignalling' = TRUE
    /\ stackIsShuttingDown' = FALSE
    /\ UNCHANGED <<nuaShutdown, registrations>>

\* sofsip_handle_input_cb for "q", "qr", "mr" and "r".
HandleQuit(l, cmd) ==
    /\ cmd \in {"q", "qr"}
    /\ nuaShutdown' = [nuaShutdown EXCEPT ![l] = TRUE]
    /\ stackIsShuttingDown' = TRUE
    /\ restartSignalling' = (restartSignalling \/ cmd = "qr")
    /\ UNCHANGED registrations

HandleMarkForRestart(l, cmd) ==
    /\ cmd = "mr"
    /\ restartSignalling' = (restartSignalling \/ stackIsShuttingDown)
    /\ stackIsShuttingDown' = FALSE
    /\ UNCHANGED <<nuaShutdown, registrations>>

HandleRegister(l, cmd) ==
    /\ cmd = "r"
    /\ registrations' = [registrations EXCEPT ![l] = @ + 1]
    /\ UNCHANGED <<nuaShutdown, stackIsShuttingDown, restartSignalling>>

HandleInput(l) ==
    /\ pc[l] = "run"
    /\ commands[l] # <<>>
    /\ commands' = [commands EXCEPT ![l] = Tail(@)]
    /\ \/ HandleQuit(l, Head(commands[l]))
       \/ HandleMarkForRestart(l, Head(commands[l]))
       \/ HandleRegister(l, Head(commands[l]))
    /\ UNCHANGED <<deviceState, reachability, network, networkNotice, mainPc, instances,
                   current, pc, replies, wanted, requests>>

\* ssc_r_register with a final response.  The registration a stack is
\* shutting down with may still be answered before the run loop is broken.
RegisterResponse(l) ==
    /\ pc[l] = "run"
    /\ registrations[l] > 0
    /\ registrations' = [registrations EXCEPT ![l] = @ - 1]
    /\ \E reply \in {"REGISTER_SUCCESS", "ERROR_REGISTER"} : SendReply(l, reply)
    /\ UNCHANGED <<deviceState, reachability, network, networkNotice, mainPc, instances,
                   current, pc, commands, nuaShutdown, restartSignalling,
                   stackIsShuttingDown, wanted, requests>>

\* ssc_r_shutdown with status 100: the run loop is broken and the stack is
\* destroyed, whatever is still in the pipe.
ShutdownResponse(l) ==
    /\ pc[l] = "run"
    /\ nuaShutdown[l]
    /\ pc' = [pc EXCEPT ![l] = "left"]
    /\ nuaShutdown' = [nuaShutdown EXCEPT ![l] = FALSE]
    /\ registrations' = [registrations EXCEPT ![l] = 0]
    /\ UNCHANGED <<deviceState, reachability, network, networkNotice, mainPc, instances,
                   current, commands, replies, restartSignalling, stackIsShuttingDown,
                   wanted, requests>>

\* Mutant of LoopEnd: restartSignalling is reset before it is tested.
LoopEndForgets(l) ==
    /\ pc[l] = "left"
    /\ restartSignalling' = FALSE
    /\ pc' = [pc EXCEPT ![l] = "returned"]
    /\ UNCHANGED <<deviceState, reachability, network, networkNotice, mainPc, instances,
                   current, commands, replies, nuaShutdown, registrations,
                   stackIsShuttingDown, wanted, requests>>

\* Mutant of LoopEnd: the instance is given back although the loop goes on.
LoopEndGivesBack(l) ==
    /\ pc[l] = "left"
    /\ restartSignalling' = FALSE
    /\ pc' = [pc EXCEPT ![l] = IF restartSignalling THEN "create" ELSE "returned"]
    /\ instances' = IF restartSignalling THEN instances - 1 ELSE instances
    /\ UNCHANGED <<deviceState, reachability, network, networkNotice, mainPc, current,
                   commands, replies, nuaShutdown, registrations, stackIsShuttingDown,
                   wanted, requests>>

\* The end of sofsip_loop's while: once more round, or out.
LoopEnd(l) ==
    /\ pc[l] = "left"
    /\ restartSignalling' = FALSE
    /\ pc' = [pc EXCEPT ![l] = IF restartSignalling THEN "create" ELSE "returned"]
    /\ UNCHANGED <<deviceState, reachability, network, networkNotice, mainPc, instances,
                   current, commands, replies, nuaShutdown, registrations,
                   stackIsShuttingDown, wanted, requests>>

\* Mutant of GiveBackInstance: the count is not decremented.
KeepInstance(l) ==
    /\ pc[l] = "returned"
    /\ pc' = [pc EXCEPT ![l] = "done"]
    /\ UNCHANGED <<deviceState, reachability, network, networkNotice, mainPc, instances,
                   current, commands, replies, nuaShutdown, registrations,
                   restartSignalling, stackIsShuttingDown, wanted, requests>>

\* The dispatched block gives the instance back, under the lock.
GiveBackInstance(l) ==
    /\ pc[l] = "returned"
    /\ pc' = [pc EXCEPT ![l] = "done"]
    /\ instances' = instances - 1
    /\ UNCHANGED <<deviceState, reachability, network, networkNotice, mainPc, current,
                   commands, replies, nuaShutdown, registrations, restartSignalling,
                   stackIsShuttingDown, wanted, requests>>
-----------------------------------------------------------------------------
App == Listen \/ Unlisten \/ UpdateParams \/ NetworkChange

Main == \/ MarkForRestart
        \/ CheckNetworkStatus
        \/ \E l \in Loops : HandleSofiaInput(l)

Sofia(l) == \/ SscCreate(l)
            \/ SscCreateFails(l)
            \/ HandleInput(l)
            \/ RegisterResponse(l)
            \/ ShutdownResponse(l)
            \/ LoopEnd(l)
            \/ GiveBackInstance(l)

Next == App \/ Main \/ \E l \in Loops : Sofia(l)

Spec == Init /\ [][Next]_vars

(***************************************************************************)
(* The run loops of both threads keep running: everything that is queued   *)
(* for the main thread is handled, a loop reads its pipe, gets the 100     *)
(* response that "always arrives" to nua_shutdown() and runs on to its     *)
(* end.  Nothing makes the App ask, the network change or a registrar      *)
(* answer.                                                                 *)
(***************************************************************************)
Fairness ==
    /\ WF_vars(MarkForRestart)
    /\ WF_vars(CheckNetworkStatus)
    /\ \A l \in Loops :
         /\ WF_vars(HandleSofiaInput(l))
         /\ WF_vars(SscCreate(l) \/ SscCreateFails(l))
         /\ WF_vars(HandleInput(l))
         /\ WF_vars(ShutdownResponse(l))
         /\ WF_vars(LoopEnd(l))
         /\ WF_vars(GiveBackInstance(l))

FairSpec == Spec /\ Fairness
-----------------------------------------------------------------------------
(* Properties *)

\* Every variable keeps its type: in particular the instance count never goes
\* negative, however the dispatched blocks and eventLoop share it.
TypeOK ==
    /\ deviceState \in DeviceStates
    /\ reachability \in NetworkStatus
    /\ network \in NetworkStatus
    /\ networkNotice \in BOOLEAN
    /\ mainPc \in {"idle", "mark"}
    /\ instances \in Nat
    /\ current \in Loops \cup {NoLoop}
    /\ pc \in [Loops -> LoopPc]
    /\ commands \in [Loops -> Seq(Commands)]
    /\ replies \in [Loops -> Seq(Replies)]
    /\ nuaShutdown \in [Loops -> BOOLEAN]
    /\ registrations \in [Loops -> Nat]
    /\ restartSignalling \in BOOLEAN
    /\ stackIsShuttingDown \in BOOLEAN
    /\ wanted \in {"listen", "unlisten"}
    /\ requests \in Nat

\* Two Sofia stacks never exist at once, however listen, unlisten, network
\* changes and the slow end of an old loop interleave: sofsip_loop() keeps its
\* state in globals (global_cli_p, conf, restartSignalling).
OneStack == \A l, m \in Loops : Alive(l) /\ Alive(m) => l = m

\* The instance count that makes eventLoop bail out ("another instance already
\* running") is never positive without a loop that is still alive.
CountedMeansRunning == instances > 0 => \E l \in Loops : Alive(l)

\* restartSignalling is only ever set while a stack is on its way down, so the
\* flag is consumed by the loop it was meant for and never by a later one.
RestartIsBacked ==
    restartSignalling =>
        \E l \in Loops : pc[l] = "left" \/ (pc[l] = "run" /\ nuaShutdown[l])

\* The inductive invariant behind the four above.  The count is exact (a
\* configuration without its certificate directory counts an instance and
\* never dispatches a loop), and stackIsShuttingDown never outlives the
\* nua_shutdown() of the running stack.
InstanceInv ==
    /\ instances \in {0, 1}
    /\ (\E l \in Loops : Alive(l)) => instances = 1
    /\ (instances = 1 /\ ~CertDirMissing) => \E l \in Loops : Alive(l)

ShutdownInv ==
    \A l \in Loops : pc[l] = "run" /\ stackIsShuttingDown => nuaShutdown[l]

IInv == TypeOK /\ OneStack /\ InstanceInv /\ RestartIsBacked /\ ShutdownInv

\* What the loops promise together: one owner of the Sofia globals at a time,
\* and no loop comes back once it has returned.
Owner == INSTANCE SingleStack WITH
    owners <- {l \in Loops : Alive(l)},
    used <- {l \in Loops : pc[l] # "unborn"}

\* Signalling implements SingleStack.
ImplementsSingleStack == Owner!Spec

\* A restart that was marked, by "qr" or by "mr", does create a stack again.
RestartHonoured == restartSignalling ~> \E l \in Loops : pc[l] = "create"

\* A "q" that no restart request precedes or follows ends the loop: nothing
\* but a restart keeps Sofia alive after unlisten.
RestartAsked(l) ==
    restartSignalling \/ \E i \in DOMAIN commands[l] : commands[l][i] \in {"qr", "mr"}

QuitEndsLoop ==
    \A l \in Loops :
        (/\ pc[l] = "run"
         /\ \E i \in DOMAIN commands[l] : commands[l][i] = "q"
         /\ ~RestartAsked(l)) ~> (~Alive(l) \/ RestartAsked(l))

\* "if a new stack is requested we mark it so that it is restarted after the
\* previous stack is shutdown" (the comment on stackIsShuttingDown): a listen
\* that finds an instance counted gets a stack, unless the App leaves again.
RequestedStackIsRestarted ==
    (mainPc = "mark") ~>
        \/ wanted = "unlisten"
        \/ \E l \in Loops : pc[l] \in {"create", "run"} /\ ~nuaShutdown[l]

\* "we want to make sure Sofia stops on unlisten()" (unlisten): after unlisten
\* every loop ends, unless the App listens again.
UnlistenStopsSofia ==
    (wanted = "unlisten") ~> (wanted = "listen" \/ \A l \in Loops : ~Alive(l))

=============================================================================
