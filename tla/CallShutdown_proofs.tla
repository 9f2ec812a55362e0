-------------------------- MODULE CallShutdown_proofs --------------------------
(***************************************************************************)
(* Proofs about CallShutdown for any number of calls and any bounds: what  *)
(* CallControl promises survives the end of the Sofia stack at any moment, *)
(* and a stack that has ended leaves no call behind.                       *)
(*                                                                         *)
(* A step of CallShutdown is a step of CallControl, or it only writes or   *)
(* takes a command to the stack, or it is the response to nua_shutdown().  *)
(* CallControl's invariant is kept by all three; with it, ending the calls *)
(* of the operation list ends every call.                                  *)
(***************************************************************************)
EXTENDS CallShutdown, CallControl_proofs

\* The types of the stack's own variables, and what a restart is marked on.
LoopInv ==
    /\ loop \in {"run", "shutdown", "ended"}
    /\ restart \in BOOLEAN /\ unlistening \in BOOLEAN
    /\ severed \subseteq Calls /\ requests \in 0..MaxRequests
    /\ restart => loop = "shutdown"

\* A loop that has ended has no call in progress.
EndedInv == loop = "ended" => \A c \in Calls : SipEnded(c)

ShutdownInv == CallInv /\ LoopInv /\ EndedInv
-----------------------------------------------------------------------------
(* CallControl's invariant *)

\* A step of the main thread, but for the device and a command to the stack,
\* or pipes that are new.
LEMMA StackWrites ==
    ASSUME CallInv, deviceState' \in {"Offline", "Ready", deviceState},
           commands' = <<>> \/ commands' = commands
              \/ \E cmd \in StackCommands : PipeToSofia(cmd, NoCall),
           UNCHANGED <<currentConnection, connectionDelegate, held, connVars, mediaVars, replies,
                       sofiaVars, boundVars>>
    PROVE  CallInv'
<1> USE DEF CallInv, IInv
<1>1. commands' \in Seq(Command_) /\ NoNewInvite
  <2>1. CASE commands' = <<>>
    BY <2>1 DEF NoNewInvite
  <2>2. ASSUME NEW cmd \in StackCommands, PipeToSofia(cmd, NoCall)
        PROVE  commands' \in Seq(Command_) /\ NoNewInvite
    <3>1. [cmd |-> cmd, call |-> NoCall] \in Command_ /\ cmd # "i"
      BY DEF Command_, StackCommands
    <3>2. NoNewInvite
      BY <2>2, <3>1, AppendNoInvite
    <3> QED BY <2>2, <3>1, <3>2 DEF PipeToSofia, PipeTypes
  <2>3. CASE commands' = commands
    BY <2>3, NothingWritten DEF PipeTypes
  <2> QED BY <2>1, <2>2, <2>3
<1>2. MainInv'
  <2> USE DEF MainInv, connVars, mediaVars, boundVars
  <2>1. MainTypes'
    BY DEF MainTypes
  <2>2. BusyHasLiveCall' /\ DelegateIsCurrent' /\ HungUpStaysDown' /\ MadeInv' /\ ActiveInv'
    BY DEF BusyHasLiveCall, DelegateIsCurrent, HungUpStaysDown, MadeInv, ActiveInv, Live
  <2> QED BY <2>1, <2>2
<1>3. IInv'
  BY <1>1, <1>2, MainStep DEF connVars
<1>4. InvitesInv' /\ SetUpInv'
  BY <1>1, QuietStep DEF connVars, mediaVars, sofiaVars
<1>5. OpsInv'
  BY OpsSame DEF sofiaVars
<1> QED BY <1>3, <1>4, <1>5

\* A command to the stack is taken from the pipe.
LEMMA StackTakes ==
    ASSUME CallInv, commands # <<>>, commands' = Tail(commands),
           UNCHANGED <<mainVars, replies, sofiaVars>>
    PROVE  CallInv'
<1> USE DEF CallInv, IInv
<1>1. MainInv' /\ state' = state
  BY MainUntouched DEF mainVars, connVars, boundVars, MainInv, MainTypes
<1>2. commands' \in Seq(Command_)
  BY DEF PipeTypes
<1>3. IInv'
  BY <1>1, <1>2, MainStep DEF mainVars
<1>4. InvitesInv' /\ SetUpInv'
  BY SofiaInvites DEF mainVars, sofiaVars
<1>5. OpsInv'
  BY OpsSame DEF sofiaVars
<1> QED BY <1>3, <1>4, <1>5

\* The response to nua_shutdown(): the calls of the operation list are all
\* calls in progress, so that none is left.
LEMMA ShutdownEnds ==
    ASSUME CallInv, ShutdownResponse
    PROVE  CallInv' /\ ops' = <<>> /\ \A c \in Calls : SipEnded(c)'
<1> USE DEF CallInv, IInv, ShutdownResponse
<1>1. sip \in [Calls -> SipStates] /\ "down" \in SipStates /\ "none" \in CallStates
  BY DEF SofiaTypes, SipStates, CallStates
<1>2. \A c \in Calls : sip'[c] = IF Has(ops, c) THEN "down" ELSE sip[c]
  BY DEF Has
<1>3. ASSUME NEW c \in Calls
      PROVE  sip'[c] \in SipOver /\ (sip'[c] = "idle" <=> sip[c] = "idle")
  BY <1>2, OpsTrack DEF OpsInv, SipOver
<1>4. \A c \in Calls : SipEnded(c)'
  BY <1>3 DEF SipEnded, SipOver
<1>5. OpsInv'
  <2>1. ops' \in Seq(Calls) /\ Distinct(ops') /\ \A c \in Calls : ~Has(ops', c)
    BY DEF Distinct, Has
  <2>2. \A c \in Calls : callstate'[c] = CallstateOf(c, sip'[c], challenged')
    BY <1>3 DEF CallstateOf, SipOver
  <2>3. OpsTrackCalls'
    BY <1>3, <2>1, <2>2 DEF OpsTrackCalls, SipEnded, Distinct, Has, SipOver, CallstateOf
  <2> QED BY <2>1, <2>3 DEF OpsInv
<1>6. MainInv' /\ state' = state
  BY MainUntouched DEF mainVars, connVars, boundVars, MainInv, MainTypes
<1>7. SofiaTypes'
  <2>1. sip' \in [Calls -> SipStates]
    BY <1>1
  <2>2. callstate' \in [Calls -> CallStates]
    BY <1>1
  <2> QED BY <2>1, <2>2 DEF SofiaTypes
<1>8. AnnouncedInv' /\ PipeTypes'
  BY <1>3, <1>6, AnnouncedSame DEF PipeTypes
<1>9. InvitesInv' /\ SetUpInv'
  BY <1>3, SofiaInvites DEF mainVars
<1> QED BY <1>4, <1>5, <1>6, <1>7, <1>8, <1>9
-----------------------------------------------------------------------------
(* The steps of CallShutdown *)

\* Everything but the stack's own steps is a step of CallControl, and leaves
\* the loop alone.
LEMMA CallSteps ==
    ASSUME CallInv, LoopInv, Unlisten \/ AppOrMedia \/ InputCallback \/ NuaEvent
                      \/ (loop # "ended" /\ HandleInput /\ UNCHANGED stackVars)
    PROVE  CallInv' /\ LoopInv' /\ UNCHANGED <<loop, restart, severed>>
<1> USE CallControlAssumption, CallShutdownAssumption
<1>1. CASE Unlisten
  <2>1. deviceState = "Busy" => currentConnection \in Calls
    BY DEF CallInv, IInv, MainInv, MainTypes, BusyHasLiveCall
  <2>2. Next \/ UNCHANGED vars
    <3>1. CASE deviceState = "Busy" /\ Disconnect(currentConnection)
      <4>1. AppStep(currentConnection)
        BY <1>1, <3>1 DEF Unlisten, Request, AppStep
      <4> QED BY <2>1, <3>1, <4>1 DEF Next
    <3>2. CASE UNCHANGED vars
      BY <3>2
    <3> QED BY <1>1, <3>1, <3>2 DEF Unlisten
  <2>3. CallInv'
    BY <2>2, NextCallInv
  <2>4. LoopInv'
    BY <1>1 DEF Unlisten, Request, LoopInv
  <2> QED BY <1>1, <2>3, <2>4 DEF Unlisten
<1>2. CASE AppOrMedia \/ InputCallback \/ NuaEvent
             \/ (loop # "ended" /\ HandleInput /\ UNCHANGED stackVars)
  <2>1. Next
    BY <1>2 DEF AppOrMedia, InputCallback, NuaEvent, Next
  <2>2. UNCHANGED stackVars
    BY <1>2 DEF AppOrMedia, InputCallback, NuaEvent
  <2>3. CallInv'
    BY <2>1, NextCallInv
  <2> QED BY <2>2, <2>3 DEF stackVars, LoopInv
<1> QED BY <1>1, <1>2

\* A loop that has ended handles nothing that brings a call back.
LEMMA EndedStays ==
    ASSUME CallInv, LoopInv, EndedInv,
           Unlisten \/ AppOrMedia \/ InputCallback \/ NuaEvent
             \/ (loop # "ended" /\ HandleInput /\ UNCHANGED stackVars)
    PROVE  EndedInv'
<1>1. UNCHANGED loop
  BY CallSteps
<1>2. CASE NuaEvent \/ (loop # "ended" /\ HandleInput /\ UNCHANGED stackVars)
  BY <1>1, <1>2 DEF NuaEvent, EndedInv
<1>3. CASE Unlisten \/ AppOrMedia \/ InputCallback
  <2>1. Unlisten => sip' = sip
    BY DEF Unlisten, Disconnect, vars, sofiaVars
  <2>2. ASSUME NEW c \in Calls, AppStep(c) PROVE sip' = sip
    BY <2>2 DEF AppStep, ConnectRefused, Connect, ConnectDenied, NewConnection, Accept,
                AcceptDenied, Reject, Disconnect, Release, sofiaVars
  <2>3. ASSUME NEW c \in Calls, MediaStep(c) PROVE sip' = sip
    BY <2>3 DEF MediaStep, TurnComplete, TurnFails, CreateSdp, MediaError, IceConnected, sofiaVars
  <2>4. PromptAnswered \/ HandleSofiaInput => sip' = sip
    BY DEF PromptAnswered, HandleSofiaInput, ReceiveCall, ReceiveRinging, ReceiveAnswer,
           ReceiveIgnored, ReceiveIncomingCancelled, ReceiveRefusal, ReceiveBye,
           ReceiveInviteError, ReceiveRegistration, TakeReply, sofiaVars
  <2>5. sip' = sip
    BY <1>3, <2>1, <2>2, <2>3, <2>4 DEF AppOrMedia, InputCallback
  <2> QED BY <1>1, <2>5 DEF EndedInv, SipEnded
<1> QED BY <1>2, <1>3

\* The stack's own steps.
LEMMA StackSteps ==
    ASSUME ShutdownInv,
           \/ UnlistenQuits \/ NetworkSwitch \/ Listen \/ HandleQuit \/ HandleMark
           \/ ShutdownResponse \/ UNCHANGED <<vars, stackVars>>
    PROVE  ShutdownInv'
<1> USE CallShutdownAssumption DEF ShutdownInv
<1>1. CASE UnlistenQuits \/ NetworkSwitch \/ Listen
  <2>1. /\ deviceState' \in {"Offline", "Ready", deviceState}
        /\ commands' = <<>> \/ \E cmd \in StackCommands : PipeToSofia(cmd, NoCall)
        /\ UNCHANGED <<currentConnection, connectionDelegate, held, connVars, mediaVars, replies,
                       sofiaVars, boundVars>>
    BY <1>1 DEF UnlistenQuits, NetworkSwitch, Listen, StackCommands, mainVars, deviceVars
  <2>2. CallInv'
    BY <2>1, StackWrites
  <2>3. LoopInv'
    <3>1. UNCHANGED <<restart, severed>> /\ unlistening' \in {unlistening, FALSE}
      BY <1>1 DEF UnlistenQuits, NetworkSwitch, Listen
    <3>2. requests' \in 0..MaxRequests
      BY <1>1 DEF LoopInv, UnlistenQuits, NetworkSwitch, Listen, Request
    <3>3. loop' = loop \/ (loop = "ended" /\ loop' = "run")
      BY <1>1 DEF UnlistenQuits, NetworkSwitch, Listen
    <3>4. restart' \in BOOLEAN /\ unlistening' \in BOOLEAN
      BY <3>1 DEF LoopInv
    <3> QED BY <3>1, <3>2, <3>3, <3>4 DEF LoopInv
  <2>4. sip' = sip /\ (loop' = "ended" => loop = "ended")
    BY <1>1 DEF UnlistenQuits, NetworkSwitch, Listen, sofiaVars
  <2>5. EndedInv'
    BY <2>4 DEF EndedInv, SipEnded
  <2> QED BY <2>2, <2>3, <2>5
<1>2. CASE HandleQuit \/ HandleMark
  <2>1. /\ commands # <<>> /\ commands' = Tail(commands) /\ UNCHANGED <<mainVars, replies, sofiaVars>>
        /\ loop' # "ended"
    BY <1>2 DEF HandleQuit, HandleMark
  <2>2. CallInv'
    BY <2>1, StackTakes
  <2>3. restart' \in BOOLEAN
    BY <1>2, Zenon DEF HandleQuit, HandleMark
  <2>4. LoopInv'
    BY <1>2, <2>3 DEF LoopInv, HandleQuit, HandleMark
  <2> QED BY <2>1, <2>2, <2>4 DEF EndedInv
<1>3. CASE ShutdownResponse
  <2>1. CallInv' /\ \A c \in Calls : SipEnded(c)'
    BY <1>3, ShutdownEnds
  <2>2. LoopInv'
    BY <1>3 DEF LoopInv, ShutdownResponse
  <2> QED BY <2>1, <2>2 DEF EndedInv
<1>4. CASE UNCHANGED <<vars, stackVars>>
  <2>1. CallInv'
    BY <1>4, NextCallInv
  <2> QED BY <1>4, <2>1 DEF LoopInv, EndedInv, SipEnded, vars, sofiaVars, stackVars
<1> QED BY <1>1, <1>2, <1>3, <1>4
-----------------------------------------------------------------------------
(* The theorems *)

\* The composed system keeps CallControl's invariant and its own.
THEOREM ShutdownInductive == ShutdownSpec => []ShutdownInv
<1>1. ShutdownInit => ShutdownInv
  <2> SUFFICES ASSUME ShutdownInit PROVE ShutdownInv
    OBVIOUS
  <2>1. CallInv
    BY InitCallInv DEF ShutdownInit
  <2>2. restart \in BOOLEAN /\ unlistening \in BOOLEAN /\ ~restart
    BY DEF ShutdownInit
  <2>3. loop = "run" /\ severed \subseteq Calls /\ requests \in 0..MaxRequests
    BY CallShutdownAssumption DEF ShutdownInit
  <2>4. LoopInv /\ EndedInv
    BY <2>2, <2>3 DEF LoopInv, EndedInv
  <2> QED BY <2>1, <2>4 DEF ShutdownInv
<1>2. ShutdownInv /\ [ShutdownNext]_<<vars, stackVars>> => ShutdownInv'
  <2> SUFFICES ASSUME ShutdownInv, [ShutdownNext]_<<vars, stackVars>> PROVE ShutdownInv'
    OBVIOUS
  <2>1. CASE Unlisten \/ AppOrMedia \/ InputCallback \/ NuaEvent
               \/ (loop # "ended" /\ HandleInput /\ UNCHANGED stackVars)
    BY <2>1, CallSteps, EndedStays DEF ShutdownInv
  <2>2. CASE \/ UnlistenQuits \/ NetworkSwitch \/ Listen \/ HandleQuit \/ HandleMark
             \/ ShutdownResponse \/ UNCHANGED <<vars, stackVars>>
    BY <2>2, StackSteps
  <2> QED BY <2>1, <2>2 DEF ShutdownNext, SofiaInput
<1> QED BY <1>1, <1>2, PTL DEF ShutdownSpec

\* A restart is only marked on a stack that goes down, and a loop that has
\* ended has no operation and no call in progress.
THEOREM StackAlways == ShutdownSpec => []StackOK
<1>1. ShutdownInv => StackOK
  <2> SUFFICES ASSUME ShutdownInv PROVE StackOK
    OBVIOUS
  <2>1. ASSUME loop = "ended" PROVE ops = <<>>
    <3>1. \A c \in Calls : ~Has(ops, c)
      BY <2>1, OpsTrack DEF ShutdownInv, EndedInv, CallInv, OpsInv, SipEnded, SipOver
    <3>2. ops \in Seq(Calls)
      BY DEF ShutdownInv, CallInv, OpsInv
    <3> QED BY <3>1, <3>2 DEF Has
  <2> QED BY <2>1 DEF ShutdownInv, LoopInv, EndedInv, StackOK
<1> QED BY <1>1, ShutdownInductive, PTL

\* What CallControl promises of the device and its connections holds with the
\* stack going down and coming back at any moment, too.
THEOREM CallsSurviveShutdown ==
    ShutdownSpec => [](BusyHasLiveCall /\ DelegateIsCurrent /\ HungUpStaysDown /\ OpsTrackCalls)
<1>1. ShutdownInv => BusyHasLiveCall /\ DelegateIsCurrent /\ HungUpStaysDown /\ OpsTrackCalls
  BY DEF ShutdownInv, CallInv, IInv, MainInv, OpsInv
<1> QED BY <1>1, ShutdownInductive, PTL
================================================================================
