-------------------------- MODULE CallControl_proofs --------------------------
(***************************************************************************)
(* Proofs about CallControl for any number of calls and any bounds: what   *)
(* the main thread believes about its calls stays consistent, whatever the *)
(* pipes, the media, the prompt and the peers deliver and in which order.  *)
(*                                                                         *)
(* IInv joins the three invariants to the facts they rest on and to the    *)
(* types of all variables but ops: nothing about the operation list is     *)
(* needed for them.  CallInv adds what the Sofia thread's operation list   *)
(* rests on: that no call is ever invited twice.                           *)
(***************************************************************************)
EXTENDS CallControl, SequenceTheorems, NumberInduction, TLAPS

\* The types of the main thread's variables, of the pipes and of the rest.
MainTypes ==
    /\ deviceState \in {"Offline", "Ready", "Busy"}
    /\ currentConnection \in Calls \cup {NoCall}
    /\ connectionDelegate \in Calls \cup {NoCall}
    /\ held \subseteq Calls
    /\ state \in [Calls -> ConnStates]
    /\ incoming \in [Calls -> BOOLEAN]
    /\ cancelPending \in [Calls -> BOOLEAN]
    /\ permission \in Permissions
    /\ prompting \in BOOLEAN
    /\ activeCall \in Calls \cup {NoCall}
    /\ media \in Calls \cup {NoCall}
    /\ isInitiator \in BOOLEAN
    /\ mediaStage \in [Calls -> MediaStages]
    /\ registrations \in Nat
    /\ refused \in BOOLEAN

PipeTypes ==
    /\ commands \in Seq(Command_)
    /\ replies \in Seq(Reply_)

SofiaTypes ==
    /\ callstate \in [Calls -> CallStates]
    /\ sip \in [Calls -> SipStates]
    /\ cancelSent \in [Calls -> BOOLEAN]
    /\ rings \in [Calls -> Nat]
    /\ challenged \subseteq Calls

\* The part of the inductive invariant that is about the main thread alone,
\* and all of it.
MainInv ==
    /\ MainTypes
    /\ BusyHasLiveCall /\ DelegateIsCurrent /\ HungUpStaysDown /\ MadeInv /\ ActiveInv

IInv == MainInv /\ PipeTypes /\ SofiaTypes /\ AnnouncedInv

EarlyStages == {"none", "turn", "gather"}

\* There is an INVITE for the call c at place i of the command pipe.
Invites(i, c) == commands[i].cmd = "i" /\ commands[i].call = c

\* A call is invited once: its INVITE is in the pipe only after its media has
\* left the early stages, which it never enters again, and NUA does not know
\* it before.
InvitesInv ==
    \A c \in Calls :
        /\ state[c] # "unborn" /\ ~incoming[c] /\ mediaStage[c] \in EarlyStages =>
               sip[c] = "idle" /\ \A i \in DOMAIN commands : ~Invites(i, c)
        /\ \A i \in DOMAIN commands : Invites(i, c) =>
               /\ state[c] # "unborn" /\ ~incoming[c] /\ sip[c] = "idle"
               /\ \A j \in DOMAIN commands : Invites(j, c) => i = j

\* What that rests on: the call that SipManager's activeCallParams are about
\* is the one it has media for, unless an incoming call took over, and it gets
\* media once, with the permission for it.
SetUpInv ==
    /\ \A c \in Calls : state[c] = "unborn" => mediaStage[c] = "none" /\ ~incoming[c]
    /\ activeCall # NoCall => state[activeCall] # "unborn"
    /\ media # NoCall =>
          /\ state[media] # "unborn" /\ permission = "granted"
          /\ isInitiator /\ ~incoming[activeCall] => activeCall = media
    /\ prompting => permission = "undetermined"
                    /\ (~incoming[activeCall] => mediaStage[activeCall] = "none")

OpsInv == ops \in Seq(Calls) /\ OpsTrackCalls

\* The whole inductive invariant.
CallInv == IInv /\ InvitesInv /\ SetUpInv /\ OpsInv
-----------------------------------------------------------------------------
(* The announcements in the reply pipe *)

\* The head of the pipe is a reply and the rest is a pipe.
LEMMA TailReplies ==
    ASSUME PipeTypes, replies # <<>>
    PROVE  /\ Reply \in Reply_
           /\ Tail(replies) \in Seq(Reply_)
           /\ \A i \in DOMAIN Tail(replies) :
                 i + 1 \in DOMAIN replies /\ Tail(replies)[i] = replies[i + 1]
           /\ DOMAIN Tail(replies) \subseteq Nat \ {0}
           /\ 1 \in DOMAIN replies
BY DEF PipeTypes, Reply

\* Taking a reply keeps AnnouncedInv when at most the call that this reply
\* announces stops being unborn.
LEMMA AnnouncedTail ==
    ASSUME PipeTypes, AnnouncedInv, replies # <<>>, replies' = Tail(replies), sip' = sip,
           \A c \in Calls : state[c] = "unborn" => state'[c] = "unborn" \/ Announces(1, c)
    PROVE  AnnouncedInv'
<1>1. SUFFICES ASSUME NEW i \in DOMAIN replies', NEW c \in Calls, Announces(i, c)'
               PROVE  /\ state'[c] = "unborn" /\ sip'[c] # "idle"
                      /\ \A j \in DOMAIN replies' : Announces(j, c)' => i = j
  BY DEF AnnouncedInv
<1>2. i + 1 \in DOMAIN replies /\ Announces(i + 1, c) /\ i \in Nat \ {0} /\ 1 \in DOMAIN replies
  BY <1>1, TailReplies DEF Announces
<1>3. ~Announces(1, c)
  BY <1>2 DEF AnnouncedInv
<1>4. state'[c] = "unborn" /\ sip'[c] # "idle"
  BY <1>2, <1>3 DEF AnnouncedInv
<1>5. ASSUME NEW j \in DOMAIN replies', Announces(j, c)' PROVE i = j
  <2>1. j + 1 \in DOMAIN replies /\ Announces(j + 1, c) /\ j \in Nat
    BY <1>5, TailReplies DEF Announces
  <2> QED BY <1>2, <2>1 DEF AnnouncedInv
<1> QED BY <1>4, <1>5

\* A step that leaves the replies alone keeps AnnouncedInv when no call that
\* NUA knows and the App does not know changes that.
LEMMA AnnouncedSame ==
    ASSUME AnnouncedInv, replies' = replies,
           \A c \in Calls : state[c] = "unborn" /\ sip[c] # "idle"
                               => state'[c] = "unborn" /\ sip'[c] # "idle"
    PROVE  AnnouncedInv'
BY DEF AnnouncedInv, Announces

\* Sending a reply keeps AnnouncedInv when an announcement is of a call nobody
\* knew.
LEMMA AnnouncedAppend ==
    ASSUME PipeTypes, AnnouncedInv, NEW r \in Reply_, replies' = Append(replies, r),
           state' = state,
           \A c \in Calls : sip[c] # "idle" => sip'[c] # "idle",
           r.rc = "INCOMING_CALL" =>
               sip[r.call] = "idle" /\ sip'[r.call] # "idle" /\ state[r.call] = "unborn"
    PROVE  AnnouncedInv'
<1> DEFINE n == Len(replies) + 1
<1>1. /\ n \in Nat /\ n \notin DOMAIN replies
      /\ DOMAIN replies' = DOMAIN replies \cup {n}
      /\ replies'[n] = r
      /\ \A i \in DOMAIN replies : replies'[i] = replies[i]
  BY DEF PipeTypes
<1> HIDE DEF n
<1>2. ASSUME NEW i \in DOMAIN replies', NEW c \in Calls, Announces(i, c)'
      PROVE  state'[c] = "unborn" /\ sip'[c] # "idle"
  BY <1>1, <1>2 DEF AnnouncedInv, Announces
<1>3. ASSUME NEW i \in DOMAIN replies', NEW j \in DOMAIN replies', NEW c \in Calls,
             Announces(i, c)', Announces(j, c)'
      PROVE  i = j
  BY <1>1, <1>3 DEF AnnouncedInv, Announces
<1> QED BY <1>2, <1>3 DEF AnnouncedInv
-----------------------------------------------------------------------------
(* Facts used by several actions *)

\* The connection that replies and media events reach has been made.
LEMMA DelegateMade ==
    ASSUME MainInv, Delegate # NoCall
    PROVE  Delegate = connectionDelegate /\ Delegate \in Calls /\ state[Delegate] # "unborn"
BY DEF MainInv, MainTypes, MadeInv, Delegate

\* What pipeToSofia writes keeps the type of the pipe.
LEMMA PipeAppend ==
    ASSUME PipeTypes, NEW cmd \in CommandNames, NEW c \in Calls, PipeToSofia(cmd, c)
    PROVE  commands' \in Seq(Command_)
<1>1. [cmd |-> cmd, call |-> c] \in Command_
  BY DEF Command_
<1> QED BY <1>1 DEF PipeTypes, PipeToSofia

\* So does what disconnect writes.
LEMMA PipeDisconnect ==
    ASSUME PipeTypes, NEW c \in Calls, commands' = commands \o DisconnectCommand(c)
    PROVE  commands' \in Seq(Command_)
<1>1. \A cmd \in CommandNames : <<[cmd |-> cmd, call |-> c]>> \in Seq(Command_)
  BY DEF Command_
<1>2. DisconnectCommand(c) \in Seq(Command_)
  <2>1. {"c", "d", "b"} \subseteq CommandNames /\ <<>> \in Seq(Command_)
    BY DEF CommandNames
  <2>2. CASE state[c] = "Connecting"
    <3> DEFINE cmd == IF incoming[c] THEN "d" ELSE "c"
    <3>1. cmd \in CommandNames /\ DisconnectCommand(c) = <<[cmd |-> cmd, call |-> c]>>
      BY <2>1, <2>2 DEF DisconnectCommand
    <3> QED BY <1>1, <3>1
  <2>3. CASE state[c] # "Connecting"
    BY <1>1, <2>1, <2>3 DEF DisconnectCommand
  <2> QED BY <2>2, <2>3
<1> QED BY <1>2 DEF PipeTypes

\* Closing the media keeps its type.
LEMMA ClosedType ==
    ASSUME MainTypes
    PROVE  ClosedMedia \in [Calls -> MediaStages]
BY DEF MainTypes, ClosedMedia, MediaStages

\* What disconnecting the connection c leaves alone.
restVars == <<connectionDelegate, held, incoming, activeCall, isInitiator, boundVars>>

\* Disconnecting a connection that has been made keeps the main thread's part.
LEMMA DisconnectKeeps ==
    ASSUME MainInv, NEW c \in Calls, state[c] # "unborn", DisconnectEffects(c),
           state' = [state EXCEPT ![c] = "Disconnected"],
           mediaStage' \in [Calls -> MediaStages], permission' \in Permissions,
           prompting' \in BOOLEAN, prompting' => prompting, UNCHANGED restVars
    PROVE  MainInv'
<1> USE DEF MainInv, MainTypes, DisconnectEffects, restVars, boundVars
<1>1. MainTypes'
  BY DEF ConnStates
<1>2. BusyHasLiveCall' /\ DelegateIsCurrent'
  BY DEF BusyHasLiveCall, DelegateIsCurrent
<1>3. HungUpStaysDown'
  BY DEF HungUpStaysDown
<1>4. MadeInv'
  BY DEF MadeInv
<1>5. ActiveInv'
  BY DEF ActiveInv
<1> QED BY <1>1, <1>2, <1>3, <1>4, <1>5

\* Setting up media for the call activeCallParams are about keeps the types.
LEMMA HandleCallTypes ==
    ASSUME MainTypes, NEW c \in Calls, HandleCall(c)
    PROVE  /\ media' \in Calls \cup {NoCall}
           /\ isInitiator' \in BOOLEAN
           /\ mediaStage' \in [Calls -> MediaStages]
BY DEF MainTypes, HandleCall, MediaStages

\* A step of the main thread that takes no reply keeps the rest of IInv when
\* no call announced in the pipe stops being unborn.
LEMMA MainStep ==
    ASSUME IInv, MainInv', commands' \in Seq(Command_), UNCHANGED <<replies, sofiaVars>>,
           \A c \in Calls : state[c] = "unborn" /\ sip[c] # "idle" => state'[c] = "unborn"
    PROVE  IInv'
<1>1. PipeTypes' /\ SofiaTypes'
  BY DEF IInv, PipeTypes, SofiaTypes, sofiaVars
<1>2. AnnouncedInv'
  BY AnnouncedSame DEF IInv, sofiaVars
<1> QED BY <1>1, <1>2 DEF IInv

\* So does one that takes a reply, but for the call this reply announces.
LEMMA ReplyStep ==
    ASSUME IInv, MainInv', commands' \in Seq(Command_), replies # <<>>,
           replies' = Tail(replies), UNCHANGED sofiaVars,
           \A c \in Calls : state[c] = "unborn" => state'[c] = "unborn" \/ Announces(1, c)
    PROVE  IInv'
<1>1. PipeTypes' /\ SofiaTypes'
  BY TailReplies DEF IInv, PipeTypes, SofiaTypes, sofiaVars
<1>2. AnnouncedInv'
  BY AnnouncedTail DEF IInv, sofiaVars
<1> QED BY <1>1, <1>2 DEF IInv

\* Disconnecting a connection that has been made, by the App or by an error.
LEMMA DisconnectStep ==
    ASSUME IInv, NEW c \in Calls, state[c] # "unborn", DisconnectEffects(c),
           state' = [state EXCEPT ![c] = "Disconnected"]
    PROVE  /\ commands' \in Seq(Command_)
           /\ \A d \in Calls : state[d] = "unborn" => state'[d] = "unborn"
<1>1. commands' \in Seq(Command_)
  BY PipeDisconnect DEF IInv, DisconnectEffects
<1>2. \A d \in Calls : state[d] = "unborn" => state'[d] = "unborn"
  BY DEF IInv, MainInv, MainTypes
<1> QED BY <1>1, <1>2
-----------------------------------------------------------------------------
(* The App *)

\* The three outcomes of connect: an unborn connection nobody announced is made.
LEMMA ConnectKeeps ==
    ASSUME IInv, NEW c \in Calls, ConnectRefused(c) \/ Connect(c) \/ ConnectDenied(c)
    PROVE  IInv'
<1> USE CallControlAssumption DEF IInv, MainInv, NewConnection
<1>1. /\ c # NoCall /\ state[c] = "unborn" /\ sip[c] = "idle" /\ ~cancelPending[c]
      /\ state \in [Calls -> ConnStates] /\ cancelPending \in [Calls -> BOOLEAN]
      /\ UNCHANGED <<replies, sofiaVars, commands>>
  BY DEF ConnectRefused, Connect, ConnectDenied, MainTypes, HungUpStaysDown
<1>2. CASE ConnectRefused(c)
  <2> USE <1>1, <1>2 DEF ConnectRefused
  <2>1. MainTypes'
    BY DEF MainTypes, ConnStates
  <2>2. BusyHasLiveCall' /\ DelegateIsCurrent'
    BY DEF BusyHasLiveCall, DelegateIsCurrent, Live
  <2>3. HungUpStaysDown'
    BY DEF HungUpStaysDown
  <2>4. MadeInv'
    BY DEF MadeInv
  <2>5. ActiveInv'
    BY DEF ActiveInv
  <2>6. \A d \in Calls : state[d] = "unborn" /\ sip[d] # "idle" => state'[d] = "unborn"
    OBVIOUS
  <2> QED BY <2>1, <2>2, <2>3, <2>4, <2>5, <2>6, MainStep DEF PipeTypes
<1>3. CASE Connect(c)
  <2> USE <1>1, <1>3 DEF Connect
  <2>1. MainTypes'
    <3>1. /\ media' \in Calls \cup {NoCall} /\ isInitiator' \in BOOLEAN
          /\ mediaStage' \in [Calls -> MediaStages] /\ prompting' \in BOOLEAN
      BY HandleCallTypes DEF MainTypes
    <3> QED BY <3>1 DEF MainTypes, ConnStates
  <2>2. BusyHasLiveCall' /\ DelegateIsCurrent'
    BY DEF BusyHasLiveCall, DelegateIsCurrent, Live
  <2>3. HungUpStaysDown'
    BY DEF HungUpStaysDown
  <2>4. MadeInv'
    BY DEF MadeInv
  <2>5. ActiveInv'
    BY DEF ActiveInv
  <2>6. \A d \in Calls : state[d] = "unborn" /\ sip[d] # "idle" => state'[d] = "unborn"
    OBVIOUS
  <2> QED BY <2>1, <2>2, <2>3, <2>4, <2>5, <2>6, MainStep DEF PipeTypes
<1>4. CASE ConnectDenied(c)
  <2> USE <1>1, <1>4 DEF ConnectDenied
  <2>1. MainTypes'
    BY DEF MainTypes, ConnStates
  <2>2. BusyHasLiveCall' /\ DelegateIsCurrent'
    BY DEF BusyHasLiveCall, DelegateIsCurrent, Live
  <2>3. HungUpStaysDown'
    BY DEF HungUpStaysDown
  <2>4. MadeInv'
    BY DEF MadeInv
  <2>5. ActiveInv'
    BY DEF ActiveInv
  <2>6. \A d \in Calls : state[d] = "unborn" /\ sip[d] # "idle" => state'[d] = "unborn"
    OBVIOUS
  <2> QED BY <2>1, <2>2, <2>3, <2>4, <2>5, <2>6, MainStep DEF PipeTypes
<1> QED BY <1>2, <1>3, <1>4

\* accept with the microphone authorised or to be asked for.
LEMMA AcceptKeeps ==
    ASSUME IInv, NEW c \in Calls, Accept(c)
    PROVE  IInv'
<1> USE CallControlAssumption DEF IInv, MainInv, Accept, deviceVars, boundVars
<1>1. activeCall \in Calls /\ state \in [Calls -> ConnStates]
  BY DEF MainTypes, ActiveInv
<1>2. MainTypes'
  <2>1. /\ media' \in Calls \cup {NoCall} /\ isInitiator' \in BOOLEAN
        /\ mediaStage' \in [Calls -> MediaStages] /\ prompting' \in BOOLEAN
    BY <1>1, HandleCallTypes DEF MainTypes
  <2> QED BY <2>1 DEF MainTypes, ConnStates
<1>3. BusyHasLiveCall' /\ DelegateIsCurrent'
  BY <1>1 DEF BusyHasLiveCall, DelegateIsCurrent, Live, MainTypes
<1>4. HungUpStaysDown'
  BY <1>1 DEF HungUpStaysDown
<1>5. MadeInv'
  BY <1>1 DEF MadeInv
<1>6. ActiveInv'
  BY <1>1 DEF ActiveInv
<1>7. \A d \in Calls : state[d] = "unborn" /\ sip[d] # "idle" => state'[d] = "unborn"
  BY <1>1
<1> QED BY <1>2, <1>3, <1>4, <1>5, <1>6, <1>7, MainStep DEF PipeTypes

\* accept with the microphone denied: the delegate, which may be this very
\* connection, is disconnected first.
LEMMA AcceptDeniedKeeps ==
    ASSUME IInv, NEW c \in Calls, AcceptDenied(c)
    PROVE  IInv'
<1> USE CallControlAssumption DEF IInv, MainInv, AcceptDenied, boundVars
<1>1. /\ state \in [Calls -> ConnStates] /\ cancelPending \in [Calls -> BOOLEAN]
      /\ state[c] = "Connecting" /\ ~cancelPending[c]
  BY DEF MainTypes, HungUpStaysDown
<1>2. CASE Delegate = NoCall
  <2> USE <1>1, <1>2
  <2>1. MainTypes'
    BY DEF MainTypes, ConnStates
  <2>2. BusyHasLiveCall' /\ DelegateIsCurrent'
    BY DEF BusyHasLiveCall, DelegateIsCurrent, Live, MainTypes
  <2>3. HungUpStaysDown' /\ MadeInv' /\ ActiveInv'
    BY DEF HungUpStaysDown, MadeInv, ActiveInv
  <2>4. \A d \in Calls : state[d] = "unborn" /\ sip[d] # "idle" => state'[d] = "unborn"
    OBVIOUS
  <2> QED BY <2>1, <2>2, <2>3, <2>4, MainStep DEF PipeTypes
<1>3. CASE Delegate # NoCall
  <2>1. Delegate \in Calls /\ state[Delegate] # "unborn"
    BY <1>3, DelegateMade
  <2>2. PICK d \in Calls : d = Delegate
    BY <2>1
  <2>3. /\ DisconnectEffects(d) /\ mediaStage' = ClosedMedia
        /\ state' = [state EXCEPT ![d] = "Disconnected", ![c] = "Connected"]
        /\ state[d] # "unborn"
    BY <1>3, <2>1, <2>2
  <2> USE <1>1, <2>3
  <2>4. commands' \in Seq(Command_)
    BY PipeDisconnect DEF DisconnectEffects
  <2>5. MainTypes'
    <3>1. mediaStage' \in [Calls -> MediaStages]
      BY ClosedType
    <3> QED BY <3>1 DEF MainTypes, DisconnectEffects, ConnStates
  <2>6. BusyHasLiveCall' /\ DelegateIsCurrent'
    BY DEF BusyHasLiveCall, DelegateIsCurrent, DisconnectEffects
  <2>7. HungUpStaysDown'
    BY DEF HungUpStaysDown, DisconnectEffects
  <2>8. MadeInv' /\ ActiveInv'
    BY DEF MadeInv, ActiveInv, DisconnectEffects
  <2>9. \A e \in Calls : state[e] = "unborn" /\ sip[e] # "idle" => state'[e] = "unborn"
    OBVIOUS
  <2> QED BY <2>4, <2>5, <2>6, <2>7, <2>8, <2>9, MainStep
<1> QED BY <1>2, <1>3

\* reject, disconnect (disconnectAll included) and the App's release of an
\* ended connection.
LEMMA HangUpKeeps ==
    ASSUME IInv, NEW c \in Calls, Reject(c) \/ Disconnect(c) \/ Release(c)
    PROVE  IInv'
<1> USE CallControlAssumption DEF IInv, MainInv
<1>1. CASE Reject(c)
  <2> USE <1>1 DEF Reject, connVars, mediaVars, boundVars
  <2>1. commands' \in Seq(Command_)
    BY PipeAppend DEF CommandNames
  <2>2. MainTypes'
    BY DEF MainTypes
  <2>3. BusyHasLiveCall' /\ DelegateIsCurrent' /\ HungUpStaysDown' /\ MadeInv' /\ ActiveInv'
    BY DEF BusyHasLiveCall, DelegateIsCurrent, HungUpStaysDown, MadeInv, ActiveInv
  <2> QED BY <2>1, <2>2, <2>3, MainStep
<1>2. CASE Disconnect(c)
  <2> USE <1>2 DEF Disconnect, RCDisconnect
  <2>1. state[c] # "unborn"
    BY DEF BusyHasLiveCall, Live
  <2>2. MainInv'
    BY <2>1, ClosedType, DisconnectKeeps DEF restVars, MainTypes
  <2> QED BY <2>1, <2>2, DisconnectStep, MainStep
<1>3. CASE Release(c)
  <2> USE <1>3 DEF Release, connVars, mediaVars, boundVars
  <2>1. MainTypes'
    BY DEF MainTypes
  <2>2. BusyHasLiveCall' /\ DelegateIsCurrent' /\ HungUpStaysDown' /\ MadeInv' /\ ActiveInv'
    BY DEF BusyHasLiveCall, DelegateIsCurrent, HungUpStaysDown, MadeInv, ActiveInv, Live
  <2> QED BY <2>1, <2>2, MainStep DEF PipeTypes
<1> QED BY <1>1, <1>2, <1>3
-----------------------------------------------------------------------------
(* The permission prompt and the media *)

\* didMediaError to the delegate, from the media, the prompt or the TURN
\* request: whatever connection it reaches by then is one that has been made.
LEMMA ErrorKeeps ==
    ASSUME IInv, permission' \in Permissions, prompting' \in BOOLEAN, prompting' => prompting,
           UNCHANGED restVars, UNCHANGED <<replies, sofiaVars>>,
           mediaStage' \in [Calls -> MediaStages],
           \/ /\ Delegate # NoCall /\ DisconnectEffects(Delegate)
              /\ state' = [state EXCEPT ![Delegate] = "Disconnected"]
           \/ UNCHANGED <<deviceState, currentConnection, state, cancelPending, media, commands>>
    PROVE  IInv'
<1> USE DEF IInv
<1>1. CASE /\ Delegate # NoCall /\ DisconnectEffects(Delegate)
           /\ state' = [state EXCEPT ![Delegate] = "Disconnected"]
  <2>1. Delegate \in Calls /\ state[Delegate] # "unborn"
    BY <1>1, DelegateMade
  <2>2. MainInv'
    BY <1>1, <2>1, DisconnectKeeps
  <2>3. /\ commands' \in Seq(Command_)
        /\ \A d \in Calls : state[d] = "unborn" => state'[d] = "unborn"
    BY <1>1, <2>1, DisconnectStep
  <2> QED BY <2>2, <2>3, MainStep
<1>2. CASE UNCHANGED <<deviceState, currentConnection, state, cancelPending, media, commands>>
  <2> USE <1>2 DEF MainInv, restVars, boundVars
  <2>1. MainTypes'
    BY DEF MainTypes
  <2>2. BusyHasLiveCall' /\ DelegateIsCurrent' /\ HungUpStaysDown' /\ MadeInv' /\ ActiveInv'
    BY DEF BusyHasLiveCall, DelegateIsCurrent, HungUpStaysDown, MadeInv, ActiveInv, Live
  <2> QED BY <2>1, <2>2, MainStep DEF PipeTypes
<1> QED BY <1>1, <1>2

\* The answer to a permission prompt: the call that is active by then gets
\* media, or the delegate of then gets an error.
LEMMA PromptKeeps ==
    ASSUME IInv, PromptAnswered
    PROVE  IInv'
<1> USE CallControlAssumption DEF PromptAnswered
<1>1. /\ activeCall \in Calls /\ permission' \in Permissions
      /\ prompting' \in BOOLEAN /\ (prompting' => prompting)
  BY DEF IInv, MainInv, MainTypes, ActiveInv, Permissions
<1>2. CASE permission' = "granted"
  <2> USE <1>1, <1>2 DEF IInv, MainInv, boundVars
  <2>1. MainTypes'
    <3>1. /\ media' \in Calls \cup {NoCall} /\ isInitiator' \in BOOLEAN
          /\ mediaStage' \in [Calls -> MediaStages]
      BY HandleCallTypes
    <3> QED BY <3>1 DEF MainTypes
  <2>2. BusyHasLiveCall' /\ DelegateIsCurrent' /\ HungUpStaysDown' /\ MadeInv'
    BY DEF BusyHasLiveCall, DelegateIsCurrent, HungUpStaysDown, MadeInv, Live
  <2>3. ActiveInv'
    BY DEF ActiveInv
  <2> QED BY <2>1, <2>2, <2>3, MainStep DEF PipeTypes
<1>3. CASE permission' # "granted"
  <2>1. MediaErrorToDelegate /\ UNCHANGED restVars /\ UNCHANGED <<replies, sofiaVars>>
    BY <1>3 DEF restVars
  <2>2. mediaStage' \in [Calls -> MediaStages]
    BY <2>1, ClosedType DEF MediaErrorToDelegate, RCDisconnect, IInv, MainInv, MainTypes
  <2> QED BY <1>1, <2>1, <2>2, ErrorKeeps DEF MediaErrorToDelegate, RCDisconnect
<1> QED BY <1>2, <1>3

\* A TURN request fails or media reports an error.
LEMMA MediaErrorKeeps ==
    ASSUME IInv, NEW c \in Calls, TurnFails(c) \/ MediaError(c)
    PROVE  IInv'
<1>1. /\ permission' \in Permissions /\ prompting' \in BOOLEAN /\ (prompting' => prompting)
      /\ UNCHANGED restVars /\ UNCHANGED <<replies, sofiaVars>>
      /\ mediaStage \in [Calls -> MediaStages] /\ ClosedMedia \in [Calls -> MediaStages]
  BY ClosedType DEF TurnFails, MediaError, IInv, MainInv, MainTypes, restVars
<1>2. mediaStage' \in [Calls -> MediaStages]
  <2>1. CASE TurnFails(c)
    BY <1>1, <2>1 DEF TurnFails, MediaStages
  <2>2. CASE MediaError(c)
    BY <1>1, <2>2 DEF MediaError, MediaErrorToDelegate, RCDisconnect
  <2> QED BY <2>1, <2>2
<1>3. \/ /\ Delegate # NoCall /\ DisconnectEffects(Delegate)
         /\ state' = [state EXCEPT ![Delegate] = "Disconnected"]
      \/ UNCHANGED <<deviceState, currentConnection, state, cancelPending, media, commands>>
  BY DEF TurnFails, MediaError, MediaErrorToDelegate, RCDisconnect
<1> QED BY <1>1, <1>2, <1>3, ErrorKeeps

\* TURN servers arrive, the SDP is sent.
LEMMA MediaProgressKeeps ==
    ASSUME IInv, NEW c \in Calls, TurnComplete(c) \/ CreateSdp(c)
    PROVE  IInv'
<1> USE CallControlAssumption DEF IInv, MainInv, deviceVars, connVars, boundVars
<1>1. /\ UNCHANGED <<deviceVars, connVars, permission, prompting, activeCall, media, isInitiator,
                      replies, sofiaVars, boundVars>>
      /\ mediaStage' \in [Calls -> MediaStages]
  BY DEF TurnComplete, CreateSdp, MainTypes, MediaStages
<1>2. commands' \in Seq(Command_)
  <2>1. CASE TurnComplete(c)
    BY <2>1 DEF TurnComplete, PipeTypes
  <2>2. CASE CreateSdp(c)
    <3> DEFINE cmd == IF isInitiator THEN "i" ELSE "a"
               d == IF isInitiator THEN activeCall ELSE c
    <3>1. cmd \in CommandNames /\ d \in Calls /\ PipeToSofia(cmd, d)
      BY <2>2 DEF CreateSdp, CommandNames, ActiveInv, MainTypes
    <3> HIDE DEF cmd, d
    <3> QED BY <3>1, PipeAppend
  <2> QED BY <2>1, <2>2
<1>3. MainTypes'
  BY <1>1 DEF MainTypes
<1>4. BusyHasLiveCall' /\ DelegateIsCurrent' /\ HungUpStaysDown' /\ MadeInv' /\ ActiveInv'
  BY <1>1 DEF BusyHasLiveCall, DelegateIsCurrent, HungUpStaysDown, MadeInv, ActiveInv, Live
<1> QED BY <1>1, <1>2, <1>3, <1>4, MainStep

\* ICE connects: the delegate's call is established, or ended with a BYE.
LEMMA IceKeeps ==
    ASSUME IInv, NEW c \in Calls, IceConnected(c)
    PROVE  IInv'
<1> USE CallControlAssumption DEF IInv, MainInv, IceConnected, deviceVars, boundVars
<1>1. /\ mediaStage' \in [Calls -> MediaStages] /\ state \in [Calls -> ConnStates]
      /\ cancelPending \in [Calls -> BOOLEAN]
  BY DEF MainTypes, MediaStages
<1>2. CASE ~(isInitiator /\ Delegate # NoCall)
  <2> USE <1>1, <1>2
  <2>1. MainTypes'
    BY DEF MainTypes
  <2>2. BusyHasLiveCall' /\ DelegateIsCurrent' /\ HungUpStaysDown' /\ MadeInv' /\ ActiveInv'
    BY DEF BusyHasLiveCall, DelegateIsCurrent, HungUpStaysDown, MadeInv, ActiveInv, Live
  <2> QED BY <2>1, <2>2, MainStep DEF PipeTypes
<1>3. CASE isInitiator /\ Delegate # NoCall
  <2>1. PICK d \in Calls : d = Delegate /\ state[d] # "unborn"
    BY <1>3, DelegateMade
  <2>2. \/ /\ cancelPending[d] /\ PipeToSofia("b", d) /\ state' = state
           /\ cancelPending' = [cancelPending EXCEPT ![d] = FALSE]
        \/ /\ ~cancelPending[d] /\ UNCHANGED <<cancelPending, commands>>
           /\ state' = [state EXCEPT ![d] = "Connected"]
    BY <1>3, <2>1 DEF OutgoingEstablished
  <2> USE <1>1, <2>1, <2>2
  <2>3. commands' \in Seq(Command_)
    BY PipeAppend DEF CommandNames, PipeTypes
  <2>4. MainTypes'
    BY DEF MainTypes, ConnStates
  <2>5. BusyHasLiveCall' /\ DelegateIsCurrent'
    BY DEF BusyHasLiveCall, DelegateIsCurrent, Live, MainTypes
  <2>6. HungUpStaysDown'
    BY DEF HungUpStaysDown
  <2>7. MadeInv' /\ ActiveInv'
    BY DEF MadeInv, ActiveInv
  <2>8. \A e \in Calls : state[e] = "unborn" /\ sip[e] # "idle" => state'[e] = "unborn"
    OBVIOUS
  <2> QED BY <2>3, <2>4, <2>5, <2>6, <2>7, <2>8, MainStep
<1> QED BY <1>2, <1>3
-----------------------------------------------------------------------------
(* Replies *)

\* An incoming call: the connection made for it is the one the reply at the
\* head announces, unborn until now, and it takes over.
LEMMA ReceiveCallKeeps ==
    ASSUME IInv, ReceiveCall
    PROVE  IInv'
<1> USE CallControlAssumption DEF ReceiveCall, TakeReply
<1>1. PICK c \in Calls : /\ c = Reply.call /\ Announces(1, c)
                         /\ 1 \in DOMAIN replies
  <2>1. Reply \in Reply_ /\ Reply = replies[1] /\ 1 \in DOMAIN replies
    BY TailReplies DEF IInv, PipeTypes, Reply
  <2> QED BY <2>1 DEF Reply_, RegisterCodes, Announces
<1>2. c # NoCall /\ state[c] = "unborn" /\ ~cancelPending[c]
  BY <1>1 DEF IInv, MainInv, MainTypes, AnnouncedInv, HungUpStaysDown
<1>3. /\ state \in [Calls -> ConnStates] /\ incoming \in [Calls -> BOOLEAN]
      /\ activeCall' = c /\ currentConnection' = c /\ connectionDelegate' = c
      /\ state' = [state EXCEPT ![c] = "Connecting"]
      /\ incoming' = [incoming EXCEPT ![c] = TRUE]
      /\ held' = held \cup {c}
  BY <1>1 DEF IInv, MainInv, MainTypes
<1> USE <1>2, <1>3 DEF IInv, MainInv
<1>4. MainTypes'
  BY DEF MainTypes, ConnStates, boundVars
<1>5. BusyHasLiveCall' /\ DelegateIsCurrent'
  BY DEF BusyHasLiveCall, DelegateIsCurrent, Live
<1>6. HungUpStaysDown'
  BY DEF HungUpStaysDown
<1>7. MadeInv'
  BY DEF MadeInv
<1>8. ActiveInv'
  BY DEF ActiveInv
<1>9. \A d \in Calls : state[d] = "unborn" => state'[d] = "unborn" \/ Announces(1, d)
  BY <1>1
<1> QED BY <1>4, <1>5, <1>6, <1>7, <1>8, <1>9, ReplyStep DEF PipeTypes

\* A 180 makes the delegate ring, unless it was hung up: then it is cancelled.
LEMMA ReceiveRingingKeeps ==
    ASSUME IInv, ReceiveRinging
    PROVE  IInv'
<1> USE CallControlAssumption DEF ReceiveRinging, TakeReply, deviceVars, boundVars, IInv, MainInv
<1>1. state \in [Calls -> ConnStates]
  BY DEF MainTypes
<1>2. CASE Delegate = NoCall
  <2> USE <1>2
  <2>1. MainTypes'
    BY DEF MainTypes
  <2>2. BusyHasLiveCall' /\ DelegateIsCurrent' /\ HungUpStaysDown' /\ MadeInv' /\ ActiveInv'
    BY DEF BusyHasLiveCall, DelegateIsCurrent, HungUpStaysDown, MadeInv, ActiveInv, Live
  <2> QED BY <2>1, <2>2, ReplyStep DEF PipeTypes
<1>3. CASE Delegate # NoCall
  <2>1. PICK d \in Calls : d = Delegate /\ state[d] # "unborn"
    BY <1>3, DelegateMade
  <2>2. \/ cancelPending[d] /\ PipeToSofia("c", d) /\ state' = state
        \/ /\ ~cancelPending[d] /\ UNCHANGED commands
           /\ state' = [state EXCEPT ![d] = "Connecting"]
    BY <1>3, <2>1
  <2> USE <1>1, <2>1, <2>2
  <2>3. commands' \in Seq(Command_)
    BY PipeAppend DEF CommandNames, PipeTypes
  <2>4. MainTypes'
    BY DEF MainTypes, ConnStates
  <2>5. BusyHasLiveCall' /\ DelegateIsCurrent'
    BY DEF BusyHasLiveCall, DelegateIsCurrent, Live, MainTypes
  <2>6. HungUpStaysDown'
    BY DEF HungUpStaysDown
  <2>7. MadeInv' /\ ActiveInv'
    BY DEF MadeInv, ActiveInv
  <2>8. \A e \in Calls : state[e] = "unborn" => state'[e] = "unborn"
    OBVIOUS
  <2> QED BY <2>3, <2>4, <2>5, <2>6, <2>7, <2>8, ReplyStep
<1> QED BY <1>2, <1>3

\* Answers, results of a REGISTER and replies nothing is done about end no
\* connection; a failed REGISTER takes the device offline, which frees it.
LEMMA ReceiveOtherKeeps ==
    ASSUME IInv, ReceiveAnswer \/ ReceiveIgnored \/ ReceiveRegistration
    PROVE  IInv'
<1> USE CallControlAssumption DEF IInv, MainInv
<1>1. /\ UNCHANGED <<currentConnection, connectionDelegate, held, connVars, activeCall, media,
                      commands, permission, prompting, isInitiator, sofiaVars, boundVars>>
      /\ replies # <<>> /\ replies' = Tail(replies)
      /\ deviceState' \in {"Offline", "Ready", deviceState}
  BY DEF ReceiveAnswer, ReceiveIgnored, ReceiveRegistration, TakeReply, deviceVars
<1>2. mediaStage' \in [Calls -> MediaStages]
  BY DEF ReceiveAnswer, ReceiveIgnored, ReceiveRegistration, MainTypes, MediaStages
<1> USE <1>1, <1>2 DEF connVars, boundVars
<1>3. MainTypes'
  BY DEF MainTypes
<1>4. BusyHasLiveCall' /\ DelegateIsCurrent' /\ HungUpStaysDown' /\ MadeInv' /\ ActiveInv'
  BY DEF BusyHasLiveCall, DelegateIsCurrent, HungUpStaysDown, MadeInv, ActiveInv, Live
<1> QED BY <1>3, <1>4, ReplyStep DEF PipeTypes

\* Every reply that ends the delegate's connection also frees the device.
LEMMA ReceiveEndKeeps ==
    ASSUME IInv, ReceiveIncomingCancelled \/ ReceiveRefusal \/ ReceiveBye
    PROVE  IInv'
<1> USE CallControlAssumption DEF IInv, MainInv
<1>1. /\ replies # <<>> /\ replies' = Tail(replies)
      /\ UNCHANGED <<permission, prompting, isInitiator, sofiaVars, boundVars>>
      /\ \E ready \in {"Ready", "Offline"} : Ended(ready)
      /\ media' \in {media, NoCall} /\ mediaStage' \in {mediaStage, ClosedMedia}
  BY DEF ReceiveIncomingCancelled, ReceiveRefusal, ReceiveBye, TakeReply, DisconnectMedia
<1>2. mediaStage' \in [Calls -> MediaStages] /\ state \in [Calls -> ConnStates]
  BY <1>1, ClosedType DEF MainTypes
<1>3. PICK ready \in {"Ready", "Offline"} : Ended(ready)
  BY <1>1
<1> USE <1>1, <1>2, <1>3 DEF Ended, boundVars
<1>4. CASE Delegate = NoCall
  <2> USE <1>4
  <2>1. MainTypes'
    BY DEF MainTypes
  <2>2. BusyHasLiveCall' /\ DelegateIsCurrent' /\ HungUpStaysDown' /\ MadeInv' /\ ActiveInv'
    BY DEF BusyHasLiveCall, DelegateIsCurrent, HungUpStaysDown, MadeInv, ActiveInv, Live
  <2> QED BY <2>1, <2>2, ReplyStep DEF PipeTypes
<1>5. CASE Delegate # NoCall
  <2>1. PICK d \in Calls : d = Delegate /\ state[d] # "unborn"
    BY <1>5, DelegateMade
  <2> USE <1>5, <2>1
  <2>2. MainTypes'
    BY DEF MainTypes, ConnStates
  <2>3. BusyHasLiveCall' /\ DelegateIsCurrent'
    BY DEF BusyHasLiveCall, DelegateIsCurrent
  <2>4. HungUpStaysDown'
    BY DEF HungUpStaysDown
  <2>5. MadeInv' /\ ActiveInv'
    BY DEF MadeInv, ActiveInv
  <2>6. \A e \in Calls : state[e] = "unborn" => state'[e] = "unborn"
    OBVIOUS
  <2> QED BY <2>2, <2>3, <2>4, <2>5, <2>6, ReplyStep DEF PipeTypes
<1> QED BY <1>4, <1>5

\* An INVITE error disconnects the delegate, whichever call failed.
LEMMA ReceiveErrorKeeps ==
    ASSUME IInv, ReceiveInviteError
    PROVE  IInv'
<1> USE CallControlAssumption DEF IInv, MainInv, ReceiveInviteError, TakeReply
<1>1. mediaStage' \in [Calls -> MediaStages]
  BY ClosedType DEF RCDisconnect, DisconnectMedia
<1>2. CASE Delegate = NoCall
  <2> USE <1>1, <1>2 DEF DisconnectMedia, boundVars
  <2>1. MainTypes'
    BY DEF MainTypes
  <2>2. BusyHasLiveCall' /\ DelegateIsCurrent' /\ HungUpStaysDown' /\ MadeInv' /\ ActiveInv'
    BY DEF BusyHasLiveCall, DelegateIsCurrent, HungUpStaysDown, MadeInv, ActiveInv, Live
  <2> QED BY <2>1, <2>2, ReplyStep DEF PipeTypes
<1>3. CASE Delegate # NoCall
  <2>1. Delegate \in Calls /\ state[Delegate] # "unborn"
    BY <1>3, DelegateMade
  <2>2. /\ DisconnectEffects(Delegate)
        /\ state' = [state EXCEPT ![Delegate] = "Disconnected"]
    BY <1>3 DEF RCDisconnect
  <2>3. UNCHANGED restVars /\ permission' \in Permissions
        /\ prompting' \in BOOLEAN /\ (prompting' => prompting)
    BY DEF restVars, MainTypes
  <2>4. MainInv'
    BY <1>1, <2>1, <2>2, <2>3, DisconnectKeeps
  <2>5. /\ commands' \in Seq(Command_)
        /\ \A d \in Calls : state[d] = "unborn" => state'[d] = "unborn"
    BY <2>1, <2>2, DisconnectStep
  <2> QED BY <2>4, <2>5, ReplyStep
<1> QED BY <1>2, <1>3
-----------------------------------------------------------------------------
(* The Sofia thread, NUA and the peers *)

\* The main thread's part is untouched by everybody else.
LEMMA MainUntouched ==
    ASSUME MainInv, UNCHANGED <<deviceVars, connVars, mediaVars, refused>>, registrations' \in Nat
    PROVE  MainInv'
<1> USE DEF MainInv, deviceVars, connVars, mediaVars
<1>1. MainTypes'
  BY DEF MainTypes
<1>2. BusyHasLiveCall' /\ DelegateIsCurrent' /\ HungUpStaysDown' /\ MadeInv' /\ ActiveInv'
  BY DEF BusyHasLiveCall, DelegateIsCurrent, HungUpStaysDown, MadeInv, ActiveInv, Live
<1> QED BY <1>1, <1>2

\* A step that sends the reply [rc, c] keeps IInv: an announcement is of a
\* call that NUA did not know and the App does not know.
LEMMA SendReplyStep ==
    ASSUME IInv, MainInv', SofiaTypes', commands' \in Seq(Command_), state' = state,
           NEW r \in Reply_, replies' = Append(replies, r),
           \A c \in Calls : sip[c] # "idle" => sip'[c] # "idle",
           r.rc = "INCOMING_CALL" =>
               sip[r.call] = "idle" /\ sip'[r.call] # "idle" /\ state[r.call] = "unborn"
    PROVE  IInv'
<1>1. PipeTypes'
  BY DEF IInv, PipeTypes
<1>2. AnnouncedInv'
  BY AnnouncedAppend DEF IInv
<1> QED BY <1>1, <1>2 DEF IInv

\* A command is taken from the pipe; whichever operation it finds, no call
\* goes back to idle.
LEMMA HandleInputKeeps ==
    ASSUME IInv, HandleInput
    PROVE  IInv'
<1> USE CallControlAssumption DEF IInv
<1>1. /\ commands # <<>> /\ commands' = Tail(commands) /\ UNCHANGED <<mainVars, rings>>
  BY DEF HandleInput, SscInvite, SscInviteInvalid, SscAnswer, SscDecline, SscBye, SscCancel,
         TakeCommand
<1>2. Command \in Command_ /\ commands' \in Seq(Command_)
  BY <1>1 DEF PipeTypes, Command
<1>3. MainInv' /\ state' = state
  BY <1>1, MainUntouched DEF mainVars, connVars, boundVars, MainInv, MainTypes
<1>4. SscInvite \/ SscInviteInvalid => Command.call \in Calls
  BY <1>2 DEF SscInvite, SscInviteInvalid, TakeCommand, Command_, CommandNames, StackCommands
<1>5. SofiaTypes'
  <2> USE <1>1, <1>4 DEF SofiaTypes
  <2>1. CASE SscInvite
    BY <2>1 DEF SscInvite, CallStates, SipStates
  <2>2. CASE SscInviteInvalid
    BY <2>2 DEF SscInviteInvalid
  <2>3. CASE SscAnswer
    BY <2>3 DEF SscAnswer, CallStates, SipStates
  <2>4. CASE SscDecline
    BY <2>4 DEF SscDecline, CallStates, SipStates
  <2>5. CASE SscBye
    BY <2>5 DEF SscBye, CallStates, SipStates
  <2>6. CASE SscCancel
    BY <2>6 DEF SscCancel
  <2> QED BY <2>1, <2>2, <2>3, <2>4, <2>5, <2>6 DEF HandleInput
<1>6. \A c \in Calls : sip[c] # "idle" => sip'[c] # "idle"
  BY <1>4 DEF HandleInput, SscInvite, SscInviteInvalid, SscAnswer, SscDecline, SscBye, SscCancel,
              SofiaTypes
<1>7. CASE SscInviteInvalid
  <2> DEFINE r == [rc |-> "ERROR_SIP_INVITE", call |-> Command.call]
  <2>1. r \in Reply_ /\ r.rc # "INCOMING_CALL" /\ replies' = Append(replies, r)
    BY <1>4, <1>7 DEF SscInviteInvalid, Reply_, ReplyCodes, RegisterCodes
  <2> HIDE DEF r
  <2> QED BY <1>2, <1>3, <1>5, <1>6, <2>1, SendReplyStep
<1>8. CASE ~SscInviteInvalid
  <2>1. replies' = replies
    BY <1>8 DEF HandleInput, SscInvite, SscAnswer, SscDecline, SscBye, SscCancel
  <2>2. AnnouncedInv'
    BY <1>3, <1>6, <2>1, AnnouncedSame
  <2> QED BY <1>2, <1>3, <1>5, <2>1, <2>2 DEF PipeTypes
<1> QED BY <1>7, <1>8

\* A challenge: nothing is told to the App.
LEMMA ChallengeKeeps ==
    ASSUME IInv, NEW c \in Calls, InviteChallenged(c) \/ InviteUnauthorized(c)
    PROVE  IInv'
<1> USE CallControlAssumption DEF IInv
<1>1. UNCHANGED <<mainVars, commands, replies>>
  BY DEF InviteChallenged, InviteUnauthorized, Destroyed, appVars
<1>2. MainInv' /\ state' = state /\ PipeTypes'
  BY <1>1, MainUntouched DEF mainVars, connVars, boundVars, MainInv, MainTypes, PipeTypes
<1>3. SofiaTypes'
  <2>1. CASE InviteChallenged(c)
    BY <2>1 DEF InviteChallenged, SofiaTypes, CallStates, SipStates
  <2>2. CASE InviteUnauthorized(c)
    BY <2>2 DEF InviteUnauthorized, Destroyed, SofiaTypes, CallStates, SipStates
  <2> QED BY <2>1, <2>2
<1>4. \A d \in Calls : sip[d] # "idle" => sip'[d] # "idle"
  BY DEF InviteChallenged, InviteUnauthorized, Destroyed, SofiaTypes
<1>5. AnnouncedInv'
  BY <1>1, <1>2, <1>4, AnnouncedSame
<1> QED BY <1>2, <1>3, <1>5

\* An event from NUA and the callback it runs.
LEMMA NuaKeeps ==
    ASSUME IInv, NEW c \in Calls, NuaStep(c)
    PROVE  IInv'
<1>a. CASE InviteChallenged(c) \/ InviteUnauthorized(c)
  BY <1>a, ChallengeKeeps
<1>b. SUFFICES ASSUME ~(InviteChallenged(c) \/ InviteUnauthorized(c)) PROVE IInv'
  BY <1>a
<1> USE CallControlAssumption DEF IInv
<1> DEFINE Event == \/ PeerRings(c) \/ PeerAnswers(c) \/ InviteFails(c) \/ PeerCalls(c)
                    \/ PeerCancels(c) \/ PeerAcks(c) \/ PeerByes(c) \/ ByeAnswered(c)
<1>0. Event
  BY <1>b DEF NuaStep
<1>1. UNCHANGED <<mainVars, commands>>
  BY <1>0 DEF PeerRings, PeerAnswers, InviteFails, PeerCalls, PeerCancels, PeerAcks, PeerByes,
              ByeAnswered, Terminated, Destroyed, appVars
<1>2. MainInv' /\ state' = state /\ commands' \in Seq(Command_)
  BY <1>1, MainUntouched DEF mainVars, connVars, boundVars, MainInv, MainTypes, PipeTypes
<1>3. SofiaTypes'
  <2> USE DEF SofiaTypes, CallStates, SipStates
  <2>1. CASE PeerRings(c)
    BY <2>1 DEF PeerRings
  <2>2. CASE PeerAnswers(c) \/ PeerAcks(c)
    BY <2>2 DEF PeerAnswers, PeerAcks
  <2>3. CASE PeerCalls(c)
    BY <2>3 DEF PeerCalls
  <2>4. CASE InviteFails(c) \/ PeerCancels(c) \/ PeerByes(c) \/ ByeAnswered(c)
    <3>1. Terminated(c)
      BY <2>4 DEF InviteFails, PeerCancels, PeerByes, ByeAnswered
    <3> QED BY <3>1 DEF Terminated, Destroyed
  <2> QED BY <1>0, <2>1, <2>2, <2>3, <2>4
<1>4. \A d \in Calls : sip[d] # "idle" => sip'[d] # "idle"
  BY <1>0 DEF PeerRings, PeerAnswers, InviteFails, PeerCalls, PeerCancels, PeerAcks, PeerByes,
              ByeAnswered, Terminated, Destroyed, SofiaTypes
<1>5. \E rc \in ReplyCodes \ RegisterCodes :
         /\ replies' = Append(replies, [rc |-> rc, call |-> c])
         /\ rc = "INCOMING_CALL" => PeerCalls(c)
  BY <1>0 DEF PeerRings, PeerAnswers, InviteFails, PeerCalls, PeerCancels, PeerAcks, PeerByes,
              ByeAnswered, SendReply, ReplyCodes, RegisterCodes
<1>6. PICK rc \in ReplyCodes \ RegisterCodes :
         /\ replies' = Append(replies, [rc |-> rc, call |-> c])
         /\ rc = "INCOMING_CALL" => PeerCalls(c)
  BY <1>5
<1> DEFINE r == [rc |-> rc, call |-> c]
<1>7. r \in Reply_ /\ r.rc = rc /\ r.call = c /\ replies' = Append(replies, r)
  BY <1>6 DEF Reply_
<1>8. PeerCalls(c) => sip[c] = "idle" /\ sip'[c] # "idle" /\ state[c] = "unborn"
  BY DEF PeerCalls, SofiaTypes
<1> HIDE DEF r
<1> QED BY <1>2, <1>3, <1>4, <1>6, <1>7, <1>8, SendReplyStep

\* The result of a periodic REGISTER.
LEMMA RegistrationKeeps ==
    ASSUME IInv, Registration
    PROVE  IInv'
<1> USE DEF IInv
<1>1. /\ UNCHANGED <<deviceVars, connVars, mediaVars, refused, commands, sofiaVars>>
      /\ registrations' \in Nat
  BY DEF Registration, MainInv, MainTypes
<1>2. MainInv' /\ SofiaTypes' /\ state' = state /\ sip' = sip /\ commands' \in Seq(Command_)
  BY <1>1, MainUntouched DEF SofiaTypes, sofiaVars, connVars, PipeTypes
<1>3. PICK rc \in RegisterCodes : replies' = Append(replies, [rc |-> rc, call |-> NoCall])
  BY DEF Registration, SendReply, RegisterCodes
<1> DEFINE r == [rc |-> rc, call |-> NoCall]
<1>4. r \in Reply_ /\ r.rc # "INCOMING_CALL" /\ replies' = Append(replies, r)
  BY <1>3 DEF Reply_, RegisterCodes
<1> HIDE DEF r
<1> QED BY <1>2, <1>4, SendReplyStep
-----------------------------------------------------------------------------
(* The theorems *)

\* The inductive invariant holds at the start.
LEMMA InitIInv ==
    ASSUME Init
    PROVE  IInv
<1> USE CallControlAssumption DEF Init
<1>1. MainInv
  BY DEF MainInv, MainTypes, ConnStates, MediaStages, Permissions, BusyHasLiveCall,
         DelegateIsCurrent, HungUpStaysDown, MadeInv, ActiveInv
<1>2. PipeTypes /\ SofiaTypes /\ AnnouncedInv
  BY DEF PipeTypes, SofiaTypes, CallStates, SipStates, AnnouncedInv
<1> QED BY <1>1, <1>2 DEF IInv

\* Every step keeps it.
LEMMA NextIInv ==
    ASSUME IInv, [Next]_vars
    PROVE  IInv'
<1>1. CASE UNCHANGED vars
  <2>1. MainInv'
    BY <1>1, MainUntouched DEF vars, boundVars, IInv, MainInv, MainTypes
  <2>2. SofiaTypes' /\ PipeTypes' /\ state' = state /\ sip' = sip /\ replies' = replies
    BY <1>1 DEF vars, sofiaVars, connVars, IInv, SofiaTypes, PipeTypes
  <2>3. AnnouncedInv'
    BY <2>2, AnnouncedSame DEF IInv
  <2> QED BY <2>1, <2>2, <2>3 DEF IInv
<1>2. ASSUME NEW c \in Calls, AppStep(c) PROVE IInv'
  BY <1>2, ConnectKeeps, AcceptKeeps, AcceptDeniedKeeps, HangUpKeeps DEF AppStep
<1>3. ASSUME NEW c \in Calls, MediaStep(c) PROVE IInv'
  BY <1>3, MediaErrorKeeps, MediaProgressKeeps, IceKeeps DEF MediaStep
<1>4. CASE HandleSofiaInput
  BY <1>4, ReceiveCallKeeps, ReceiveRingingKeeps, ReceiveOtherKeeps, ReceiveEndKeeps,
     ReceiveErrorKeeps DEF HandleSofiaInput
<1> QED BY <1>1, <1>2, <1>3, <1>4, NuaKeeps, PromptKeeps, HandleInputKeeps, RegistrationKeeps
        DEF Next

\* CallControl keeps IInv for any set of calls and any bounds.
THEOREM CallInductive == Spec => []IInv
<1>1. Init => IInv
  BY InitIInv
<1>2. IInv /\ [Next]_vars => IInv'
  BY NextIInv
<1> QED BY <1>1, <1>2, PTL DEF Spec

\* Whatever ends a connection frees the device: RCDevice is never busy with a
\* connection that has ended, or with none.
THEOREM BusyAlways == Spec => []BusyHasLiveCall
<1>1. IInv => BusyHasLiveCall
  BY DEF IInv, MainInv
<1> QED BY <1>1, CallInductive, PTL

\* The connection replies and media events are handed to is the device's
\* current connection whenever it has one.
THEOREM DelegateAlways == Spec => []DelegateIsCurrent
<1>1. IInv => DelegateIsCurrent
  BY DEF IInv, MainInv
<1> QED BY <1>1, CallInductive, PTL

\* A call hung up before it rang stays disconnected.
THEOREM HungUpAlways == Spec => []HungUpStaysDown
<1>1. IInv => HungUpStaysDown
  BY DEF IInv, MainInv
<1> QED BY <1>1, CallInductive, PTL

\* A step that brings an ended connection back is a late 180 or a late ICE
\* connection, and reaches the delegate.
LEMMA ReviveStep ==
    ASSUME IInv, [Next]_vars, NEW c \in Calls, state[c] = "Disconnected",
           state'[c] # "Disconnected"
    PROVE  /\ c = Delegate /\ ~cancelPending[c]
           /\ \/ replies # <<>> /\ Reply.rc = "OUTGOING_RINGING"
              \/ media # NoCall /\ mediaStage[media] # "ice" /\ mediaStage'[media] = "ice"
<1> USE CallControlAssumption
<1>1. /\ state \in [Calls -> ConnStates] /\ mediaStage \in [Calls -> MediaStages]
      /\ ~(UNCHANGED state)
  BY DEF IInv, MainInv, MainTypes
<1>2. ASSUME NEW d \in Calls, AppStep(d) PROVE FALSE
  <2>1. CASE ConnectRefused(d) \/ Connect(d) \/ ConnectDenied(d)
    BY <1>1, <2>1 DEF ConnectRefused, Connect, ConnectDenied, NewConnection
  <2>2. CASE Accept(d)
    BY <1>1, <2>2 DEF Accept
  <2>3. CASE AcceptDenied(d)
    BY <1>1, <2>3 DEF AcceptDenied
  <2>4. CASE Reject(d) \/ Release(d)
    BY <1>1, <2>4 DEF Reject, Release, connVars
  <2>5. CASE Disconnect(d)
    BY <1>1, <2>5 DEF Disconnect, RCDisconnect
  <2> QED BY <1>2, <2>1, <2>2, <2>3, <2>4, <2>5 DEF AppStep
<1>3. ASSUME NEW d \in Calls, MediaStep(d), ~IceConnected(d) PROVE FALSE
  <2>1. CASE TurnComplete(d) \/ CreateSdp(d)
    BY <1>1, <2>1 DEF TurnComplete, CreateSdp, connVars
  <2>2. CASE TurnFails(d) \/ MediaError(d)
    BY <1>1, <2>2 DEF TurnFails, MediaError, MediaErrorToDelegate, RCDisconnect
  <2> QED BY <1>3, <2>1, <2>2 DEF MediaStep
<1>4. ~PromptAnswered
  BY <1>1 DEF PromptAnswered, MediaErrorToDelegate, RCDisconnect
<1>5. ~ReceiveCall
  <2> SUFFICES ASSUME ReceiveCall PROVE FALSE
    OBVIOUS
  <2>1. /\ Reply.rc = "INCOMING_CALL" /\ replies # <<>>
        /\ state' = [state EXCEPT ![Reply.call] = "Connecting"]
    BY DEF ReceiveCall, TakeReply
  <2>2. Reply.call = c
    BY <1>1, <2>1
  <2>3. 1 \in DOMAIN replies /\ Announces(1, c)
    BY <2>1, <2>2, TailReplies DEF IInv, PipeTypes, Announces, Reply
  <2> QED BY <2>3 DEF IInv, AnnouncedInv
<1>6. ~(ReceiveAnswer \/ ReceiveIgnored \/ ReceiveRegistration)
  BY <1>1 DEF ReceiveAnswer, ReceiveIgnored, ReceiveRegistration, connVars
<1>7. ~(ReceiveIncomingCancelled \/ ReceiveRefusal \/ ReceiveBye \/ ReceiveInviteError)
  BY <1>1 DEF ReceiveIncomingCancelled, ReceiveRefusal, ReceiveBye, ReceiveInviteError, Ended,
              RCDisconnect
<1>8. ~HandleInput
  BY <1>1 DEF HandleInput, SscInvite, SscInviteInvalid, SscAnswer, SscDecline, SscBye, SscCancel,
              TakeCommand, mainVars, connVars
<1>9. ASSUME NEW d \in Calls, NuaStep(d) PROVE FALSE
  BY <1>1, <1>9 DEF NuaStep, PeerRings, PeerAnswers, InviteChallenged, InviteUnauthorized,
              InviteFails, PeerCalls, PeerCancels, PeerAcks, PeerByes, ByeAnswered,
              Terminated, Destroyed, appVars, mainVars, connVars
<1>10. ~Registration /\ ~(UNCHANGED vars)
  BY <1>1 DEF Registration, vars, connVars
<1>11. ReceiveRinging \/ \E d \in Calls : IceConnected(d)
  BY <1>2, <1>3, <1>4, <1>5, <1>6, <1>7, <1>8, <1>9, <1>10 DEF Next, HandleSofiaInput
<1>12. CASE ReceiveRinging
  BY <1>1, <1>12 DEF ReceiveRinging, TakeReply
<1>13. ASSUME NEW d \in Calls, IceConnected(d)
       PROVE  /\ c = Delegate /\ ~cancelPending[c]
              /\ media # NoCall /\ mediaStage[media] # "ice" /\ mediaStage'[media] = "ice"
  BY <1>1, <1>13 DEF IceConnected, OutgoingEstablished
<1> QED BY <1>11, <1>12, <1>13

\* No answer, permission, error, registration or operation of the App ever
\* brings an ended connection back; only a late 180 or a late ICE connection.
THEOREM ReviveOnlyLate == Spec => OnlyLateEventsRevive
<1> DEFINE Revive ==
        \A c \in Calls :
            state[c] = "Disconnected" /\ state'[c] # "Disconnected" =>
                /\ c = Delegate /\ ~cancelPending[c]
                /\ \/ replies # <<>> /\ Reply.rc = "OUTGOING_RINGING"
                   \/ media # NoCall /\ mediaStage[media] # "ice" /\ mediaStage'[media] = "ice"
<1>1. IInv /\ [Next]_vars => Revive
  BY ReviveStep
<1> HIDE DEF Revive
<1>2. Spec => [][Revive]_vars
  BY <1>1, CallInductive, PTL DEF Spec
<1>3. [][Revive]_vars <=> OnlyLateEventsRevive
  BY DEF Revive, OnlyLateEventsRevive
<1> QED BY <1>2, <1>3
-----------------------------------------------------------------------------
(* The list of operations, by induction over its length *)

Distinct(s) == \A i, j \in DOMAIN s : s[i] = s[j] => i = j
Has(s, x) == \E i \in DOMAIN s : s[i] = x

\* What is left of a list of operations without those in S.
LEMMA WithoutOpsProperties ==
    ASSUME ops \in Seq(Calls), NEW S
    PROVE  /\ WithoutOps(S) \in Seq(Calls)
           /\ \A c : Has(WithoutOps(S), c) <=> Has(ops, c) /\ c \notin S
           /\ Distinct(ops) => Distinct(WithoutOps(S))
<1> DEFINE n == Len(ops)
           Body(f, i) == IF i = 0 THEN <<>>
                         ELSE IF ops[i] \in S THEN f[i - 1] ELSE Append(f[i - 1], ops[i])
           Fits(f, m) == f = [i \in 0..m |-> Body(f, i)]
           kept == CHOOSE f : Fits(f, n)
<1>1. n \in Nat /\ DOMAIN ops = 1..n /\ \A i \in 1..n : ops[i] \in Calls
  OBVIOUS
<1>2. \E f : Fits(f, n)
  <2> DEFINE T == {m \in Nat : \E f : Fits(f, m)}
  <2>1. 0 \in T
    <3>1. Fits([i \in 0..0 |-> <<>>], 0)
      OBVIOUS
    <3> QED BY <3>1
  <2>2. ASSUME NEW k \in 0..(n - 1), k \in T PROVE k + 1 \in T
    <3>1. PICK f : Fits(f, k)
      BY <2>2
    <3> DEFINE m == k + 1
               g == [i \in 0..m |-> IF i = m THEN Body(f, m) ELSE f[i]]
    <3>2. k \in Nat /\ \A j \in 0..k : g[j] = f[j]
      BY <1>1
    <3>3. ASSUME NEW i \in 0..m PROVE g[i] = Body(g, i)
      <4>1. CASE i = m
        <5>1. g[k] = f[k] /\ m - 1 = k /\ m # 0
          BY <3>2
        <5>2. g[m] = Body(f, m)
          BY <3>2
        <5> QED BY <5>1, <5>2, <4>1
      <4>2. CASE i # m
        <5>1. i \in 0..k
          BY <4>2, <3>2
        <5>2. g[i] = f[i]
          BY <3>2, <5>1
        <5>3. f[i] = Body(f, i)
          BY <3>1, <5>1
        <5>4. i # 0 => g[i - 1] = f[i - 1]
          BY <3>2, <5>1
        <5> QED BY <5>2, <5>3, <5>4
      <4> QED BY <4>1, <4>2
    <3>4. Fits(g, m)
      BY <3>3
    <3> HIDE DEF g, Fits
    <3>5. m \in Nat
      BY <3>2
    <3> QED BY <3>4, <3>5
  <2>3. \A m \in 0..n : m \in T
    <3> HIDE DEF T
    <3> QED BY <1>1, <2>1, <2>2, UpTo
  <2>4. n \in T
    <3> HIDE DEF T
    <3> QED BY <2>3, <1>1
  <2> HIDE DEF Fits
  <2> QED BY <2>4
<1>3. Fits(kept, n)
  BY <1>2, Zenon
<1>4. WithoutOps(S) = kept[n]
  BY Zenon DEF WithoutOps
<1> HIDE DEF kept
<1>5. \A i \in 0..n : kept[i] = Body(kept, i)
  BY <1>3
<1> DEFINE Good(i) == /\ kept[i] \in Seq(Calls)
                      /\ \A c : Has(kept[i], c) <=> (\E j \in 1..i : ops[j] = c) /\ c \notin S
                      /\ Distinct(ops) => Distinct(kept[i])
<1>6. \A i \in 0..n : Good(i)
  <2> DEFINE T == {m \in 0..n : Good(m)}
  <2>1. 0 \in T
    <3>1. kept[0] = <<>>
      BY <1>1, <1>5
    <3>2. Good(0)
      BY <3>1 DEF Has, Distinct
    <3> QED BY <3>2, <1>1
  <2>2. ASSUME NEW k \in 0..(n - 1), k \in T PROVE k + 1 \in T
    <3> DEFINE m == k + 1
               t == kept[k]
    <3>1. m \in 1..n /\ ops[m] \in Calls /\ m - 1 = k /\ k \in Nat
      BY <1>1
    <3>2. \A c : (\E j \in 1..m : ops[j] = c) <=> (\E j \in 1..k : ops[j] = c) \/ c = ops[m]
      BY <3>1
    <3>3. /\ t \in Seq(Calls)
          /\ \A c : Has(t, c) <=> (\E j \in 1..k : ops[j] = c) /\ c \notin S
          /\ Distinct(ops) => Distinct(t)
      BY <2>2
    <3>4. kept[m] = IF ops[m] \in S THEN t ELSE Append(t, ops[m])
      BY <3>1, <1>5
    <3> HIDE DEF t, m
    <3>5. CASE ops[m] \in S
      BY <3>1, <3>2, <3>3, <3>4, <3>5 DEF m
    <3>6. CASE ops[m] \notin S
      <4>1. Len(t) \in Nat /\ DOMAIN t = 1..Len(t)
        BY <3>3
      <4>2. /\ kept[m] \in Seq(Calls) /\ DOMAIN kept[m] = 1..(Len(t) + 1)
            /\ kept[m][Len(t) + 1] = ops[m] /\ \A i \in 1..Len(t) : kept[m][i] = t[i]
        BY <3>1, <3>3, <3>4, <3>6
      <4> DEFINE u == kept[m]
                 x == ops[m]
                 l == Len(t)
      <4> HIDE DEF u, x, l
      <4>a. /\ l \in Nat /\ DOMAIN t = 1..l /\ DOMAIN u = 1..(l + 1) /\ u[l + 1] = x
            /\ \A i \in 1..l : u[i] = t[i]
        BY <4>1, <4>2 DEF u, x, l
      <4>b. ASSUME NEW c PROVE Has(u, c) <=> Has(t, c) \/ c = x
        BY <4>a DEF Has
      <4>3. \A c : Has(kept[m], c) <=> Has(t, c) \/ c = ops[m]
        BY <4>b, Zenon DEF u, x
      <4>4. ASSUME Distinct(ops) PROVE Distinct(kept[m])
        <5>1. ~Has(t, ops[m])
          BY <3>1, <3>3, <4>4, <1>1 DEF Distinct
        <5>2. Distinct(t) /\ ~Has(t, x)
          BY <3>3, <4>4, <5>1 DEF x
        <5>3. ASSUME NEW i \in 1..(l + 1), NEW j \in 1..(l + 1), u[i] = u[j] PROVE i = j
          <6>1. CASE i \in 1..l /\ j \in 1..l
            BY <4>a, <5>2, <5>3, <6>1 DEF Distinct
          <6>2. CASE i = l + 1 \/ j = l + 1
            BY <4>a, <5>2, <5>3, <6>2 DEF Has
          <6> QED BY <4>a, <6>1, <6>2
        <5> QED BY <4>a, <5>3 DEF Distinct, u
      <4> QED BY <3>1, <3>2, <3>3, <3>6, <4>2, <4>3, <4>4 DEF m
    <3> QED BY <3>5, <3>6
  <2>3. \A m \in 0..n : m \in T
    <3> HIDE DEF T
    <3> QED BY <1>1, <2>1, <2>2, UpTo
  <2> QED BY <2>3
<1>7. Good(n)
  <2> HIDE DEF Good
  <2> QED BY <1>6, <1>1
<1> QED BY <1>7, <1>4, <1>1 DEF Has

\* A finder of ssc_oper.mm returns an operation of the list it looks for, or none.
LEMMA FindOpProperties ==
    ASSUME ops \in Seq(Calls), NEW S, FindOp(S) # NoCall
    PROVE  FindOp(S) \in S /\ FindOp(S) \in Calls /\ Has(ops, FindOp(S))
<1> DEFINE found == {i \in DOMAIN ops : ops[i] \in S}
           first == CHOOSE i \in found : \A j \in found : i <= j
<1>1. found # {} /\ FindOp(S) = ops[first]
  BY DEF FindOp
<1>2. found \subseteq Nat
  OBVIOUS
<1>3. first \in found
  <2> HIDE DEF found
  <2> QED BY <1>1, <1>2, LeastNumber
<1> HIDE DEF first
<1> QED BY <1>1, <1>3 DEF Has
-----------------------------------------------------------------------------
(* No call is invited twice *)

\* No INVITE is written, and none changes its place.
NoNewInvite ==
    \A i \in DOMAIN commands', c \in Calls :
        Invites(i, c)' => i \in DOMAIN commands /\ Invites(i, c)

\* What is written is no INVITE.
LEMMA AppendNoInvite ==
    ASSUME PipeTypes, NEW cmd, NEW c, cmd # "i", PipeToSofia(cmd, c)
    PROVE  NoNewInvite
<1> DEFINE r == [cmd |-> cmd, call |-> c]
<1>1. r.cmd # "i" /\ commands' = Append(commands, r)
  BY DEF PipeToSofia
<1> HIDE DEF r
<1>2. \A i \in DOMAIN commands' :
         \/ i \in DOMAIN commands /\ commands'[i] = commands[i]
         \/ commands'[i] = r
  BY <1>1 DEF PipeTypes
<1> QED BY <1>1, <1>2 DEF NoNewInvite, Invites

\* Nor is what disconnect writes.
LEMMA DisconnectNoInvite ==
    ASSUME PipeTypes, NEW c \in Calls, commands' = commands \o DisconnectCommand(c)
    PROVE  NoNewInvite
<1>1. \/ DisconnectCommand(c) = <<>>
      \/ \E cmd \in {"c", "d", "b"} : DisconnectCommand(c) = <<[cmd |-> cmd, call |-> c]>>
  BY DEF DisconnectCommand
<1>2. CASE DisconnectCommand(c) = <<>>
  BY <1>2 DEF PipeTypes, NoNewInvite, Invites
<1>3. ASSUME NEW cmd \in {"c", "d", "b"}, DisconnectCommand(c) = <<[cmd |-> cmd, call |-> c]>>
      PROVE  NoNewInvite
  <2> DEFINE r == [cmd |-> cmd, call |-> c]
  <2>1. r \in Command_
    BY DEF Command_, CommandNames
  <2>2. commands' = commands \o <<r>>
    BY <1>3
  <2> HIDE DEF r
  <2>3. commands' = Append(commands, r)
    BY <2>1, <2>2, AppendIsConcat DEF PipeTypes
  <2> QED BY <2>3, AppendNoInvite DEF PipeToSofia, r
<1> QED BY <1>1, <1>2, <1>3

\* InvitesInv is kept by a step of the main thread that writes no INVITE, when
\* a call enters the early stages only as it is made, or from one to the next.
LEMMA InvitesKept ==
    ASSUME InvitesInv, NoNewInvite, sip' = sip,
           \A c \in Calls : state[c] # "unborn" => state'[c] # "unborn" /\ incoming'[c] = incoming[c],
           \A c \in Calls :
               state'[c] # "unborn" /\ ~incoming'[c] /\ mediaStage'[c] \in EarlyStages =>
                   /\ sip[c] = "idle"
                   /\ state[c] = "unborn" \/ (~incoming[c] /\ mediaStage[c] \in EarlyStages)
    PROVE  InvitesInv'
<1> SUFFICES ASSUME NEW c \in Calls
             PROVE  /\ state'[c] # "unborn" /\ ~incoming'[c] /\ mediaStage'[c] \in EarlyStages =>
                          sip'[c] = "idle" /\ \A i \in DOMAIN commands' : ~Invites(i, c)'
                    /\ \A i \in DOMAIN commands' : Invites(i, c)' =>
                          /\ state'[c] # "unborn" /\ ~incoming'[c] /\ sip'[c] = "idle"
                          /\ \A j \in DOMAIN commands' : Invites(j, c)' => i = j
  BY DEF InvitesInv
<1>1. ASSUME NEW i \in DOMAIN commands', Invites(i, c)'
      PROVE  i \in DOMAIN commands /\ Invites(i, c) /\ state[c] # "unborn" /\ ~incoming[c]
             /\ sip[c] = "idle" /\ mediaStage[c] \notin EarlyStages
  BY <1>1 DEF NoNewInvite, InvitesInv
<1>2. \A i, j \in DOMAIN commands : Invites(i, c) /\ Invites(j, c) => i = j
  BY DEF InvitesInv
<1> QED BY <1>1, <1>2

\* A step that makes no call and sets up no media.
LEMMA QuietStep ==
    ASSUME CallInv, NoNewInvite, UNCHANGED <<incoming, activeCall, isInitiator, sip>>,
           \A c \in Calls : state'[c] = "unborn" <=> state[c] = "unborn",
           \A c \in Calls : mediaStage'[c] # mediaStage[c] =>
               /\ c = media \/ mediaStage[c] = "turn"
               /\ mediaStage'[c] \in EarlyStages =>
                     mediaStage[c] \in EarlyStages,
           media' \in {media, NoCall},
           UNCHANGED <<permission, prompting>> \/ (prompting /\ ~prompting')
    PROVE  InvitesInv' /\ SetUpInv'
<1> USE CallControlAssumption
<1>1. /\ InvitesInv /\ SetUpInv /\ media \in Calls \cup {NoCall}
      /\ activeCall \in Calls \cup {NoCall} /\ (prompting => activeCall \in Calls)
  BY DEF CallInv, IInv, MainInv, MainTypes, ActiveInv
<1>2. InvitesInv'
  BY <1>1, InvitesKept DEF InvitesInv
<1>3. \A c \in Calls : state'[c] = "unborn" => mediaStage'[c] = "none" /\ ~incoming'[c]
  BY <1>1 DEF SetUpInv
<1>4. activeCall' # NoCall => state'[activeCall'] # "unborn"
  BY <1>1 DEF SetUpInv
<1>5. media' # NoCall =>
        /\ state'[media'] # "unborn" /\ permission' = "granted"
        /\ isInitiator' /\ ~incoming'[activeCall'] => activeCall' = media'
  BY <1>1 DEF SetUpInv
<1>6. prompting' => permission' = "undetermined"
                    /\ (~incoming'[activeCall'] => mediaStage'[activeCall'] = "none")
  BY <1>1 DEF SetUpInv
<1> QED BY <1>2, <1>3, <1>4, <1>5, <1>6 DEF SetUpInv

\* Closing the media touches only that, and leaves no early stage.
LEMMA ClosedLate ==
    ASSUME MainTypes, NEW c \in Calls, ClosedMedia[c] # mediaStage[c]
    PROVE  c = media /\ ClosedMedia[c] = "closed"
BY DEF ClosedMedia, MainTypes

\* Disconnecting a connection that has been made is quiet.
LEMMA DisconnectQuiet ==
    ASSUME CallInv, NEW c \in Calls, state[c] # "unborn", DisconnectEffects(c),
           state' = [state EXCEPT ![c] = "Disconnected"]
    PROVE  /\ NoNewInvite /\ media' = NoCall
           /\ \A d \in Calls : state'[d] = "unborn" <=> state[d] = "unborn"
<1>1. NoNewInvite
  BY DisconnectNoInvite DEF CallInv, IInv, DisconnectEffects
<1> QED BY <1>1 DEF DisconnectEffects, CallInv, IInv, MainInv, MainTypes

\* Writing nothing is quiet.
LEMMA NothingWritten ==
    ASSUME commands' = commands
    PROVE  NoNewInvite
BY DEF NoNewInvite, Invites

\* Media for a call that has none yet.
LEMMA HandleCallSetsUp ==
    ASSUME CallInv, NEW c \in Calls, media = NoCall, HandleCall(c)
    PROVE  /\ media' = c /\ isInitiator' = ~incoming[c]
           /\ mediaStage' \in [Calls -> MediaStages]
           /\ mediaStage'[c] \in EarlyStages
           /\ \A d \in Calls : d # c => mediaStage'[d] = mediaStage[d]
BY DEF HandleCall, CallInv, IInv, MainInv, MainTypes, MediaStages, EarlyStages

\* connect: the new call has no media yet and NUA does not know it.
LEMMA ConnectInvites ==
    ASSUME CallInv, NEW c \in Calls, ConnectRefused(c) \/ Connect(c) \/ ConnectDenied(c)
    PROVE  InvitesInv' /\ SetUpInv'
<1> USE CallControlAssumption DEF NewConnection
<1>1. /\ InvitesInv /\ SetUpInv /\ c # NoCall /\ state[c] = "unborn" /\ sip[c] = "idle"
      /\ state \in [Calls -> ConnStates] /\ mediaStage[c] = "none" /\ ~incoming[c]
      /\ mediaStage \in [Calls -> MediaStages] /\ media \in Calls \cup {NoCall}
      /\ commands' = commands /\ sip' = sip /\ incoming' = incoming /\ permission' = permission
      /\ \A d \in Calls : d # c => state'[d] = state[d]
      /\ state'[c] # "unborn"
  BY DEF ConnectRefused, Connect, ConnectDenied, CallInv, SetUpInv, IInv, MainInv, MainTypes,
         sofiaVars
<1>2. NoNewInvite
  BY <1>1, NothingWritten
<1>3. /\ mediaStage'[c] \in EarlyStages
      /\ \A d \in Calls : d # c => mediaStage'[d] = mediaStage[d]
      /\ \/ UNCHANGED <<media, isInitiator, prompting>>
         \/ activeCall' = c /\ media = NoCall /\ media' = c
            /\ permission = "granted" /\ UNCHANGED prompting
         \/ activeCall' = c /\ media = NoCall /\ media' = NoCall /\ permission # "granted"
            /\ permission # "denied" /\ prompting' /\ mediaStage'[c] = "none"
  <2>1. CASE ConnectRefused(c) \/ ConnectDenied(c)
    BY <1>1, <2>1 DEF ConnectRefused, ConnectDenied, EarlyStages
  <2>2. CASE Connect(c) /\ permission = "granted"
    BY <1>1, <2>2, HandleCallSetsUp DEF Connect
  <2>3. CASE Connect(c) /\ permission # "granted"
    BY <1>1, <2>3 DEF Connect, EarlyStages
  <2> QED BY <2>1, <2>2, <2>3
<1>4. InvitesInv'
  BY <1>1, <1>2, <1>3, InvitesKept DEF InvitesInv
<1>5. SetUpInv'
  <2>1. permission \in Permissions /\ activeCall \in Calls \cup {NoCall}
        /\ (prompting => activeCall \in Calls) /\ (media # NoCall => activeCall \in Calls)
    BY DEF CallInv, IInv, MainInv, MainTypes, ActiveInv
  <2>2. CASE ConnectRefused(c)
    BY <1>1, <2>1, <2>2 DEF SetUpInv, ConnectRefused
  <2>3. CASE ConnectDenied(c)
    BY <1>1, <2>1, <2>3 DEF SetUpInv, ConnectDenied
  <2>4. CASE Connect(c) /\ permission = "granted"
    <3>1. /\ media' = c /\ activeCall' = c /\ ~prompting
          /\ prompting' = prompting
      BY <1>1, <2>4, HandleCallSetsUp DEF Connect, SetUpInv
    <3> QED BY <1>1, <1>3, <2>4, <3>1 DEF SetUpInv
  <2>5. CASE Connect(c) /\ permission # "granted"
    BY <1>1, <2>1, <2>5 DEF SetUpInv, Connect, Permissions
  <2> QED BY <2>2, <2>3, <2>4, <2>5
<1> QED BY <1>4, <1>5

\* Media for the call activeCallParams are about, which has none yet: by
\* accept, when that call is an incoming one, or after the prompt.
LEMMA SetUpStep ==
    ASSUME CallInv, activeCall \in Calls, media = NoCall, HandleCall(activeCall),
           UNCHANGED <<incoming, activeCall, sip, commands>>,
           \A c \in Calls : state'[c] = "unborn" <=> state[c] = "unborn",
           permission' = "granted", ~prompting',
           incoming[activeCall] \/ mediaStage[activeCall] = "none"
    PROVE  InvitesInv' /\ SetUpInv'
<1> USE CallControlAssumption
<1>1. /\ InvitesInv /\ SetUpInv /\ activeCall # NoCall /\ state[activeCall] # "unborn"
      /\ NoNewInvite
  BY NothingWritten DEF CallInv, SetUpInv
<1>2. PICK c \in Calls : c = activeCall
  OBVIOUS
<1>3. /\ media' = c /\ isInitiator' = ~incoming[c]
      /\ mediaStage'[c] \in EarlyStages
      /\ \A d \in Calls : d # c => mediaStage'[d] = mediaStage[d]
  BY <1>2, HandleCallSetsUp
<1>4. InvitesInv'
  BY <1>1, <1>2, <1>3, InvitesKept DEF InvitesInv, EarlyStages
<1>5. SetUpInv'
  BY <1>1, <1>2, <1>3 DEF SetUpInv
<1> QED BY <1>4, <1>5

\* accept: media for the offer at hand, or the prompt.
LEMMA AcceptInvites ==
    ASSUME CallInv, NEW c \in Calls, Accept(c)
    PROVE  InvitesInv' /\ SetUpInv'
<1> USE CallControlAssumption DEF Accept
<1>1. /\ InvitesInv /\ SetUpInv /\ activeCall \in Calls /\ NoNewInvite
      /\ UNCHANGED <<incoming, activeCall, sip, commands, permission>>
      /\ \A d \in Calls : state'[d] = "unborn" <=> state[d] = "unborn"
  BY NothingWritten DEF CallInv, IInv, MainInv, MainTypes, ActiveInv, sofiaVars
<1>2. CASE permission = "granted" /\ media = NoCall
  <2>1. ~prompting'
    BY <1>1, <1>2 DEF SetUpInv
  <2> QED BY <1>1, <1>2, <2>1, SetUpStep
<1>3. CASE permission = "granted" /\ media # NoCall
  <2>1. UNCHANGED <<media, isInitiator, mediaStage, prompting>>
    BY <1>3 DEF HandleCall
  <2> QED BY <1>1, <2>1, QuietStep
<1>4. CASE permission # "granted"
  <2>1. /\ UNCHANGED <<media, isInitiator, mediaStage>> /\ media = NoCall /\ incoming[activeCall]
        /\ permission = "undetermined"
    BY <1>1, <1>4 DEF SetUpInv, CallInv, IInv, MainInv, MainTypes, Permissions
  <2>2. InvitesInv'
    BY <1>1, <2>1, InvitesKept DEF InvitesInv
  <2>3. SetUpInv'
    BY <1>1, <2>1 DEF SetUpInv
  <2> QED BY <2>2, <2>3
<1> QED BY <1>2, <1>3, <1>4

\* The other operations of the App.
LEMMA HangUpInvites ==
    ASSUME CallInv, NEW c \in Calls,
           AcceptDenied(c) \/ Reject(c) \/ Disconnect(c) \/ Release(c)
    PROVE  InvitesInv' /\ SetUpInv'
<1> USE CallControlAssumption DEF CallInv, IInv, MainInv
<1>1. state \in [Calls -> ConnStates] /\ PipeTypes /\ MainTypes
  BY DEF MainTypes
<1>2. UNCHANGED <<incoming, activeCall, isInitiator, sip, permission, prompting>>
  BY DEF AcceptDenied, Reject, Disconnect, Release, connVars, mediaVars, sofiaVars
<1>3. CASE Reject(c) \/ Release(c)
  <2>1. UNCHANGED <<state, media, mediaStage>>
    BY <1>3 DEF Reject, Release, connVars, mediaVars
  <2>2. NoNewInvite
    BY <1>1, <1>3, AppendNoInvite, NothingWritten DEF Reject, Release
  <2> QED BY <1>2, <2>1, <2>2, QuietStep
<1>4. CASE Disconnect(c)
  <2>1. state[c] # "unborn"
    BY <1>4 DEF Disconnect, BusyHasLiveCall, Live
  <2>2. /\ DisconnectEffects(c) /\ state' = [state EXCEPT ![c] = "Disconnected"]
        /\ mediaStage' = ClosedMedia
    BY <1>4 DEF Disconnect, RCDisconnect
  <2>3. /\ NoNewInvite /\ media' = NoCall
        /\ \A d \in Calls : state'[d] = "unborn" <=> state[d] = "unborn"
    BY <2>1, <2>2, DisconnectQuiet
  <2> QED BY <1>1, <1>2, <2>2, <2>3, ClosedLate, QuietStep DEF EarlyStages
<1>5. CASE AcceptDenied(c)
  <2>1. CASE Delegate = NoCall
    <3>1. /\ UNCHANGED <<media, mediaStage>> /\ NoNewInvite
          /\ \A d \in Calls : state'[d] = "unborn" <=> state[d] = "unborn"
      BY <1>1, <1>5, <2>1, NothingWritten DEF AcceptDenied
    <3> QED BY <1>2, <3>1, QuietStep
  <2>2. CASE Delegate # NoCall
    <3>1. PICK d \in Calls : d = Delegate /\ state[d] # "unborn"
      BY <2>2, DelegateMade
    <3>2. /\ mediaStage' = ClosedMedia /\ media' = NoCall
          /\ commands' = commands \o DisconnectCommand(d)
          /\ state' = [state EXCEPT ![d] = "Disconnected", ![c] = "Connected"]
          /\ state[c] = "Connecting"
      BY <1>5, <2>2, <3>1 DEF AcceptDenied, DisconnectEffects
    <3>3. NoNewInvite
      BY <1>1, <3>2, DisconnectNoInvite
    <3>4. \A e \in Calls : state'[e] = "unborn" <=> state[e] = "unborn"
      BY <1>1, <3>1, <3>2
    <3> QED BY <1>1, <1>2, <3>2, <3>3, <3>4, ClosedLate, QuietStep DEF EarlyStages
  <2> QED BY <2>1, <2>2
<1> QED BY <1>3, <1>4, <1>5

\* An error of the media or the prompt reaches the delegate, if there is one.
LEMMA ErrorInvites ==
    ASSUME CallInv, MediaErrorToDelegate,
           UNCHANGED <<incoming, activeCall, isInitiator, sip>>,
           UNCHANGED <<permission, prompting>> \/ (prompting /\ ~prompting')
    PROVE  InvitesInv' /\ SetUpInv'
<1> USE DEF CallInv, IInv, MainInv
<1>1. CASE Delegate = NoCall
  <2>1. UNCHANGED <<state, media, mediaStage>> /\ NoNewInvite
    BY <1>1, NothingWritten DEF MediaErrorToDelegate
  <2> QED BY <2>1, QuietStep
<1>2. CASE Delegate # NoCall
  <2>1. Delegate \in Calls /\ state[Delegate] # "unborn"
    BY <1>2, DelegateMade
  <2>2. /\ DisconnectEffects(Delegate) /\ state' = [state EXCEPT ![Delegate] = "Disconnected"]
        /\ mediaStage' = ClosedMedia
    BY <1>2 DEF MediaErrorToDelegate, RCDisconnect
  <2>3. /\ NoNewInvite /\ media' = NoCall
        /\ \A d \in Calls : state'[d] = "unborn" <=> state[d] = "unborn"
    BY <2>1, <2>2, DisconnectQuiet
  <2> QED BY <2>2, <2>3, ClosedLate, QuietStep DEF EarlyStages
<1> QED BY <1>1, <1>2

\* The prompt is answered: media for the call active by then, or an error.
LEMMA PromptInvites ==
    ASSUME CallInv, PromptAnswered
    PROVE  InvitesInv' /\ SetUpInv'
<1> USE CallControlAssumption DEF PromptAnswered
<1>1. /\ prompting /\ ~prompting' /\ activeCall \in Calls /\ media = NoCall
      /\ UNCHANGED <<incoming, activeCall, sip>>
      /\ incoming[activeCall] \/ mediaStage[activeCall] = "none"
  BY DEF CallInv, IInv, MainInv, MainTypes, ActiveInv, SetUpInv, sofiaVars
<1>2. CASE permission' = "granted"
  BY <1>1, <1>2, SetUpStep
<1>3. CASE permission' # "granted"
  BY <1>1, <1>3, ErrorInvites
<1> QED BY <1>2, <1>3

\* The media's progress and errors, but for the SDP: no stage is entered again.
LEMMA MediaInvites ==
    ASSUME CallInv, NEW c \in Calls,
           TurnComplete(c) \/ TurnFails(c) \/ MediaError(c) \/ IceConnected(c)
    PROVE  InvitesInv' /\ SetUpInv'
<1> USE CallControlAssumption DEF CallInv, IInv, MainInv
<1>1. /\ UNCHANGED <<incoming, activeCall, isInitiator, sip, permission, prompting>>
      /\ state \in [Calls -> ConnStates] /\ mediaStage \in [Calls -> MediaStages]
      /\ PipeTypes /\ MainTypes
  BY DEF TurnComplete, TurnFails, MediaError, IceConnected, connVars, sofiaVars, MainTypes
<1>2. CASE TurnComplete(c)
  <2>1. UNCHANGED <<state, media>> /\ NoNewInvite
    BY <1>2, NothingWritten DEF TurnComplete, connVars
  <2>2. \A d \in Calls : mediaStage'[d] # mediaStage[d] =>
           mediaStage[d] = "turn" /\ mediaStage[d] \in EarlyStages
    BY <1>1, <1>2 DEF TurnComplete, EarlyStages
  <2> QED BY <1>1, <2>1, <2>2, QuietStep
<1>3. CASE TurnFails(c)
  <2>1. CASE Delegate = NoCall
    <3>1. UNCHANGED <<state, media>> /\ NoNewInvite
      BY <1>3, <2>1, NothingWritten DEF TurnFails
    <3>2. \A d \in Calls : mediaStage'[d] # mediaStage[d] =>
             mediaStage[d] = "turn" /\ mediaStage'[d] \notin EarlyStages
      BY <1>1, <1>3, <2>1 DEF TurnFails, EarlyStages
    <3> QED BY <1>1, <3>1, <3>2, QuietStep
  <2>2. CASE Delegate # NoCall
    <3>1. Delegate \in Calls /\ state[Delegate] # "unborn"
      BY <2>2, DelegateMade
    <3>2. /\ DisconnectEffects(Delegate) /\ state' = [state EXCEPT ![Delegate] = "Disconnected"]
          /\ mediaStage' = [ClosedMedia EXCEPT ![c] = "closed"] /\ mediaStage[c] = "turn"
      BY <1>3, <2>2 DEF TurnFails
    <3>3. /\ NoNewInvite /\ media' = NoCall
          /\ \A d \in Calls : state'[d] = "unborn" <=> state[d] = "unborn"
      BY <3>1, <3>2, DisconnectQuiet
    <3>4. \A d \in Calls : mediaStage'[d] # mediaStage[d] =>
             (d = media \/ mediaStage[d] = "turn") /\ mediaStage'[d] \notin EarlyStages
      BY <1>1, <3>2, ClosedLate, ClosedType DEF EarlyStages
    <3> QED BY <1>1, <3>3, <3>4, QuietStep
  <2> QED BY <2>1, <2>2
<1>4. CASE MediaError(c)
  BY <1>1, <1>4, ErrorInvites DEF MediaError
<1>5. CASE IceConnected(c)
  <2>1. /\ media = c /\ media' = media
        /\ \A d \in Calls : mediaStage'[d] # mediaStage[d] =>
              d = media /\ mediaStage'[d] \notin EarlyStages
    BY <1>1, <1>5 DEF IceConnected, EarlyStages
  <2>2. /\ \A d \in Calls : state'[d] = "unborn" <=> state[d] = "unborn"
        /\ NoNewInvite
    <3>1. CASE ~(isInitiator /\ Delegate # NoCall)
      BY <1>5, <3>1, NothingWritten DEF IceConnected
    <3>2. CASE isInitiator /\ Delegate # NoCall
      <4>1. PICK d \in Calls : d = Delegate /\ state[d] # "unborn"
        BY <3>2, DelegateMade
      <4>2. \/ PipeToSofia("b", d) /\ state' = state
            \/ commands' = commands /\ state' = [state EXCEPT ![d] = "Connected"]
        BY <1>5, <3>2, <4>1 DEF IceConnected, OutgoingEstablished
      <4> QED BY <1>1, <4>1, <4>2, AppendNoInvite, NothingWritten
    <3> QED BY <3>1, <3>2
  <2> QED BY <1>1, <2>1, <2>2, QuietStep
<1> QED BY <1>2, <1>3, <1>4, <1>5

\* The SDP of an initiator's media is the one INVITE of its call.
LEMMA SdpInvites ==
    ASSUME CallInv, NEW c \in Calls, CreateSdp(c)
    PROVE  InvitesInv' /\ SetUpInv'
<1> USE CallControlAssumption DEF CreateSdp
<1>1. /\ UNCHANGED <<state, incoming, activeCall, isInitiator, sip, permission, prompting, media>>
      /\ media = c /\ mediaStage[c] = "gather" /\ mediaStage \in [Calls -> MediaStages]
      /\ mediaStage' = [mediaStage EXCEPT ![c] = "sent"]
      /\ PipeTypes /\ InvitesInv /\ SetUpInv
  BY DEF connVars, sofiaVars, CallInv, IInv, MainInv, MainTypes
<1>2. CASE ~isInitiator
  <2>1. NoNewInvite
    BY <1>1, <1>2, AppendNoInvite
  <2>2. \A d \in Calls : mediaStage'[d] # mediaStage[d] =>
           d = media /\ mediaStage'[d] \notin EarlyStages
    BY <1>1 DEF EarlyStages
  <2> QED BY <1>1, <2>1, <2>2, QuietStep
<1>3. CASE isInitiator
  <2>1. /\ activeCall = c /\ PipeToSofia("i", c) /\ ~incoming[c] /\ state[c] # "unborn"
        /\ sip[c] = "idle" /\ \A i \in DOMAIN commands : ~Invites(i, c)
    BY <1>1, <1>3 DEF SetUpInv, InvitesInv, EarlyStages
  <2> DEFINE n == Len(commands) + 1
             r == [cmd |-> "i", call |-> c]
  <2>2. r.call = c /\ r \in Command_
    BY DEF Command_, CommandNames
  <2>3. commands' = Append(commands, r)
    BY <2>1 DEF PipeToSofia
  <2> HIDE DEF r
  <2>4. /\ DOMAIN commands' = DOMAIN commands \cup {n} /\ commands'[n] = r
        /\ \A i \in DOMAIN commands : commands'[i] = commands[i]
    BY <1>1, <2>2, <2>3 DEF PipeTypes
  <2> HIDE DEF n
  <2>5. \A d \in Calls : mediaStage'[d] \in EarlyStages => d # c /\ mediaStage[d] \in EarlyStages
    BY <1>1 DEF EarlyStages
  <2>6. \A i \in DOMAIN commands', d \in Calls :
           Invites(i, d)' => (i \in DOMAIN commands /\ Invites(i, d)) \/ (i = n /\ d = c)
    BY <2>2, <2>4 DEF Invites
  <2>7. InvitesInv'
    <3>1. ASSUME NEW d \in Calls, d # c
          PROVE  /\ state'[d] # "unborn" /\ ~incoming'[d] /\ mediaStage'[d] \in EarlyStages =>
                       sip'[d] = "idle" /\ \A i \in DOMAIN commands' : ~Invites(i, d)'
                 /\ \A i \in DOMAIN commands' : Invites(i, d)' =>
                       /\ state'[d] # "unborn" /\ ~incoming'[d] /\ sip'[d] = "idle"
                       /\ \A j \in DOMAIN commands' : Invites(j, d)' => i = j
      BY <1>1, <2>5, <2>6, <3>1 DEF InvitesInv
    <3>2. /\ mediaStage'[c] \notin EarlyStages
          /\ \A i \in DOMAIN commands' : Invites(i, c)' =>
                       /\ state'[c] # "unborn" /\ ~incoming'[c] /\ sip'[c] = "idle"
                       /\ \A j \in DOMAIN commands' : Invites(j, c)' => i = j
      BY <1>1, <2>1, <2>5, <2>6
    <3> QED BY <3>1, <3>2 DEF InvitesInv
  <2>8. SetUpInv'
    <3>1. \A d \in Calls : state'[d] = "unborn" => mediaStage'[d] = "none" /\ ~incoming'[d]
      BY <1>1, <2>1 DEF SetUpInv
    <3>2. ~prompting'
      BY <1>1 DEF SetUpInv
    <3> QED BY <1>1, <3>1, <3>2 DEF SetUpInv
  <2> QED BY <2>7, <2>8
<1> QED BY <1>2, <1>3

\* A reply: an incoming call is made with an offer to answer, never to invite.
LEMMA ReplyInvites ==
    ASSUME CallInv, HandleSofiaInput
    PROVE  InvitesInv' /\ SetUpInv'
<1> USE CallControlAssumption DEF CallInv, IInv, MainInv
<1>1. /\ UNCHANGED <<isInitiator, sip, permission, prompting>>
      /\ replies # <<>> /\ state \in [Calls -> ConnStates] /\ PipeTypes /\ MainTypes
  BY DEF HandleSofiaInput, ReceiveCall, ReceiveRinging, ReceiveAnswer, ReceiveIgnored,
         ReceiveIncomingCancelled, ReceiveRefusal, ReceiveBye, ReceiveInviteError,
         ReceiveRegistration, TakeReply, sofiaVars, MainTypes
<1>2. CASE ReceiveCall
  <2>1. PICK c \in Calls : c = Reply.call /\ Announces(1, c) /\ 1 \in DOMAIN replies
    <3>1. Reply \in Reply_ /\ Reply = replies[1] /\ 1 \in DOMAIN replies
      BY <1>1, TailReplies DEF PipeTypes, Reply
    <3> QED BY <1>2, <3>1 DEF Reply_, RegisterCodes, Announces, ReceiveCall, TakeReply
  <2>2. /\ state[c] = "unborn" /\ c # NoCall /\ UNCHANGED <<media, mediaStage, commands>>
        /\ state' = [state EXCEPT ![c] = "Connecting"] /\ activeCall' = c
        /\ incoming \in [Calls -> BOOLEAN] /\ incoming' = [incoming EXCEPT ![c] = TRUE]
    BY <1>2, <2>1 DEF ReceiveCall, AnnouncedInv, MainTypes
  <2>3. /\ \A d \in Calls : d # c => state'[d] = state[d] /\ incoming'[d] = incoming[d]
        /\ state'[c] = "Connecting" /\ incoming'[c]
    BY <1>1, <2>2
  <2>4. InvitesInv'
    BY <1>1, <2>2, <2>3, NothingWritten, InvitesKept DEF InvitesInv
  <2>5. SetUpInv'
    BY <1>1, <2>2, <2>3 DEF SetUpInv
  <2> QED BY <2>4, <2>5
<1>3. CASE ReceiveRinging
  <2>1. UNCHANGED <<incoming, activeCall, media, mediaStage>>
    BY <1>3 DEF ReceiveRinging
  <2>2. CASE Delegate = NoCall
    BY <1>1, <1>3, <2>1, <2>2, NothingWritten, QuietStep DEF ReceiveRinging
  <2>3. CASE Delegate # NoCall
    <3>1. PICK d \in Calls : d = Delegate /\ state[d] # "unborn"
      BY <2>3, DelegateMade
    <3>2. \/ PipeToSofia("c", d) /\ state' = state
          \/ commands' = commands /\ state' = [state EXCEPT ![d] = "Connecting"]
      BY <1>3, <2>3, <3>1 DEF ReceiveRinging
    <3>3. NoNewInvite /\ \A e \in Calls : state'[e] = "unborn" <=> state[e] = "unborn"
      BY <1>1, <3>1, <3>2, AppendNoInvite, NothingWritten
    <3> QED BY <1>1, <2>1, <3>3, QuietStep
  <2> QED BY <2>2, <2>3
<1>4. CASE ReceiveAnswer
  <2>1. UNCHANGED <<state, incoming, activeCall, media>> /\ NoNewInvite
    BY <1>4, NothingWritten DEF ReceiveAnswer, connVars
  <2>2. \A c \in Calls : mediaStage'[c] # mediaStage[c] =>
           c = media /\ mediaStage'[c] \notin EarlyStages
    BY <1>4 DEF ReceiveAnswer, EarlyStages, MainTypes
  <2> QED BY <1>1, <2>1, <2>2, QuietStep
<1>5. CASE ReceiveIgnored \/ ReceiveRegistration
  <2>1. UNCHANGED <<state, incoming, activeCall, media, mediaStage>> /\ NoNewInvite
    BY <1>5, NothingWritten DEF ReceiveIgnored, ReceiveRegistration, connVars
  <2> QED BY <1>1, <2>1, QuietStep
<1>6. CASE ReceiveIncomingCancelled \/ ReceiveRefusal \/ ReceiveBye
  <2>1. /\ \E ready \in {"Ready", "Offline"} : Ended(ready)
        /\ media' \in {media, NoCall} /\ mediaStage' \in {mediaStage, ClosedMedia}
    BY <1>6 DEF ReceiveIncomingCancelled, ReceiveRefusal, ReceiveBye, DisconnectMedia
  <2>2. UNCHANGED <<incoming, activeCall>> /\ NoNewInvite
    BY <2>1, NothingWritten DEF Ended
  <2>3. \A c \in Calls : state'[c] = "unborn" <=> state[c] = "unborn"
    BY <1>1, <2>1, DelegateMade DEF Ended
  <2>4. \A c \in Calls : mediaStage'[c] # mediaStage[c] =>
           c = media /\ mediaStage'[c] \notin EarlyStages
    BY <1>1, <2>1, ClosedLate DEF EarlyStages
  <2> QED BY <1>1, <2>1, <2>2, <2>3, <2>4, QuietStep
<1>7. CASE ReceiveInviteError
  <2>1. UNCHANGED <<incoming, activeCall>> /\ mediaStage' = ClosedMedia /\ media' = NoCall
    BY <1>7 DEF ReceiveInviteError, RCDisconnect, DisconnectEffects, DisconnectMedia
  <2>2. NoNewInvite /\ \A c \in Calls : state'[c] = "unborn" <=> state[c] = "unborn"
    <3>1. CASE Delegate = NoCall
      BY <1>7, <3>1, NothingWritten DEF ReceiveInviteError
    <3>2. CASE Delegate # NoCall
      BY <1>7, <3>2, DelegateMade, DisconnectQuiet DEF ReceiveInviteError, RCDisconnect
    <3> QED BY <3>1, <3>2
  <2> QED BY <1>1, <2>1, <2>2, ClosedLate, QuietStep DEF EarlyStages
<1> QED BY <1>2, <1>3, <1>4, <1>5, <1>6, <1>7 DEF HandleSofiaInput
-----------------------------------------------------------------------------
(* The operation list *)

SipOver == {"idle", "down", "rejected", "vanished"}

\* The callstate that goes with a call in SIP, when those in C were challenged.
CallstateOf(c, s, C) ==
    CASE s \in {"calling", "ringing"} /\ c \notin C -> "sent"
      [] s = "received" -> "recv"
      [] s = "answered" -> "complete"
      [] s = "up" -> "active"
      [] OTHER -> "none"

\* OpsTrackCalls in these words.
LEMMA OpsTrack ==
    OpsTrackCalls <=>
        /\ Distinct(ops)
        /\ \A c \in Calls : /\ Has(ops, c) <=> sip[c] \notin SipOver
                            /\ callstate[c] = CallstateOf(c, sip[c], challenged)
BY DEF OpsTrackCalls, SipEnded, Distinct, Has, SipOver, CallstateOf

\* Destroying the operations in S, whose calls end with it, and no others.
LEMMA DestroyOps ==
    ASSUME OpsInv, SofiaTypes, NEW S, NEW over \in {"down", "rejected", "vanished"},
           ops' = WithoutOps(S), challenged' = challenged, \A c \in Calls : c \in S => Has(ops, c),
           sip' = [c \in Calls |-> IF c \in S THEN over ELSE sip[c]],
           callstate' = [c \in Calls |-> IF c \in S THEN "none" ELSE callstate[c]]
    PROVE  OpsInv'
<1>1. /\ ops' \in Seq(Calls) /\ Distinct(ops')
      /\ \A c : Has(ops', c) <=> Has(ops, c) /\ c \notin S
  BY WithoutOpsProperties, OpsTrack DEF OpsInv
<1>2. ASSUME NEW c \in Calls
      PROVE  Has(ops', c) <=> sip'[c] \notin SipOver
  BY <1>1, OpsTrack DEF OpsInv, SipOver
<1>3. ASSUME NEW c \in Calls
      PROVE  callstate'[c] = CallstateOf(c, sip'[c], challenged')
  BY OpsTrack DEF OpsInv, CallstateOf
<1>4. OpsTrackCalls'
  BY <1>1, <1>2, <1>3 DEF OpsTrackCalls, SipEnded, Distinct, Has, SipOver, CallstateOf
<1> QED BY <1>1, <1>4 DEF OpsInv

\* A call in progress goes on, with the callstate that goes with it.
LEMMA MoveOn ==
    ASSUME OpsInv, SofiaTypes, NEW c \in Calls, sip[c] \notin SipOver, ops' = ops,
           NEW s \in SipStates, s \notin SipOver,
           \A d \in Calls \ {c} : d \in challenged' <=> d \in challenged,
           sip' = [sip EXCEPT ![c] = s],
           callstate' = [callstate EXCEPT ![c] = CallstateOf(c, s, challenged')]
    PROVE  OpsInv'
<1>1. \A d \in Calls : /\ Has(ops, d) <=> sip'[d] \notin SipOver
                       /\ callstate'[d] = CallstateOf(d, sip'[d], challenged')
  <2> TAKE d \in Calls
  <2>1. CASE d = c
    BY <2>1, OpsTrack DEF OpsInv, SofiaTypes
  <2>2. CASE d # c
    BY <2>2, OpsTrack DEF OpsInv, SofiaTypes, CallstateOf
  <2> QED BY <2>1, <2>2
<1>2. OpsTrackCalls'
  BY <1>1, OpsTrack DEF OpsInv, OpsTrackCalls, SipEnded, Distinct, Has, SipOver, CallstateOf
<1> QED BY <1>2 DEF OpsInv

\* A call that is not in a list, put in front of it.
LEMMA PrependProperties ==
    ASSUME NEW s \in Seq(Calls), NEW c \in Calls, ~Has(s, c), Distinct(s)
    PROVE  /\ <<c>> \o s \in Seq(Calls) /\ Distinct(<<c>> \o s)
           /\ \A d \in Calls : Has(<<c>> \o s, d) <=> Has(s, d) \/ d = c
<1> DEFINE t == <<c>> \o s
<1>1. /\ t \in Seq(Calls) /\ Len(t) = Len(s) + 1 /\ Len(s) \in Nat
      /\ DOMAIN s = 1..Len(s) /\ DOMAIN t = 1..Len(t)
      /\ t[1] = c /\ \A i \in 2..Len(t) : t[i] = s[i - 1]
  OBVIOUS
<1> HIDE DEF t
<1>2. Distinct(t)
  <2> SUFFICES ASSUME NEW i \in DOMAIN t, NEW j \in DOMAIN t, t[i] = t[j]
               PROVE  i = j
    BY DEF Distinct
  <2>1. CASE i = 1 /\ j = 1
    BY <2>1
  <2>2. CASE i = 1 /\ j # 1
    <3>1. j - 1 \in DOMAIN s /\ s[j - 1] = c
      BY <1>1, <2>2
    <3> QED BY <3>1 DEF Has
  <2>3. CASE i # 1 /\ j = 1
    <3>1. i - 1 \in DOMAIN s /\ s[i - 1] = c
      BY <1>1, <2>3
    <3> QED BY <3>1 DEF Has
  <2>4. CASE i # 1 /\ j # 1
    <3>1. i - 1 \in DOMAIN s /\ j - 1 \in DOMAIN s /\ s[i - 1] = s[j - 1]
      BY <1>1, <2>4
    <3> QED BY <1>1, <3>1 DEF Distinct
  <2> QED BY <2>1, <2>2, <2>3, <2>4
<1>3. ASSUME NEW d \in Calls PROVE Has(t, d) <=> Has(s, d) \/ d = c
  <2>1. ASSUME Has(s, d) PROVE Has(t, d)
    <3>1. PICK i \in DOMAIN s : s[i] = d
      BY <2>1 DEF Has
    <3>2. i + 1 \in DOMAIN t /\ t[i + 1] = d
      BY <1>1, <3>1
    <3> QED BY <3>2 DEF Has
  <2>2. Has(t, c)
    BY <1>1 DEF Has
  <2>3. ASSUME Has(t, d), d # c PROVE Has(s, d)
    <3>1. PICK i \in DOMAIN t : t[i] = d
      BY <2>3 DEF Has
    <3>2. i - 1 \in DOMAIN s /\ s[i - 1] = d
      BY <1>1, <2>3, <3>1
    <3> QED BY <3>2 DEF Has
  <2> QED BY <2>1, <2>2, <2>3
<1> QED BY <1>1, <1>2, <1>3 DEF t

\* A new operation for a call that has none, once those in S are destroyed,
\* which have no callstate.
LEMMA NewOp ==
    ASSUME OpsInv, SofiaTypes, NEW c \in Calls, sip[c] = "idle",
           NEW S, \A d \in S : d \in Calls /\ Has(ops, d) /\ callstate[d] = "none",
           ops' = <<c>> \o WithoutOps(S),
           NEW s \in SipStates, s \notin SipOver,
           challenged' = challenged \ {c},
           sip' = [d \in Calls |-> IF d = c THEN s ELSE IF d \in S THEN "vanished" ELSE sip[d]],
           callstate' = [callstate EXCEPT ![c] = CallstateOf(c, s, challenged')]
    PROVE  OpsInv'
<1> DEFINE left == WithoutOps(S)
<1>1. ~Has(ops, c) /\ Distinct(ops)
  BY OpsTrack DEF OpsInv, SipOver
<1>2. /\ left \in Seq(Calls) /\ Distinct(left)
      /\ \A d : Has(left, d) <=> Has(ops, d) /\ d \notin S
  BY <1>1, WithoutOpsProperties DEF OpsInv
<1> HIDE DEF left
<1>3. /\ <<c>> \o left \in Seq(Calls) /\ Distinct(<<c>> \o left)
      /\ \A d \in Calls : Has(<<c>> \o left, d) <=> Has(left, d) \/ d = c
  BY <1>1, <1>2, PrependProperties
<1>4. ops' \in Seq(Calls) /\ Distinct(ops') /\ \A d \in Calls : Has(ops', d) <=> Has(left, d) \/ d = c
  BY <1>3 DEF left
<1>5. ASSUME NEW d \in Calls PROVE Has(ops', d) <=> sip'[d] \notin SipOver
  BY <1>1, <1>2, <1>4, OpsTrack DEF OpsInv, SipOver
<1>6. ASSUME NEW d \in Calls PROVE callstate'[d] = CallstateOf(d, sip'[d], challenged')
  <2>1. CASE d = c
    BY <2>1 DEF SofiaTypes
  <2>2. CASE d # c /\ d \in S
    BY <2>2 DEF SofiaTypes, CallstateOf
  <2>3. CASE d # c /\ d \notin S
    BY <2>3, OpsTrack DEF SofiaTypes, OpsInv, CallstateOf
  <2> QED BY <2>1, <2>2, <2>3
<1>7. OpsTrackCalls'
  BY <1>4, <1>5, <1>6 DEF OpsTrackCalls, SipEnded, Distinct, Has, SipOver, CallstateOf
<1> QED BY <1>4, <1>7 DEF OpsInv

\* A step of the Sofia thread: it writes no command, and a call that NUA did
\* not know is one the App does not know either, or the one of the INVITE
\* taken from the pipe.
LEMMA SofiaInvites ==
    ASSUME CallInv, UNCHANGED <<deviceVars, connVars, mediaVars>>,
           \/ /\ commands' = commands
              /\ \A c \in Calls : sip[c] = "idle" => sip'[c] = "idle" \/ state[c] = "unborn"
           \/ /\ commands # <<>> /\ commands' = Tail(commands)
              /\ \A c \in Calls : sip[c] = "idle" => sip'[c] = "idle" \/ Invites(1, c)
    PROVE  InvitesInv' /\ SetUpInv'
<1> USE DEF deviceVars, connVars, mediaVars
<1>1. InvitesInv /\ SetUpInv /\ commands \in Seq(Command_)
  BY DEF CallInv, IInv, PipeTypes
<1>2. SetUpInv'
  BY <1>1 DEF SetUpInv
<1>3. CASE /\ commands' = commands
           /\ \A c \in Calls : sip[c] = "idle" => sip'[c] = "idle" \/ state[c] = "unborn"
  BY <1>1, <1>2, <1>3 DEF InvitesInv, Invites
<1>4. CASE /\ commands # <<>> /\ commands' = Tail(commands)
           /\ \A c \in Calls : sip[c] = "idle" => sip'[c] = "idle" \/ Invites(1, c)
  <2>1. /\ \A i \in DOMAIN commands' : i \in Nat \ {0} /\ i + 1 \in DOMAIN commands
                                        /\ commands'[i] = commands[i + 1]
        /\ 1 \in DOMAIN commands
    BY <1>1, <1>4
  <2>2. ASSUME NEW i \in DOMAIN commands', NEW c \in Calls, Invites(i, c)'
        PROVE  /\ i \in Nat \ {0} /\ i + 1 \in DOMAIN commands /\ Invites(i + 1, c)
               /\ ~Invites(1, c)
    <3>1. i \in Nat \ {0} /\ i + 1 \in DOMAIN commands /\ Invites(i + 1, c)
      BY <2>1, <2>2 DEF Invites
    <3> QED BY <1>1, <2>1, <3>1 DEF InvitesInv
  <2>3. ASSUME NEW i \in DOMAIN commands', NEW c \in Calls, Invites(i, c)'
        PROVE  state'[c] # "unborn" /\ ~incoming'[c] /\ sip'[c] = "idle"
    BY <1>1, <1>4, <2>2, <2>3 DEF InvitesInv
  <2>4. ASSUME NEW i \in DOMAIN commands', NEW j \in DOMAIN commands', NEW c \in Calls,
               Invites(i, c)', Invites(j, c)'
        PROVE  i = j
    <3>1. i + 1 = j + 1 /\ i \in Nat /\ j \in Nat
      BY <1>1, <2>2, <2>4 DEF InvitesInv
    <3> QED BY <3>1
  <2>5. ASSUME NEW c \in Calls, state'[c] # "unborn", ~incoming'[c], mediaStage'[c] \in EarlyStages
        PROVE  sip'[c] = "idle" /\ \A i \in DOMAIN commands' : ~Invites(i, c)'
    BY <1>1, <1>4, <2>1, <2>2, <2>5 DEF InvitesInv
  <2> QED BY <1>2, <2>3, <2>4, <2>5 DEF InvitesInv
<1> QED BY <1>3, <1>4

\* The callstate of an operation found by it tells the state of its call.
LEMMA FoundCall ==
    ASSUME OpsInv, SofiaTypes, NEW S, NEW c, c = FindOp(WithCallstate(S)), c # NoCall
    PROVE  c \in Calls /\ callstate[c] \in S /\ Has(ops, c) /\ sip[c] \notin SipOver
           /\ callstate[c] = CallstateOf(c, sip[c], challenged)
<1>1. c \in WithCallstate(S) /\ c \in Calls /\ Has(ops, c)
  BY FindOpProperties DEF OpsInv
<1> QED BY <1>1, OpsTrack DEF OpsInv, WithCallstate

\* A command in the Sofia thread: an INVITE is for a call without operation.
LEMMA HandleInputOps ==
    ASSUME CallInv, HandleInput
    PROVE  InvitesInv' /\ SetUpInv' /\ OpsInv'
<1> USE CallControlAssumption DEF CallInv, IInv
<1>1. /\ commands # <<>> /\ commands' = Tail(commands)
      /\ UNCHANGED <<deviceVars, connVars, mediaVars>>
      /\ commands \in Seq(Command_) /\ Command \in Command_ /\ Command = commands[1]
      /\ 1 \in DOMAIN commands
  BY DEF HandleInput, SscInvite, SscInviteInvalid, SscAnswer, SscDecline, SscBye, SscCancel,
         TakeCommand, mainVars, PipeTypes, Command
<1>2. SUFFICES /\ OpsInv'
               /\ \A c \in Calls : sip[c] = "idle" => sip'[c] = "idle" \/ Invites(1, c)
  BY <1>1, SofiaInvites
<1>3. sip \in [Calls -> SipStates] /\ callstate \in [Calls -> CallStates] /\ "idle" \in SipOver
  BY DEF SofiaTypes, SipOver
<1>4. CASE SscInvite
  <2>1. PICK c \in Calls : c = Command.call /\ Invites(1, c)
    BY <1>1, <1>4 DEF SscInvite, TakeCommand, Command_, StackCommands, Invites
  <2> DEFINE stale == {d \in WithCallstate({"none"}) : \E i \in DOMAIN ops : ops[i] = d}
  <2>2. /\ ops' = <<c>> \o WithoutOps(stale)
        /\ sip' = [d \in Calls |-> IF d = c THEN "calling" ELSE IF d \in stale THEN "vanished" ELSE sip[d]]
        /\ callstate' = [callstate EXCEPT ![c] = "sent"] /\ challenged' = challenged \ {c}
    BY <1>4, <2>1 DEF SscInvite
  <2>3. \A d \in stale : d \in Calls /\ Has(ops, d) /\ callstate[d] = "none"
    BY DEF WithCallstate, Has
  <2> HIDE DEF stale
  <2>4. sip[c] = "idle"
    BY <1>1, <2>1 DEF InvitesInv
  <2>5. /\ "calling" \in SipStates /\ "calling" \notin SipOver
        /\ CallstateOf(c, "calling", challenged') = "sent"
    BY <2>2 DEF SipStates, SipOver, CallstateOf
  <2>6. OpsInv'
    BY <2>2, <2>3, <2>4, <2>5, NewOp
  <2>7. \A d \in stale : sip[d] # "idle"
    BY <2>3, OpsTrack DEF OpsInv, SipOver
  <2> QED BY <1>3, <2>1, <2>2, <2>6, <2>7
<1>5. CASE SscInviteInvalid
  BY <1>5 DEF SscInviteInvalid, OpsInv, OpsTrackCalls, SipEnded
<1>6. CASE SscAnswer
  <2> DEFINE c == FindOp(WithCallstate({"recv"}))
  <2>1. CASE c = NoCall
    BY <1>6, <2>1 DEF SscAnswer, OpsInv, OpsTrackCalls, SipEnded
  <2>2. CASE c # NoCall
    <3>1. /\ sip' = [sip EXCEPT ![c] = "answered"] /\ ops' = ops
          /\ callstate' = [callstate EXCEPT ![c] = "complete"] /\ challenged' = challenged
      BY <1>6, <2>2 DEF SscAnswer
    <3>2. c \in Calls /\ sip[c] \notin SipOver
      BY <2>2, FoundCall
    <3>3. /\ "answered" \in SipStates /\ "answered" \notin SipOver
          /\ CallstateOf(c, "answered", challenged') = "complete"
      BY DEF SipStates, SipOver, CallstateOf
    <3> HIDE DEF c
    <3>4. OpsInv'
      BY <3>1, <3>2, <3>3, MoveOn
    <3> QED BY <1>3, <3>1, <3>2, <3>4
  <2> QED BY <2>1, <2>2
<1>7. CASE SscDecline
  <2> DEFINE c == FindOp(WithCallstate({"recv"}))
  <2>1. CASE c = NoCall
    BY <1>7, <2>1 DEF SscDecline, OpsInv, OpsTrackCalls, SipEnded
  <2>2. CASE c # NoCall
    <3>1. /\ sip' = [sip EXCEPT ![c] = "rejected"] /\ ops' = WithoutOps({c})
          /\ callstate' = [callstate EXCEPT ![c] = "none"] /\ challenged' = challenged
      BY <1>7, <2>2 DEF SscDecline
    <3>2. c \in Calls /\ Has(ops, c) /\ sip[c] \notin SipOver
      BY <2>2, FoundCall
    <3> HIDE DEF c
    <3>3. /\ sip' = [d \in Calls |-> IF d \in {c} THEN "rejected" ELSE sip[d]]
          /\ callstate' = [d \in Calls |-> IF d \in {c} THEN "none" ELSE callstate[d]]
      BY <1>3, <3>1, <3>2
    <3>4. OpsInv'
      <4>1. "rejected" \in {"down", "rejected", "vanished"} /\ \A d \in Calls : d \in {c} => Has(ops, d)
        BY <3>2
      <4>2. OpsInv /\ SofiaTypes
        OBVIOUS
      <4> QED BY <3>1, <3>3, <4>1, <4>2, DestroyOps, Zenon
    <3> QED BY <1>3, <3>1, <3>2, <3>4
  <2> QED BY <2>1, <2>2
<1>8. CASE SscBye
  <2> DEFINE c == FindOp(WithCallstate(CallStates \ {"none"}))
  <2>1. CASE c = NoCall
    BY <1>8, <2>1 DEF SscBye, OpsInv, OpsTrackCalls, SipEnded
  <2>2. CASE c # NoCall
    <3>1. /\ sip' = [sip EXCEPT ![c] = "byeing"] /\ ops' = ops
          /\ callstate' = [callstate EXCEPT ![c] = "none"] /\ challenged' = challenged
      BY <1>8, <2>2 DEF SscBye
    <3>2. c \in Calls /\ sip[c] \notin SipOver
      BY <2>2, FoundCall
    <3>3. /\ "byeing" \in SipStates /\ "byeing" \notin SipOver
          /\ CallstateOf(c, "byeing", challenged') = "none"
      BY DEF SipStates, SipOver, CallstateOf
    <3> HIDE DEF c
    <3>4. OpsInv'
      BY <3>1, <3>2, <3>3, MoveOn
    <3> QED BY <1>3, <3>1, <3>2, <3>4
  <2> QED BY <2>1, <2>2
<1>9. CASE SscCancel
  BY <1>9 DEF SscCancel, OpsInv, OpsTrackCalls, SipEnded
<1> QED BY <1>4, <1>5, <1>6, <1>7, <1>8, <1>9 DEF HandleInput

\* An event from NUA: it is about a call in progress, or a new one.
LEMMA NuaOps ==
    ASSUME CallInv, NEW c \in Calls, NuaStep(c)
    PROVE  InvitesInv' /\ SetUpInv' /\ OpsInv'
<1> USE CallControlAssumption DEF CallInv, IInv
<1>1. UNCHANGED <<deviceVars, connVars, mediaVars, commands>>
  BY DEF NuaStep, PeerRings, PeerAnswers, InviteChallenged, InviteUnauthorized, InviteFails,
         PeerCalls, PeerCancels, PeerAcks, PeerByes, ByeAnswered, Terminated, Destroyed, appVars, mainVars
<1>2. SUFFICES /\ OpsInv'
               /\ \A d \in Calls : sip[d] = "idle" => sip'[d] = "idle" \/ state[d] = "unborn"
  BY <1>1, SofiaInvites
<1>3. sip \in [Calls -> SipStates] /\ callstate \in [Calls -> CallStates]
  BY DEF SofiaTypes
<1>4. /\ {"calling", "waiting", "ringing", "up", "received"} \subseteq SipStates \ SipOver
      /\ \A C : /\ CallstateOf(c, "up", C) = "active" /\ CallstateOf(c, "received", C) = "recv"
                /\ CallstateOf(c, "waiting", C) = "none"
                /\ CallstateOf(c, "ringing", C) = CallstateOf(c, "calling", C)
                /\ c \in C => CallstateOf(c, "calling", C) = "none"
  BY DEF SipStates, SipOver, CallstateOf
<1>5. CASE PeerRings(c)
  <2>1. /\ sip[c] \in {"calling", "ringing"} /\ sip' = [sip EXCEPT ![c] = "ringing"]
        /\ UNCHANGED <<ops, callstate, challenged>>
    BY <1>5 DEF PeerRings
  <2>2. callstate[c] = CallstateOf(c, "ringing", challenged) /\ sip[c] \notin SipOver
    BY <2>1, <1>4, OpsTrack DEF OpsInv, SipOver
  <2>3. callstate' = [callstate EXCEPT ![c] = CallstateOf(c, "ringing", challenged')]
    BY <1>3, <1>4, <2>1, <2>2
  <2>4. OpsInv'
    BY <1>4, <2>1, <2>2, <2>3, MoveOn
  <2> QED BY <1>3, <2>1, <2>4
<1>6. CASE PeerAnswers(c) \/ PeerAcks(c)
  <2>1. /\ sip[c] \in {"calling", "ringing", "answered"} /\ sip' = [sip EXCEPT ![c] = "up"]
        /\ callstate' = [callstate EXCEPT ![c] = "active"] /\ UNCHANGED <<ops, challenged>>
    BY <1>6 DEF PeerAnswers, PeerAcks
  <2>2. sip[c] \notin SipOver
    BY <2>1 DEF SipOver
  <2>3. callstate' = [callstate EXCEPT ![c] = CallstateOf(c, "up", challenged')]
    BY <1>4, <2>1
  <2>4. OpsInv'
    BY <1>4, <2>1, <2>2, <2>3, MoveOn
  <2> QED BY <1>3, <2>1, <2>4
<1>9. CASE InviteChallenged(c)
  <2>1. PICK s \in {"calling", "waiting"} : sip' = [sip EXCEPT ![c] = s]
    BY <1>9 DEF InviteChallenged
  <2>2. /\ sip[c] \notin SipOver /\ ops' = ops /\ challenged' = challenged \cup {c}
        /\ callstate' = [callstate EXCEPT ![c] = "none"]
    BY <1>9 DEF InviteChallenged, SipOver
  <2>3. callstate' = [callstate EXCEPT ![c] = CallstateOf(c, s, challenged')]
    BY <1>4, <2>1, <2>2
  <2>4. OpsInv'
    BY <1>4, <2>1, <2>2, <2>3, MoveOn
  <2> QED BY <1>3, <2>1, <2>2, <2>4 DEF SipOver
<1>7. CASE PeerCalls(c)
  <2>1. /\ sip[c] = "idle" /\ state[c] = "unborn" /\ sip' = [sip EXCEPT ![c] = "received"]
        /\ callstate' = [callstate EXCEPT ![c] = "recv"] /\ ops' = <<c>> \o ops
        /\ challenged' = challenged
    BY <1>7 DEF PeerCalls
  <2>2. ~Has(ops, c) /\ Distinct(ops)
    BY <2>1, OpsTrack DEF OpsInv, SipOver
  <2>3. /\ ops' \in Seq(Calls) /\ Distinct(ops')
        /\ \A d \in Calls : Has(ops', d) <=> Has(ops, d) \/ d = c
    BY <2>1, <2>2, PrependProperties DEF OpsInv
  <2>4. \A d \in Calls : /\ Has(ops', d) <=> sip'[d] \notin SipOver
                         /\ callstate'[d] = CallstateOf(d, sip'[d], challenged')
    BY <1>3, <1>4, <2>1, <2>3, OpsTrack DEF OpsInv
  <2>5. OpsTrackCalls'
    BY <2>3, <2>4 DEF OpsTrackCalls, SipEnded, Distinct, Has, SipOver, CallstateOf
  <2> QED BY <1>3, <2>1, <2>3, <2>5 DEF OpsInv
<1>8. CASE InviteFails(c) \/ PeerCancels(c) \/ PeerByes(c) \/ ByeAnswered(c)
           \/ InviteUnauthorized(c)
  <2>1. PICK end \in {"down", "vanished"} : Destroyed(c, end) /\ sip[c] \notin SipOver
    BY <1>8 DEF InviteFails, PeerCancels, PeerByes, ByeAnswered, InviteUnauthorized, Terminated,
                SipOver
  <2>2. Has(ops, c)
    BY <2>1, OpsTrack DEF OpsInv
  <2>3. /\ ops' = WithoutOps({c}) /\ challenged' = challenged
        /\ sip' = [d \in Calls |-> IF d \in {c} THEN end ELSE sip[d]]
        /\ callstate' = [d \in Calls |-> IF d \in {c} THEN "none" ELSE callstate[d]]
    BY <1>3, <2>1 DEF Destroyed
  <2>4. OpsInv'
    BY <2>2, <2>3, DestroyOps
  <2> QED BY <1>3, <2>1, <2>3, <2>4 DEF SipOver
<1> QED BY <1>5, <1>6, <1>7, <1>8, <1>9 DEF NuaStep
-----------------------------------------------------------------------------
(* The theorems about the operation list *)

\* The whole invariant holds at the start.
LEMMA InitCallInv ==
    ASSUME Init
    PROVE  CallInv
<1> USE CallControlAssumption DEF Init
<1>1. InvitesInv
  BY DEF InvitesInv
<1>2. SetUpInv
  BY DEF SetUpInv
<1>3. ops \in Seq(Calls) /\ Distinct(ops) /\ \A c \in Calls : ~Has(ops, c)
  BY DEF Distinct, Has
<1>4. \A c \in Calls : sip[c] \in SipOver /\ callstate[c] = CallstateOf(c, sip[c], challenged)
  BY DEF SipOver, CallstateOf
<1>5. OpsInv
  BY <1>3, <1>4, OpsTrack DEF OpsInv
<1> QED BY <1>1, <1>2, <1>5, InitIInv DEF CallInv

\* A step that leaves NUA and its operations alone keeps OpsInv.
LEMMA OpsSame ==
    ASSUME OpsInv, UNCHANGED <<ops, callstate, sip, challenged>>
    PROVE  OpsInv'
BY DEF OpsInv, OpsTrackCalls, SipEnded

\* Every step keeps it.
LEMMA NextCallInv ==
    ASSUME CallInv, [Next]_vars
    PROVE  CallInv'
<1>1. IInv'
  BY NextIInv DEF CallInv
<1>2. SUFFICES InvitesInv' /\ SetUpInv' /\ OpsInv'
  BY <1>1 DEF CallInv
<1>3. ASSUME NEW c \in Calls, AppStep(c) PROVE InvitesInv' /\ SetUpInv' /\ OpsInv'
  <2>1. InvitesInv' /\ SetUpInv'
    BY <1>3, ConnectInvites, AcceptInvites, HangUpInvites DEF AppStep
  <2>2. UNCHANGED sofiaVars
    BY <1>3 DEF AppStep, ConnectRefused, Connect, ConnectDenied, NewConnection, Accept,
                AcceptDenied, Reject, Disconnect, Release
  <2> QED BY <2>1, <2>2, OpsSame DEF sofiaVars, CallInv
<1>4. ASSUME NEW c \in Calls, MediaStep(c) PROVE InvitesInv' /\ SetUpInv' /\ OpsInv'
  <2>1. InvitesInv' /\ SetUpInv'
    BY <1>4, MediaInvites, SdpInvites DEF MediaStep
  <2>2. UNCHANGED sofiaVars
    BY <1>4 DEF MediaStep, TurnComplete, TurnFails, CreateSdp, MediaError, IceConnected
  <2> QED BY <2>1, <2>2, OpsSame DEF sofiaVars, CallInv
<1>5. CASE PromptAnswered \/ HandleSofiaInput
  <2>1. UNCHANGED sofiaVars
    BY <1>5 DEF PromptAnswered, HandleSofiaInput, ReceiveCall, ReceiveRinging, ReceiveAnswer,
         ReceiveIgnored, ReceiveIncomingCancelled, ReceiveRefusal, ReceiveBye,
         ReceiveInviteError, ReceiveRegistration, TakeReply
  <2> QED BY <1>5, <2>1, PromptInvites, ReplyInvites, OpsSame DEF sofiaVars, CallInv
<1>6. CASE Registration \/ UNCHANGED vars
  <2>1. UNCHANGED <<deviceVars, connVars, mediaVars, commands, sofiaVars>>
    BY <1>6 DEF Registration, vars
  <2>2. InvitesInv' /\ SetUpInv'
    BY <2>1, SofiaInvites DEF sofiaVars
  <2> QED BY <2>1, <2>2, OpsSame DEF sofiaVars, CallInv
<1> QED BY <1>3, <1>4, <1>5, <1>6, HandleInputOps, NuaOps DEF Next

\* CallControl keeps CallInv for any set of calls and any bounds.
THEOREM OpsInductive == Spec => []CallInv
<1>1. Init => CallInv
  BY InitCallInv
<1>2. CallInv /\ [Next]_vars => CallInv'
  BY NextCallInv
<1> QED BY <1>1, <1>2, PTL DEF Spec

\* Every variable of CallControl keeps its type.
THEOREM CallTyped == Spec => []TypeOK
<1>1. CallInv => TypeOK
  BY DEF CallInv, IInv, MainInv, MainTypes, PipeTypes, SofiaTypes, OpsInv, TypeOK
<1> QED BY <1>1, OpsInductive, PTL

\* The operations of the Sofia thread are the calls in progress, each once and
\* with the callstate its finders go by, whatever the App does meanwhile; a
\* call whose INVITE was challenged has none until it is answered.
THEOREM OpsTrackAlways == Spec => []OpsTrackCalls
<1>1. CallInv => OpsTrackCalls
  BY DEF CallInv, OpsInv
<1> QED BY <1>1, OpsInductive, PTL

\* The only steps that end a call silently are the INVITE of another call,
\* which cleans what has no callstate, and a password refused.
LEMMA VanishStep ==
    ASSUME CallInv, [Next]_vars, NEW c \in Calls, sip[c] # "vanished", sip'[c] = "vanished"
    PROVE  \/ sip[c] \in {"byeing", "waiting"}
           \/ sip[c] \in {"calling", "ringing"} /\ c \in challenged
<1> USE CallControlAssumption
<1>1. sip \in [Calls -> SipStates] /\ ~(UNCHANGED sip) /\ OpsInv
  BY DEF CallInv, IInv, SofiaTypes
<1>2. ASSUME NEW d \in Calls, AppStep(d) \/ MediaStep(d) PROVE FALSE
  BY <1>1, <1>2 DEF AppStep, ConnectRefused, Connect, ConnectDenied, NewConnection, Accept,
       AcceptDenied, Reject, Disconnect, Release, MediaStep, TurnComplete, TurnFails, CreateSdp,
       MediaError, IceConnected, sofiaVars
<1>3. ~(PromptAnswered \/ HandleSofiaInput \/ Registration \/ UNCHANGED vars)
  BY <1>1 DEF PromptAnswered, HandleSofiaInput, ReceiveCall, ReceiveRinging, ReceiveAnswer,
       ReceiveIgnored, ReceiveIncomingCancelled, ReceiveRefusal, ReceiveBye,
       ReceiveInviteError, ReceiveRegistration, TakeReply, Registration, vars, sofiaVars
<1>4. ASSUME NEW d \in Calls, NuaStep(d)
      PROVE  sip[c] = "calling" /\ c \in challenged
  <2>1. InviteUnauthorized(d)
    BY <1>1, <1>4 DEF NuaStep, PeerRings, PeerAnswers, InviteChallenged, InviteFails, PeerCalls,
         PeerCancels, PeerAcks, PeerByes, ByeAnswered, Terminated, Destroyed
  <2> QED BY <1>1, <2>1 DEF InviteUnauthorized, Destroyed
<1>5. CASE HandleInput
  <2>1. SscInvite
    BY <1>1, <1>5 DEF HandleInput, SscInviteInvalid, SscAnswer, SscDecline, SscBye, SscCancel
  <2>2. callstate[c] = "none" /\ Has(ops, c)
    BY <1>1, <2>1 DEF SscInvite, WithCallstate, Has
  <2>3. sip[c] \notin SipOver /\ CallstateOf(c, sip[c], challenged) = "none"
    BY <1>1, <2>2, OpsTrack DEF OpsInv
  <2> QED BY <1>1, <2>3 DEF SipStates, SipOver, CallstateOf
<1> QED BY <1>2, <1>3, <1>4, <1>5 DEF Next

\* An incoming call, a call that is up and one that was not challenged never
\* end without a reply: the cleaning for a new INVITE passes them over.
THEOREM VanishOnlyChallenged == Spec => OnlyChallengedCallsVanish
<1> DEFINE Vanish ==
        \A c \in Calls :
            sip[c] # "vanished" /\ sip'[c] = "vanished" =>
                \/ sip[c] \in {"byeing", "waiting"}
                \/ sip[c] \in {"calling", "ringing"} /\ c \in challenged
<1>1. CallInv /\ [Next]_vars => Vanish
  BY VanishStep
<1> HIDE DEF Vanish
<1>2. Spec => [][Vanish]_vars
  BY <1>1, OpsInductive, PTL DEF Spec
<1>3. [][Vanish]_vars <=> OnlyChallengedCallsVanish
  BY DEF Vanish, OnlyChallengedCallsVanish
<1> QED BY <1>2, <1>3
===============================================================================
