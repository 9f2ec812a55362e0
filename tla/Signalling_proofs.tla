-------------------------- MODULE Signalling_proofs --------------------------
(***************************************************************************)
(* Proofs about Signalling for any number of loops, any bound on the       *)
(* requests, with or without a registrar.  IInv is inductive; its parts    *)
(* and the implementation of SingleStack follow from it.                   *)
(***************************************************************************)
EXTENDS Signalling, TLAPS

-----------------------------------------------------------------------------
(* Types *)

\* Writing one command to the pipe keeps the pipes well typed.
LEMMA PipeType ==
    ASSUME TypeOK, NEW cmd \in Commands, PipeToSofia(cmd)
    PROVE  commands' \in [Loops -> Seq(Commands)]
<1>1. commands \in [Loops -> Seq(Commands)] /\ current \in Loops \cup {NoLoop}
  BY DEF TypeOK
<1>2. CASE current = NoLoop
  BY <1>1, <1>2 DEF PipeToSofia
<1>3. CASE current # NoLoop
  <2>1. Append(commands[current], cmd) \in Seq(Commands)
    BY <1>1, <1>3
  <2> QED BY <1>1, <1>3, <2>1 DEF PipeToSofia
<1> QED BY <1>2, <1>3

\* Sending one reply keeps the reply pipes well typed.
LEMMA ReplyType ==
    ASSUME TypeOK, NEW l \in Loops, NEW reply \in Replies, SendReply(l, reply)
    PROVE  replies' \in [Loops -> Seq(Replies)]
BY DEF TypeOK, SendReply

\* The main thread's actions keep the types.
LEMMA ListenType ==
    ASSUME TypeOK, Listen
    PROVE  TypeOK'
<1> USE SignallingAssumption
<1>1. commands' \in [Loops -> Seq(Commands)]
  <2>1. CASE \E l \in Loops : ListenStarts(l)
    BY <2>1 DEF TypeOK, ListenStarts
  <2>2. CASE ListenBails
    BY <2>2 DEF TypeOK, ListenBails
  <2>3. CASE ListenUnreachable
    BY <2>3 DEF TypeOK, ListenUnreachable
  <2>4. CASE ListenAgain
    <3>1. "r" \in Commands
      BY DEF Commands
    <3> QED BY <2>4, <3>1, PipeType DEF TypeOK, ListenAgain
  <2> QED BY <2>1, <2>2, <2>3, <2>4 DEF Listen
<1>2. /\ pc' \in [Loops -> LoopPc]
      /\ current' \in Loops \cup {NoLoop}
      /\ instances' \in Nat
      /\ mainPc' \in {"idle", "mark"}
  <2>1. ASSUME NEW l \in Loops, ListenStarts(l)
        PROVE  /\ pc' \in [Loops -> LoopPc]
               /\ current' \in Loops \cup {NoLoop}
               /\ instances' \in Nat
               /\ mainPc' \in {"idle", "mark"}
    <3>1. pc' \in [Loops -> LoopPc]
      BY <2>1 DEF TypeOK, ListenStarts, Dispatch, LoopPc
    <3>2. current' \in Loops \cup {NoLoop}
      BY <2>1 DEF TypeOK, ListenStarts, Dispatch
    <3>3. instances' \in Nat /\ mainPc' \in {"idle", "mark"}
      BY <2>1 DEF TypeOK, ListenStarts
    <3> QED BY <3>1, <3>2, <3>3
  <2> QED
    BY <2>1 DEF TypeOK, Listen, ListenBails, ListenUnreachable, ListenAgain
<1>3. deviceState' \in DeviceStates /\ reachability' \in NetworkStatus
  BY DEF TypeOK, Listen, ListenStarts, ListenBails, ListenUnreachable, ListenAgain,
         ListenState, DeviceStates
<1>4. wanted' \in {"listen", "unlisten"} /\ requests' \in Nat
  BY DEF TypeOK, Listen, Request
<1> QED BY <1>1, <1>2, <1>3, <1>4 DEF TypeOK, Listen

\* What unlisten does to the device and the pipe keeps the types.
LEMMA UnlistenStateType ==
    ASSUME TypeOK, UnlistenState
    PROVE  deviceState' \in DeviceStates /\ commands' \in [Loops -> Seq(Commands)]
<1>1. "q" \in Commands
  BY DEF Commands
<1> QED BY <1>1, PipeType DEF UnlistenState, DeviceStates

\* unlisten keeps the types.
LEMMA UnlistenType ==
    ASSUME TypeOK, Unlisten
    PROVE  TypeOK'
<1>1. requests' \in Nat /\ wanted' \in {"listen", "unlisten"}
  BY DEF TypeOK, Unlisten, Request
<1> QED BY <1>1, UnlistenStateType DEF TypeOK, Unlisten

\* updateParams keeps the types.
LEMMA UpdateParamsType ==
    ASSUME TypeOK, UpdateParams
    PROVE  TypeOK'
<1>1. "r" \in Commands
  BY DEF Commands
<1>2. commands' \in [Loops -> Seq(Commands)]
  BY <1>1, PipeType DEF UpdateParams
<1>3. deviceState' \in DeviceStates /\ requests' \in Nat
  BY DEF TypeOK, UpdateParams, Request, DeviceStates
<1> QED BY <1>2, <1>3 DEF TypeOK, UpdateParams

\* A reachability notification keeps the types.
LEMMA CheckNetworkStatusType ==
    ASSUME TypeOK, CheckNetworkStatus
    PROVE  TypeOK'
<1>1. deviceState' \in DeviceStates /\ commands' \in [Loops -> Seq(Commands)]
  <2>1. "qr" \in Commands
    BY DEF Commands
  <2> QED BY <2>1, PipeType, UnlistenStateType DEF TypeOK, CheckNetworkStatus
<1>2. wanted' \in {"listen", "unlisten"}
  BY DEF TypeOK, CheckNetworkStatus
<1> QED BY <1>1, <1>2 DEF TypeOK, CheckNetworkStatus

\* So do all the other actions of the main thread and the network.
LEMMA MainType ==
    ASSUME TypeOK, App \/ Main
    PROVE  TypeOK'
<1>1. CASE NetworkChange
  BY <1>1, SignallingAssumption DEF TypeOK, NetworkChange
<1>2. CASE MarkForRestart
  <2>1. "mr" \in Commands
    BY DEF Commands
  <2>2. commands' \in [Loops -> Seq(Commands)]
    BY <1>2, <2>1, PipeType DEF MarkForRestart
  <2> QED BY <1>2, <2>2 DEF TypeOK, MarkForRestart
<1>3. CASE \E l \in Loops : HandleSofiaInput(l)
  <2>1. PICK l \in Loops : HandleSofiaInput(l)
    BY <1>3
  <2>2. replies' \in [Loops -> Seq(Replies)]
    BY <2>1 DEF TypeOK, HandleSofiaInput
  <2>3. deviceState' \in DeviceStates
    BY <2>1 DEF TypeOK, HandleSofiaInput, DeviceStates
  <2> QED BY <2>1, <2>2, <2>3 DEF TypeOK, HandleSofiaInput
<1> QED
  BY <1>1, <1>2, <1>3, ListenType, UnlistenType, UpdateParamsType, CheckNetworkStatusType
     DEF App, Main

\* The Sofia thread's actions keep the types; that the count stays natural
\* is a matter of InstanceInv.
LEMMA SofiaType ==
    ASSUME TypeOK, NEW l \in Loops, Sofia(l), instances' \in Nat
    PROVE  TypeOK'
<1>1. CASE SscCreate(l)
  <2>1. replies' \in [Loops -> Seq(Replies)]
    BY <1>1, ReplyType DEF SscCreate, Replies
  <2>2. pc' \in [Loops -> LoopPc] /\ registrations' \in [Loops -> Nat]
    BY <1>1, SignallingAssumption DEF TypeOK, SscCreate, LoopPc
  <2> QED BY <1>1, <2>1, <2>2 DEF TypeOK, SscCreate
<1>2. CASE SscCreateFails(l)
  <2>1. replies' \in [Loops -> Seq(Replies)]
    BY <1>2, ReplyType DEF TypeOK, SscCreateFails, Replies
  <2>2. pc' \in [Loops -> LoopPc]
    BY <1>2 DEF TypeOK, SscCreateFails, LoopPc
  <2> QED BY <1>2, <2>1, <2>2 DEF TypeOK, SscCreateFails
<1>3. CASE HandleInput(l)
  <2>1. commands' \in [Loops -> Seq(Commands)]
    BY <1>3 DEF TypeOK, HandleInput
  <2>2. /\ nuaShutdown' \in [Loops -> BOOLEAN]
        /\ registrations' \in [Loops -> Nat]
        /\ stackIsShuttingDown' \in BOOLEAN
        /\ restartSignalling' \in BOOLEAN
    <3>1. CASE HandleQuit(l, Head(commands[l]))
      BY <3>1 DEF TypeOK, HandleQuit
    <3>2. CASE HandleMarkForRestart(l, Head(commands[l]))
      BY <3>2 DEF TypeOK, HandleMarkForRestart
    <3>3. CASE HandleRegister(l, Head(commands[l]))
      BY <3>3 DEF TypeOK, HandleRegister
    <3> QED BY <1>3, <3>1, <3>2, <3>3 DEF HandleInput
  <2> QED BY <1>3, <2>1, <2>2 DEF TypeOK, HandleInput
<1>4. CASE RegisterResponse(l)
  <2>1. replies' \in [Loops -> Seq(Replies)]
    BY <1>4, ReplyType DEF RegisterResponse, Replies
  <2>2. registrations' \in [Loops -> Nat]
    BY <1>4 DEF TypeOK, RegisterResponse
  <2> QED BY <1>4, <2>1, <2>2 DEF TypeOK, RegisterResponse
<1>5. CASE ShutdownResponse(l)
  BY <1>5 DEF TypeOK, ShutdownResponse, LoopPc
<1>6. CASE LoopEnd(l)
  BY <1>6 DEF TypeOK, LoopEnd, LoopPc
<1>7. CASE GiveBackInstance(l)
  BY <1>7 DEF TypeOK, GiveBackInstance, LoopPc
<1> QED BY <1>1, <1>2, <1>3, <1>4, <1>5, <1>6, <1>7 DEF Sofia

-----------------------------------------------------------------------------
(* The inductive invariant *)

\* The safety part of IInv speaks of these five variables only.
SafetyInv == OneStack /\ InstanceInv /\ RestartIsBacked /\ ShutdownInv

\* A step that leaves those five variables alone keeps it.
LEMMA Frame ==
    ASSUME SafetyInv,
           UNCHANGED <<pc, nuaShutdown, restartSignalling, stackIsShuttingDown, instances>>
    PROVE  SafetyInv'
BY DEF SafetyInv, OneStack, InstanceInv, RestartIsBacked, ShutdownInv, Alive

\* The state initWithParams leaves behind satisfies the inductive invariant.
LEMMA InitIInv == Init => IInv
<1> SUFFICES ASSUME Init PROVE IInv
  OBVIOUS
<1> USE SignallingAssumption
<1>1. /\ deviceState \in DeviceStates
      /\ network \in NetworkStatus
      /\ instances \in {0, 1}
      /\ current \in Loops \cup {NoLoop}
      /\ pc \in [Loops -> LoopPc]
  BY DEF Init, InitReachable, InitUnreachable, DeviceStates, NetworkStatus, LoopPc
<1>2. commands \in [Loops -> Seq(Commands)] /\ replies \in [Loops -> Seq(Replies)]
  BY DEF Init
<1>3. /\ nuaShutdown \in [Loops -> BOOLEAN]
      /\ registrations \in [Loops -> Nat]
      /\ reachability \in NetworkStatus
      /\ networkNotice \in BOOLEAN /\ mainPc \in {"idle", "mark"}
      /\ restartSignalling \in BOOLEAN /\ stackIsShuttingDown \in BOOLEAN
      /\ wanted \in {"listen", "unlisten"} /\ requests \in Nat
  BY <1>1 DEF Init
<1>4. TypeOK
  BY <1>1, <1>2, <1>3 DEF TypeOK
<1>5. OneStack /\ InstanceInv
  BY DEF Init, InitReachable, InitUnreachable, OneStack, InstanceInv, Alive
<1>6. RestartIsBacked /\ ShutdownInv
  BY DEF Init, RestartIsBacked, ShutdownInv
<1> QED BY <1>4, <1>5, <1>6 DEF IInv

\* Only a listen that finds no instance counted touches the five variables,
\* and then no loop is alive.
LEMMA MainSafety ==
    ASSUME IInv, App \/ Main
    PROVE  SafetyInv'
<1>1. SafetyInv
  BY DEF IInv, SafetyInv
<1>2. ASSUME NEW l \in Loops, ListenStarts(l), Listen
      PROVE  SafetyInv'
  <2> USE <1>2, SignallingAssumption DEF IInv, TypeOK
  <2>1. \A m \in Loops : ~Alive(m)
    BY DEF ListenStarts, InstanceInv
  <2>2. \A m \in Loops : m # l => ~Alive(m)'
    BY <2>1 DEF ListenStarts, Dispatch, Alive
  <2>3. instances' = 1 /\ (~CertDirMissing => Alive(l)')
    BY DEF ListenStarts, Dispatch, Alive
  <2>4. ~restartSignalling' /\ \A m \in Loops : pc'[m] # "run"
    BY <2>1 DEF RestartIsBacked, Alive, ListenStarts, Dispatch, Listen
  <2>5. OneStack' /\ InstanceInv'
    BY <2>2, <2>3 DEF OneStack, InstanceInv
  <2>6. RestartIsBacked' /\ ShutdownInv'
    BY <2>4 DEF RestartIsBacked, ShutdownInv
  <2> QED BY <2>5, <2>6 DEF SafetyInv
<1>3. CASE Listen
  <2>1. CASE \E l \in Loops : ListenStarts(l)
    BY <1>2, <1>3, <2>1
  <2>2. CASE ListenBails \/ ListenUnreachable \/ ListenAgain
    BY <1>1, <1>3, <2>2, Frame DEF Listen, ListenBails, ListenUnreachable, ListenAgain
  <2> QED BY <1>3, <2>1, <2>2 DEF Listen
<1>4. CASE Unlisten \/ UpdateParams \/ NetworkChange \/ Main
  <2>1. UNCHANGED <<pc, nuaShutdown, restartSignalling, stackIsShuttingDown, instances>>
    BY <1>4 DEF Unlisten, UpdateParams, NetworkChange, Main, MarkForRestart, CheckNetworkStatus,
                HandleSofiaInput
  <2> QED BY <1>1, <2>1, Frame
<1> QED BY <1>3, <1>4 DEF App

\* While a loop is alive every other one is not, so each step of a loop can be
\* read as if there were no other.
LEMMA SofiaSafety ==
    ASSUME IInv, NEW l \in Loops, Sofia(l)
    PROVE  SafetyInv' /\ instances' \in Nat
<1> USE DEF IInv, TypeOK
<1>1. /\ Alive(l)
      /\ \A m \in Loops : m # l => ~Alive(m) /\ pc[m] \notin {"run", "left"}
      /\ instances = 1
      /\ SafetyInv
  <2>1. Alive(l)
    BY DEF Sofia, SscCreate, SscCreateFails, HandleInput, RegisterResponse,
           ShutdownResponse, LoopEnd, GiveBackInstance, Alive
  <2> QED BY <2>1 DEF OneStack, InstanceInv, Alive, SafetyInv
<1>2. \A m \in Loops : m # l => pc'[m] = pc[m] /\ ~Alive(m)'
  BY <1>1 DEF Sofia, SscCreate, SscCreateFails, HandleInput, RegisterResponse,
         ShutdownResponse, LoopEnd, GiveBackInstance, Alive
<1>3. OneStack'
  BY <1>2 DEF OneStack
<1>4. InstanceInv'
  <2>1. CASE GiveBackInstance(l)
    <3>1. instances' = 0 /\ ~Alive(l)'
      BY <1>1, <2>1 DEF GiveBackInstance, Alive
    <3> QED BY <1>2, <3>1 DEF InstanceInv
  <2>2. CASE ~GiveBackInstance(l)
    <3>1. instances' = 1 /\ Alive(l)'
      BY <1>1, <2>2 DEF Sofia, SscCreate, SscCreateFails, HandleInput, RegisterResponse,
                        ShutdownResponse, LoopEnd, Alive
    <3> QED BY <3>1 DEF InstanceInv
  <2> QED BY <2>1, <2>2
<1>5. ASSUME restartSignalling
      PROVE  pc[l] = "left" \/ (pc[l] = "run" /\ nuaShutdown[l])
  BY <1>1, <1>5 DEF RestartIsBacked
<1>6. RestartIsBacked' /\ ShutdownInv'
  <2>1. CASE SscCreate(l)
    <3>1. ~restartSignalling' /\ ~stackIsShuttingDown'
      BY <1>5, <2>1 DEF SscCreate
    <3> QED BY <3>1 DEF RestartIsBacked, ShutdownInv
  <2>2. CASE SscCreateFails(l)
    <3>1. pc'[l] = "left" /\ ~stackIsShuttingDown'
      BY <2>2 DEF SscCreateFails
    <3> QED BY <3>1 DEF RestartIsBacked, ShutdownInv
  <2>3. CASE HandleInput(l)
    <3>1. pc' = pc /\ pc[l] = "run" /\ \A m \in Loops : m # l => pc[m] # "run"
      BY <1>1, <2>3 DEF HandleInput
    <3>2. restartSignalling' \/ stackIsShuttingDown' => nuaShutdown'[l]
      <4>1. CASE HandleQuit(l, Head(commands[l]))
        BY <4>1 DEF HandleQuit
      <4>2. CASE HandleMarkForRestart(l, Head(commands[l]))
        BY <1>5, <3>1, <4>2 DEF HandleMarkForRestart, ShutdownInv
      <4>3. CASE HandleRegister(l, Head(commands[l]))
        BY <1>5, <3>1, <4>3 DEF HandleRegister, ShutdownInv
      <4> QED BY <2>3, <4>1, <4>2, <4>3 DEF HandleInput
    <3> QED BY <3>1, <3>2 DEF RestartIsBacked, ShutdownInv
  <2>4. CASE RegisterResponse(l)
    BY <1>1, <2>4, Frame DEF RegisterResponse, SafetyInv
  <2>5. CASE ShutdownResponse(l)
    <3>1. pc'[l] = "left" /\ \A m \in Loops : pc'[m] # "run"
      BY <1>1, <1>2, <2>5 DEF ShutdownResponse
    <3> QED BY <3>1 DEF RestartIsBacked, ShutdownInv
  <2>6. CASE LoopEnd(l)
    <3>1. ~restartSignalling' /\ \A m \in Loops : pc'[m] # "run"
      BY <1>1, <1>2, <2>6 DEF LoopEnd
    <3> QED BY <3>1 DEF RestartIsBacked, ShutdownInv
  <2>7. CASE GiveBackInstance(l)
    <3>1. ~restartSignalling' /\ \A m \in Loops : pc'[m] # "run"
      BY <1>1, <1>2, <1>5, <2>7 DEF GiveBackInstance
    <3> QED BY <3>1 DEF RestartIsBacked, ShutdownInv
  <2> QED BY <2>1, <2>2, <2>3, <2>4, <2>5, <2>6, <2>7 DEF Sofia
<1> QED BY <1>3, <1>4, <1>6 DEF SafetyInv, InstanceInv

\* Every step of either thread preserves the inductive invariant.
LEMMA StepIInv == IInv /\ [Next]_vars => IInv'
<1> SUFFICES ASSUME IInv, [Next]_vars PROVE IInv'
  OBVIOUS
<1>1. CASE App \/ Main
  BY <1>1, MainSafety, MainType DEF IInv, SafetyInv
<1>2. ASSUME NEW l \in Loops, Sofia(l) PROVE IInv'
  BY <1>2, SofiaSafety, SofiaType DEF IInv, SafetyInv
<1>3. CASE UNCHANGED vars
  <2>1. TypeOK'
    BY <1>3 DEF IInv, TypeOK, vars
  <2>2. SafetyInv'
    BY <1>3, Frame DEF IInv, SafetyInv, vars
  <2> QED BY <2>1, <2>2 DEF IInv, SafetyInv
<1> QED BY <1>1, <1>2, <1>3 DEF Next

\* IInv holds in every state the signalling threads can reach.
THEOREM Inductive == Spec => []IInv
BY InitIInv, StepIInv, PTL DEF Spec

\* Every variable keeps its type; above all the instance count is never
\* decremented below zero.
THEOREM TypeCorrect == Spec => []TypeOK
<1>1. IInv => TypeOK
  BY DEF IInv
<1> QED BY <1>1, Inductive, PTL

\* eventLoop's counter and lock keep two calls of sofsip_loop() from ever
\* sharing the globals, for any number of listens and any timing of the old
\* loop's end.
THEOREM OneStackAlways == Spec => []OneStack
<1>1. IInv => OneStack
  BY DEF IInv
<1> QED BY <1>1, Inductive, PTL

\* A restart that "qr" or "mr" marked is always pending on a stack that is on
\* its way down.
THEOREM RestartBackedAlways == Spec => []RestartIsBacked
<1>1. IInv => RestartIsBacked
  BY DEF IInv
<1> QED BY <1>1, Inductive, PTL

\* With a complete configuration (the certificate directory is given when
\* secure signalling is asked for) eventLoop only bails out while a loop is
\* really there.
THEOREM CountedAlways == ASSUME ~CertDirMissing PROVE Spec => []CountedMeansRunning
<1>1. IInv => CountedMeansRunning
  BY DEF IInv, InstanceInv, CountedMeansRunning
<1> QED BY <1>1, Inductive, PTL
-----------------------------------------------------------------------------
(* Implementation of SingleStack *)

\* Every step of the detailed system is a Start, a Stop or no change of the
\* set of live loops.
THEOREM Implements == Spec => ImplementsSingleStack
<1> DEFINE owners == {l \in Loops : Alive(l)}
           used == {l \in Loops : pc[l] # "unborn"}
<1>1. Init => Owner!Init
  <2> SUFFICES ASSUME Init PROVE Owner!Init
    OBVIOUS
  <2>1. ASSUME NEW l \in Loops, InitReachable(l) PROVE Owner!Init
    BY <2>1 DEF InitReachable, Owner!Init, Alive
  <2>2. CASE InitUnreachable
    BY <2>2 DEF InitUnreachable, Owner!Init, Alive
  <2> QED BY <2>1, <2>2 DEF Init
<1>2. IInv /\ [Next]_vars => [Owner!Next]_<<owners, used>>
  <2> SUFFICES ASSUME IInv, [Next]_vars
               PROVE  Owner!Next \/ (owners' = owners /\ used' = used)
    OBVIOUS
  <2> USE DEF IInv, TypeOK
  <2>1. ASSUME NEW l \in Loops, ListenStarts(l)
        PROVE  Owner!Start(l) \/ (owners' = owners /\ used' = used)
    <3>1. owners = {}
      BY <2>1 DEF ListenStarts, InstanceInv
    <3>2. CASE CertDirMissing
      BY <2>1, <3>2 DEF ListenStarts, Alive
    <3>3. CASE ~CertDirMissing
      <4>1. pc[l] = "unborn" /\ pc' = [pc EXCEPT ![l] = "create"]
        BY <2>1, <3>3 DEF ListenStarts, Dispatch
      <4>2. owners' = {l} /\ used' = used \cup {l}
        BY <3>1, <4>1 DEF Alive
      <4> QED BY <3>1, <4>1, <4>2 DEF Owner!Start
    <3> QED BY <3>2, <3>3
  <2>2. ASSUME NEW l \in Loops, Sofia(l)
        PROVE  Owner!Stop \/ (owners' = owners /\ used' = used)
    <3>1. CASE GiveBackInstance(l)
      <4>1. owners = {l}
        BY <3>1 DEF GiveBackInstance, OneStack, Alive
      <4>2. owners' = {} /\ used' = used
        BY <3>1, <4>1 DEF GiveBackInstance, Alive
      <4> QED BY <4>1, <4>2 DEF Owner!Stop
    <3>2. CASE ~GiveBackInstance(l)
      <4>1. Alive(l) /\ Alive(l)' /\ \A m \in Loops : m # l => pc'[m] = pc[m]
        BY <2>2, <3>2 DEF Sofia, SscCreate, SscCreateFails, HandleInput,
               RegisterResponse, ShutdownResponse, LoopEnd, Alive
      <4> QED BY <4>1 DEF Alive
    <3> QED BY <3>1, <3>2
  <2>3. CASE pc' = pc
    BY <2>3 DEF Alive
  <2>4. CASE App \/ Main
    <3>1. CASE \E l \in Loops : ListenStarts(l)
      BY <2>1, <3>1 DEF Owner!Next
    <3>2. CASE ~\E l \in Loops : ListenStarts(l)
      <4>1. pc' = pc
        BY <2>4, <3>2 DEF App, Listen, ListenBails, ListenUnreachable, ListenAgain,
               Unlisten, UpdateParams, NetworkChange, Main, MarkForRestart, CheckNetworkStatus,
               HandleSofiaInput
      <4> QED BY <2>3, <4>1
    <3> QED BY <3>1, <3>2
  <2>5. CASE UNCHANGED vars
    BY <2>3, <2>5 DEF vars
  <2> QED BY <2>2, <2>4, <2>5 DEF Next, Owner!Next
<1> QED BY <1>1, <1>2, Inductive, PTL DEF Spec, ImplementsSingleStack, Owner!Spec
=============================================================================
