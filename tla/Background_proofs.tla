-------------------------- MODULE Background_proofs --------------------------
(***************************************************************************)
(* Proofs about Background for any number of loops and requests.  With the *)
(* background task in place the behaviours of Signalling are still those   *)
(* of Signalling, so that its theorems carry over; TaskInv is inductive.   *)
(***************************************************************************)
EXTENDS Background, Signalling_proofs

\* A task that outlived its time is never the current one.
TaskInv == TasksOK /\ OnlyOverlappingUnlistensLeak /\ backgroundTaskId \notin overrun

-----------------------------------------------------------------------------
(* Signalling inside Background *)

\* What goes through unlisten is a step of Signalling.
LEMMA UnlistenIsNext == ASSUME CallsUnlisten PROVE Next
BY DEF CallsUnlisten, Next, App, Main

\* A step of Background is one of Signalling or leaves its variables alone.
LEMMA StepIsSignalling == ASSUME [BackgroundNext]_<<vars, taskVars>> PROVE [Next]_vars
<1>1. CASE UnlistenTask
  BY <1>1, UnlistenIsNext DEF UnlistenTask
<1>2. CASE OtherSignalling
  BY <1>2 DEF OtherSignalling
<1>3. CASE Timer \/ (\E t \in open : Expire(t)) \/ UNCHANGED <<vars, taskVars>>
  BY <1>3 DEF Timer, Expire
<1> QED BY <1>1, <1>2, <1>3 DEF BackgroundNext

\* The background task takes nothing from and adds nothing to what the
\* signalling threads do.
THEOREM BackgroundIsSignalling == BackgroundSpec => Spec
<1>1. BackgroundInit => Init
  BY DEF BackgroundInit
<1>2. [BackgroundNext]_<<vars, taskVars>> => [Next]_vars
  BY StepIsSignalling
<1> QED BY <1>1, <1>2, PTL DEF BackgroundSpec, Spec

\* With the background task too, two calls of sofsip_loop() never share the
\* globals.
THEOREM BackgroundOneStack == BackgroundSpec => []OneStack
BY BackgroundIsSignalling, OneStackAlways, PTL

-----------------------------------------------------------------------------
(* The background task *)

\* beginBackgroundTask gives the device a new task to hold.
LEMMA BeginTaskInv ==
    ASSUME TaskInv, BeginTask
    PROVE  TaskInv'
<1> USE DEF BeginTask
<1>1. /\ begun \in Nat /\ begun' = begun + 1 /\ backgroundTaskId' = begun + 1
      /\ open \subseteq 1..begun /\ overrun \subseteq open /\ timers \in 0..begun
  BY DEF TaskInv, TasksOK
<1>2. begun + 1 \notin open
  BY <1>1
<1>3. TasksOK'
  BY <1>1 DEF TasksOK
<1>4. OnlyOverlappingUnlistensLeak'
  <2> SUFFICES ASSUME ~overlapped' PROVE overrun' = {} /\ open' \subseteq {backgroundTaskId'}
    BY DEF OnlyOverlappingUnlistensLeak
  <2>1. ~overlapped /\ backgroundTaskId = Invalid
    <3>1. overlapped' = (overlapped \/ backgroundTaskId # Invalid)
      OBVIOUS
    <3> QED BY <3>1, Zenon
  <2>2. overrun = {} /\ open \subseteq {0}
    BY <2>1 DEF TaskInv, OnlyOverlappingUnlistensLeak, Invalid
  <2>3. open = {}
    BY <1>1, <2>2
  <2> QED BY <2>2, <2>3
<1>5. backgroundTaskId' \notin overrun'
  BY <1>1, <1>2
<1> QED BY <1>3, <1>4, <1>5 DEF TaskInv

\* handleSignlingBackgroundTimeout ends the task the device holds, and only
\* a task the device does not hold can outlive its time.
LEMMA HandleTimeoutInv ==
    ASSUME TaskInv, HandleTimeout, UNCHANGED <<begun, overlapped>>,
           timers' \in 0..begun, NEW S, overrun' = overrun \cup (S \cap open')
    PROVE  TaskInv'
<1> USE DEF HandleTimeout, Invalid
<1>1. /\ open \subseteq 1..begun /\ overrun \subseteq open
      /\ backgroundTaskId \notin overrun /\ begun \in Nat /\ overlapped \in BOOLEAN
  BY DEF TaskInv, TasksOK
<1>2. open' = open \ {backgroundTaskId} /\ overrun' \subseteq open' /\ backgroundTaskId' = 0
  BY <1>1
<1>3. TasksOK'
  <2>1. overlapped' \in BOOLEAN
    BY <1>1
  <2>2. begun' \in Nat /\ backgroundTaskId' \in 0..begun'
    BY <1>1, <1>2
  <2>3. timers' \in 0..begun'
    OBVIOUS
  <2>4. open' \in SUBSET (1..begun') /\ overrun' \in SUBSET open'
    BY <1>1, <1>2
  <2> QED BY <2>1, <2>2, <2>3, <2>4 DEF TasksOK
<1>4. OnlyOverlappingUnlistensLeak'
  <2> SUFFICES ASSUME ~overlapped PROVE overrun' = {} /\ open' = {}
    BY DEF OnlyOverlappingUnlistensLeak
  <2>1. open \subseteq {backgroundTaskId}
    BY DEF TaskInv, OnlyOverlappingUnlistensLeak
  <2> QED BY <1>2, <2>1
<1>5. backgroundTaskId' \notin overrun'
  BY <1>1, <1>2
<1> QED BY <1>3, <1>4, <1>5 DEF TaskInv

\* Every step preserves the invariant of the task.
LEMMA StepTaskInv == TaskInv /\ [BackgroundNext]_<<vars, taskVars>> => TaskInv'
<1> SUFFICES ASSUME TaskInv, [BackgroundNext]_<<vars, taskVars>> PROVE TaskInv'
  OBVIOUS
<1>1. CASE UNCHANGED taskVars
  BY <1>1 DEF taskVars, TaskInv, TasksOK, OnlyOverlappingUnlistensLeak
<1>2. CASE UnlistenTask
  BY <1>1, <1>2, BeginTaskInv DEF UnlistenTask
<1>3. CASE Timer
  <2>1. timers' \in 0..begun
    BY <1>3 DEF Timer, TaskInv, TasksOK
  <2>2. overrun' = overrun \cup ({} \cap open')
    BY <1>3 DEF Timer
  <2> QED BY <1>3, <2>1, <2>2, HandleTimeoutInv DEF Timer
<1>4. ASSUME NEW t \in open, Expire(t) PROVE TaskInv'
  <2>1. timers' \in 0..begun
    BY <1>4 DEF Expire, TaskInv, TasksOK
  <2> QED BY <1>4, <2>1, HandleTimeoutInv DEF Expire
<1>5. CASE OtherSignalling
  BY <1>1, <1>5 DEF OtherSignalling
<1> QED BY <1>1, <1>2, <1>3, <1>4, <1>5 DEF BackgroundNext

\* The invariant of the task holds in every state.
THEOREM TaskInductive == BackgroundSpec => []TaskInv
<1>1. ASSUME BackgroundInit PROVE TaskInv
  <2>1. /\ begun = 0 /\ backgroundTaskId = 0 /\ timers = 0 /\ open = {} /\ overrun = {}
        /\ overlapped = FALSE
    BY <1>1 DEF BackgroundInit, Invalid
  <2>2. TasksOK
    <3>1. begun \in Nat /\ backgroundTaskId \in 0..begun /\ timers \in 0..begun
      BY <2>1
    <3>2. open \in SUBSET (1..begun) /\ overrun \in SUBSET open /\ overlapped \in BOOLEAN
      BY <2>1
    <3> QED BY <3>1, <3>2 DEF TasksOK
  <2> QED BY <2>1, <2>2 DEF TaskInv, OnlyOverlappingUnlistensLeak
<1> QED BY <1>1, StepTaskInv, PTL DEF BackgroundSpec

\* Every timer of handleSignlingBackgroundTimeout has a task that was begun
\* for it, and iOS has none that the device did not begin.
THEOREM TasksAlways == BackgroundSpec => []TasksOK
<1>1. TaskInv => TasksOK
  BY DEF TaskInv
<1> QED BY <1>1, TaskInductive, PTL

\* Only a second unlisten before the timer of the first leaves a background
\* task behind, in any order of listens, unlistens, switches and timers.
THEOREM LeakOnlyOverlapping == BackgroundSpec => []OnlyOverlappingUnlistensLeak
<1>1. TaskInv => OnlyOverlappingUnlistensLeak
  BY DEF TaskInv
<1> QED BY <1>1, TaskInductive, PTL
=============================================================================
