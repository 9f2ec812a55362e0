------------------------------ MODULE Background ------------------------------
(***************************************************************************)
(* The background task of [RCDevice unlisten], composed with Signalling:   *)
(* an unlisten that finds the device online asks iOS for time to shut      *)
(* Sofia down, and a timer gives the time back.  One backgroundTaskId      *)
(* stands for every task.                                                  *)
(*                                                                         *)
(* Every step is a step of Signalling, alone or with the beginning of a    *)
(* task, or a step of the timer or of iOS that leaves Signalling as it is. *)
(***************************************************************************)
EXTENDS Signalling

Invalid == 0   \* UIBackgroundTaskInvalid

VARIABLES
    backgroundTaskId,
    begun,        \* the tasks begun so far; iOS numbers them 1, 2, ...
    open,         \* tasks iOS has not been told the end of
    timers,       \* performSelectors of handleSignlingBackgroundTimeout still to come
    overrun,      \* tasks whose time ran out and that were not ended then
    overlapped    \* history: a task was begun while another was the current one

taskVars == <<backgroundTaskId, begun, open, timers, overrun, overlapped>>

BackgroundInit ==
    /\ Init
    /\ backgroundTaskId = Invalid /\ begun = 0 /\ open = {} /\ timers = 0
    /\ overrun = {} /\ overlapped = FALSE

\* Mutant of BeginTask: the timer is scheduled twice.
BeginTaskTwoTimers ==
    /\ begun' = begun + 1
    /\ backgroundTaskId' = begun'
    /\ open' = open \cup {begun'}
    /\ timers' = timers + 2
    /\ overlapped' = (overlapped \/ backgroundTaskId # Invalid)
    /\ UNCHANGED overrun

\* beginBackgroundTaskWithExpirationHandler and performSelector:afterDelay:.
BeginTask ==
    /\ begun' = begun + 1
    /\ backgroundTaskId' = begun'
    /\ open' = open \cup {begun'}
    /\ timers' = timers + 1
    /\ overlapped' = (overlapped \/ backgroundTaskId # Invalid)
    /\ UNCHANGED overrun

\* A step of Signalling that goes through unlisten: the App's, or
\* checkNetworkStatus when connectivity is lost.
CallsUnlisten ==
    \/ Unlisten
    \/ /\ network = "NotReachable"
       /\ deviceState # "Offline" \/ reachability # "NotReachable"
       /\ CheckNetworkStatus

\* unlisten with its task, when the device was online.
UnlistenTask ==
    /\ CallsUnlisten
    /\ IF deviceState # "Offline" THEN BeginTask ELSE UNCHANGED taskVars

OtherSignalling ==
    /\ Next /\ ~CallsUnlisten
    /\ UNCHANGED taskVars

\* Mutant of HandleTimeout: the id is forgotten before the task is ended.
HandleTimeoutForgets ==
    /\ open' = open
    /\ backgroundTaskId' = Invalid

\* Mutant of HandleTimeout: the id is kept.
HandleTimeoutKeeps ==
    /\ open' = open \ {backgroundTaskId}
    /\ UNCHANGED backgroundTaskId

\* handleSignlingBackgroundTimeout
HandleTimeout ==
    /\ open' = open \ {backgroundTaskId}
    /\ backgroundTaskId' = Invalid

Timer ==
    /\ mainPc = "idle" /\ timers > 0
    /\ timers' = timers - 1
    /\ HandleTimeout
    /\ UNCHANGED <<vars, begun, overrun, overlapped>>

\* iOS calls the task's expiration handler and looks whether it was ended.
Expire(t) ==
    /\ mainPc = "idle" /\ t \in open \ overrun
    /\ HandleTimeout
    /\ overrun' = overrun \cup ({t} \cap open')
    /\ UNCHANGED <<vars, begun, timers, overlapped>>

BackgroundNext ==
    \/ UnlistenTask
    \/ OtherSignalling
    \/ Timer
    \/ \E t \in open : Expire(t)

BackgroundSpec == BackgroundInit /\ [][BackgroundNext]_<<vars, taskVars>>

\* Signalling's fairness, and a run loop that fires its timers.
BackgroundFairSpec == BackgroundSpec /\ Fairness /\ WF_taskVars(Timer)
-----------------------------------------------------------------------------
(* Properties *)

\* iOS counts every task that is begun, and no timer is without a task.
TasksOK ==
    /\ begun \in Nat /\ backgroundTaskId \in 0..begun
    /\ open \in SUBSET (1..begun) /\ overrun \in SUBSET open
    /\ timers \in 0..begun
    /\ overlapped \in BOOLEAN

\* A task outlives its time, which makes iOS end the process, only after an
\* unlisten that came before the timer of an earlier one: listen, unlisten,
\* network changes and timers in any other order leave no task behind
\* (RCDevice.backgroundTaskId in unlisten and handleSignlingBackgroundTimeout).
OnlyOverlappingUnlistensLeak ==
    ~overlapped => overrun = {} /\ open \subseteq {backgroundTaskId}

\* Time asked for is given back: the task whose id the device holds is ended
\* by the timer, whatever Signalling does meanwhile.
CurrentTaskEnds ==
    (backgroundTaskId # Invalid) ~> (backgroundTaskId = Invalid)
=============================================================================
