----------------------------- MODULE Operations -----------------------------
(***************************************************************************)
(* The operation list of the SIP user agent (ssc_oper.mm) and the          *)
(* authentication of its requests (ssc_sip.mm).                            *)
(*                                                                         *)
(* Every INVITE, MESSAGE and REGISTER has an operation (ssc_oper_t) in the *)
(* list ssc_operations, newest first.  Creating an operation cleans old    *)
(* ones; a 401 or 407 puts the challenged operation into ssc_auth_pend and *)
(* answers what waits there with the operation's password.  Commands of    *)
(* the App and events of NUA are handled one at a time by the Sofia        *)
(* thread, in any order.                                                   *)
(*                                                                         *)
(* An operation is its address: memory that is freed can come back as      *)
(* another operation, and an item of ssc_auth_pend keeps the address.      *)
(* Operations are only ever pushed at the head of the list, so the list is *)
(* a set ordered by the time of creation.  CallControl has the details of  *)
(* calls that are left out here.                                           *)
(***************************************************************************)
EXTENDS Integers, Sequences

CONSTANTS
    Addr,          \* addresses su_zalloc may return for an ssc_oper_t
    MaxOps,        \* bound: operations created
    MaxRequests,   \* bound: requests of one NUA handle
    MaxPending     \* bound: items of ssc_auth_pend

ASSUME OperationsAssumption ==
    MaxOps \in Nat /\ MaxRequests \in Nat /\ MaxPending \in Nat

VARIABLES
    ops,        \* the operations in ssc_operations
    stamp,      \* when each was created
    created,    \* bound: operations created so far
    oper,       \* the ssc_oper_t at each address, with its NUA handle
    pend,       \* ssc_auth_pend: the ssc_op of each item
    smState,    \* SscMediaSimple.sm_state
    thread,     \* "stuck": ssc_oper_check never returns, or reads freed memory and dies
    leftover,   \* history: a challenge had two headers, or met an operation
                \* without a password
    buried      \* history: operations that were not the newest when challenged

vars == <<ops, stamp, created, oper, pend, smState, thread, leftover, buried>>

Methods == {"INVITE", "MESSAGE", "REGISTER"}
Requests == {"invite", "message", "register", "unregister", "info", "bye"}
\* op_callstate: "complete" is opc_sent | opc_recv.
CallStates == {"none", "sent", "recv", "complete", "active"}

\* requests: the client requests of the NUA handle, in the order NUA sends
\* them.  waiting: the first one waits for nua_authenticate().
Opers == [method : Methods, callstate : CallStates, password : BOOLEAN,
          requests : Seq(Requests), waiting : BOOLEAN]

Oper(method, callstate, password, requests) ==
    [method |-> method, callstate |-> callstate, password |-> password,
     requests |-> requests, waiting |-> FALSE]

Freed == Oper("MESSAGE", "none", FALSE, <<>>)

Init ==
    /\ ops = {} /\ created = 0
    /\ stamp = [a \in Addr |-> 0]
    /\ oper = [a \in Addr |-> Freed]
    /\ pend = <<>>
    /\ smState = "disabled"
    /\ thread = "running"
    /\ leftover = FALSE
    /\ buried = {}
-----------------------------------------------------------------------------
(* The list *)

Newest(a, S) == a \in S /\ \A b \in S : stamp[b] <= stamp[a]
Oldest(a, S) == a \in S /\ \A b \in S : stamp[a] <= stamp[b]

\* op_persistent
Persistent(a) == oper[a].method = "REGISTER"

CallOps == {a \in ops : oper[a].callstate # "none"}
Unanswered == {a \in ops : oper[a].callstate = "recv"}
Registers == {a \in ops : oper[a].method = "REGISTER"}
Invites(S) == {a \in S : oper[a].method = "INVITE"}

\* Mutant of OldHandles: cleaning forgets op_persistent.
OldHandlesAll == {a \in ops : oper[a].callstate = "none"}

\* Mutant of OldHandles: cleaning forgets op_callstate.
OldHandlesCalls == {a \in ops : ~Persistent(a)}

\* "Clean old handles" in ssc_oper_create.
OldHandles == {a \in ops : ~Persistent(a) /\ oper[a].callstate = "none"}

\* Mutant of MediaWithout: the media is left alone.
MediaWithoutKeeps(S) == smState

\* ssc_oper_destroy of the operations S: when no INVITE operation is left in
\* the list, the media is deactivated.
MediaWithout(S) ==
    IF S # {} /\ Invites(ops \ S) = {} THEN "disabled" ELSE smState

\* ssc_oper_create_with_handle: a request of a peer made the NUA handle.
CreateWithHandle(a, o) ==
    /\ thread = "running" /\ a \in Addr \ ops /\ created < MaxOps
    /\ ops' = ops \cup {a}
    /\ created' = created + 1
    /\ stamp' = [stamp EXCEPT ![a] = created + 1]
    /\ oper' = [oper EXCEPT ![a] = o]
    /\ UNCHANGED <<pend, smState, thread, leftover, buried>>

\* ssc_oper_create_with_password with a valid address; S is cleaned.
CreateWithPassword(a, o, S) ==
    /\ thread = "running" /\ a \in Addr \ ops /\ created < MaxOps
    /\ ops' = (ops \ S) \cup {a}
    /\ created' = created + 1
    /\ stamp' = [b \in Addr |-> IF b = a THEN created + 1 ELSE IF b \in S THEN 0 ELSE stamp[b]]
    /\ oper' = [b \in Addr |-> IF b = a THEN o ELSE IF b \in S THEN Freed ELSE oper[b]]
    /\ buried' = buried \ S
    /\ UNCHANGED <<pend, thread, leftover>>

\* ssc_oper_destroy of one operation.
Destroy(a) ==
    /\ ops' = ops \ {a}
    /\ stamp' = [stamp EXCEPT ![a] = 0]
    /\ oper' = [oper EXCEPT ![a] = Freed]
    /\ buried' = buried \ {a}
    /\ UNCHANGED <<created, pend, thread, leftover>>
-----------------------------------------------------------------------------
(* NUA: the client requests of a handle (external to the SDK's own code) *)

\* nua_client_request_queue: another request goes before an INVITE, which is
\* always the last, and behind everything else.  (NUA sends a request that
\* only an INVITE follows at once; here the two end in the order of the queue.)
Queued(requests, r) ==
    IF requests # <<>> /\ requests[Len(requests)] = "invite"
    THEN SubSeq(requests, 1, Len(requests) - 1) \o <<r, "invite">>
    ELSE Append(requests, r)

\* The request NUA works on for the operation's handle; nothing is heard of
\* it while it waits for credentials, nor of a handle that was destroyed.
InProgress(a, requests) ==
    /\ thread = "running" /\ a \in ops
    /\ oper[a].requests # <<>> /\ ~oper[a].waiting
    /\ Head(oper[a].requests) \in requests
-----------------------------------------------------------------------------
(* Authentication *)

\* ssc_oper_check(ssc, a) steps from the head of the list to a->op_next for
\* ever: it finds the newest operation, gives up on the oldest and on an
\* empty list, and never ends for the others.  An address that is no longer
\* an operation is freed memory; dangling are those whose op_next reads as
\* something else than NULL.
CheckFinds(a) == Newest(a, ops)

\* Mutant of CheckGivesUp: the loop starts behind the head.
CheckGivesUpHead(a, dangling) ==
    IF a \in ops THEN Newest(a, ops) \/ Oldest(a, ops)
    ELSE ops = {} \/ a \notin dangling

\* Mutant of CheckGivesUp: the loop does not end at the last operation either.
CheckGivesUpNever(a, dangling) ==
    IF a \in ops THEN FALSE ELSE ops = {} \/ a \notin dangling

CheckGivesUp(a, dangling) ==
    IF a \in ops THEN ~Newest(a, ops) /\ Oldest(a, ops)
    ELSE ops = {} \/ a \notin dangling

\* The items of the list that ssc_auth does not pass over as stale.
NotStale(items, dangling) ==
    {i \in 1..Len(items) : ~CheckGivesUp(items[i], dangling)}

\* Mutant of SscAuth: the item that was authenticated stays in the list.
SscAuthKeeps(items, opers, dangling) ==
    LET live == NotStale(items, dangling)
    IN  \/ /\ live = {}
           /\ pend' = <<>> /\ oper' = opers /\ UNCHANGED thread
        \/ \E i \in live :
              /\ \A j \in live : i <= j
              /\ \/ /\ CheckFinds(items[i])
                    /\ pend' = SubSeq(items, i, Len(items))
                    /\ oper' = [opers EXCEPT ![items[i]].waiting = FALSE]
                    /\ UNCHANGED thread
                 \/ /\ ~CheckFinds(items[i])
                    /\ pend' = SubSeq(items, i, Len(items))
                    /\ oper' = opers
                    /\ thread' = "stuck"

\* ssc_auth: drop the stale items up to the first one that is not, and
\* authenticate its operation.  nua_authenticate() lets its request go on.
SscAuth(items, opers, dangling) ==
    LET live == NotStale(items, dangling)
    IN  \/ /\ live = {}
           /\ pend' = <<>> /\ oper' = opers /\ UNCHANGED thread
        \/ \E i \in live :
              /\ \A j \in live : i <= j
              /\ \/ /\ CheckFinds(items[i])
                    /\ pend' = SubSeq(items, i + 1, Len(items))
                    /\ oper' = [opers EXCEPT ![items[i]].waiting = FALSE]
                    /\ UNCHANGED thread
                 \/ /\ ~CheckFinds(items[i])
                    /\ pend' = SubSeq(items, i, Len(items))
                    /\ oper' = opers
                    /\ thread' = "stuck"

\* Mutant of ClearSent: op_callstate - opc_sent.
ClearSentSubtracts(callstate) ==
    IF callstate = "sent" THEN "none" ELSE IF callstate = "complete" THEN "recv" ELSE "negative"

\* op_callstate & ~opc_sent
ClearSent(callstate) ==
    IF callstate = "sent" THEN "none" ELSE IF callstate = "complete" THEN "recv" ELSE callstate

\* A 401 or 407 for the operation: ssc_r_invite, ssc_r_message, ssc_r_info,
\* ssc_r_register and ssc_r_unregister call ssc_store_pending_auth, which
\* stores one item for each of the headers WWW-Authenticate and
\* Proxy-Authenticate and calls ssc_auth with the operation's password.
Challenged(a, headers) ==
    LET request == Head(oper[a].requests)
        items == pend \o [i \in 1..headers |-> a]
        opers == [oper EXCEPT
                    ![a].waiting = TRUE,
                    ![a].callstate = IF request = "invite" THEN ClearSent(@) ELSE @]
    IN  /\ InProgress(a, Requests \ {"bye"})
        /\ Len(items) <= MaxPending
        /\ \/ /\ oper[a].password
              /\ \E dangling \in SUBSET (Addr \ ops) : SscAuth(items, opers, dangling)
           \/ /\ ~oper[a].password
              /\ pend' = items /\ oper' = opers /\ UNCHANGED thread
        /\ leftover' = (leftover \/ headers = 2 \/ ~oper[a].password)
        /\ buried' = IF Newest(a, ops) THEN buried \ {a} ELSE buried \cup {a}
        /\ UNCHANGED <<ops, stamp, created, smState>>
-----------------------------------------------------------------------------
(* Commands of the App *)

\* ssc_invite, through priv_media_state_cb to nua_invite().
SscInvite(a) ==
    /\ CreateWithPassword(a, Oper("INVITE", "sent", TRUE, <<"invite">>), OldHandles)
    /\ smState' = "active"

\* ssc_message.  The new operation is no INVITE.
SscMessage(a) ==
    /\ CreateWithPassword(a, Oper("MESSAGE", "none", TRUE, <<"message">>), OldHandles)
    /\ smState' = MediaWithout(OldHandles)

\* ssc_register with a registrar: always a new operation, nothing is cleaned.
SscRegister(a) ==
    /\ CreateWithPassword(a, Oper("REGISTER", "none", TRUE, <<"register">>), {})
    /\ UNCHANGED smState

\* ssc_unregister without a registrar, as updateParams asks for it: the
\* newest REGISTER operation, or a new one when there is none.
SscUnregister(a) ==
    \/ /\ thread = "running" /\ Newest(a, Registers)
       /\ Len(oper[a].requests) < MaxRequests
       /\ oper' = [oper EXCEPT ![a].requests = Queued(@, "unregister")]
       /\ UNCHANGED <<ops, stamp, created, pend, smState, thread, leftover, buried>>
    \/ /\ Registers = {}
       /\ CreateWithPassword(a, Oper("REGISTER", "none", TRUE, <<"unregister">>), {})
       /\ UNCHANGED smState

\* ssc_info: the newest operation with a callstate.
SscInfo(a) ==
    /\ thread = "running" /\ Newest(a, CallOps)
    /\ Len(oper[a].requests) < MaxRequests
    /\ oper' = [oper EXCEPT ![a].requests = Queued(@, "info")]
    /\ UNCHANGED <<ops, stamp, created, pend, smState, thread, leftover, buried>>

\* ssc_bye: the newest operation with a callstate.
SscBye(a) ==
    /\ thread = "running" /\ Newest(a, CallOps)
    /\ oper' = [oper EXCEPT ![a].requests = Queued(@, "bye"), ![a].callstate = "none"]
    /\ UNCHANGED <<ops, stamp, created, pend, smState, thread, leftover, buried>>

\* ssc_answer with 200: the newest unanswered operation.
SscAnswer(a) ==
    /\ thread = "running" /\ Newest(a, Unanswered)
    /\ oper' = [oper EXCEPT ![a].callstate = "complete"]
    /\ smState' = "active"
    /\ UNCHANGED <<ops, stamp, created, pend, thread, leftover, buried>>

\* ssc_answer with 480 or 603.
SscDecline(a) ==
    /\ thread = "running" /\ Newest(a, Unanswered)
    /\ Destroy(a)
    /\ smState' = MediaWithout({a})
-----------------------------------------------------------------------------
(* Events of NUA *)

\* The request is over and the operation goes on.
RequestDone(a) ==
    /\ oper' = [oper EXCEPT ![a].requests = Tail(@)]
    /\ UNCHANGED <<ops, stamp, created, pend, smState, thread, leftover, buried>>

\* A final response to MESSAGE or INFO, or a 200 to REGISTER: ssc_r_message,
\* ssc_r_info and ssc_r_register leave the operation in the list.
Answered(a) ==
    \/ InProgress(a, {"message", "info", "register"}) /\ RequestDone(a)
    \/ /\ InProgress(a, {"invite"})      \* 200: ssc_i_state, nua_callstate_ready
       /\ oper' = [oper EXCEPT ![a].requests = Tail(@), ![a].callstate = "active"]
       /\ UNCHANGED <<ops, stamp, created, pend, smState, thread, leftover, buried>>

\* ssc_i_state, nua_callstate_terminated.
Terminated(a) == Destroy(a) /\ smState' = "disabled"

\* ssc_r_register from 300 on, and any final response to an un-REGISTER.
RegisterEnds(a) ==
    /\ InProgress(a, {"register", "unregister"})
    /\ Destroy(a)
    /\ smState' = MediaWithout({a})

\* The INVITE fails, or the BYE is answered: the session is over.
SessionEnds(a) == InProgress(a, {"invite", "bye"}) /\ Terminated(a)

\* ssc_i_bye and ssc_i_cancel, then ssc_i_state.  The peer can end a call it
\* made or answered, while our own BYE is on its way too.
PeerEnds(a) ==
    /\ thread = "running" /\ a \in ops
    /\ \/ oper[a].callstate \in {"recv", "complete", "active"}
       \/ \E i \in 1..Len(oper[a].requests) : oper[a].requests[i] = "bye"
    /\ Terminated(a)

\* The ACK of our 200: ssc_i_state, nua_callstate_ready.
PeerAcks(a) ==
    /\ thread = "running" /\ a \in ops /\ oper[a].callstate = "complete"
    /\ oper' = [oper EXCEPT ![a].callstate = "active"]
    /\ UNCHANGED <<ops, stamp, created, pend, smState, thread, leftover, buried>>

\* ssc_i_invite, ssc_i_message and ssc_i_info on a new handle; an INFO
\* operation is handled like that of a MESSAGE everywhere.
PeerInvites(a) == CreateWithHandle(a, Oper("INVITE", "recv", FALSE, <<>>))
PeerMessages(a) == CreateWithHandle(a, Oper("MESSAGE", "none", FALSE, <<>>))

Command(a) ==
    \/ SscInvite(a) \/ SscMessage(a) \/ SscRegister(a) \/ SscUnregister(a)
    \/ SscInfo(a) \/ SscBye(a) \/ SscAnswer(a) \/ SscDecline(a)

Event(a) ==
    \/ \E headers \in 1..2 : Challenged(a, headers)
    \/ Answered(a) \/ RegisterEnds(a) \/ SessionEnds(a)
    \/ PeerEnds(a) \/ PeerAcks(a) \/ PeerInvites(a) \/ PeerMessages(a)

Next == \E a \in Addr : Command(a) \/ Event(a)

Spec == Init /\ [][Next]_vars
-----------------------------------------------------------------------------
(* Properties *)

\* The variables stay in their sets: no operation, callstate, request or
\* pending item is ever anything else than the code has names for.
TypeOK ==
    /\ ops \in SUBSET Addr
    /\ created \in 0..MaxOps
    /\ stamp \in [Addr -> 0..created]
    /\ oper \in [Addr -> Opers]
    /\ pend \in Seq(Addr)
    /\ smState \in {"disabled", "active"}
    /\ thread \in {"running", "stuck"}
    /\ leftover \in BOOLEAN
    /\ buried \in SUBSET ops

\* ssc_auth_pend is empty between two events unless an unusual challenge
\* (both headers, or an operation without a password) came before: whatever
\* the order of commands, responses and cleaning, a password is then never
\* spent on the challenge of an earlier operation.
PendingNeedsLeftover == pend # <<>> => leftover \/ thread = "stuck"

\* A request waits for credentials only if its operation was not the newest
\* one when it was challenged: an operation challenged at the head of the
\* list gets its password sent, and a hang-up queued behind such a request
\* gets out.
NewestIsAuthenticated ==
    \A a \in ops : oper[a].waiting => a \in buried \/ leftover \/ thread = "stuck"

\* ssc_oper_check fails to return only for an operation with a newer and an
\* older one around it, as long as no item of ssc_auth_pend dangles.
StuckInTheMiddle ==
    thread = "stuck" /\ ~leftover =>
        \E a, b, c \in ops : stamp[a] < stamp[b] /\ stamp[b] < stamp[c] /\ oper[b].waiting

\* The media of ssc_media_simple is deactivated whenever the list holds no
\* INVITE, on every path on which the last of them leaves it.
MediaReleased == Invites(ops) = {} => smState = "disabled"

\* A REGISTER operation leaves the list only with the final response to its
\* own request: no other operation's creation or end takes the registration
\* down.
RegistrationsKept ==
    [][\A a \in Registers \ ops' : ops' = ops \ {a} /\ InProgress(a, {"register", "unregister"})]_vars

\* A call with a callstate leaves the list on its own, with the end of its
\* session: it is never cleaned for another call or message.
CallsKept == [][\A a \in CallOps \ ops' : ops' = ops \ {a}]_vars

=============================================================================
