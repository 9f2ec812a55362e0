-------------------------- MODULE Operations_proofs --------------------------
(***************************************************************************)
(* Proofs about Operations for any set of addresses and any bounds.        *)
(*                                                                         *)
(* Every action creates an operation, changes one, destroys one or is a    *)
(* challenge.  The invariant is proved for these four shapes, and each     *)
(* action is shown to have one of them.                                    *)
(***************************************************************************)
EXTENDS Operations, SequenceTheorems, TLAPS

\* The requests the SDK sends on the handle of an operation.
RequestsOf(method) ==
    IF method = "INVITE" THEN {"invite", "info", "bye"}
    ELSE IF method = "MESSAGE" THEN {"message"}
    ELSE {"register", "unregister"}

\* Only an INVITE has a callstate, and only its own requests.
Fits(o) ==
    /\ o.callstate # "none" => o.method = "INVITE"
    /\ o.requests \in Seq(RequestsOf(o.method))

OpersFit == \A a \in Addr : Fits(oper[a])

\* What the challenges leave behind.
AuthInv == PendingNeedsLeftover /\ NewestIsAuthenticated /\ StuckInTheMiddle

IInv == TypeOK /\ OpersFit /\ AuthInv /\ MediaReleased
-----------------------------------------------------------------------------
(* The four shapes of a step *)

\* Operation o is created at a, and those of S are destroyed.
Creates(a, o, S) ==
    /\ thread = "running" /\ a \in Addr \ ops /\ created < MaxOps
    /\ ops' = (ops \ S) \cup {a}
    /\ created' = created + 1
    /\ stamp' = [b \in Addr |-> IF b = a THEN created + 1 ELSE IF b \in S THEN 0 ELSE stamp[b]]
    /\ oper' = [b \in Addr |-> IF b = a THEN o ELSE IF b \in S THEN Freed ELSE oper[b]]
    /\ buried' = buried \ S
    /\ UNCHANGED <<pend, thread, leftover>>

\* The operation at a becomes o.
Changes(a, o) ==
    /\ thread = "running" /\ a \in ops
    /\ oper' = [oper EXCEPT ![a] = o]
    /\ UNCHANGED <<ops, stamp, created, pend, thread, leftover, buried>>

\* The operation at a is destroyed.
Destroys(a) == thread = "running" /\ a \in ops /\ Destroy(a)
-----------------------------------------------------------------------------
(* Lemmas about operations *)

\* A new operation is an operation, and has no request that does not fit.
LEMMA NewOper ==
    ASSUME NEW method \in Methods, NEW callstate \in CallStates, NEW password \in BOOLEAN,
           NEW requests \in Seq(Requests), requests \in Seq(RequestsOf(method)),
           callstate # "none" => method = "INVITE"
    PROVE  /\ Oper(method, callstate, password, requests) \in Opers
           /\ Fits(Oper(method, callstate, password, requests))
           /\ ~Oper(method, callstate, password, requests).waiting
           /\ Oper(method, callstate, password, requests).method = method
BY DEF Oper, Opers, Fits

\* Freed memory is read as an operation without callstate or request.
LEMMA FreedOper == Freed \in Opers /\ Fits(Freed) /\ ~Freed.waiting /\ Freed.method = "MESSAGE"
<1>1. "MESSAGE" \in Methods /\ "none" \in CallStates
  BY DEF Methods, CallStates
<1>2. <<>> \in Seq(Requests) /\ <<>> \in Seq(RequestsOf("MESSAGE"))
  OBVIOUS
<1> QED BY <1>1, <1>2, NewOper DEF Freed

\* NUA's queue holds what it held and the new request.
LEMMA QueuedType ==
    ASSUME NEW S, NEW requests \in Seq(S), NEW r \in S
    PROVE  Queued(requests, r) \in Seq(S)
<1>1. CASE requests # <<>> /\ requests[Len(requests)] = "invite"
  <2>1. Len(requests) \in Nat /\ Len(requests) > 0
    BY <1>1
  <2>2. requests[Len(requests)] \in S
    BY <2>1
  <2>3. SubSeq(requests, 1, Len(requests) - 1) \in Seq(S)
    BY <2>1
  <2>4. <<r, "invite">> \in Seq(S)
    BY <1>1, <2>2
  <2> QED BY <1>1, <2>3, <2>4 DEF Queued
<1>2. CASE ~(requests # <<>> /\ requests[Len(requests)] = "invite")
  BY <1>2 DEF Queued
<1> QED BY <1>1, <1>2
-----------------------------------------------------------------------------
(* Creating an operation *)

\* Creating an operation keeps the types and the fit of requests.
LEMMA CreatesType ==
    ASSUME TypeOK, OpersFit, NEW a, NEW o, NEW S, Creates(a, o, S), o \in Opers, Fits(o),
           smState' \in {"disabled", "active"}
    PROVE  TypeOK' /\ OpersFit'
<1> USE DEF Creates
<1>1. ops' \in SUBSET Addr /\ buried' \in SUBSET ops'
  BY DEF TypeOK
<1>2. created \in Nat /\ created' \in 0..MaxOps /\ created' = created + 1
  BY OperationsAssumption DEF TypeOK
<1>3. stamp' \in [Addr -> 0..created']
  <2>1. \A b \in Addr : stamp[b] \in 0..created
    BY DEF TypeOK
  <2> QED BY <1>2, <2>1
<1>4. oper' \in [Addr -> Opers] /\ OpersFit'
  BY FreedOper DEF TypeOK, OpersFit
<1> QED BY <1>1, <1>2, <1>3, <1>4 DEF TypeOK

\* Creating an operation leaves no other one waiting that was not.
LEMMA CreatesAuth ==
    ASSUME TypeOK, AuthInv, NEW a, NEW o, NEW S, Creates(a, o, S), ~o.waiting
    PROVE  AuthInv'
<1> USE DEF Creates
<1>1. PendingNeedsLeftover' /\ StuckInTheMiddle'
  BY DEF AuthInv, PendingNeedsLeftover, StuckInTheMiddle
<1>2. NewestIsAuthenticated'
  BY DEF AuthInv, NewestIsAuthenticated, TypeOK
<1> QED BY <1>1, <1>2 DEF AuthInv

-----------------------------------------------------------------------------
(* Changing an operation *)

\* Changing an operation keeps the types and the fit of requests.
LEMMA ChangesType ==
    ASSUME TypeOK, OpersFit, NEW a, NEW o, Changes(a, o), o \in Opers, Fits(o),
           smState' \in {"disabled", "active"}
    PROVE  TypeOK' /\ OpersFit'
BY DEF Changes, TypeOK, OpersFit

\* Changing an operation that stays as authenticated as it was changes
\* nothing for the challenges.
LEMMA ChangesAuth ==
    ASSUME TypeOK, AuthInv, NEW a, NEW o, Changes(a, o), o.waiting = oper[a].waiting
    PROVE  AuthInv'
<1> USE DEF Changes
<1>1. PendingNeedsLeftover' /\ StuckInTheMiddle'
  BY DEF AuthInv, PendingNeedsLeftover, StuckInTheMiddle
<1>2. NewestIsAuthenticated'
  BY DEF AuthInv, NewestIsAuthenticated, TypeOK
<1> QED BY <1>1, <1>2 DEF AuthInv

\* An operation that keeps its method keeps the media needed or not needed.
LEMMA ChangesMedia ==
    ASSUME TypeOK, MediaReleased, NEW a, NEW o, Changes(a, o), o.method = oper[a].method,
           smState' = smState \/ o.method = "INVITE"
    PROVE  MediaReleased'
BY DEF Changes, TypeOK, MediaReleased, Invites

-----------------------------------------------------------------------------
(* Destroying an operation *)

\* Destroying an operation keeps the types and the fit of requests.
LEMMA DestroysType ==
    ASSUME TypeOK, OpersFit, NEW a, Destroys(a), smState' \in {"disabled", "active"}
    PROVE  TypeOK' /\ OpersFit'
<1> USE DEF Destroys, Destroy
<1>1. stamp' \in [Addr -> 0..created']
  BY DEF TypeOK
<1> QED BY <1>1, FreedOper DEF TypeOK, OpersFit

\* Destroying an operation leaves no other one waiting that was not.
LEMMA DestroysAuth ==
    ASSUME TypeOK, AuthInv, NEW a, Destroys(a)
    PROVE  AuthInv'
<1> USE DEF Destroys, Destroy
<1>1. PendingNeedsLeftover' /\ StuckInTheMiddle'
  BY DEF AuthInv, PendingNeedsLeftover, StuckInTheMiddle
<1>2. NewestIsAuthenticated'
  BY DEF AuthInv, NewestIsAuthenticated, TypeOK
<1> QED BY <1>1, <1>2 DEF AuthInv

\* ssc_oper_destroy deactivates the media with the last INVITE.
LEMMA DestroysMedia ==
    ASSUME TypeOK, MediaReleased, NEW a, Destroys(a),
           smState' = MediaWithout({a}) \/ smState' = "disabled"
    PROVE  MediaReleased'
<1>1. ASSUME Invites(ops)' = {} PROVE Invites(ops \ {a}) = {}
  BY <1>1 DEF Destroys, Destroy, TypeOK, Invites
<1> QED BY <1>1 DEF MediaReleased, MediaWithout
-----------------------------------------------------------------------------
(* Challenges *)

\* ssc_auth keeps the types, and of the operations it changes no more than
\* which of them wait.
LEMMA SscAuthType ==
    ASSUME NEW items \in Seq(Addr), NEW opers \in [Addr -> Opers], NEW dangling,
           SscAuth(items, opers, dangling), thread = "running"
    PROVE  /\ pend' \in Seq(Addr)
           /\ thread' \in {"running", "stuck"}
           /\ oper' \in [Addr -> Opers]
           /\ \A b \in Addr : /\ oper'[b].method = opers[b].method
                              /\ oper'[b].callstate = opers[b].callstate
                              /\ oper'[b].requests = opers[b].requests
<1>1. CASE pend' = <<>> /\ oper' = opers /\ UNCHANGED thread
  BY <1>1
<1>2. ASSUME NEW i \in 1..Len(items),
             pend' = SubSeq(items, i + 1, Len(items)) \/ pend' = SubSeq(items, i, Len(items)),
             \/ oper' = [opers EXCEPT ![items[i]].waiting = FALSE] /\ UNCHANGED thread
             \/ oper' = opers /\ thread' = "stuck"
      PROVE  /\ pend' \in Seq(Addr)
             /\ thread' \in {"running", "stuck"}
             /\ oper' \in [Addr -> Opers]
             /\ \A b \in Addr : /\ oper'[b].method = opers[b].method
                                /\ oper'[b].callstate = opers[b].callstate
                                /\ oper'[b].requests = opers[b].requests
  <2>1. items[i] \in Addr /\ Len(items) \in Nat
    OBVIOUS
  <2>2. pend' \in Seq(Addr)
    <3>1. ASSUME NEW m \in {i, i + 1} PROVE SubSeq(items, m, Len(items)) \in Seq(Addr)
      <4>1. m \in Int /\ Len(items) \in Int /\ \A j \in m..Len(items) : items[j] \in Addr
        BY <2>1, <3>1
      <4> QED BY <4>1, SubSeqProperties
    <3> QED BY <1>2, <3>1
  <2>3. CASE oper' = [opers EXCEPT ![items[i]].waiting = FALSE] /\ UNCHANGED thread
    BY <2>1, <2>2, <2>3 DEF Opers
  <2>4. CASE oper' = opers /\ thread' = "stuck"
    BY <2>2, <2>4
  <2> QED BY <1>2, <2>3, <2>4
<1> QED BY <1>1, <1>2 DEF SscAuth, NotStale

\* ssc_auth with the one item of the operation that was just challenged.
LEMMA SscAuthOne ==
    ASSUME NEW a \in ops, ops \subseteq Addr, NEW opers \in [Addr -> Opers], NEW dangling,
           SscAuth(<<a>>, opers, dangling), thread = "running"
    PROVE  \/ /\ Newest(a, ops) /\ pend' = <<>> /\ UNCHANGED thread
              /\ oper' = [opers EXCEPT ![a].waiting = FALSE]
           \/ /\ ~Newest(a, ops) /\ pend' = <<>> /\ UNCHANGED thread
              /\ oper' = opers
           \/ /\ ~Newest(a, ops) /\ ~Oldest(a, ops) /\ thread' = "stuck"
              /\ oper' = opers
<1> DEFINE items == <<a>>
<1>1. Len(items) = 1 /\ items[1] = a /\ items \in Seq(Addr)
  OBVIOUS
<1>2. NotStale(items, dangling) = IF CheckGivesUp(a, dangling) THEN {} ELSE {1}
  BY <1>1 DEF NotStale
<1>3. SubSeq(items, 2, 1) = <<>>
  BY <1>1
<1>4. CASE CheckGivesUp(a, dangling)
  BY <1>2, <1>4 DEF SscAuth, CheckGivesUp
<1>5. CASE ~CheckGivesUp(a, dangling)
  <2>1. \/ CheckFinds(a) /\ pend' = SubSeq(items, 2, 1) /\ UNCHANGED thread
           /\ oper' = [opers EXCEPT ![a].waiting = FALSE]
        \/ ~CheckFinds(a) /\ oper' = opers /\ thread' = "stuck"
    <3>1. PICK i \in NotStale(items, dangling) :
             \/ /\ CheckFinds(items[i])
                /\ pend' = SubSeq(items, i + 1, Len(items))
                /\ oper' = [opers EXCEPT ![items[i]].waiting = FALSE]
                /\ UNCHANGED thread
             \/ /\ ~CheckFinds(items[i])
                /\ oper' = opers
                /\ thread' = "stuck"
      BY <1>2, <1>5 DEF SscAuth
    <3>2. i = 1
      BY <1>2, <1>5
    <3>3. items[i] = a /\ i + 1 = 2 /\ Len(items) = 1
      BY <1>1, <3>2
    <3> HIDE DEF items
    <3> QED BY <3>1, <3>3
  <2>2. Newest(a, ops) \/ ~Oldest(a, ops)
    BY <1>5 DEF CheckGivesUp
  <2> QED BY <1>3, <2>1, <2>2 DEF CheckFinds
<1> QED BY <1>4, <1>5

\* A challenged INVITE is no longer sent, and nothing else of its callstate
\* changes.
LEMMA ClearSentType ==
    ASSUME NEW callstate \in CallStates
    PROVE  ClearSent(callstate) \in CallStates /\ (ClearSent(callstate) # "none" => callstate # "none")
BY DEF ClearSent, CallStates

\* The items of a challenge are addresses.
LEMMA ItemsType ==
    ASSUME pend \in Seq(Addr), NEW a \in Addr, NEW headers \in 1..2
    PROVE  pend \o [i \in 1..headers |-> a] \in Seq(Addr)
<1>1. [i \in 1..headers |-> a] \in Seq(Addr)
  OBVIOUS
<1> QED BY <1>1

\* A challenge keeps the types, and of the operations it changes no more than
\* who waits and the callstate of the challenged one.
LEMMA ChallengedType ==
    ASSUME TypeOK, OpersFit, NEW a \in Addr, NEW headers \in 1..2, Challenged(a, headers)
    PROVE  TypeOK' /\ OpersFit' /\ \A b \in Addr : oper'[b].method = oper[b].method
<1> DEFINE items == pend \o [i \in 1..headers |-> a]
           opers == [oper EXCEPT
                       ![a].waiting = TRUE,
                       ![a].callstate = IF Head(oper[a].requests) = "invite" THEN ClearSent(@) ELSE @]
<1>1. items \in Seq(Addr)
  BY ItemsType DEF TypeOK
<1>2. /\ opers \in [Addr -> Opers]
      /\ \A b \in Addr : /\ opers[b].method = oper[b].method
                         /\ opers[b].requests = oper[b].requests
                         /\ opers[b].callstate # "none" => oper[b].callstate # "none"
  <2>1. \A b \in Addr : oper[b] \in Opers
    BY DEF TypeOK
  <2>2. oper[a].callstate \in CallStates
    BY <2>1 DEF Opers
  <2>3. oper \in [Addr -> Opers]
    BY DEF TypeOK
  <2> DEFINE cs == IF Head(oper[a].requests) = "invite" THEN ClearSent(oper[a].callstate)
                   ELSE oper[a].callstate
             o == [oper[a] EXCEPT !.waiting = TRUE, !.callstate = cs]
  <2>4. cs \in CallStates /\ (cs # "none" => oper[a].callstate # "none")
    BY <2>2, ClearSentType
  <2> HIDE DEF cs
  <2>5. /\ o \in Opers /\ o.method = oper[a].method /\ o.requests = oper[a].requests
        /\ o.callstate = cs
    BY <2>1, <2>4 DEF Opers
  <2>6. opers = [oper EXCEPT ![a] = o]
    BY <2>1, <2>3 DEF Opers, cs
  <2> HIDE DEF o, opers
  <2> QED BY <2>3, <2>4, <2>5, <2>6
<1>3. /\ pend' \in Seq(Addr)
      /\ thread' \in {"running", "stuck"}
      /\ oper' \in [Addr -> Opers]
      /\ \A b \in Addr : /\ oper'[b].method = opers[b].method
                         /\ oper'[b].callstate = opers[b].callstate
                         /\ oper'[b].requests = opers[b].requests
  <2> HIDE DEF items, opers
  <2>1. CASE \E dangling \in SUBSET (Addr \ ops) : SscAuth(items, opers, dangling)
    <3>1. PICK dangling \in SUBSET (Addr \ ops) : SscAuth(items, opers, dangling)
      BY <2>1
    <3>2. thread = "running"
      BY DEF Challenged, InProgress
    <3> QED BY <1>1, <1>2, <3>1, <3>2, SscAuthType
  <2>2. CASE pend' = items /\ oper' = opers /\ UNCHANGED thread
    BY <1>1, <1>2, <2>2 DEF TypeOK
  <2> QED BY <2>1, <2>2 DEF Challenged, items, opers
<1> HIDE DEF items, opers
<1>4. OpersFit' /\ \A b \in Addr : oper'[b].method = oper[b].method
  BY <1>2, <1>3 DEF OpersFit, Fits
<1>5. /\ UNCHANGED <<ops, stamp, created, smState>>
      /\ leftover' \in BOOLEAN /\ buried' \in SUBSET ops'
  BY DEF Challenged, InProgress, TypeOK
<1> QED BY <1>3, <1>4, <1>5 DEF TypeOK

\* A challenge at the head of the list is answered, one at its end is given
\* up, one in the middle is the end of the thread.
LEMMA ChallengedAuth ==
    ASSUME TypeOK, AuthInv, NEW a \in Addr, NEW headers \in 1..2, Challenged(a, headers)
    PROVE  AuthInv'
<1> DEFINE items == pend \o [i \in 1..headers |-> a]
           opers == [oper EXCEPT
                       ![a].waiting = TRUE,
                       ![a].callstate = IF Head(oper[a].requests) = "invite" THEN ClearSent(@) ELSE @]
<1>1. /\ a \in ops /\ thread = "running" /\ UNCHANGED <<ops, stamp>>
      /\ oper \in [Addr -> Opers] /\ ops \subseteq Addr /\ buried \subseteq ops
  BY DEF Challenged, InProgress, TypeOK
<1>2. CASE leftover'
  BY <1>2 DEF AuthInv, PendingNeedsLeftover, NewestIsAuthenticated, StuckInTheMiddle
<1>3. CASE ~leftover'
  <2>1. ~leftover /\ headers = 1 /\ oper[a].password
    <3>1. leftover' = (leftover \/ headers = 2 \/ ~oper[a].password)
      BY DEF Challenged
    <3>2. ~leftover /\ headers # 2 /\ oper[a].password
      BY <1>3, <3>1, Zenon
    <3> QED BY <3>2
  <2>2. pend = <<>>
    BY <1>1, <2>1 DEF AuthInv, PendingNeedsLeftover
  <2>3. items = <<a>>
    BY <2>1, <2>2
  <2>4. PICK dangling \in SUBSET (Addr \ ops) : SscAuth(<<a>>, opers, dangling)
    BY <2>1, <2>3 DEF Challenged
  <2>5. /\ opers \in [Addr -> Opers] /\ opers[a].waiting
        /\ \A b \in Addr : b # a => opers[b] = oper[b]
    BY <1>1, ClearSentType DEF Opers
  <2> HIDE DEF items, opers
  <2>6. \/ /\ Newest(a, ops) /\ pend' = <<>> /\ UNCHANGED thread
           /\ oper' = [opers EXCEPT ![a].waiting = FALSE]
        \/ /\ ~Newest(a, ops) /\ pend' = <<>> /\ UNCHANGED thread
           /\ oper' = opers
        \/ /\ ~Newest(a, ops) /\ ~Oldest(a, ops) /\ thread' = "stuck"
           /\ oper' = opers
    BY <1>1, <2>4, <2>5, SscAuthOne
  <2>7. PendingNeedsLeftover'
    BY <2>6 DEF PendingNeedsLeftover
  <2>8. NewestIsAuthenticated'
    <3> SUFFICES ASSUME NEW b \in ops, oper'[b].waiting, thread' # "stuck"
                 PROVE  b \in buried'
      BY <1>1 DEF NewestIsAuthenticated
    <3>1. CASE b = a
      <4>1. ~Newest(a, ops)
        BY <1>1, <2>5, <2>6, <3>1 DEF Opers
      <4> QED BY <3>1, <4>1 DEF Challenged
    <3>2. CASE b # a
      <4>1. oper[b].waiting
        BY <1>1, <2>5, <2>6, <3>2
      <4>2. b \in buried
        BY <1>1, <2>1, <4>1 DEF AuthInv, NewestIsAuthenticated
      <4> QED BY <3>2, <4>2 DEF Challenged
    <3> QED BY <3>1, <3>2
  <2>9. StuckInTheMiddle'
    <3> SUFFICES ASSUME thread' = "stuck"
                 PROVE  \E c, b, d \in ops : /\ stamp[c] < stamp[b] /\ stamp[b] < stamp[d]
                                             /\ oper'[b].waiting
      BY <1>1 DEF StuckInTheMiddle
    <3>1. ~Newest(a, ops) /\ ~Oldest(a, ops) /\ oper' = opers
      BY <1>1, <2>6
    <3>2. \A b \in ops : stamp[b] \in Int
      BY DEF TypeOK
    <3>3. \E c \in ops : stamp[c] < stamp[a]
      BY <1>1, <3>1, <3>2 DEF Oldest
    <3>4. \E d \in ops : stamp[a] < stamp[d]
      BY <1>1, <3>1, <3>2 DEF Newest
    <3> QED BY <1>1, <2>5, <3>1, <3>3, <3>4
  <2> QED BY <2>7, <2>8, <2>9 DEF AuthInv
<1> QED BY <1>2, <1>3
-----------------------------------------------------------------------------
(* Every action has one of the four shapes *)

\* An operation without media to give back keeps IInv when it is created.
LEMMA CreatesIInv ==
    ASSUME IInv, NEW a, NEW o, NEW S, Creates(a, o, S), o \in Opers, Fits(o), ~o.waiting,
           smState' \in {"disabled", "active"}, MediaReleased'
    PROVE  IInv'
BY CreatesType, CreatesAuth DEF IInv

\* ssc_oper_create for a request of the App.
LEMMA CreateWithPasswordShape ==
    ASSUME NEW a, NEW o, NEW S, CreateWithPassword(a, o, S)
    PROVE  Creates(a, o, S)
BY DEF CreateWithPassword, Creates

\* ssc_oper_create_with_handle cleans nothing.
LEMMA CreateWithHandleShape ==
    ASSUME TypeOK, NEW a, NEW o, CreateWithHandle(a, o)
    PROVE  Creates(a, o, {}) /\ smState' = smState
BY DEF CreateWithHandle, Creates, TypeOK

\* Nothing is cleaned and the media is left alone.
LEMMA CreatesOnly ==
    ASSUME TypeOK, MediaReleased, NEW a, NEW o, Creates(a, o, {}), smState' = smState
    PROVE  MediaReleased'
BY DEF Creates, TypeOK, MediaReleased, Invites

\* The commands that create an operation.
LEMMA CreateCommands ==
    ASSUME IInv, NEW a \in Addr, SscInvite(a) \/ SscMessage(a) \/ SscRegister(a)
    PROVE  IInv'
<1>1. smState \in {"disabled", "active"}
  BY DEF IInv, TypeOK
<1>2. CASE SscInvite(a)
  <2> DEFINE o == Oper("INVITE", "sent", TRUE, <<"invite">>)
  <2>1. o \in Opers /\ Fits(o) /\ ~o.waiting /\ o.method = "INVITE"
    <3>1. <<"invite">> \in Seq(Requests) /\ <<"invite">> \in Seq(RequestsOf("INVITE"))
      BY DEF Requests, RequestsOf
    <3>2. "INVITE" \in Methods /\ "sent" \in CallStates
      BY DEF Methods, CallStates
    <3> QED BY <3>1, <3>2, NewOper
  <2> HIDE DEF o
  <2>2. Creates(a, o, OldHandles) /\ smState' = "active"
    BY <1>2, CreateWithPasswordShape DEF SscInvite, o
  <2>3. MediaReleased'
    BY <2>1, <2>2 DEF MediaReleased, Invites, Creates
  <2> QED BY <2>1, <2>2, <2>3, CreatesIInv
<1>3. CASE SscMessage(a)
  <2> DEFINE o == Oper("MESSAGE", "none", TRUE, <<"message">>)
  <2>1. o \in Opers /\ Fits(o) /\ ~o.waiting /\ o.method = "MESSAGE"
    <3>1. <<"message">> \in Seq(Requests) /\ <<"message">> \in Seq(RequestsOf("MESSAGE"))
      BY DEF Requests, RequestsOf
    <3>2. "MESSAGE" \in Methods /\ "none" \in CallStates
      BY DEF Methods, CallStates
    <3> QED BY <3>1, <3>2, NewOper
  <2> HIDE DEF o
  <2>2. Creates(a, o, OldHandles) /\ smState' = MediaWithout(OldHandles)
    BY <1>3, CreateWithPasswordShape DEF SscMessage, o
  <2>3. smState' \in {"disabled", "active"}
    BY <1>1, <2>2 DEF MediaWithout
  <2>4. MediaReleased'
    <3>1. ASSUME Invites(ops)' = {} PROVE Invites(ops \ OldHandles) = {}
      BY <2>2, <3>1 DEF IInv, TypeOK, Creates, Invites
    <3>2. OldHandles = {} => ops \ OldHandles = ops
      OBVIOUS
    <3> QED BY <2>2, <3>1, <3>2 DEF IInv, MediaReleased, MediaWithout
  <2> QED BY <2>1, <2>2, <2>3, <2>4, CreatesIInv
<1>4. CASE SscRegister(a)
  <2> DEFINE o == Oper("REGISTER", "none", TRUE, <<"register">>)
  <2>1. o \in Opers /\ Fits(o) /\ ~o.waiting
    <3>1. <<"register">> \in Seq(Requests) /\ <<"register">> \in Seq(RequestsOf("REGISTER"))
      BY DEF Requests, RequestsOf
    <3>2. "REGISTER" \in Methods /\ "none" \in CallStates
      BY DEF Methods, CallStates
    <3> QED BY <3>1, <3>2, NewOper
  <2> HIDE DEF o
  <2>2. Creates(a, o, {}) /\ smState' = smState
    BY <1>4, CreateWithPasswordShape DEF SscRegister, o
  <2> QED BY <1>1, <2>1, <2>2, CreatesIInv, CreatesOnly DEF IInv
<1> QED BY <1>2, <1>3, <1>4

\* The requests of peers that create an operation.
LEMMA CreateEvents ==
    ASSUME IInv, NEW a \in Addr, PeerInvites(a) \/ PeerMessages(a)
    PROVE  IInv'
<1>1. ASSUME NEW method \in Methods, NEW callstate \in CallStates,
             callstate # "none" => method = "INVITE",
             CreateWithHandle(a, Oper(method, callstate, FALSE, <<>>))
      PROVE  IInv'
  <2> DEFINE o == Oper(method, callstate, FALSE, <<>>)
  <2>1. o \in Opers /\ Fits(o) /\ ~o.waiting
    <3>1. <<>> \in Seq(Requests) /\ <<>> \in Seq(RequestsOf(method))
      OBVIOUS
    <3> QED BY <1>1, <3>1, NewOper
  <2> HIDE DEF o
  <2>2. Creates(a, o, {}) /\ smState' = smState
    BY <1>1, CreateWithHandleShape DEF IInv, o
  <2>3. smState \in {"disabled", "active"}
    BY DEF IInv, TypeOK
  <2> QED BY <2>1, <2>2, <2>3, CreatesIInv, CreatesOnly DEF IInv
<1> QED BY <1>1 DEF PeerInvites, PeerMessages, Methods, CallStates
\* An operation that is changed, but for who waits and its method.
LEMMA ChangesIInv ==
    ASSUME IInv, NEW a, NEW o, Changes(a, o), o \in Opers, Fits(o),
           o.waiting = oper[a].waiting, o.method = oper[a].method,
           smState' = smState \/ (smState' = "active" /\ o.method = "INVITE")
    PROVE  IInv'
<1>1. smState' \in {"disabled", "active"}
  BY DEF IInv, TypeOK
<1> QED BY <1>1, ChangesType, ChangesAuth, ChangesMedia DEF IInv

\* Other requests and another callstate for the same operation.
LEMMA ChangedOper ==
    ASSUME IInv, NEW a \in ops, NEW callstate \in CallStates,
           NEW requests \in Seq(Requests), requests \in Seq(RequestsOf(oper[a].method)),
           callstate # "none" => oper[a].method = "INVITE"
    PROVE  LET o == [oper[a] EXCEPT !.requests = requests, !.callstate = callstate]
           IN  /\ o \in Opers /\ Fits(o)
               /\ o.waiting = oper[a].waiting /\ o.method = oper[a].method
<1>1. oper[a] \in Opers
  BY DEF IInv, TypeOK
<1> QED BY <1>1 DEF Opers, Fits

\* What is known of an operation in the list.
LEMMA OperType ==
    ASSUME IInv, NEW a \in ops
    PROVE  /\ a \in Addr /\ oper \in [Addr -> Opers]
           /\ oper[a].callstate \in CallStates /\ oper[a].method \in Methods
           /\ oper[a].requests \in Seq(Requests)
           /\ oper[a].requests \in Seq(RequestsOf(oper[a].method))
           /\ oper[a].callstate # "none" => oper[a].method = "INVITE"
<1>1. a \in Addr /\ oper[a] \in Opers /\ Fits(oper[a]) /\ oper \in [Addr -> Opers]
  BY DEF IInv, TypeOK, OpersFit
<1> QED BY <1>1 DEF Opers, Fits

\* A request is queued for an operation in the list.
LEMMA QueueCommands ==
    ASSUME IInv, NEW a \in ops, NEW r \in Requests, NEW callstate \in CallStates,
           r \in RequestsOf(oper[a].method),
           callstate # "none" => oper[a].method = "INVITE",
           Changes(a, [oper[a] EXCEPT !.requests = Queued(oper[a].requests, r),
                                      !.callstate = callstate]),
           smState' = smState
    PROVE  IInv'
<1>1. /\ Queued(oper[a].requests, r) \in Seq(Requests)
      /\ Queued(oper[a].requests, r) \in Seq(RequestsOf(oper[a].method))
  BY OperType, QueuedType
<1> QED BY <1>1, ChangedOper, ChangesIInv

\* ssc_unregister, ssc_info, ssc_bye and ssc_answer with a 200.
LEMMA ChangeCommands ==
    ASSUME IInv, NEW a \in Addr, SscUnregister(a) \/ SscInfo(a) \/ SscBye(a) \/ SscAnswer(a)
    PROVE  IInv'
<1>1. CASE SscUnregister(a)
  <2>1. CASE Registers = {} /\ SscUnregister(a)
    <3> DEFINE o == Oper("REGISTER", "none", TRUE, <<"unregister">>)
    <3>1. o \in Opers /\ Fits(o) /\ ~o.waiting
      <4>1. <<"unregister">> \in Seq(Requests) /\ <<"unregister">> \in Seq(RequestsOf("REGISTER"))
        BY DEF Requests, RequestsOf
      <4>2. "REGISTER" \in Methods /\ "none" \in CallStates
        BY DEF Methods, CallStates
      <4> QED BY <4>1, <4>2, NewOper
    <3> HIDE DEF o
    <3>2. Creates(a, o, {}) /\ smState' = smState
      BY <2>1, CreateWithPasswordShape DEF SscUnregister, Newest, o
    <3>3. smState \in {"disabled", "active"}
      BY DEF IInv, TypeOK
    <3> QED BY <3>1, <3>2, <3>3, CreatesIInv, CreatesOnly DEF IInv
  <2>2. CASE Registers # {}
    <3>1. /\ a \in ops /\ oper[a].method = "REGISTER" /\ thread = "running"
          /\ oper' = [oper EXCEPT ![a].requests = Queued(@, "unregister")]
          /\ UNCHANGED <<ops, stamp, created, pend, smState, thread, leftover, buried>>
      BY <1>1, <2>2 DEF SscUnregister, Newest, Registers
    <3>2. "unregister" \in Requests /\ "unregister" \in RequestsOf(oper[a].method)
      BY <3>1 DEF Requests, RequestsOf
    <3>3. Changes(a, [oper[a] EXCEPT !.requests = Queued(oper[a].requests, "unregister"),
                                     !.callstate = oper[a].callstate])
      BY <3>1, OperType DEF Changes, Opers
    <3> QED BY <3>1, <3>2, <3>3, OperType, QueueCommands
  <2> QED BY <1>1, <2>1, <2>2
<1>2. CASE SscInfo(a)
  <2>1. /\ a \in ops /\ oper[a].callstate # "none" /\ thread = "running"
        /\ oper' = [oper EXCEPT ![a].requests = Queued(@, "info")]
        /\ UNCHANGED <<ops, stamp, created, pend, smState, thread, leftover, buried>>
    BY <1>2 DEF SscInfo, Newest, CallOps
  <2>2. "info" \in Requests /\ "info" \in RequestsOf(oper[a].method)
    BY <2>1, OperType DEF Requests, RequestsOf
  <2>3. Changes(a, [oper[a] EXCEPT !.requests = Queued(oper[a].requests, "info"),
                                   !.callstate = oper[a].callstate])
    BY <2>1, OperType DEF Changes, Opers
  <2> QED BY <2>1, <2>2, <2>3, OperType, QueueCommands
<1>3. CASE SscBye(a)
  <2>1. /\ a \in ops /\ oper[a].callstate # "none" /\ thread = "running"
        /\ oper' = [oper EXCEPT ![a].requests = Queued(@, "bye"), ![a].callstate = "none"]
        /\ UNCHANGED <<ops, stamp, created, pend, smState, thread, leftover, buried>>
    BY <1>3 DEF SscBye, Newest, CallOps
  <2>2. "bye" \in Requests /\ "bye" \in RequestsOf(oper[a].method) /\ "none" \in CallStates
    BY <2>1, OperType DEF Requests, RequestsOf, CallStates
  <2>3. Changes(a, [oper[a] EXCEPT !.requests = Queued(oper[a].requests, "bye"),
                                   !.callstate = "none"])
    BY <2>1, OperType DEF Changes, Opers
  <2> QED BY <2>1, <2>2, <2>3, QueueCommands
<1>4. CASE SscAnswer(a)
  <2>1. /\ a \in ops /\ oper[a].callstate = "recv" /\ thread = "running"
        /\ oper' = [oper EXCEPT ![a].callstate = "complete"]
        /\ smState' = "active"
        /\ UNCHANGED <<ops, stamp, created, pend, thread, leftover, buried>>
    BY <1>4 DEF SscAnswer, Newest, Unanswered
  <2> DEFINE o == [oper[a] EXCEPT !.requests = oper[a].requests, !.callstate = "complete"]
  <2>2. Changes(a, o)
    BY <2>1, OperType DEF Changes, Opers
  <2>3. oper[a].method = "INVITE" /\ "complete" \in CallStates
    BY <2>1, OperType DEF CallStates
  <2>4. /\ o \in Opers /\ Fits(o)
        /\ o.waiting = oper[a].waiting /\ o.method = oper[a].method
    BY <2>1, <2>3, OperType, ChangedOper
  <2> HIDE DEF o
  <2> QED BY <2>1, <2>2, <2>3, <2>4, ChangesIInv
<1> QED BY <1>1, <1>2, <1>3, <1>4
\* A request of the operation is over, and it goes on.
LEMMA AnsweredIInv ==
    ASSUME IInv, NEW a \in Addr, Answered(a)
    PROVE  IInv'
<1> DEFINE callstate == IF Head(oper[a].requests) = "invite" THEN "active" ELSE oper[a].callstate
           o == [oper[a] EXCEPT !.requests = Tail(oper[a].requests), !.callstate = callstate]
<1>1. /\ a \in ops /\ thread = "running" /\ oper[a].requests # <<>>
      /\ UNCHANGED <<ops, stamp, created, pend, smState, thread, leftover, buried>>
  BY DEF Answered, InProgress, RequestDone
<1>2. oper' = [oper EXCEPT ![a] = o]
  <2>1. CASE InProgress(a, {"message", "info", "register"}) /\ RequestDone(a)
    <3>1. callstate = oper[a].callstate
      BY <2>1 DEF InProgress
    <3> QED BY <1>1, <2>1, <3>1, OperType DEF RequestDone, Opers
  <2>2. CASE /\ InProgress(a, {"invite"})
             /\ oper' = [oper EXCEPT ![a].requests = Tail(@), ![a].callstate = "active"]
    <3>1. callstate = "active"
      BY <2>2 DEF InProgress
    <3> QED BY <1>1, <2>2, <3>1, OperType DEF Opers
  <2> QED BY <2>1, <2>2 DEF Answered
<1>3. /\ Tail(oper[a].requests) \in Seq(Requests)
      /\ Tail(oper[a].requests) \in Seq(RequestsOf(oper[a].method))
      /\ Head(oper[a].requests) \in RequestsOf(oper[a].method)
  BY <1>1, OperType, HeadTailProperties
<1>4. callstate \in CallStates /\ (callstate # "none" => oper[a].method = "INVITE")
  BY <1>1, <1>3, OperType DEF RequestsOf, CallStates
<1>5. /\ o \in Opers /\ Fits(o)
      /\ o.waiting = oper[a].waiting /\ o.method = oper[a].method
  <2> HIDE DEF callstate
  <2> QED BY <1>1, <1>3, <1>4, ChangedOper
<1> HIDE DEF o
<1>6. Changes(a, o)
  BY <1>1, <1>2 DEF Changes
<1> QED BY <1>1, <1>5, <1>6, ChangesIInv

\* The ACK of our 200.
LEMMA PeerAcksIInv ==
    ASSUME IInv, NEW a \in Addr, PeerAcks(a)
    PROVE  IInv'
<1>1. /\ a \in ops /\ oper[a].callstate = "complete" /\ thread = "running"
      /\ oper' = [oper EXCEPT ![a].callstate = "active"]
      /\ UNCHANGED <<ops, stamp, created, pend, smState, thread, leftover, buried>>
  BY DEF PeerAcks
<1> DEFINE o == [oper[a] EXCEPT !.requests = oper[a].requests, !.callstate = "active"]
<1>2. Changes(a, o)
  BY <1>1, OperType DEF Changes, Opers
<1>3. oper[a].method = "INVITE" /\ "active" \in CallStates
  BY <1>1, OperType DEF CallStates
<1>4. /\ o \in Opers /\ Fits(o)
      /\ o.waiting = oper[a].waiting /\ o.method = oper[a].method
  BY <1>1, <1>3, OperType, ChangedOper
<1> HIDE DEF o
<1> QED BY <1>1, <1>2, <1>4, ChangesIInv

\* The steps that destroy one operation.
Ends(a) == SscDecline(a) \/ RegisterEnds(a) \/ SessionEnds(a) \/ PeerEnds(a)

\* They have the shape of ssc_oper_destroy, and release the media if it was
\* the last INVITE.
LEMMA EndsShape ==
    ASSUME NEW a, Ends(a)
    PROVE  Destroys(a) /\ (smState' = MediaWithout({a}) \/ smState' = "disabled")
BY DEF Ends, SscDecline, RegisterEnds, SessionEnds, PeerEnds, Terminated, Destroys, InProgress,
       Newest, Unanswered

\* They keep IInv.
LEMMA EndsIInv ==
    ASSUME IInv, NEW a, Ends(a)
    PROVE  IInv'
<1>1. smState' \in {"disabled", "active"}
  BY EndsShape DEF IInv, TypeOK, MediaWithout
<1> QED BY <1>1, EndsShape, DestroysType, DestroysAuth, DestroysMedia DEF IInv

\* A challenge keeps IInv: it neither makes nor ends an INVITE.
LEMMA ChallengedIInv ==
    ASSUME IInv, NEW a \in Addr, NEW headers \in 1..2, Challenged(a, headers)
    PROVE  IInv'
<1>1. ops' = ops /\ smState' = smState /\ ops \subseteq Addr
  BY DEF Challenged, IInv, TypeOK
<1>2. TypeOK' /\ OpersFit' /\ \A b \in Addr : oper'[b].method = oper[b].method
  BY ChallengedType DEF IInv
<1>3. MediaReleased'
  BY <1>1, <1>2 DEF IInv, MediaReleased, Invites
<1> QED BY <1>2, <1>3, ChallengedAuth DEF IInv

-----------------------------------------------------------------------------
(* The theorems *)

\* The empty list satisfies the inductive invariant.
LEMMA InitIInv == Init => IInv
<1> SUFFICES ASSUME Init PROVE IInv
  OBVIOUS
<1>1. TypeOK /\ OpersFit
  <2>1. oper \in [Addr -> Opers] /\ OpersFit
    BY FreedOper DEF Init, OpersFit
  <2>2. created \in 0..MaxOps /\ stamp \in [Addr -> 0..created]
    BY OperationsAssumption DEF Init
  <2>3. pend \in Seq(Addr) /\ ops \in SUBSET Addr /\ buried \in SUBSET ops
    BY DEF Init
  <2>4. /\ smState \in {"disabled", "active"} /\ thread \in {"running", "stuck"}
        /\ leftover \in BOOLEAN
    BY DEF Init
  <2> QED BY <2>1, <2>2, <2>3, <2>4 DEF TypeOK
<1>2. AuthInv /\ MediaReleased
  BY DEF Init, AuthInv, PendingNeedsLeftover, NewestIsAuthenticated, StuckInTheMiddle, MediaReleased
<1> QED BY <1>1, <1>2 DEF IInv

\* Every command and every event preserves the inductive invariant.
LEMMA StepIInv == IInv /\ [Next]_vars => IInv'
<1> SUFFICES ASSUME IInv, [Next]_vars PROVE IInv'
  OBVIOUS
<1>1. ASSUME NEW a \in Addr, Command(a) PROVE IInv'
  BY <1>1, CreateCommands, ChangeCommands, EndsIInv DEF Command, Ends
<1>2. ASSUME NEW a \in Addr, Event(a) PROVE IInv'
  BY <1>2, ChallengedIInv, AnsweredIInv, PeerAcksIInv, CreateEvents, EndsIInv DEF Event, Ends
<1>3. CASE UNCHANGED vars
  <2>1. TypeOK' /\ OpersFit'
    BY <1>3 DEF IInv, TypeOK, OpersFit, vars
  <2>2. AuthInv' /\ MediaReleased'
    BY <1>3 DEF IInv, AuthInv, PendingNeedsLeftover, NewestIsAuthenticated, StuckInTheMiddle,
                MediaReleased, Invites, vars
  <2> QED BY <2>1, <2>2 DEF IInv
<1> QED BY <1>1, <1>2, <1>3 DEF Next

\* IInv holds in every state of the operation list and its challenges.
THEOREM OperationsInductive == Spec => []IInv
BY InitIInv, StepIInv, PTL DEF Spec

\* Whatever the order of commands, responses, challenges and cleaning, the
\* list, the callstates, NUA's queues and ssc_auth_pend keep their types.
THEOREM OperationsTyped == Spec => []TypeOK
<1>1. IInv => TypeOK
  BY DEF IInv
<1> QED BY <1>1, OperationsInductive, PTL

\* ssc_auth_pend is left with items only by a challenge with two headers or
\* one of an operation without a password: nobody's password answers the
\* challenge of an earlier operation otherwise.
THEOREM PendingAlways == Spec => []PendingNeedsLeftover
<1>1. IInv => PendingNeedsLeftover
  BY DEF IInv, AuthInv
<1> QED BY <1>1, OperationsInductive, PTL

\* ssc_auth answers every challenge of the newest operation, for any number
\* of operations behind it.
THEOREM NewestAlways == Spec => []NewestIsAuthenticated
<1>1. IInv => NewestIsAuthenticated
  BY DEF IInv, AuthInv
<1> QED BY <1>1, OperationsInductive, PTL

\* The loop of ssc_oper_check never ends for an operation in the middle of
\* the list and, with no item left over, for no other.
THEOREM StuckAlways == Spec => []StuckInTheMiddle
<1>1. IInv => StuckInTheMiddle
  BY DEF IInv, AuthInv
<1> QED BY <1>1, OperationsInductive, PTL

\* On every path on which the last INVITE leaves the list the media is
\* deactivated.
THEOREM MediaAlways == Spec => []MediaReleased
<1>1. IInv => MediaReleased
  BY DEF IInv
<1> QED BY <1>1, OperationsInductive, PTL

\* An operation only leaves the list when it is cleaned or ends on its own.
LEMMA Leaving ==
    ASSUME IInv, [Next]_vars, NEW a \in ops, a \notin ops'
    PROVE  \/ ~Persistent(a) /\ oper[a].callstate = "none"
           \/ Ends(a) /\ ops' = ops \ {a}
<1>1. PICK b \in Addr : Command(b) \/ Event(b)
  BY DEF Next, vars
<1>2. CASE SscInvite(b) \/ SscMessage(b)
  BY <1>2 DEF SscInvite, SscMessage, CreateWithPassword, OldHandles
<1>3. CASE Ends(b)
  BY <1>3, EndsShape DEF Destroys, Destroy
<1>4. CASE \/ SscRegister(b) \/ SscUnregister(b) \/ SscInfo(b) \/ SscBye(b) \/ SscAnswer(b)
           \/ Answered(b) \/ PeerAcks(b) \/ PeerInvites(b) \/ PeerMessages(b)
           \/ \E headers \in 1..2 : Challenged(b, headers)
  BY <1>4 DEF SscRegister, SscUnregister, SscInfo, SscBye, SscAnswer, Answered, PeerAcks,
              PeerInvites, PeerMessages, Challenged, CreateWithPassword, CreateWithHandle, RequestDone
<1> QED BY <1>1, <1>2, <1>3, <1>4 DEF Command, Event, Ends

\* Creating, cleaning or ending another operation never takes a registration
\* down: a REGISTER operation goes with the final response to its own request.
THEOREM RegistrationsAlways == Spec => RegistrationsKept
<1> DEFINE Kept == \A a \in Registers \ ops' :
                      ops' = ops \ {a} /\ InProgress(a, {"register", "unregister"})
<1>1. IInv /\ [Next]_vars => Kept
  <2> SUFFICES ASSUME IInv, [Next]_vars, NEW a \in Registers, a \notin ops'
               PROVE  ops' = ops \ {a} /\ InProgress(a, {"register", "unregister"})
    OBVIOUS
  <2>1. a \in ops /\ oper[a].method = "REGISTER"
    BY DEF Registers
  <2>2. Ends(a) /\ ops' = ops \ {a}
    BY <2>1, Leaving DEF Persistent
  <2>3. oper[a].callstate = "none" /\ oper[a].requests \in Seq({"register", "unregister"})
    BY <2>1, OperType DEF RequestsOf
  <2>4. ~SscDecline(a)
    BY <2>3 DEF SscDecline, Newest, Unanswered
  <2>5. ~SessionEnds(a)
    <3> SUFFICES ASSUME InProgress(a, {"invite", "bye"}) PROVE FALSE
      BY DEF SessionEnds
    <3>1. Head(oper[a].requests) \in {"register", "unregister"}
      BY <2>3, HeadTailProperties DEF InProgress
    <3> QED BY <3>1 DEF InProgress
  <2>6. ~PeerEnds(a)
    <3>1. \A i \in 1..Len(oper[a].requests) : oper[a].requests[i] # "bye"
      BY <2>3
    <3> QED BY <2>3, <3>1 DEF PeerEnds
  <2> QED BY <2>2, <2>4, <2>5, <2>6 DEF Ends, RegisterEnds
<1> QED BY <1>1, OperationsInductive, PTL DEF Spec, RegistrationsKept

\* A call with a callstate is never cleaned for another call or message.
THEOREM CallsAlways == Spec => CallsKept
<1> DEFINE Kept == \A a \in CallOps \ ops' : ops' = ops \ {a}
<1>1. IInv /\ [Next]_vars => Kept
  BY Leaving DEF CallOps
<1> QED BY <1>1, OperationsInductive, PTL DEF Spec, CallsKept

=============================================================================
