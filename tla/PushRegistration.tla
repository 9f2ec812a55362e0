--------------------------- MODULE PushRegistration ---------------------------
(***************************************************************************)
(* [RCDevice registerPushToken:]: PushHandler asks the Restcomm server for *)
(* one identifier after the other (account, client, application,           *)
(* credentials, binding) and creates what is missing.  What it learns it   *)
(* keeps in NSUserDefaults, which outlive the App.                         *)
(*                                                                         *)
(* A registration runs on a background queue, its completion handlers on   *)
(* that of the NSURLSession, so registrations interleave between any two   *)
(* steps.  A request can fail before or after the server has handled it,   *)
(* and the App can be killed at any time.  The server is external; the     *)
(* requests carry an account only, so it lists what the account has.       *)
(***************************************************************************)
EXTENDS Integers, FiniteSets

CONSTANTS
    Registrations,   \* calls of registerPushToken
    Users,           \* signalling usernames the App may be signed in with
    Clients,         \* those the account has a client for
    Tokens,          \* push tokens
    NoToken,         \* a nil or empty token
    Sandboxes,       \* values of RCPushIsSandbox in use
    NoUser,
    MaxKills         \* bound: times the App is killed

ASSUME PushAssumption ==
    /\ Clients \subseteq Users /\ NoUser \notin Users
    /\ NoToken \notin Tokens
    /\ Sandboxes \subseteq BOOLEAN /\ MaxKills \in Nat

VARIABLES
    reg,          \* the progress of each registration
    account,      \* NSUserDefaults: kAccountSidKey is set
    client,       \* NSUserDefaults: kClientSidKey
    application,  \* NSUserDefaults: kApplicationKey
    credentials,  \* NSUserDefaults: kCredentialsKey
    apps, creds, bindings,   \* what the server has
    sids,         \* sids the server has given out
    kills,        \* bound: times the App was killed
    overlapped,   \* history: a registration started before another was over
    switched      \* history: a registration for another user than the first

defaults == <<account, client, application, credentials>>
server == <<apps, creds, bindings, sids>>
vars == <<reg, defaults, server, kills, overlapped, switched>>

NoSid == 0
NoApp == [sid |-> NoSid, sandbox |-> FALSE]
NoCred == [sid |-> NoSid, app |-> NoSid]
NoBinding == [sid |-> NoSid, app |-> NoSid, identity |-> NoUser, address |-> NoToken]

Steps == {"account", "client", "application", "createApplication", "credentials",
          "createCredentials", "binding", "updateBinding", "createBinding"}
BindingSteps == {"binding", "updateBinding", "createBinding"}

(***************************************************************************)
(* "looking": about to look into NSUserDefaults; "asking": a request is on *)
(* its way; "answered": the server has handled it; "orphan": on its way    *)
(* when the App was killed; "reporting": the call of registeredForPush is  *)
(* in the main queue.                                                      *)
(***************************************************************************)
Phases == {"unborn", "looking", "asking", "answered", "orphan", "reporting", "over"}
Outcomes == {"none", "success", "error"}

\* about: the application sid the request names; found: the sid in the answer;
\* outcome: what the delegate is told, or was.
Unborn == [phase |-> "unborn", step |-> "account", user |-> NoUser, token |-> NoToken,
           sandbox |-> FALSE, client |-> NoUser, app |-> NoSid, about |-> NoSid,
           binding |-> NoBinding, found |-> NoSid, failed |-> FALSE, outcome |-> "none"]

Init ==
    /\ reg = [r \in Registrations |-> Unborn]
    /\ account = FALSE /\ client = NoUser /\ application = NoApp /\ credentials = NoCred
    /\ apps = {} /\ creds = {} /\ bindings = {} /\ sids = 0
    /\ kills = 0 /\ overlapped = FALSE /\ switched = FALSE

Busy(r) == reg[r].phase \notin {"unborn", "over"}
-----------------------------------------------------------------------------
(* The progress of one registration *)

Set(r, record) == reg' = [reg EXCEPT ![r] = record]

\* The chain of handlers is over and its blocks are gone.
Over(record, outcome) ==
    [Unborn EXCEPT !.phase = "over", !.step = record.step, !.outcome = outcome,
                   !.user = record.user]

\* registeredForPush is left to the main queue.
Report(r, outcome) == Set(r, [reg[r] EXCEPT !.phase = "reporting", !.outcome = outcome])

\* Handlers of one step that call the next one.
GoOn(record, step) ==
    [record EXCEPT !.phase = "looking", !.step = step, !.about = NoSid, !.found = NoSid]

Ask(record, step, about) ==
    [record EXCEPT !.phase = "asking", !.step = step, !.about = about,
                   !.found = NoSid, !.failed = FALSE]

\* registerPushToken and registerDevice.
RegisterDevice(r, user, token, sandbox) ==
    /\ reg[r].phase = "unborn"
    /\ Set(r, IF token = NoToken
              THEN [Unborn EXCEPT !.phase = "reporting", !.outcome = "error"]
              ELSE [Unborn EXCEPT !.phase = "looking", !.user = user, !.token = token,
                                  !.sandbox = sandbox])
    /\ overlapped' = (overlapped \/ \E q \in Registrations : Busy(q))
    /\ switched' = (switched \/ \E q \in Registrations : reg[q].user \notin {NoUser, user})
    /\ UNCHANGED <<defaults, server, kills>>

\* getAccountSid, getClientSid, getApplicationSid, getCredentialsSid and
\* checkBindingSid: an identifier that is known is used, else it is asked for.
LookUp(r) ==
    LET me == reg[r]
    IN  /\ me.phase = "looking"
        /\ \/ /\ me.step = "account"
              /\ Set(r, IF account THEN GoOn(me, "client") ELSE Ask(me, "account", NoSid))
           \/ /\ me.step = "client"
              /\ Set(r, IF client # NoUser
                        THEN GoOn([me EXCEPT !.client = client], "application")
                        ELSE Ask(me, "client", NoSid))
           \/ /\ me.step = "application"
              /\ Set(r, IF application # NoApp /\ application.sandbox = me.sandbox
                        THEN GoOn([me EXCEPT !.app = application.sid], "credentials")
                        ELSE Ask(me, "application", NoSid))
           \/ /\ me.step = "credentials"
              /\ Set(r, IF credentials # NoCred /\ credentials.app = me.app
                        THEN GoOn(me, "binding")
                        ELSE Ask(me, "credentials", application.sid))
           \/ /\ me.step = "binding"
              /\ Set(r, Ask(me, "binding", application.sid))
        /\ UNCHANGED <<defaults, server, kills, overlapped, switched>>
-----------------------------------------------------------------------------
(* The server (external), as PushApiManager uses it *)

\* The answer to the request of r, when it still waits for one; a binding is
\* answered with its address and identity.
Answer(r, sid) ==
    Set(r, IF reg[r].phase = "orphan"
           THEN Over(reg[r], "none")
           ELSE [reg[r] EXCEPT
                   !.phase = "answered", !.found = sid,
                   !.binding = IF reg[r].step = "binding" /\ sid # NoSid
                               THEN CHOOSE b \in bindings : b.sid = sid ELSE @])

\* A GET: one of the objects of the account that match, or none.
Lists(r, matching) ==
    /\ \/ \E x \in matching : Answer(r, x.sid)
       \/ matching = {} /\ Answer(r, NoSid)
    /\ UNCHANGED server

ServerHandles(r) ==
    LET me == reg[r]
        sid == sids + 1
    IN  /\ me.phase \in {"asking", "orphan"}
        /\ \/ /\ me.step \in {"account", "client"}
              /\ Answer(r, NoSid) /\ UNCHANGED server
           \/ /\ me.step = "application"
              /\ Lists(r, {a \in apps : a.sandbox = me.sandbox})
           \/ /\ me.step = "credentials"
              /\ Lists(r, {c \in creds : c.app = me.about})
           \/ /\ me.step = "binding"
              /\ Lists(r, {b \in bindings : b.app = me.about})
           \/ /\ me.step = "createApplication"
              /\ apps' = apps \cup {[sid |-> sid, sandbox |-> me.sandbox]}
              /\ sids' = sid /\ Answer(r, sid) /\ UNCHANGED <<creds, bindings>>
           \/ /\ me.step = "createCredentials"
              /\ creds' = creds \cup {[sid |-> sid, app |-> me.app]}
              /\ sids' = sid /\ Answer(r, sid) /\ UNCHANGED <<apps, bindings>>
           \/ /\ me.step = "createBinding"
              /\ bindings' = bindings \cup
                     {[sid |-> sid, app |-> me.app, identity |-> me.client, address |-> me.token]}
              /\ sids' = sid /\ Answer(r, sid) /\ UNCHANGED <<apps, creds>>
           \/ /\ me.step = "updateBinding"
              /\ bindings' = {IF b.sid = me.binding.sid THEN me.binding ELSE b : b \in bindings}
              /\ Answer(r, me.binding.sid) /\ UNCHANGED <<apps, creds, sids>>
        /\ UNCHANGED <<defaults, kills, overlapped, switched>>

\* getApiError, or an answer that is no JSON: the request never got there, or
\* its answer is lost.  (That the server handles a request of a running App
\* after its timeout is left out.)
RequestFails(r) ==
    /\ reg[r].phase \in {"asking", "answered", "orphan"} /\ ~reg[r].failed
    /\ Set(r, IF reg[r].phase = "orphan"
              THEN Over(reg[r], "none")
              ELSE [reg[r] EXCEPT !.phase = "answered", !.failed = TRUE, !.found = NoSid])
    /\ UNCHANGED <<defaults, server, kills, overlapped, switched>>
-----------------------------------------------------------------------------
(* The completion handlers *)

Answered(r, step) == reg[r].phase = "answered" /\ reg[r].step = step

HandleAccount(r) ==
    /\ Answered(r, "account")
    /\ IF reg[r].failed
       THEN Report(r, "error") /\ UNCHANGED defaults
       ELSE /\ Set(r, GoOn(reg[r], "client")) /\ account' = TRUE
            /\ UNCHANGED <<client, application, credentials>>
    /\ UNCHANGED <<server, kills, overlapped, switched>>

\* Mutant of HandleClient: the chain goes on without a client.
HandleClientGoesOn(r) ==
    /\ Answered(r, "client")
    /\ IF reg[r].failed
       THEN Report(r, "error") /\ UNCHANGED defaults
       ELSE /\ client' = IF reg[r].user \in Clients THEN reg[r].user ELSE NoUser
            /\ Set(r, GoOn([reg[r] EXCEPT !.client = client'], "application"))
            /\ UNCHANGED <<account, application, credentials>>
    /\ UNCHANGED <<server, kills, overlapped, switched>>

\* A user the account has no client for: setObject:nil, and an error.
HandleClient(r) ==
    /\ Answered(r, "client")
    /\ IF reg[r].failed
       THEN Report(r, "error") /\ UNCHANGED defaults
       ELSE /\ client' = IF reg[r].user \in Clients THEN reg[r].user ELSE NoUser
            /\ IF reg[r].user \in Clients
               THEN Set(r, GoOn([reg[r] EXCEPT !.client = reg[r].user], "application"))
               ELSE Report(r, "error")
            /\ UNCHANGED <<account, application, credentials>>
    /\ UNCHANGED <<server, kills, overlapped, switched>>

\* The application with this sid goes to NSUserDefaults and the chain goes on.
KeepApplication(r, sid) ==
    /\ application' = [sid |-> sid, sandbox |-> reg[r].sandbox]
    /\ Set(r, GoOn([reg[r] EXCEPT !.app = sid], "credentials"))
    /\ UNCHANGED <<account, client, credentials>>

\* Mutant of HandleApplication: the answer is not looked at.
HandleApplicationCreates(r) ==
    /\ Answered(r, "application")
    /\ \/ reg[r].failed /\ Report(r, "error") /\ UNCHANGED defaults
       \/ ~reg[r].failed /\ Set(r, Ask(reg[r], "createApplication", NoSid)) /\ UNCHANGED defaults
    /\ UNCHANGED <<server, kills, overlapped, switched>>

HandleApplication(r) ==
    /\ Answered(r, "application")
    /\ \/ /\ reg[r].failed
          /\ Report(r, "error") /\ UNCHANGED defaults
       \/ /\ ~reg[r].failed /\ reg[r].found # NoSid
          /\ KeepApplication(r, reg[r].found)
       \/ /\ ~reg[r].failed /\ reg[r].found = NoSid
          /\ Set(r, Ask(reg[r], "createApplication", NoSid)) /\ UNCHANGED defaults
    /\ UNCHANGED <<server, kills, overlapped, switched>>

\* An error of createApplication is not looked at: nil is archived, in place
\* of what was there, and has no sid.
HandleCreateApplication(r) ==
    /\ Answered(r, "createApplication")
    /\ IF reg[r].failed
       THEN /\ application' = NoApp /\ Report(r, "error")
            /\ UNCHANGED <<account, client, credentials>>
       ELSE KeepApplication(r, reg[r].found)
    /\ UNCHANGED <<server, kills, overlapped, switched>>

\* Mutant of KeepCredentials: they are kept for the application kept by now.
KeepCredentialsForKept(r, app) ==
    /\ credentials' = [sid |-> reg[r].found, app |-> application.sid]
    /\ Set(r, GoOn(reg[r], "binding"))
    /\ UNCHANGED <<account, client, application>>

KeepCredentials(r, app) ==
    /\ credentials' = [sid |-> reg[r].found, app |-> app]
    /\ Set(r, GoOn(reg[r], "binding"))
    /\ UNCHANGED <<account, client, application>>

\* What was asked for are the credentials of the application in NSUserDefaults.
HandleCredentials(r) ==
    /\ Answered(r, "credentials")
    /\ \/ /\ reg[r].failed
          /\ Report(r, "error") /\ UNCHANGED defaults
       \/ /\ ~reg[r].failed /\ reg[r].found # NoSid
          /\ KeepCredentials(r, reg[r].about)
       \/ /\ ~reg[r].failed /\ reg[r].found = NoSid
          /\ Set(r, Ask(reg[r], "createCredentials", NoSid)) /\ UNCHANGED defaults
    /\ UNCHANGED <<server, kills, overlapped, switched>>

\* Mutant of HandleCreateCredentials: an error is logged and not reported.
HandleCreateCredentialsSilent(r) ==
    /\ Answered(r, "createCredentials")
    /\ IF reg[r].failed
       THEN Set(r, Over(reg[r], "none")) /\ UNCHANGED defaults
       ELSE KeepCredentials(r, reg[r].app)
    /\ UNCHANGED <<server, kills, overlapped, switched>>

HandleCreateCredentials(r) ==
    /\ Answered(r, "createCredentials")
    /\ IF reg[r].failed
       THEN Report(r, "error") /\ UNCHANGED defaults
       ELSE KeepCredentials(r, reg[r].app)
    /\ UNCHANGED <<server, kills, overlapped, switched>>

\* Mutant of HandleBinding: the token of the binding is not compared.
HandleBindingAny(r) ==
    /\ Answered(r, "binding")
    /\ \/ reg[r].failed /\ Report(r, "error")
       \/ ~reg[r].failed /\ reg[r].found # NoSid /\ Report(r, "success")
       \/ ~reg[r].failed /\ reg[r].found = NoSid /\ Set(r, Ask(reg[r], "createBinding", NoSid))
    /\ UNCHANGED <<defaults, server, kills, overlapped, switched>>

\* The binding is the one the server listed, which is the user's as far as the
\* code knows.
HandleBinding(r) ==
    /\ Answered(r, "binding")
    /\ \/ /\ reg[r].failed
          /\ Report(r, "error")
       \/ /\ ~reg[r].failed /\ reg[r].found # NoSid
          /\ IF reg[r].binding.address = reg[r].token
             THEN Report(r, "success")
             ELSE Set(r, [Ask(reg[r], "updateBinding", NoSid) EXCEPT
                              !.binding.address = reg[r].token])
       \/ /\ ~reg[r].failed /\ reg[r].found = NoSid
          /\ Set(r, Ask(reg[r], "createBinding", NoSid))
    /\ UNCHANGED <<defaults, server, kills, overlapped, switched>>

\* The completion handler of updateBinding and createBinding.
HandleBound(r) ==
    /\ Answered(r, "updateBinding") \/ Answered(r, "createBinding")
    /\ Report(r, IF reg[r].failed THEN "error" ELSE "success")
    /\ UNCHANGED <<defaults, server, kills, overlapped, switched>>

\* The main queue calls the delegate.
Delivered(r) ==
    /\ reg[r].phase = "reporting"
    /\ Set(r, Over(reg[r], reg[r].outcome))
    /\ UNCHANGED <<defaults, server, kills, overlapped, switched>>

\* The blocks of the binding steps reach the delegate by weakSelf, and only the
\* completion handler that has run kept the PushHandler: when the session lets
\* go of it first, weakSelf is nil.  formatAndDelegateError keeps self.
HandlerGone(r) ==
    /\ reg[r].phase = "reporting" /\ reg[r].step \in BindingSteps
    /\ Set(r, Over(reg[r], "none"))
    /\ UNCHANGED <<defaults, server, kills, overlapped, switched>>

\* The App is killed: nothing is left of a registration but its request.
Kill ==
    /\ kills < MaxKills
    /\ kills' = kills + 1
    /\ reg' = [r \in Registrations |->
                 CASE reg[r].phase = "asking" -> [reg[r] EXCEPT !.phase = "orphan"]
                   [] reg[r].phase \in {"looking", "answered", "reporting"} -> Over(reg[r], "none")
                   [] OTHER -> reg[r]]
    /\ UNCHANGED <<defaults, server, overlapped, switched>>

Handle(r) ==
    \/ HandleAccount(r) \/ HandleClient(r) \/ HandleApplication(r)
    \/ HandleCreateApplication(r) \/ HandleCredentials(r) \/ HandleCreateCredentials(r)
    \/ HandleBinding(r) \/ HandleBound(r)

Next ==
    \/ Kill
    \/ \E r \in Registrations :
          \/ \E user \in Users, token \in Tokens \cup {NoToken}, sandbox \in Sandboxes :
                RegisterDevice(r, user, token, sandbox)
          \/ LookUp(r) \/ ServerHandles(r) \/ RequestFails(r) \/ Handle(r)
          \/ Delivered(r) \/ HandlerGone(r)

Spec == Init /\ [][Next]_vars
-----------------------------------------------------------------------------
(* Properties *)

Apps == [sid : 0..sids, sandbox : BOOLEAN]
Creds == [sid : 0..sids, app : 0..sids]
Bindings == [sid : 0..sids, app : 0..sids, identity : Users \cup {NoUser},
             address : Tokens \cup {NoToken}]
Progress == [phase : Phases, step : Steps, user : Users \cup {NoUser},
             token : Tokens \cup {NoToken}, sandbox : BOOLEAN, client : Users \cup {NoUser},
             app : 0..sids, about : 0..sids, binding : Bindings, found : 0..sids,
             failed : BOOLEAN, outcome : Outcomes]

\* The variables keep their types.  No binding is ever asked for without an
\* identity or an address, which NSMutableDictionary would answer with an
\* exception.
TypeOK ==
    /\ reg \in [Registrations -> Progress]
    /\ account \in BOOLEAN /\ client \in Clients \cup {NoUser}
    /\ application \in Apps /\ credentials \in Creds
    /\ apps \subseteq Apps /\ creds \subseteq Creds
    /\ bindings \subseteq [sid : 1..sids, app : 1..sids, identity : Clients, address : Tokens]
    /\ sids \in Nat /\ kills \in 0..MaxKills
    /\ overlapped \in BOOLEAN /\ switched \in BOOLEAN

\* Registering again after any failure, lost answer or kill finds what is
\* already on the server: as long as registrations do not overlap, there is
\* one application of each kind, one set of credentials and one binding for it.
NothingTwice ==
    ~overlapped =>
        /\ \A a, b \in apps : a.sandbox = b.sandbox => a = b
        /\ \A c, d \in creds : c.app = d.app => c = d
        /\ \A b, c \in bindings : b.app = c.app => b = c

\* The server pushes what is for the user of r to its token.
Bound(r) ==
    \E a \in apps, b \in bindings :
        /\ a.sandbox = reg[r].sandbox /\ b.app = a.sid
        /\ b.address = reg[r].token /\ b.identity = reg[r].user
        /\ \E c \in creds : c.app = a.sid

\* "if nil, registering for push is successful" (registeredForPush): when the
\* main queue tells the delegate of success the server has a binding of the
\* user's client to the token, for an application of the right kind that has
\* credentials - if no other registration ran meanwhile and no other user was
\* signed in before, for which what is kept in NSUserDefaults is right.
SuccessMeansBound ==
    [][\A r \in Registrations :
          (Busy(r) /\ ~Busy(r)' /\ reg'[r].outcome = "success") /\ ~overlapped /\ ~switched
              => Bound(r)]_vars

\* What NSUserDefaults keep of a failed or killed registration is never ahead
\* of the server: a kept application or set of credentials exists there, and
\* the credentials are for the application they are kept with.
DefaultsAreTrue ==
    /\ application # NoApp => application \in apps
    /\ credentials # NoCred => credentials \in creds

\* A registration tells its delegate how it ended, on every path through the
\* chain.  Only at the binding, where weakSelf is all the report goes by, is it
\* lost without the App being killed: whatever fails before is reported.
OnlyBindingReportsLost ==
    \A r \in Registrations :
        reg[r].phase = "over" /\ reg[r].outcome = "none" =>
            kills > 0 \/ reg[r].step \in BindingSteps
=============================================================================
