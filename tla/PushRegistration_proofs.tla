------------------------ MODULE PushRegistration_proofs ------------------------
(***************************************************************************)
(* Proofs about PushRegistration for any number of registrations, users,   *)
(* tokens and kills.                                                       *)
(*                                                                         *)
(* ChainInv says what a registration has established by the step it has    *)
(* reached; it holds however registrations overlap.  AloneInv says what a  *)
(* registration nobody interferes with knows of the server: that what it   *)
(* is about to create is not there.                                        *)
(***************************************************************************)
EXTENDS PushRegistration, TLAPS

AppSteps == BindingSteps \cup {"credentials", "createCredentials"}
ClientSteps == AppSteps \cup {"application", "createApplication"}

\* The chain of r is at work.
Working(r) == reg[r].phase \notin {"unborn", "reporting", "over"}

\* The users registrations were made for.
Known == {reg[q].user : q \in Registrations} \ {NoUser}

\* A binding as a server that has given out n sids has them, of a known user.
RealIn(b, n, known) ==
    /\ b \in [sid : 1..n, app : 1..n, identity : Clients, address : Tokens]
    /\ b.identity \in known

Real(b) == RealIn(b, sids, Known)

\* What a registration with this progress has established, when A and C are the
\* applications and credentials of the server and the App was killed k times.
ChainedIn(me, n, known, A, C, k) ==
    /\ me.phase = "unborn" => me.user = NoUser
    /\ me.phase = "reporting" <=> me.phase # "over" /\ me.outcome # "none"
    /\ me.phase = "orphan" => k > 0
    /\ me.phase \notin {"unborn", "reporting", "over"} =>
         /\ me.token \in Tokens /\ me.user \in Users
         /\ me.step \in ClientSteps => me.client \in Clients /\ me.client \in known
         /\ me.step \in AppSteps => [sid |-> me.app, sandbox |-> me.sandbox] \in A
         /\ me.step = "updateBinding" => RealIn(me.binding, n, known)
    /\ me.phase = "answered" /\ ~me.failed =>
         /\ me.step = "createApplication" \/ (me.step = "application" /\ me.found # NoSid) =>
               [sid |-> me.found, sandbox |-> me.sandbox] \in A
         /\ me.step = "createCredentials" => [sid |-> me.found, app |-> me.app] \in C
         /\ me.step = "credentials" /\ me.found # NoSid =>
               [sid |-> me.found, app |-> me.about] \in C
         /\ me.step = "binding" /\ me.found # NoSid => RealIn(me.binding, n, known)

Chained(me) == ChainedIn(me, sids, Known, apps, creds, kills)

ChainInv == \A r \in Registrations : Chained(reg[r])

\* What the server has, it has under a sid of its own, and a binding is for a
\* client that a registration was for; so is the client in NSUserDefaults.
ServerInv ==
    /\ \A a \in apps \cup creds : a.sid # NoSid
    /\ \A b \in bindings : Real(b)
    /\ \A b, c \in bindings : b.sid = c.sid => b = c
    /\ client # NoUser => client \in Known

\* The only user there has been.
SameUser ==
    ~switched => \A q, r \in Registrations :
                    reg[q].user # NoUser /\ reg[r].user # NoUser => reg[q].user = reg[r].user

\* What a registration with this progress, alone since it started, knows: the
\* application it goes by is the one in NSUserDefaults and has credentials,
\* what it has not found or is about to create is not on the server, and what
\* it has found or written is.  A, C and B are what the server has, kept is the
\* sid of the application in NSUserDefaults.
AloneIn(me, kept, A, C, B) ==
    me.phase \notin {"unborn", "reporting", "over"} =>
    LET pending == me.phase \in {"asking", "orphan"}
        answered == me.phase = "answered" /\ ~me.failed
        absent == answered /\ me.found = NoSid
    IN  /\ me.step \in AppSteps => kept = me.app
        /\ me.step \in {"credentials", "binding"} /\ me.phase # "looking" => me.about = me.app
        /\ me.step \in BindingSteps => \E c \in C : c.app = me.app
        /\ (pending /\ me.step = "createApplication") \/ (absent /\ me.step = "application") =>
              \A a \in A : a.sandbox # me.sandbox
        /\ (pending /\ me.step = "createCredentials") \/ (absent /\ me.step = "credentials") =>
              \A c \in C : c.app # me.app
        /\ (pending /\ me.step = "createBinding") \/ (absent /\ me.step = "binding") =>
              \A b \in B : b.app # me.app
        /\ answered /\ me.step = "binding" /\ me.found # NoSid =>
              me.binding \in B /\ me.binding.app = me.app
        /\ me.step = "updateBinding" =>
              /\ me.binding.app = me.app /\ me.binding.address = me.token
              /\ pending => \E b \in B : b.sid = me.binding.sid /\ b.app = me.app
              /\ answered => me.binding \in B
        /\ answered /\ me.step = "createBinding" =>
              \E b \in B : b.app = me.app /\ b.address = me.token /\ b.identity = me.client

Alone(me) == AloneIn(me, application.sid, apps, creds, bindings)

AloneInv ==
    ~overlapped =>
        /\ \A q, r \in Registrations : Busy(q) /\ Busy(r) => q = r
        /\ \A r \in Registrations : Alone(reg[r])

IInv ==
    /\ TypeOK /\ ChainInv /\ ServerInv /\ DefaultsAreTrue /\ OnlyBindingReportsLost
    /\ SameUser /\ AloneInv /\ NothingTwice
-----------------------------------------------------------------------------
(* The initial states *)

LEMMA InitTyped == Init => TypeOK
<1> SUFFICES ASSUME Init PROVE TypeOK
  OBVIOUS
<1> USE PushAssumption DEF Init, NoSid
<1>1. Unborn \in Progress
  BY DEF Unborn, Progress, Bindings, NoBinding, Phases, Steps, Outcomes
<1>2. reg \in [Registrations -> Progress]
  BY <1>1
<1>3. application \in Apps /\ credentials \in Creds
  BY DEF Apps, Creds, NoApp, NoCred
<1>4. account \in BOOLEAN /\ overlapped \in BOOLEAN /\ switched \in BOOLEAN
  OBVIOUS
<1>5. client \in Clients \cup {NoUser} /\ sids \in Nat /\ kills \in 0..MaxKills
  OBVIOUS
<1>6. apps \subseteq Apps /\ creds \subseteq Creds
  OBVIOUS
<1>7. bindings \subseteq [sid : 1..sids, app : 1..sids, identity : Clients, address : Tokens]
  OBVIOUS
<1> QED
  BY <1>2, <1>3, <1>4, <1>5, <1>6, <1>7 DEF TypeOK

LEMMA InitIInv == Init => IInv
<1> SUFFICES ASSUME Init PROVE IInv
  OBVIOUS
<1>1. TypeOK
  BY InitTyped
<1>2. ChainInv
  BY DEF Init, ChainInv, Chained, ChainedIn, Unborn
<1>3. ServerInv /\ DefaultsAreTrue
  BY DEF Init, ServerInv, DefaultsAreTrue
<1>4. OnlyBindingReportsLost /\ SameUser
  BY DEF Init, OnlyBindingReportsLost, SameUser, Unborn
<1>5. AloneInv /\ NothingTwice
  BY DEF Init, AloneInv, Busy, Alone, AloneIn, Unborn, NothingTwice
<1> QED
  BY <1>1, <1>2, <1>3, <1>4, <1>5 DEF IInv
-----------------------------------------------------------------------------
(* What a registration knows stays true while the server has more *)

LEMMA TypesGrow ==
  ASSUME sids \in Nat, sids' \in Nat, sids =< sids'
  PROVE  /\ Progress \subseteq Progress' /\ Bindings \subseteq Bindings'
         /\ Apps \subseteq Apps' /\ Creds \subseteq Creds'
<1>1. 0..sids \subseteq 0..(sids')
  OBVIOUS
<1>2. Apps \subseteq Apps' /\ Creds \subseteq Creds' /\ Bindings \subseteq Bindings'
  BY <1>1 DEF Apps, Creds, Bindings
<1>3. ASSUME NEW me \in Progress PROVE me \in Progress'
  BY <1>1, <1>2 DEF Progress
<1> QED
  BY <1>2, <1>3

LEMMA RealGrows ==
  ASSUME NEW n \in Nat, NEW m \in Nat, n =< m, NEW K, NEW L, K \subseteq L,
         NEW b, RealIn(b, n, K)
  PROVE  RealIn(b, m, L)
BY DEF RealIn

LEMMA ChainGrows ==
  ASSUME NEW n \in Nat, NEW m \in Nat, n =< m, NEW K, NEW L, K \subseteq L,
         NEW A, NEW A2, A \subseteq A2, NEW C, NEW C2, C \subseteq C2,
         NEW k \in Nat, NEW k2 \in Nat, k =< k2,
         NEW me, ChainedIn(me, n, K, A, C, k)
  PROVE  ChainedIn(me, m, L, A2, C2, k2)
<1>1. RealIn(me.binding, n, K) => RealIn(me.binding, m, L)
  BY RealGrows
<1> QED
  BY <1>1 DEF ChainedIn

\* r, which is not over, goes on; the server has no less than before.
StepOf(r) ==
    /\ Busy(r) /\ reg' = [reg EXCEPT ![r] = reg'[r]]
    /\ reg'[r] \in Progress' /\ reg'[r].user = reg[r].user
    /\ sids' \in Nat /\ sids =< sids' /\ apps \subseteq apps' /\ creds \subseteq creds'
    /\ Chained(reg[r])'
    /\ ~overlapped => Alone(reg[r])'
    /\ reg'[r].phase = "over" /\ reg'[r].outcome = "none" =>
          kills > 0 \/ reg'[r].step \in BindingSteps
    /\ UNCHANGED <<kills, overlapped, switched>>

LEMMA StepKnown ==
  ASSUME TypeOK, NEW r \in Registrations, reg' = [reg EXCEPT ![r] = reg'[r]],
         reg'[r].user = reg[r].user
  PROVE  Known' = Known
<1>1. \A q \in Registrations : reg'[q].user = reg[q].user
  BY DEF TypeOK
<1> QED
  BY <1>1 DEF Known

LEMMA StepKeeps ==
  ASSUME IInv, NEW r \in Registrations, StepOf(r)
  PROVE  /\ reg' \in [Registrations -> Progress'] /\ Known' = Known
         /\ ChainInv' /\ OnlyBindingReportsLost' /\ SameUser' /\ AloneInv'
<1> USE DEF IInv
<1>1. Known' = Known
  BY StepKnown DEF StepOf
<1>2. \A q \in Registrations : q # r => reg'[q] = reg[q]
  BY DEF StepOf, TypeOK
<1>3. sids \in Nat /\ kills \in Nat /\ reg \in [Registrations -> Progress]
  BY PushAssumption DEF TypeOK
<1>4. Progress \subseteq Progress'
  BY <1>3, TypesGrow DEF StepOf
<1>5. reg' \in [Registrations -> Progress']
  BY <1>3, <1>4 DEF StepOf
<1>6. ASSUME NEW q \in Registrations PROVE Chained(reg[q])'
  <2>1. CASE q = r
    BY <2>1 DEF StepOf
  <2>2. CASE q # r
    <3>1. ChainedIn(reg[q], sids, Known, apps, creds, kills)
      BY DEF ChainInv, Chained
    <3>2. ChainedIn(reg[q], sids', Known', apps', creds', kills')
      <4>1. kills' = kills /\ sids' \in Nat /\ sids =< sids' /\ apps \subseteq apps' /\ creds \subseteq creds'
        BY DEF StepOf
      <4> QED
        BY <1>1, <1>3, <3>1, <4>1, ChainGrows
    <3> QED
      BY <1>2, <2>2, <3>2 DEF Chained
  <2> QED
    BY <2>1, <2>2
<1>7. OnlyBindingReportsLost'
  BY <1>2 DEF StepOf, OnlyBindingReportsLost
<1>8. SameUser'
  BY <1>2 DEF StepOf, SameUser
<1>9. AloneInv'
  <2> SUFFICES ASSUME ~overlapped PROVE AloneInv'
    BY DEF AloneInv, StepOf
  <2>1. \A q \in Registrations : q # r => ~Busy(q)
    BY DEF AloneInv, StepOf
  <2>2. \A q \in Registrations : q # r => reg'[q].phase \in {"unborn", "over"}
    BY <1>2, <2>1 DEF Busy
  <2>3. ASSUME NEW q \in Registrations PROVE Alone(reg[q])'
    BY <2>2 DEF StepOf, Alone, AloneIn
  <2>4. \A p, q \in Registrations : Busy(p)' /\ Busy(q)' => p = q
    BY <2>2 DEF Busy
  <2> QED
    BY <2>3, <2>4 DEF AloneInv
<1> QED
  BY <1>1, <1>5, <1>6, <1>7, <1>8, <1>9 DEF ChainInv

\* A step that leaves the server alone.
LEMMA DefaultsStep ==
  ASSUME IInv, NEW r \in Registrations, StepOf(r), UNCHANGED server,
         account' \in BOOLEAN, client' \in Clients \cup {NoUser},
         client' # NoUser => client' \in Known,
         application' \in Apps, credentials' \in Creds, DefaultsAreTrue'
  PROVE  IInv'
<1> USE DEF IInv
<1>1. /\ reg' \in [Registrations -> Progress'] /\ Known' = Known
      /\ ChainInv' /\ OnlyBindingReportsLost' /\ SameUser' /\ AloneInv'
  BY StepKeeps
<1>2. kills' = kills /\ overlapped' = overlapped /\ switched' = switched
  BY DEF StepOf
<1>3. apps' = apps /\ creds' = creds /\ bindings' = bindings /\ sids' = sids
  BY DEF server
<1>4. TypeOK'
  <2>1. Apps' = Apps /\ Creds' = Creds
    BY <1>3 DEF Apps, Creds
  <2>2. overlapped' \in BOOLEAN /\ switched' \in BOOLEAN
    BY <1>2 DEF TypeOK
  <2>3. /\ apps' \subseteq Apps' /\ creds' \subseteq Creds' /\ sids' \in Nat /\ kills' \in 0..MaxKills
        /\ bindings' \subseteq [sid : 1..sids', app : 1..sids', identity : Clients, address : Tokens]
    BY <1>2, <1>3, <2>1 DEF TypeOK
  <2> QED
    BY <1>1, <2>1, <2>2, <2>3 DEF TypeOK
<1>5. ServerInv'
  BY <1>1, <1>3 DEF ServerInv, Real
<1>6. NothingTwice'
  BY <1>2, <1>3 DEF NothingTwice
<1> QED
  BY <1>1, <1>4, <1>5, <1>6

\* A step that leaves NSUserDefaults alone as well.
LEMMA QuietStep ==
  ASSUME IInv, NEW r \in Registrations, StepOf(r), UNCHANGED <<defaults, server>>
  PROVE  IInv'
<1>1. UNCHANGED server
  OBVIOUS
<1>2. account' \in BOOLEAN
  BY DEF IInv, TypeOK, defaults
<1>3. /\ client' \in Clients \cup {NoUser}
      /\ client' # NoUser => client' \in Known
      /\ application' \in Apps /\ credentials' \in Creds
  BY DEF IInv, TypeOK, ServerInv, defaults
<1>4. DefaultsAreTrue'
  BY DEF IInv, DefaultsAreTrue, defaults, server
<1> QED
  BY <1>1, <1>2, <1>3, <1>4, DefaultsStep
-----------------------------------------------------------------------------
(* The records a handler leaves *)

LEMMA SetIs ==
  ASSUME TypeOK, NEW r \in Registrations, NEW rec, Set(r, rec)
  PROVE  reg'[r] = rec /\ reg' = [reg EXCEPT ![r] = reg'[r]]
BY DEF TypeOK, Set

LEMMA OverIs ==
  ASSUME NEW me \in Progress, NEW outcome \in Outcomes, sids \in Nat
  PROVE  /\ Over(me, outcome) \in Progress
         /\ Over(me, outcome).phase = "over" /\ Over(me, outcome).outcome = outcome
         /\ Over(me, outcome).user = me.user /\ Over(me, outcome).step = me.step
<1>1. Unborn \in Progress
  BY DEF Unborn, Progress, Bindings, NoBinding, Phases, Steps, Outcomes, NoSid
<1> QED
  BY <1>1 DEF Over, Progress, Phases

\* new is in another phase or step, and otherwise like me.
Moved(new, me, phase, step) ==
    /\ new.phase = phase /\ new.step = step
    /\ new.user = me.user /\ new.token = me.token /\ new.sandbox = me.sandbox
    /\ new.client = me.client /\ new.app = me.app /\ new.binding = me.binding
    /\ new.outcome = me.outcome

LEMMA GoOnIs ==
  ASSUME NEW me \in Progress, NEW step \in Steps, sids \in Nat
  PROVE  GoOn(me, step) \in Progress /\ Moved(GoOn(me, step), me, "looking", step)
<1>1. GoOn(me, step) = [me EXCEPT !.phase = "looking", !.step = step, !.about = 0, !.found = 0]
  BY DEF GoOn, NoSid
<1>2. 0 \in 0..sids /\ "looking" \in Phases
  BY DEF Phases
<1>3. [me EXCEPT !.phase = "looking", !.step = step, !.about = 0, !.found = 0] \in Progress
  BY <1>2, Zenon DEF Progress
<1>4. Moved(GoOn(me, step), me, "looking", step)
  BY <1>1 DEF Progress, Moved
<1> QED
  BY <1>1, <1>3, <1>4

LEMMA AskIs ==
  ASSUME NEW me \in Progress, NEW step \in Steps, NEW about \in 0..sids, sids \in Nat
  PROVE  /\ Ask(me, step, about) \in Progress
         /\ Moved(Ask(me, step, about), me, "asking", step)
         /\ Ask(me, step, about).about = about
<1> DEFINE asked == [me EXCEPT !.phase = "asking", !.step = step, !.about = about,
                               !.found = 0, !.failed = FALSE]
<1>1. Ask(me, step, about) = asked
  BY DEF Ask, NoSid
<1>2. 0 \in 0..sids /\ "asking" \in Phases
  BY DEF Phases
<1>3. asked \in Progress
  BY <1>2, Zenon DEF Progress
<1>4. Moved(asked, me, "asking", step) /\ asked.about = about
  BY DEF Progress, Moved
<1> QED
  BY <1>1, <1>3, <1>4

LEMMA AskNothing ==
  ASSUME NEW me \in Progress, NEW step \in Steps, sids \in Nat
  PROVE  Ask(me, step, 0) \in Progress /\ Moved(Ask(me, step, 0), me, "asking", step)
<1>1. 0 \in 0..sids
  OBVIOUS
<1> QED
  BY <1>1, AskIs

\* A registration that is over has nothing to answer for.
LEMMA OverStep ==
  ASSUME IInv, NEW r \in Registrations, Busy(r), NEW outcome \in Outcomes,
         outcome # "none" \/ kills > 0 \/ reg[r].step \in BindingSteps,
         Set(r, Over(reg[r], outcome)),
         sids' \in Nat, sids =< sids', apps \subseteq apps', creds \subseteq creds',
         UNCHANGED <<kills, overlapped, switched>>
  PROVE  StepOf(r)
<1>1. TypeOK /\ reg[r] \in Progress /\ sids \in Nat
  BY DEF IInv, TypeOK
<1>2. reg'[r] = Over(reg[r], outcome) /\ reg' = [reg EXCEPT ![r] = reg'[r]]
  BY <1>1, SetIs
<1>3. /\ reg'[r] \in Progress' /\ reg'[r].phase = "over" /\ reg'[r].outcome = outcome
      /\ reg'[r].user = reg[r].user /\ reg'[r].step = reg[r].step
  BY <1>1, <1>2, OverIs, TypesGrow
<1>4. Chained(reg[r])' /\ Alone(reg[r])'
  BY <1>3 DEF Chained, ChainedIn, Alone, AloneIn
<1> QED
  BY <1>2, <1>3, <1>4 DEF StepOf

\* r is busy and goes on with the record new; nothing but NSUserDefaults changes
\* besides.
LEMMA GoesOn ==
  ASSUME IInv, NEW r \in Registrations, Working(r), NEW new \in Progress, Set(r, new),
         new.user = reg[r].user, new.phase # "over",
         ChainedIn(new, sids, Known, apps, creds, kills),
         ~overlapped => AloneIn(new, application'.sid, apps, creds, bindings),
         UNCHANGED <<server, kills, overlapped, switched>>
  PROVE  StepOf(r)
<1>1. TypeOK /\ sids \in Nat
  BY DEF IInv, TypeOK
<1>2. reg'[r] = new /\ reg' = [reg EXCEPT ![r] = reg'[r]]
  BY <1>1, SetIs
<1>3. Known' = Known
  BY <1>1, <1>2, StepKnown
<1>4. sids' = sids /\ apps' = apps /\ creds' = creds /\ bindings' = bindings /\ kills' = kills
  BY DEF server
<1>5. Progress' = Progress
  BY <1>4 DEF Progress, Bindings
<1>6. Chained(reg[r])' /\ (~overlapped => Alone(reg[r])')
  BY <1>2, <1>3, <1>4 DEF Chained, Alone
<1>7. sids =< sids'
  BY <1>1, <1>4
<1> QED
  BY <1>1, <1>2, <1>4, <1>5, <1>6, <1>7 DEF StepOf, Working, Busy

\* What the invariant says of a registration at work.
LEMMA WorkingFacts ==
  ASSUME IInv, NEW r \in Registrations, Working(r)
  PROVE  /\ reg[r] \in Progress /\ sids \in Nat /\ kills \in Nat
         /\ ChainedIn(reg[r], sids, Known, apps, creds, kills)
         /\ ~overlapped => AloneIn(reg[r], application.sid, apps, creds, bindings)
         /\ reg[r].token \in Tokens /\ reg[r].user \in Users /\ reg[r].user \in Known
         /\ reg[r].outcome = "none"
         /\ application \in Apps /\ credentials \in Creds
<1>1. /\ reg[r] \in Progress /\ sids \in Nat /\ kills \in Nat
      /\ application \in Apps /\ credentials \in Creds
  BY PushAssumption DEF IInv, TypeOK
<1>2. ChainedIn(reg[r], sids, Known, apps, creds, kills)
  BY DEF IInv, ChainInv, Chained
<1>3. ~overlapped => AloneIn(reg[r], application.sid, apps, creds, bindings)
  BY DEF IInv, AloneInv, Alone
<1>4. reg[r].token \in Tokens /\ reg[r].user \in Users /\ reg[r].outcome = "none"
  BY <1>2 DEF ChainedIn, Working
<1>5. reg[r].user \in Known
  BY <1>4, PushAssumption DEF Known
<1> QED
  BY <1>1, <1>2, <1>3, <1>4, <1>5

\* The request or look-up that follows a step, and what it takes.
LEMMA MovesOn ==
  ASSUME IInv, NEW r \in Registrations, Working(r), NEW me \in Progress, NEW new \in Progress,
         NEW phase \in {"looking", "asking"}, NEW step \in Steps,
         Moved(new, me, phase, step), Set(r, new),
         me.user = reg[r].user, me.outcome = "none", me.token \in Tokens,
         step \in ClientSteps => me.client \in Clients /\ me.client \in Known,
         step \in AppSteps => [sid |-> me.app, sandbox |-> me.sandbox] \in apps,
         step = "updateBinding" => Real(me.binding),
         ~overlapped => AloneIn(new, application'.sid, apps, creds, bindings),
         UNCHANGED <<server, kills, overlapped, switched>>
  PROVE  StepOf(r)
<1>1. reg[r].user \in Users
  BY WorkingFacts
<1>2. ChainedIn(new, sids, Known, apps, creds, kills)
  BY <1>1 DEF ChainedIn, Moved, Real
<1>3. new.user = reg[r].user /\ new.phase # "over"
  BY DEF Moved
<1> QED
  BY <1>2, <1>3, GoesOn

\* Before it asks, a registration knows the application, and the credentials.
LEMMA AloneLooks ==
  ASSUME NEW new, NEW kept, NEW A, NEW C, NEW B,
         new.phase = "looking", new.step # "updateBinding",
         new.step \in AppSteps => kept = new.app,
         new.step \in BindingSteps => \E c \in C : c.app = new.app
  PROVE  AloneIn(new, kept, A, C, B)
BY DEF AloneIn

\* It asks for what the application has.
LEMMA AloneAsks ==
  ASSUME NEW new, NEW kept, NEW A, NEW C, NEW B,
         new.phase = "asking", new.step \in {"account", "client", "application", "credentials", "binding"},
         new.step \in AppSteps => kept = new.app /\ new.about = new.app,
         new.step \in BindingSteps => \E c \in C : c.app = new.app
  PROVE  AloneIn(new, kept, A, C, B)
BY DEF AloneIn, AppSteps, BindingSteps

\* The steps with what they establish.
LEMMA StepKinds ==
  /\ {"account", "client"} \cap ClientSteps = {} /\ {"account", "client"} \cap AppSteps = {}
  /\ {"account", "client"} \cap BindingSteps = {}
  /\ {"application", "createApplication"} \cap AppSteps = {}
  /\ {"application", "createApplication"} \cap BindingSteps = {}
  /\ {"application", "createApplication"} \subseteq ClientSteps
  /\ {"credentials", "createCredentials"} \cap BindingSteps = {}
  /\ {"credentials", "createCredentials"} \subseteq AppSteps
  /\ {"binding", "updateBinding", "createBinding"} \subseteq BindingSteps
  /\ BindingSteps \subseteq AppSteps /\ AppSteps \subseteq ClientSteps
  /\ ClientSteps \subseteq Steps /\ {"account", "client"} \subseteq Steps
BY DEF BindingSteps, AppSteps, ClientSteps, Steps
-----------------------------------------------------------------------------
(* The actions *)

LEMMA LookUpIInv ==
  ASSUME IInv, NEW r \in Registrations, LookUp(r)
  PROVE  IInv'
<1> DEFINE me == reg[r]
<1>1. Working(r) /\ me.phase = "looking"
  BY DEF LookUp, Working
<1>2. /\ me \in Progress /\ sids \in Nat
      /\ ChainedIn(me, sids, Known, apps, creds, kills)
      /\ ~overlapped => AloneIn(me, application.sid, apps, creds, bindings)
      /\ application \in Apps /\ credentials \in Creds
      /\ me.outcome = "none" /\ me.token \in Tokens
  BY <1>1, WorkingFacts
<1>3. /\ UNCHANGED <<defaults, server>>
      /\ UNCHANGED <<server, kills, overlapped, switched>>
      /\ application' = application
  BY DEF LookUp, defaults
<1>4. 0 \in 0..sids /\ application.sid \in 0..sids
  BY <1>2 DEF Apps
<1>5. /\ me.step \in ClientSteps => me.client \in Clients /\ me.client \in Known
      /\ me.step \in AppSteps => [sid |-> me.app, sandbox |-> me.sandbox] \in apps
  BY <1>1, <1>2 DEF ChainedIn
<1>6. /\ ~overlapped /\ me.step \in AppSteps => application.sid = me.app
      /\ ~overlapped /\ me.step \in BindingSteps => \E c \in creds : c.app = me.app
  BY <1>1, <1>2 DEF AloneIn
<1> SUFFICES StepOf(r)
  BY <1>3, QuietStep
<1>7. CASE me.step = "account"
  <2>1. CASE account
    <3> DEFINE new == GoOn(me, "client")
    <3>1. Set(r, new)
      BY <1>7, <2>1 DEF LookUp
    <3>2. new \in Progress /\ Moved(new, me, "looking", "client")
      BY <1>2, GoOnIs, StepKinds
    <3>3. AloneIn(new, application'.sid, apps, creds, bindings)
      BY <3>2, AloneLooks, StepKinds DEF Moved
    <3> HIDE DEF new
    <3> QED
      BY <1>1, <1>2, <1>3, <3>1, <3>2, <3>3, MovesOn, StepKinds
  <2>2. CASE ~account
    <3> DEFINE new == Ask(me, "account", 0)
    <3>1. Set(r, new)
      BY <1>7, <2>2 DEF LookUp, NoSid
    <3>2. new \in Progress /\ Moved(new, me, "asking", "account")
      BY <1>2, <1>4, AskIs DEF Steps
    <3>3. AloneIn(new, application'.sid, apps, creds, bindings)
      BY <3>2, AloneAsks, StepKinds DEF Moved
    <3> HIDE DEF new
    <3> QED
      BY <1>1, <1>2, <1>3, <3>1, <3>2, <3>3, MovesOn, StepKinds
  <2> QED
    BY <2>1, <2>2
<1>8. CASE me.step = "client"
  <2>1. CASE client # NoUser
    <3> DEFINE mine == [me EXCEPT !.client = client]
               new == GoOn(mine, "application")
    <3>1. Set(r, new)
      BY <1>8, <2>1 DEF LookUp
    <3>2. client \in Clients /\ client \in Known
      BY <2>1 DEF IInv, TypeOK, ServerInv
    <3>3. /\ mine \in Progress /\ mine.client = client /\ mine.user = me.user
          /\ mine.outcome = "none" /\ mine.token \in Tokens
      <4>1. client \in Users \cup {NoUser}
        BY <3>2, PushAssumption
      <4>2. mine \in Progress
        BY <1>2, <4>1, Zenon DEF Progress
      <4> QED
        BY <1>2, <4>2 DEF Progress
    <3> HIDE DEF mine
    <3>4. new \in Progress /\ Moved(new, mine, "looking", "application")
      BY <1>2, <3>3, GoOnIs, StepKinds
    <3>5. AloneIn(new, application'.sid, apps, creds, bindings)
      BY <3>4, AloneLooks, StepKinds DEF Moved
    <3> HIDE DEF new
    <3> QED
      BY <1>1, <1>2, <1>3, <3>1, <3>2, <3>3, <3>4, <3>5, MovesOn, StepKinds
  <2>2. CASE client = NoUser
    <3> DEFINE new == Ask(me, "client", 0)
    <3>1. Set(r, new)
      BY <1>8, <2>2 DEF LookUp, NoSid
    <3>2. new \in Progress /\ Moved(new, me, "asking", "client")
      BY <1>2, <1>4, AskIs DEF Steps
    <3>3. AloneIn(new, application'.sid, apps, creds, bindings)
      BY <3>2, AloneAsks, StepKinds DEF Moved
    <3> HIDE DEF new
    <3> QED
      BY <1>1, <1>2, <1>3, <3>1, <3>2, <3>3, MovesOn, StepKinds
  <2> QED
    BY <2>1, <2>2
<1>9. CASE me.step = "application"
  <2>1. CASE application # NoApp /\ application.sandbox = me.sandbox
    <3> DEFINE mine == [me EXCEPT !.app = application.sid]
               new == GoOn(mine, "credentials")
    <3>1. Set(r, new)
      BY <1>9, <2>1 DEF LookUp
    <3>2. [sid |-> application.sid, sandbox |-> me.sandbox] \in apps
      <4>1. application \in apps
        BY <2>1 DEF IInv, DefaultsAreTrue
      <4>2. application = [sid |-> application.sid, sandbox |-> me.sandbox]
        BY <1>2, <2>1 DEF Apps
      <4> QED
        BY <4>1, <4>2
    <3>3. /\ mine \in Progress /\ mine.client = me.client /\ mine.user = me.user
          /\ mine.outcome = "none" /\ mine.token \in Tokens
          /\ mine.app = application.sid /\ mine.sandbox = me.sandbox
      <4>1. mine \in Progress
        BY <1>2, <1>4, Zenon DEF Progress
      <4> QED
        BY <1>2, <4>1 DEF Progress
    <3> HIDE DEF mine
    <3>4. new \in Progress /\ Moved(new, mine, "looking", "credentials")
      BY <1>2, <3>3, GoOnIs, StepKinds
    <3>5. AloneIn(new, application'.sid, apps, creds, bindings)
      BY <1>3, <3>3, <3>4, AloneLooks, StepKinds DEF Moved
    <3> HIDE DEF new
    <3> QED
      BY <1>1, <1>2, <1>3, <1>5, <1>9, <3>1, <3>2, <3>3, <3>4, <3>5, MovesOn, StepKinds
  <2>2. CASE ~(application # NoApp /\ application.sandbox = me.sandbox)
    <3> DEFINE new == Ask(me, "application", 0)
    <3>1. Set(r, new)
      BY <1>9, <2>2 DEF LookUp, NoSid
    <3>2. new \in Progress /\ Moved(new, me, "asking", "application")
      BY <1>2, <1>4, AskIs DEF Steps
    <3>3. AloneIn(new, application'.sid, apps, creds, bindings)
      BY <3>2, AloneAsks, StepKinds DEF Moved
    <3> HIDE DEF new
    <3> QED
      BY <1>1, <1>2, <1>3, <1>5, <1>9, <3>1, <3>2, <3>3, MovesOn, StepKinds
  <2> QED
    BY <2>1, <2>2
<1>10. CASE me.step = "credentials"
  <2>1. CASE credentials # NoCred /\ credentials.app = me.app
    <3> DEFINE new == GoOn(me, "binding")
    <3>1. Set(r, new)
      BY <1>10, <2>1 DEF LookUp
    <3>2. new \in Progress /\ Moved(new, me, "looking", "binding")
      BY <1>2, GoOnIs, StepKinds
    <3>3. credentials \in creds
      BY <2>1 DEF IInv, DefaultsAreTrue
    <3>4. ~overlapped => AloneIn(new, application'.sid, apps, creds, bindings)
      BY <1>3, <1>6, <1>10, <2>1, <3>2, <3>3, AloneLooks, StepKinds DEF Moved
    <3> HIDE DEF new
    <3> QED
      BY <1>1, <1>2, <1>3, <1>5, <1>10, <3>1, <3>2, <3>4, MovesOn, StepKinds
  <2>2. CASE ~(credentials # NoCred /\ credentials.app = me.app)
    <3> DEFINE new == Ask(me, "credentials", application.sid)
    <3>1. Set(r, new)
      BY <1>10, <2>2 DEF LookUp
    <3>2. /\ new \in Progress /\ Moved(new, me, "asking", "credentials")
          /\ new.about = application.sid
      BY <1>2, <1>4, AskIs DEF Steps
    <3>3. ~overlapped => AloneIn(new, application'.sid, apps, creds, bindings)
      BY <1>3, <1>6, <1>10, <3>2, AloneAsks, StepKinds DEF Moved
    <3> HIDE DEF new
    <3> QED
      BY <1>1, <1>2, <1>3, <1>5, <1>10, <3>1, <3>2, <3>3, MovesOn, StepKinds
  <2> QED
    BY <2>1, <2>2
<1>11. CASE me.step = "binding"
  <2> DEFINE new == Ask(me, "binding", application.sid)
  <2>1. Set(r, new)
    BY <1>11 DEF LookUp
  <2>2. /\ new \in Progress /\ Moved(new, me, "asking", "binding")
        /\ new.about = application.sid
    BY <1>2, <1>4, AskIs DEF Steps
  <2>3. ~overlapped => AloneIn(new, application'.sid, apps, creds, bindings)
    BY <1>3, <1>6, <1>11, <2>2, AloneAsks, StepKinds DEF Moved
  <2> HIDE DEF new
  <2> QED
    BY <1>1, <1>2, <1>3, <1>5, <1>11, <2>1, <2>2, <2>3, MovesOn, StepKinds
<1> QED
  BY <1>7, <1>8, <1>9, <1>10, <1>11 DEF LookUp

\* A report in the main queue is all that is left of the chain.
LEMMA ReportStep ==
  ASSUME IInv, NEW r \in Registrations, Working(r), NEW outcome \in {"success", "error"},
         Report(r, outcome), UNCHANGED <<server, kills, overlapped, switched>>
  PROVE  StepOf(r)
<1> DEFINE new == [reg[r] EXCEPT !.phase = "reporting", !.outcome = outcome]
<1>1. reg[r] \in Progress /\ "reporting" \in Phases /\ outcome \in Outcomes
  BY WorkingFacts DEF Phases, Outcomes
<1>2. new \in Progress
  BY <1>1, Zenon DEF Progress
<1>3. /\ new.phase = "reporting" /\ new.outcome = outcome /\ new.user = reg[r].user
  BY <1>1 DEF Progress
<1>4. Set(r, new)
  BY DEF Report
<1> HIDE DEF new
<1>5. /\ ChainedIn(new, sids, Known, apps, creds, kills)
      /\ AloneIn(new, application'.sid, apps, creds, bindings)
  BY <1>3 DEF ChainedIn, AloneIn
<1> QED
  BY <1>2, <1>3, <1>4, <1>5, GoesOn

LEMMA HandleAccountIInv ==
  ASSUME IInv, NEW r \in Registrations, HandleAccount(r)
  PROVE  IInv'
<1> DEFINE me == reg[r]
<1>1. Working(r) /\ UNCHANGED <<server, kills, overlapped, switched>>
  BY DEF HandleAccount, Answered, Working
<1>2. CASE me.failed
  <2>1. Report(r, "error") /\ UNCHANGED <<defaults, server>>
    BY <1>2 DEF HandleAccount
  <2> QED
    BY <1>1, <2>1, ReportStep, QuietStep
<1>3. CASE ~me.failed
  <2> DEFINE new == GoOn(me, "client")
  <2>1. Set(r, new) /\ UNCHANGED <<client, application, credentials>>
    BY <1>3 DEF HandleAccount
  <2>2. account' \in BOOLEAN
    BY <1>3 DEF HandleAccount
  <2>3. /\ me \in Progress /\ sids \in Nat /\ me.outcome = "none" /\ me.token \in Tokens
    BY <1>1, WorkingFacts
  <2>4. new \in Progress /\ Moved(new, me, "looking", "client")
    BY <2>3, GoOnIs DEF Steps
  <2>5. AloneIn(new, application'.sid, apps, creds, bindings)
    BY <2>4, AloneLooks, StepKinds DEF Moved
  <2> HIDE DEF new
  <2>6. StepOf(r)
    BY <1>1, <2>1, <2>3, <2>4, <2>5, MovesOn, StepKinds
  <2>7. /\ client' \in Clients \cup {NoUser} /\ application' \in Apps /\ credentials' \in Creds
        /\ client' # NoUser => client' \in Known
    BY <2>1 DEF IInv, TypeOK, ServerInv
  <2>8. DefaultsAreTrue'
    BY <1>1, <2>1 DEF IInv, DefaultsAreTrue, server
  <2> QED
    BY <1>1, <2>2, <2>6, <2>7, <2>8, DefaultsStep
<1> QED
  BY <1>2, <1>3

LEMMA HandleClientIInv ==
  ASSUME IInv, NEW r \in Registrations, HandleClient(r)
  PROVE  IInv'
<1> DEFINE me == reg[r]
<1>1. Working(r) /\ UNCHANGED <<server, kills, overlapped, switched>>
  BY DEF HandleClient, Answered, Working
<1>2. CASE me.failed
  <2>1. Report(r, "error") /\ UNCHANGED <<defaults, server>>
    BY <1>2 DEF HandleClient
  <2> QED
    BY <1>1, <2>1, ReportStep, QuietStep
<1>3. CASE ~me.failed
  <2>1. /\ me \in Progress /\ sids \in Nat /\ me.outcome = "none" /\ me.token \in Tokens
        /\ me.user \in Users /\ me.user \in Known
    BY <1>1, WorkingFacts
  <2>2. /\ client' = IF me.user \in Clients THEN me.user ELSE NoUser
        /\ UNCHANGED <<account, application, credentials>>
    BY <1>3 DEF HandleClient
  <2>3. account' \in BOOLEAN
    BY <2>2 DEF IInv, TypeOK
  <2>4. /\ client' \in Clients \cup {NoUser} /\ application' \in Apps /\ credentials' \in Creds
        /\ client' # NoUser => client' \in Known
    BY <2>1, <2>2 DEF IInv, TypeOK
  <2>5. DefaultsAreTrue'
    BY <1>1, <2>2 DEF IInv, DefaultsAreTrue, server
  <2>6. StepOf(r)
    <3>1. CASE me.user \notin Clients
      <4>1. Report(r, "error")
        BY <1>3, <3>1 DEF HandleClient
      <4> QED
        BY <1>1, <4>1, ReportStep
    <3>2. CASE me.user \in Clients
      <4> DEFINE mine == [me EXCEPT !.client = me.user]
                 new == GoOn(mine, "application")
      <4>1. Set(r, new)
        BY <1>3, <3>2 DEF HandleClient
      <4>2. /\ mine \in Progress /\ mine.client = me.user /\ mine.user = me.user
            /\ mine.outcome = "none" /\ mine.token \in Tokens
        <5>1. me.user \in Users \cup {NoUser}
          BY <2>1
        <5>2. mine \in Progress
          BY <2>1, <5>1, Zenon DEF Progress
        <5> QED
          BY <2>1, <5>2 DEF Progress
      <4> HIDE DEF mine
      <4>3. new \in Progress /\ Moved(new, mine, "looking", "application")
        BY <2>1, <4>2, GoOnIs DEF Steps
      <4>4. AloneIn(new, application'.sid, apps, creds, bindings)
        BY <4>3, AloneLooks, StepKinds DEF Moved
      <4> HIDE DEF new
      <4> QED
        BY <1>1, <2>1, <3>2, <4>1, <4>2, <4>3, <4>4, MovesOn, StepKinds
    <3> QED
      BY <3>1, <3>2
  <2> QED
    BY <1>1, <2>3, <2>4, <2>5, <2>6, DefaultsStep
<1> QED
  BY <1>2, <1>3

LEMMA KeepApplicationIInv ==
  ASSUME IInv, NEW r \in Registrations, Working(r), reg[r].step \in ClientSteps, NEW sid \in 0..sids,
         [sid |-> sid, sandbox |-> reg[r].sandbox] \in apps, KeepApplication(r, sid),
         UNCHANGED <<server, kills, overlapped, switched>>
  PROVE  IInv'
<1> DEFINE me == reg[r]
           mine == [me EXCEPT !.app = sid]
           new == GoOn(mine, "credentials")
<1>1. /\ me \in Progress /\ sids \in Nat /\ me.outcome = "none" /\ me.token \in Tokens
      /\ ChainedIn(me, sids, Known, apps, creds, kills)
  BY WorkingFacts
<1>2. /\ application' = [sid |-> sid, sandbox |-> me.sandbox] /\ Set(r, new)
      /\ UNCHANGED <<account, client, credentials>>
  BY DEF KeepApplication
<1>3. /\ mine \in Progress /\ mine.client = me.client /\ mine.user = me.user
      /\ mine.outcome = "none" /\ mine.token \in Tokens
      /\ mine.app = sid /\ mine.sandbox = me.sandbox
  <2>1. mine \in Progress
    BY <1>1, Zenon DEF Progress
  <2> QED
    BY <1>1, <2>1 DEF Progress
<1>4. me.client \in Clients /\ me.client \in Known
  BY <1>1 DEF ChainedIn, Working
<1> HIDE DEF mine
<1>5. new \in Progress /\ Moved(new, mine, "looking", "credentials")
  BY <1>1, <1>3, GoOnIs DEF Steps
<1>6. AloneIn(new, application'.sid, apps, creds, bindings)
  BY <1>2, <1>3, <1>5, AloneLooks, StepKinds DEF Moved
<1> HIDE DEF new
<1>7. StepOf(r)
  BY <1>1, <1>2, <1>3, <1>4, <1>5, <1>6, MovesOn, StepKinds
<1>8. account' \in BOOLEAN
  BY <1>2 DEF IInv, TypeOK
<1>9. /\ client' \in Clients \cup {NoUser} /\ application' \in Apps /\ credentials' \in Creds
      /\ client' # NoUser => client' \in Known
  BY <1>1, <1>2 DEF IInv, TypeOK, ServerInv, Apps, Progress
<1>10. DefaultsAreTrue'
  BY <1>2 DEF IInv, DefaultsAreTrue, server
<1> QED
  BY <1>7, <1>8, <1>9, <1>10, DefaultsStep

\* It creates what the application does not have.
LEMMA AloneCreates ==
  ASSUME NEW new, NEW kept, NEW A, NEW C, NEW B, new.phase = "asking",
         new.step \in {"createApplication", "createCredentials", "createBinding"},
         new.step \in AppSteps => kept = new.app,
         new.step \in BindingSteps => \E c \in C : c.app = new.app,
         new.step = "createApplication" => \A a \in A : a.sandbox # new.sandbox,
         new.step = "createCredentials" => \A c \in C : c.app # new.app,
         new.step = "createBinding" => \A b \in B : b.app # new.app
  PROVE  AloneIn(new, kept, A, C, B)
BY DEF AloneIn, AppSteps, BindingSteps

LEMMA HandleApplicationIInv ==
  ASSUME IInv, NEW r \in Registrations, HandleApplication(r)
  PROVE  IInv'
<1> DEFINE me == reg[r]
<1>1. /\ Working(r) /\ me.phase = "answered" /\ me.step = "application"
      /\ UNCHANGED <<server, kills, overlapped, switched>>
  BY DEF HandleApplication, Answered, Working
<1>2. /\ me \in Progress /\ sids \in Nat /\ me.outcome = "none" /\ me.token \in Tokens
      /\ ChainedIn(me, sids, Known, apps, creds, kills)
      /\ ~overlapped => AloneIn(me, application.sid, apps, creds, bindings)
  BY <1>1, WorkingFacts
<1>3. CASE me.failed
  <2>1. Report(r, "error") /\ UNCHANGED <<defaults, server>>
    BY <1>3 DEF HandleApplication
  <2> QED
    BY <1>1, <2>1, ReportStep, QuietStep
<1>4. CASE ~me.failed /\ me.found # NoSid
  <2>1. KeepApplication(r, me.found)
    BY <1>4 DEF HandleApplication
  <2>2. [sid |-> me.found, sandbox |-> me.sandbox] \in apps
    BY <1>1, <1>2, <1>4 DEF ChainedIn
  <2>3. me.found \in 0..sids
    BY <1>2 DEF Progress
  <2>4. me.step \in ClientSteps
    BY <1>1, StepKinds
  <2> QED
    BY <1>1, <2>1, <2>2, <2>3, <2>4, KeepApplicationIInv
<1>5. CASE ~me.failed /\ me.found = NoSid
  <2> DEFINE new == Ask(me, "createApplication", 0)
  <2>1. Set(r, new) /\ UNCHANGED <<defaults, server>>
    BY <1>5 DEF HandleApplication, NoSid
  <2>2. new \in Progress /\ Moved(new, me, "asking", "createApplication")
    BY <1>2, AskNothing DEF Steps
  <2>3. ~overlapped => \A a \in apps : a.sandbox # me.sandbox
    BY <1>1, <1>2, <1>5 DEF AloneIn
  <2>4. ~overlapped => AloneIn(new, application'.sid, apps, creds, bindings)
    BY <2>2, <2>3, AloneCreates, StepKinds DEF Moved
  <2>5. me.client \in Clients /\ me.client \in Known
    BY <1>1, <1>2, StepKinds DEF ChainedIn
  <2> HIDE DEF new
  <2>6. StepOf(r)
    BY <1>1, <1>2, <2>1, <2>2, <2>4, <2>5, MovesOn, StepKinds
  <2> QED
    BY <2>1, <2>6, QuietStep
<1> QED
  BY <1>3, <1>4, <1>5

LEMMA HandleCreateApplicationIInv ==
  ASSUME IInv, NEW r \in Registrations, HandleCreateApplication(r)
  PROVE  IInv'
<1> DEFINE me == reg[r]
<1>1. /\ Working(r) /\ me.phase = "answered" /\ me.step = "createApplication"
      /\ UNCHANGED <<server, kills, overlapped, switched>>
  BY DEF HandleCreateApplication, Answered, Working
<1>2. /\ me \in Progress /\ sids \in Nat
      /\ ChainedIn(me, sids, Known, apps, creds, kills)
  BY <1>1, WorkingFacts
<1>3. CASE me.failed
  <2>1. /\ Report(r, "error") /\ application' = NoApp /\ UNCHANGED <<account, client, credentials>>
    BY <1>3 DEF HandleCreateApplication
  <2>2. account' \in BOOLEAN
    BY <2>1 DEF IInv, TypeOK
  <2>3. /\ client' \in Clients \cup {NoUser} /\ application' \in Apps /\ credentials' \in Creds
        /\ client' # NoUser => client' \in Known
    BY <1>2, <2>1 DEF IInv, TypeOK, ServerInv, Apps, NoApp, NoSid
  <2>4. DefaultsAreTrue'
    BY <1>1, <2>1 DEF IInv, DefaultsAreTrue, server
  <2>5. StepOf(r)
    BY <1>1, <2>1, ReportStep
  <2> QED
    BY <1>1, <2>2, <2>3, <2>4, <2>5, DefaultsStep
<1>4. CASE ~me.failed
  <2>1. KeepApplication(r, me.found)
    BY <1>4 DEF HandleCreateApplication
  <2>2. [sid |-> me.found, sandbox |-> me.sandbox] \in apps
    BY <1>1, <1>2, <1>4 DEF ChainedIn
  <2>3. me.found \in 0..sids
    BY <1>2 DEF Progress
  <2>4. me.step \in ClientSteps
    BY <1>1, StepKinds
  <2> QED
    BY <1>1, <2>1, <2>2, <2>3, <2>4, KeepApplicationIInv
<1> QED
  BY <1>3, <1>4

LEMMA KeepCredentialsIInv ==
  ASSUME IInv, NEW r \in Registrations, Working(r), reg[r].step \in AppSteps, NEW app \in 0..sids,
         [sid |-> reg[r].found, app |-> app] \in creds, ~overlapped => app = reg[r].app,
         KeepCredentials(r, app), UNCHANGED <<server, kills, overlapped, switched>>
  PROVE  IInv'
<1> DEFINE me == reg[r]
           new == GoOn(me, "binding")
<1>1. /\ me \in Progress /\ sids \in Nat /\ me.outcome = "none" /\ me.token \in Tokens
      /\ ChainedIn(me, sids, Known, apps, creds, kills)
      /\ ~overlapped => AloneIn(me, application.sid, apps, creds, bindings)
  BY WorkingFacts
<1>2. /\ credentials' = [sid |-> me.found, app |-> app] /\ Set(r, new)
      /\ UNCHANGED <<account, client, application>>
  BY DEF KeepCredentials
<1>3. new \in Progress /\ Moved(new, me, "looking", "binding")
  BY <1>1, GoOnIs DEF Steps
<1>4. /\ me.client \in Clients /\ me.client \in Known
      /\ [sid |-> me.app, sandbox |-> me.sandbox] \in apps
      /\ ~overlapped => application.sid = me.app
  BY <1>1, StepKinds DEF ChainedIn, AloneIn, Working
<1>5. ~overlapped => \E c \in creds : c.app = me.app
  OBVIOUS
<1>6. ~overlapped => AloneIn(new, application'.sid, apps, creds, bindings)
  BY <1>2, <1>3, <1>4, <1>5, AloneLooks, StepKinds DEF Moved
<1> HIDE DEF new
<1>7. StepOf(r)
  BY <1>1, <1>2, <1>3, <1>4, <1>6, MovesOn, StepKinds
<1>8. account' \in BOOLEAN
  BY <1>2 DEF IInv, TypeOK
<1>9. /\ client' \in Clients \cup {NoUser} /\ application' \in Apps /\ credentials' \in Creds
      /\ client' # NoUser => client' \in Known
  BY <1>1, <1>2 DEF IInv, TypeOK, ServerInv, Creds, Progress
<1>10. DefaultsAreTrue'
  BY <1>2 DEF IInv, DefaultsAreTrue, server
<1> QED
  BY <1>7, <1>8, <1>9, <1>10, DefaultsStep

LEMMA HandleCredentialsIInv ==
  ASSUME IInv, NEW r \in Registrations, HandleCredentials(r)
  PROVE  IInv'
<1> DEFINE me == reg[r]
<1>1. /\ Working(r) /\ me.phase = "answered" /\ me.step = "credentials"
      /\ UNCHANGED <<server, kills, overlapped, switched>>
  BY DEF HandleCredentials, Answered, Working
<1>2. /\ me \in Progress /\ sids \in Nat /\ me.outcome = "none" /\ me.token \in Tokens
      /\ ChainedIn(me, sids, Known, apps, creds, kills)
      /\ ~overlapped => AloneIn(me, application.sid, apps, creds, bindings)
  BY <1>1, WorkingFacts
<1>3. me.step \in AppSteps
  BY <1>1, StepKinds
<1>4. ~overlapped => me.about = me.app /\ application.sid = me.app
  BY <1>1, <1>2, <1>3 DEF AloneIn
<1>5. CASE me.failed
  <2>1. Report(r, "error") /\ UNCHANGED <<defaults, server>>
    BY <1>5 DEF HandleCredentials
  <2> QED
    BY <1>1, <2>1, ReportStep, QuietStep
<1>6. CASE ~me.failed /\ me.found # NoSid
  <2>1. KeepCredentials(r, me.about)
    BY <1>6 DEF HandleCredentials
  <2>2. [sid |-> me.found, app |-> me.about] \in creds
    BY <1>1, <1>2, <1>6 DEF ChainedIn
  <2>3. me.about \in 0..sids
    BY <1>2 DEF Progress
  <2> QED
    BY <1>1, <1>3, <1>4, <2>1, <2>2, <2>3, KeepCredentialsIInv
<1>7. CASE ~me.failed /\ me.found = NoSid
  <2> DEFINE new == Ask(me, "createCredentials", 0)
  <2>1. Set(r, new) /\ UNCHANGED <<defaults, server>> /\ application' = application
    BY <1>7 DEF HandleCredentials, NoSid, defaults
  <2>2. new \in Progress /\ Moved(new, me, "asking", "createCredentials")
    BY <1>2, AskNothing DEF Steps
  <2>3. ~overlapped => \A c \in creds : c.app # me.app
    BY <1>1, <1>2, <1>7 DEF AloneIn
  <2>4. ~overlapped => AloneIn(new, application'.sid, apps, creds, bindings)
    BY <1>4, <2>1, <2>2, <2>3, AloneCreates, StepKinds DEF Moved
  <2>5. /\ me.client \in Clients /\ me.client \in Known
        /\ [sid |-> me.app, sandbox |-> me.sandbox] \in apps
    BY <1>1, <1>2, StepKinds DEF ChainedIn
  <2> HIDE DEF new
  <2>6. StepOf(r)
    BY <1>1, <1>2, <2>1, <2>2, <2>4, <2>5, MovesOn, StepKinds
  <2> QED
    BY <2>1, <2>6, QuietStep
<1> QED
  BY <1>5, <1>6, <1>7

LEMMA HandleCreateCredentialsIInv ==
  ASSUME IInv, NEW r \in Registrations, HandleCreateCredentials(r)
  PROVE  IInv'
<1> DEFINE me == reg[r]
<1>1. /\ Working(r) /\ me.phase = "answered" /\ me.step = "createCredentials"
      /\ UNCHANGED <<server, kills, overlapped, switched>>
  BY DEF HandleCreateCredentials, Answered, Working
<1>2. me \in Progress /\ ChainedIn(me, sids, Known, apps, creds, kills)
  BY <1>1, WorkingFacts
<1>3. CASE me.failed
  <2>1. Report(r, "error") /\ UNCHANGED <<defaults, server>>
    BY <1>3 DEF HandleCreateCredentials
  <2> QED
    BY <1>1, <2>1, ReportStep, QuietStep
<1>4. CASE ~me.failed
  <2>1. KeepCredentials(r, me.app)
    BY <1>4 DEF HandleCreateCredentials
  <2>2. [sid |-> me.found, app |-> me.app] \in creds
    BY <1>1, <1>2, <1>4 DEF ChainedIn
  <2>3. me.app \in 0..sids /\ me.step \in AppSteps
    BY <1>1, <1>2, StepKinds DEF Progress
  <2> QED
    BY <1>1, <2>1, <2>2, <2>3, KeepCredentialsIInv
<1> QED
  BY <1>3, <1>4

LEMMA HandleBindingIInv ==
  ASSUME IInv, NEW r \in Registrations, HandleBinding(r)
  PROVE  IInv'
<1> DEFINE me == reg[r]
<1>1. /\ Working(r) /\ me.phase = "answered" /\ me.step = "binding"
      /\ UNCHANGED <<server, kills, overlapped, switched>>
      /\ UNCHANGED <<defaults, server>> /\ application' = application
  BY DEF HandleBinding, Answered, Working, defaults
<1>2. /\ me \in Progress /\ sids \in Nat /\ me.outcome = "none" /\ me.token \in Tokens
      /\ ChainedIn(me, sids, Known, apps, creds, kills)
      /\ ~overlapped => AloneIn(me, application.sid, apps, creds, bindings)
  BY <1>1, WorkingFacts
<1>3. /\ me.client \in Clients /\ me.client \in Known
      /\ [sid |-> me.app, sandbox |-> me.sandbox] \in apps
  BY <1>1, <1>2, StepKinds DEF ChainedIn
<1>4. ~overlapped => application.sid = me.app /\ \E c \in creds : c.app = me.app
  BY <1>1, <1>2, StepKinds DEF AloneIn
<1> SUFFICES StepOf(r)
  BY <1>1, QuietStep
<1>5. CASE me.failed \/ (~me.failed /\ me.found # NoSid /\ me.binding.address = me.token)
  <2>1. Report(r, "error") \/ Report(r, "success")
    BY <1>5 DEF HandleBinding
  <2> QED
    BY <1>1, <2>1, ReportStep
<1>6. CASE ~me.failed /\ me.found # NoSid /\ me.binding.address # me.token
  <2> DEFINE asked == Ask(me, "updateBinding", 0)
             new == [asked EXCEPT !.binding.address = me.token]
             mine == [me EXCEPT !.binding.address = me.token]
  <2>1. Set(r, new)
    BY <1>6 DEF HandleBinding, NoSid
  <2>2. asked \in Progress /\ Moved(asked, me, "asking", "updateBinding")
    BY <1>2, AskNothing DEF Steps
  <2>3. RealIn(me.binding, sids, Known)
    BY <1>1, <1>2, <1>6 DEF ChainedIn
  <2> DEFINE fresh == [me.binding EXCEPT !.address = me.token]
  <2>4. /\ fresh \in Bindings /\ RealIn(fresh, sids, Known) /\ fresh.sid = me.binding.sid
        /\ fresh.app = me.binding.app /\ fresh.address = me.token
    <3>1. me.binding \in [sid : 1..sids, app : 1..sids, identity : Clients, address : Tokens]
      BY <2>3 DEF RealIn
    <3>2. fresh \in [sid : 1..sids, app : 1..sids, identity : Clients, address : Tokens]
      BY <1>2, <3>1
    <3>3. fresh.identity = me.binding.identity
      BY <3>1
    <3>4. RealIn(fresh, sids, Known)
      BY <2>3, <3>2, <3>3 DEF RealIn
    <3>5. fresh \in Bindings
      BY <1>2, <3>2, PushAssumption DEF Bindings
    <3> QED
      BY <3>1, <3>4, <3>5
  <2> HIDE DEF asked
  <2>5. mine = [me EXCEPT !.binding = fresh] /\ new = [asked EXCEPT !.binding = fresh]
    BY <1>2, <2>2 DEF Progress, Moved
  <2> HIDE DEF fresh, new, mine
  <2>6. new \in Progress /\ mine \in Progress
    BY <1>2, <2>2, <2>4, <2>5, Zenon DEF Progress
  <2>7. Moved(new, mine, "asking", "updateBinding")
    BY <1>2, <2>2, <2>5 DEF Progress, Moved
  <2>8. /\ mine.user = me.user /\ mine.outcome = "none" /\ mine.token = me.token
        /\ mine.client = me.client /\ mine.app = me.app /\ mine.sandbox = me.sandbox
        /\ mine.binding = fresh
    BY <1>2, <2>5 DEF Progress
  <2>9. ~overlapped => me.binding \in bindings /\ me.binding.app = me.app
    BY <1>1, <1>2, <1>6 DEF AloneIn
  <2>10. ~overlapped => AloneIn(new, application'.sid, apps, creds, bindings)
    BY <1>1, <1>4, <2>4, <2>7, <2>8, <2>9 DEF AloneIn, Moved
  <2> QED
    BY <1>1, <1>2, <1>3, <2>1, <2>4, <2>6, <2>7, <2>8, <2>10, MovesOn, StepKinds DEF Real
<1>7. CASE ~me.failed /\ me.found = NoSid
  <2> DEFINE new == Ask(me, "createBinding", 0)
  <2>1. Set(r, new)
    BY <1>7 DEF HandleBinding, NoSid
  <2>2. new \in Progress /\ Moved(new, me, "asking", "createBinding")
    BY <1>2, AskNothing DEF Steps
  <2>3. ~overlapped => \A b \in bindings : b.app # me.app
    BY <1>1, <1>2, <1>7 DEF AloneIn
  <2>4. ~overlapped => AloneIn(new, application'.sid, apps, creds, bindings)
    BY <1>1, <1>4, <2>2, <2>3, AloneCreates, StepKinds DEF Moved
  <2> HIDE DEF new
  <2> QED
    BY <1>1, <1>2, <1>3, <2>1, <2>2, <2>4, MovesOn, StepKinds
<1> QED
  BY <1>5, <1>6, <1>7

LEMMA HandleBoundIInv ==
  ASSUME IInv, NEW r \in Registrations, HandleBound(r)
  PROVE  IInv'
<1>1. /\ Working(r) /\ UNCHANGED <<server, kills, overlapped, switched>>
      /\ UNCHANGED <<defaults, server>>
  BY DEF HandleBound, Answered, Working
<1>2. Report(r, "error") \/ Report(r, "success")
  BY DEF HandleBound
<1> QED
  BY <1>1, <1>2, ReportStep, QuietStep

LEMMA RequestFailsIInv ==
  ASSUME IInv, NEW r \in Registrations, RequestFails(r)
  PROVE  IInv'
<1> DEFINE me == reg[r]
<1>1. /\ Working(r) /\ me.phase \in {"asking", "answered", "orphan"}
      /\ UNCHANGED <<server, kills, overlapped, switched>>
      /\ UNCHANGED <<defaults, server>> /\ application' = application
  BY DEF RequestFails, Working, defaults
<1>2. /\ me \in Progress /\ sids \in Nat /\ me.outcome = "none" /\ me.token \in Tokens
      /\ ChainedIn(me, sids, Known, apps, creds, kills)
      /\ ~overlapped => AloneIn(me, application.sid, apps, creds, bindings)
  BY <1>1, WorkingFacts
<1> SUFFICES StepOf(r)
  BY <1>1, QuietStep
<1>3. CASE me.phase = "orphan"
  <2>1. Busy(r) /\ Set(r, Over(me, "none"))
    BY <1>3 DEF RequestFails, Busy
  <2>2. kills > 0
    BY <1>2, <1>3 DEF ChainedIn
  <2>3. sids' \in Nat /\ sids =< sids' /\ apps \subseteq apps' /\ creds \subseteq creds'
    BY <1>1, <1>2 DEF server
  <2>4. "none" \in Outcomes /\ UNCHANGED <<kills, overlapped, switched>>
    BY <1>1 DEF Outcomes
  <2> QED
    BY <1>1, <2>1, <2>2, <2>3, <2>4, OverStep
<1>4. CASE me.phase # "orphan"
  <2> DEFINE new == [me EXCEPT !.phase = "answered", !.failed = TRUE, !.found = 0]
  <2>1. Set(r, new)
    BY <1>4 DEF RequestFails, NoSid
  <2>2. 0 \in 0..sids /\ "answered" \in Phases
    BY <1>2 DEF Phases
  <2>3. new \in Progress
    BY <1>2, <2>2, Zenon DEF Progress
  <2>4. Moved(new, me, "answered", me.step) /\ new.about = me.about
    BY <1>2 DEF Progress, Moved
  <2>5. new.failed
    BY <1>2 DEF Progress
  <2> HIDE DEF new
  <2>6. ChainedIn(new, sids, Known, apps, creds, kills)
    BY <1>1, <1>2, <2>4, <2>5 DEF ChainedIn, Moved
  <2>7. ~overlapped => AloneIn(new, application'.sid, apps, creds, bindings)
    BY <1>1, <1>2, <2>4, <2>5 DEF AloneIn, Moved
  <2>8. new.user = me.user /\ new.phase # "over"
    BY <2>4 DEF Moved
  <2> QED
    BY <1>1, <2>1, <2>3, <2>6, <2>7, <2>8, GoesOn
<1> QED
  BY <1>3, <1>4
-----------------------------------------------------------------------------
(* The server *)

\* A step that leaves NSUserDefaults alone.
LEMMA ServerStep ==
  ASSUME IInv, NEW r \in Registrations, StepOf(r), UNCHANGED defaults,
         apps' \subseteq Apps', creds' \subseteq Creds',
         bindings' \subseteq [sid : 1..sids', app : 1..sids', identity : Clients, address : Tokens],
         ServerInv', NothingTwice'
  PROVE  IInv'
<1>1. /\ reg' \in [Registrations -> Progress'] /\ ChainInv' /\ OnlyBindingReportsLost' /\ SameUser' /\ AloneInv'
  BY StepKeeps
<1>2. /\ sids \in Nat /\ sids' \in Nat /\ sids =< sids' /\ apps \subseteq apps' /\ creds \subseteq creds'
  BY DEF StepOf, IInv, TypeOK
<1>3. DefaultsAreTrue'
  BY <1>2 DEF IInv, DefaultsAreTrue, defaults
<1>4. account' \in BOOLEAN /\ overlapped' \in BOOLEAN /\ switched' \in BOOLEAN
  <2>1. account' = account /\ overlapped' = overlapped /\ switched' = switched
    BY DEF StepOf, defaults
  <2> QED
    BY <2>1 DEF IInv, TypeOK
<1>5. client' \in Clients \cup {NoUser} /\ kills' \in 0..MaxKills
  BY DEF IInv, TypeOK, defaults, StepOf
<1>6. application' \in Apps' /\ credentials' \in Creds'
  BY <1>2, TypesGrow DEF IInv, TypeOK, defaults
<1>7. TypeOK'
  BY <1>1, <1>2, <1>4, <1>5, <1>6 DEF TypeOK
<1> QED
  BY <1>1, <1>3, <1>7 DEF IInv

\* The answer to a request of a killed App is lost.
LEMMA OrphanStep ==
  ASSUME IInv, NEW r \in Registrations, reg[r].phase = "orphan", NEW sid, Answer(r, sid),
         sids' \in Nat, sids =< sids', apps \subseteq apps', creds \subseteq creds',
         UNCHANGED <<kills, overlapped, switched>>
  PROVE  StepOf(r)
<1>1. Busy(r) /\ Working(r) /\ Set(r, Over(reg[r], "none")) /\ "none" \in Outcomes
  BY DEF Busy, Working, Answer, Outcomes
<1>2. kills > 0
  BY <1>1, WorkingFacts DEF ChainedIn
<1> QED
  BY <1>1, <1>2, OverStep

\* Another answer is kept with the registration.
LEMMA AnswerIs ==
  ASSUME IInv, NEW r \in Registrations, reg[r].phase = "asking", NEW sid \in Nat, Answer(r, sid),
         sids' \in Nat, sids =< sids', sid =< sids',
         reg[r].step = "binding" /\ sid # 0 => \E b \in bindings : b.sid = sid
  PROVE  LET new == reg'[r]  me == reg[r]
         IN  /\ reg' = [reg EXCEPT ![r] = new] /\ new \in Progress'
             /\ new.phase = "answered" /\ new.step = me.step /\ new.found = sid
             /\ new.user = me.user /\ new.token = me.token /\ new.sandbox = me.sandbox
             /\ new.client = me.client /\ new.app = me.app /\ new.about = me.about
             /\ new.outcome = me.outcome
             /\ IF me.step = "binding" /\ sid # 0
                THEN new.binding \in bindings /\ new.binding.sid = sid
                ELSE new.binding = me.binding
<1> DEFINE me == reg[r]
           bind == IF me.step = "binding" /\ sid # 0
                   THEN CHOOSE b \in bindings : b.sid = sid ELSE me.binding
           new == [me EXCEPT !.phase = "answered", !.found = sid, !.binding = bind]
<1>1. TypeOK /\ me \in Progress /\ sids \in Nat
  BY DEF IInv, TypeOK
<1>2. Set(r, new)
  BY <1>1 DEF Answer, Set, NoSid, Progress
<1>3. reg'[r] = new /\ reg' = [reg EXCEPT ![r] = reg'[r]]
  BY <1>1, <1>2, SetIs
<1>4. IF me.step = "binding" /\ sid # 0
      THEN bind \in bindings /\ bind.sid = sid ELSE bind = me.binding
  OBVIOUS
<1>5. bind \in Bindings'
  <2>1. bindings \subseteq Bindings
    BY <1>1, PushAssumption DEF TypeOK, Bindings
  <2>2. me.binding \in Bindings
    BY <1>1 DEF Progress
  <2>3. Bindings \subseteq Bindings'
    BY <1>1, TypesGrow
  <2> QED
    BY <1>4, <2>1, <2>2, <2>3
<1> HIDE DEF bind
<1>6. me \in Progress' /\ sid \in 0..sids' /\ "answered" \in Phases
  BY <1>1, TypesGrow DEF Phases
<1>7. new \in Progress'
  BY <1>5, <1>6, Zenon DEF Progress
<1>8. /\ new.phase = "answered" /\ new.step = me.step /\ new.found = sid /\ new.binding = bind
      /\ new.user = me.user /\ new.token = me.token /\ new.sandbox = me.sandbox
      /\ new.client = me.client /\ new.app = me.app /\ new.about = me.about
      /\ new.outcome = me.outcome
  BY <1>1 DEF Progress
<1> HIDE DEF new
<1> QED
  BY <1>3, <1>4, <1>7, <1>8

LEMMA AnswerStep ==
  ASSUME IInv, NEW r \in Registrations, reg[r].phase = "asking", NEW sid \in Nat, Answer(r, sid),
         sids' \in Nat, sids =< sids', sid =< sids', apps \subseteq apps', creds \subseteq creds',
         reg[r].step = "binding" /\ sid # 0 => \E b \in bindings : b.sid = sid,
         reg[r].step = "createApplication" \/ (reg[r].step = "application" /\ sid # 0) =>
            [sid |-> sid, sandbox |-> reg[r].sandbox] \in apps',
         reg[r].step = "createCredentials" => [sid |-> sid, app |-> reg[r].app] \in creds',
         reg[r].step = "credentials" /\ sid # 0 =>
            [sid |-> sid, app |-> reg[r].about] \in creds',
         ~overlapped => Alone(reg[r])', UNCHANGED <<kills, overlapped, switched>>
  PROVE  StepOf(r)
<1> DEFINE me == reg[r]
           new == reg'[r]
<1>1. Working(r)
  BY DEF Working
<1>2. /\ me \in Progress /\ sids \in Nat /\ kills \in Nat
      /\ ChainedIn(me, sids, Known, apps, creds, kills)
  BY <1>1, WorkingFacts
<1>3. /\ reg' = [reg EXCEPT ![r] = new] /\ new \in Progress'
      /\ new.phase = "answered" /\ new.step = me.step /\ new.found = sid
      /\ new.user = me.user /\ new.token = me.token /\ new.sandbox = me.sandbox
      /\ new.client = me.client /\ new.app = me.app /\ new.about = me.about
      /\ new.outcome = me.outcome
      /\ IF me.step = "binding" /\ sid # 0
         THEN new.binding \in bindings /\ new.binding.sid = sid
         ELSE new.binding = me.binding
  BY AnswerIs
<1>4. Known' = Known
  BY <1>3, StepKnown DEF IInv
<1>5. ChainedIn(me, sids', Known, apps', creds', kills)
  BY <1>2, ChainGrows
<1>6. ASSUME NEW b \in bindings PROVE RealIn(b, sids', Known)
  <2>1. RealIn(b, sids, Known)
    BY DEF IInv, ServerInv, Real
  <2> QED
    BY <1>2, <2>1, RealGrows
<1> HIDE DEF new
<1>7. ChainedIn(new, sids', Known, apps', creds', kills)
  BY <1>3, <1>5, <1>6 DEF ChainedIn, NoSid
<1>8. Chained(reg[r])'
  BY <1>4, <1>7 DEF Chained, new
<1> QED
  BY <1>1, <1>3, <1>8 DEF StepOf, new, Working, Busy

\* A GET, which finds one of those that match, or none.
LEMMA ListsFinds ==
  ASSUME NEW r \in Registrations, NEW matching, Lists(r, matching),
         \A x \in matching : x.sid \in Nat /\ x.sid # 0
  PROVE  \E sid \in Nat : /\ Answer(r, sid) /\ UNCHANGED server
                          /\ sid # 0 => \E x \in matching : x.sid = sid
                          /\ sid = 0 => matching = {}
BY DEF Lists, NoSid

\* A request that asks the server and changes nothing there.
LEMMA ServerReadsIInv ==
  ASSUME IInv, NEW r \in Registrations, ServerHandles(r),
         reg[r].step \in {"account", "client", "application", "credentials", "binding"}
  PROVE  IInv'
<1> DEFINE me == reg[r]
           matching == CASE me.step = "application" -> {a \in apps : a.sandbox = me.sandbox}
                         [] me.step = "credentials" -> {c \in creds : c.app = me.about}
                         [] me.step = "binding" -> {b \in bindings : b.app = me.about}
                         [] OTHER -> {}
           new == reg'[r]
<1>1. /\ me.phase \in {"asking", "orphan"} /\ Working(r)
      /\ UNCHANGED <<kills, overlapped, switched>> /\ UNCHANGED defaults
      /\ application' = application
  BY DEF ServerHandles, Working, defaults
<1>2. /\ me \in Progress /\ sids \in Nat
      /\ ChainedIn(me, sids, Known, apps, creds, kills)
      /\ ~overlapped => AloneIn(me, application.sid, apps, creds, bindings)
  BY <1>1, WorkingFacts
<1>3. PICK sid \in Nat : /\ Answer(r, sid) /\ UNCHANGED server
                         /\ sid # 0 => \E x \in matching : x.sid = sid
                         /\ sid = 0 => matching = {}
  <2>1. CASE me.step \in {"account", "client"}
    <3>1. Answer(r, 0) /\ UNCHANGED server /\ matching = {}
      BY <2>1 DEF ServerHandles, NoSid
    <3> QED
      BY <3>1
  <2>2. CASE me.step \in {"application", "credentials", "binding"}
    <3>1. Lists(r, matching)
      BY <2>2 DEF ServerHandles
    <3>2. \A x \in matching : x.sid \in Nat /\ x.sid # 0
      BY <2>2 DEF IInv, TypeOK, ServerInv, Apps, Creds, NoSid
    <3> HIDE DEF matching
    <3> QED
      BY <3>1, <3>2, ListsFinds
  <2> QED
    BY <2>1, <2>2
<1>4. sids' = sids /\ apps' = apps /\ creds' = creds /\ bindings' = bindings
  BY <1>3 DEF server
<1>5. sids' \in Nat /\ sids =< sids' /\ apps \subseteq apps' /\ creds \subseteq creds'
  BY <1>2, <1>4
<1>6. sid =< sids'
  BY <1>2, <1>3, <1>4 DEF IInv, TypeOK, Apps, Creds
<1> SUFFICES StepOf(r)
  BY <1>1, <1>3, QuietStep
<1>7. CASE me.phase = "orphan"
  BY <1>1, <1>3, <1>5, <1>7, OrphanStep
<1>8. CASE me.phase = "asking"
  <2>1. me.step = "binding" /\ sid # 0 => \E b \in bindings : b.sid = sid
    BY <1>3
  <2>2. me.step = "application" /\ sid # 0 => [sid |-> sid, sandbox |-> me.sandbox] \in apps
    BY <1>3 DEF IInv, TypeOK, Apps
  <2>3. me.step = "credentials" /\ sid # 0 => [sid |-> sid, app |-> me.about] \in creds
    BY <1>3 DEF IInv, TypeOK, Creds
  <2>4. /\ new.phase = "answered" /\ new.step = me.step /\ new.found = sid
        /\ new.sandbox = me.sandbox /\ new.app = me.app /\ new.about = me.about
        /\ me.step = "binding" /\ sid # 0 => new.binding \in bindings /\ new.binding.sid = sid
    BY <1>3, <1>5, <1>6, <1>8, <2>1, AnswerIs
  <2>5. ~overlapped => AloneIn(new, application.sid, apps, creds, bindings)
    <3> SUFFICES ASSUME ~overlapped PROVE AloneIn(new, application.sid, apps, creds, bindings)
      OBVIOUS
    <3>1. /\ me.step \in AppSteps => application.sid = me.app
          /\ me.step \in {"credentials", "binding"} => me.about = me.app
          /\ me.step \in BindingSteps => \E c \in creds : c.app = me.app
      BY <1>2, <1>8 DEF AloneIn
    <3>2. me.step = "application" /\ sid = 0 => \A a \in apps : a.sandbox # me.sandbox
      BY <1>3
    <3>3. me.step = "credentials" /\ sid = 0 => \A c \in creds : c.app # me.app
      BY <1>3, <3>1
    <3>4. me.step = "binding" /\ sid = 0 => \A b \in bindings : b.app # me.app
      BY <1>3, <3>1
    <3>5. me.step = "binding" /\ sid # 0 => new.binding \in bindings /\ new.binding.app = me.app
      BY <1>3, <2>4, <3>1 DEF IInv, ServerInv
    <3> HIDE DEF new, me, matching
    <3> QED
      BY <2>4, <3>1, <3>2, <3>3, <3>4, <3>5 DEF AloneIn, NoSid, me
  <2>6. ~overlapped => Alone(reg[r])'
    BY <1>1, <1>4, <2>5 DEF Alone
  <2> QED
    BY <1>1, <1>3, <1>4, <1>5, <1>6, <1>8, <2>1, <2>2, <2>3, <2>6, AnswerStep
<1> QED
  BY <1>1, <1>7, <1>8

LEMMA ServerCreatesApplicationIInv ==
  ASSUME IInv, NEW r \in Registrations, ServerHandles(r), reg[r].step = "createApplication"
  PROVE  IInv'
<1> DEFINE me == reg[r]
           sid == sids + 1
           new == reg'[r]
<1>1. /\ me.phase \in {"asking", "orphan"} /\ Working(r)
      /\ UNCHANGED <<kills, overlapped, switched>> /\ UNCHANGED defaults
      /\ application' = application
  BY DEF ServerHandles, Working, defaults
<1>2. /\ me \in Progress /\ sids \in Nat /\ me.token \in Tokens
      /\ ChainedIn(me, sids, Known, apps, creds, kills)
      /\ ~overlapped => AloneIn(me, application.sid, apps, creds, bindings)
  BY <1>1, WorkingFacts
<1>3. /\ apps' = apps \cup {[sid |-> sid, sandbox |-> me.sandbox]} /\ sids' = sid /\ Answer(r, sid)
      /\ creds' = creds /\ bindings' = bindings
  BY DEF ServerHandles
<1>4. /\ sid \in Nat /\ sids' \in Nat /\ sids =< sids' /\ sid =< sids'
      /\ apps \subseteq apps' /\ creds \subseteq creds'
  BY <1>2, <1>3
<1>5. StepOf(r)
  <2>1. CASE me.phase = "orphan"
    BY <1>1, <1>3, <1>4, <2>1, OrphanStep
  <2>2. CASE me.phase = "asking"
    <3>1. /\ reg' = [reg EXCEPT ![r] = new]
          /\ new.phase = "answered" /\ new.step = me.step /\ new.found = sid
          /\ new.user = me.user /\ new.client = me.client
          /\ new.token = me.token /\ new.sandbox = me.sandbox /\ new.app = me.app
          /\ new.binding = me.binding
      BY <1>3, <1>4, <2>2, AnswerIs
    <3> HIDE DEF new, sid
    <3>2. ~overlapped => AloneIn(new, application'.sid, apps', creds', bindings')
      BY <3>1, StepKinds DEF AloneIn
    <3>3. ~overlapped => Alone(reg[r])'
      BY <3>2 DEF Alone, new
    <3> QED
      BY <1>1, <1>3, <1>4, <2>2, <3>3, AnswerStep
  <2> QED
    BY <1>1, <2>1, <2>2
<1>6. Known' = Known
  BY <1>5, StepKeeps
<1>7. \A b \in bindings : RealIn(b, sids', Known')
  <2>1. \A b \in bindings : RealIn(b, sids, Known)
    BY DEF IInv, ServerInv, Real
  <2> QED
    BY <1>2, <1>4, <1>6, <2>1, RealGrows
<1>8. Apps \subseteq Apps' /\ Creds \subseteq Creds'
  BY <1>2, <1>4, TypesGrow
<1>9. apps' \subseteq Apps' /\ creds' \subseteq Creds'
  <2>1. [sid |-> sid, sandbox |-> me.sandbox] \in Apps'
    BY <1>2, <1>3, <1>4 DEF Apps, Progress
  <2> QED
    BY <1>3, <1>8, <2>1 DEF IInv, TypeOK
<1>10. bindings' \subseteq [sid : 1..sids', app : 1..sids', identity : Clients, address : Tokens]
  BY <1>3, <1>7 DEF RealIn
<1>11. ServerInv'
  <2>1. \A a \in apps' \cup creds' : a.sid # NoSid
    BY <1>2, <1>3 DEF IInv, ServerInv, NoSid
  <2>2. \A b \in bindings' : RealIn(b, sids', Known')
    BY <1>3, <1>7
  <2> QED
    BY <1>1, <1>3, <1>6, <2>1, <2>2 DEF IInv, ServerInv, Real, defaults
<1>12. NothingTwice'
  <2>1. ~overlapped => \A a \in apps : a.sandbox # me.sandbox
    BY <1>1, <1>2 DEF AloneIn
  <2> QED
    BY <1>1, <1>3, <2>1 DEF IInv, NothingTwice
<1> QED
  BY <1>1, <1>5, <1>9, <1>10, <1>11, <1>12, ServerStep


LEMMA ServerCreatesCredentialsIInv ==
  ASSUME IInv, NEW r \in Registrations, ServerHandles(r), reg[r].step = "createCredentials"
  PROVE  IInv'
<1> DEFINE me == reg[r]
           sid == sids + 1
           new == reg'[r]
<1>1. /\ me.phase \in {"asking", "orphan"} /\ Working(r)
      /\ UNCHANGED <<kills, overlapped, switched>> /\ UNCHANGED defaults
      /\ application' = application
  BY DEF ServerHandles, Working, defaults
<1>2. /\ me \in Progress /\ sids \in Nat /\ me.token \in Tokens
      /\ ChainedIn(me, sids, Known, apps, creds, kills)
      /\ ~overlapped => AloneIn(me, application.sid, apps, creds, bindings)
  BY <1>1, WorkingFacts
<1>3. /\ creds' = creds \cup {[sid |-> sid, app |-> me.app]} /\ sids' = sid /\ Answer(r, sid)
      /\ apps' = apps /\ bindings' = bindings
  BY DEF ServerHandles
<1>4. /\ sid \in Nat /\ sids' \in Nat /\ sids =< sids' /\ sid =< sids'
      /\ apps \subseteq apps' /\ creds \subseteq creds'
  BY <1>2, <1>3
<1>5. StepOf(r)
  <2>1. CASE me.phase = "orphan"
    BY <1>1, <1>3, <1>4, <2>1, OrphanStep
  <2>2. CASE me.phase = "asking"
    <3>1. /\ reg' = [reg EXCEPT ![r] = new]
          /\ new.phase = "answered" /\ new.step = me.step /\ new.found = sid
          /\ new.user = me.user /\ new.client = me.client
          /\ new.token = me.token /\ new.sandbox = me.sandbox /\ new.app = me.app
          /\ new.binding = me.binding
      BY <1>3, <1>4, <2>2, AnswerIs
    <3> HIDE DEF new, sid
    <3>2. ~overlapped => AloneIn(new, application'.sid, apps', creds', bindings')
      BY <1>1, <1>2, <3>1, StepKinds DEF AloneIn
    <3>3. ~overlapped => Alone(reg[r])'
      BY <3>2 DEF Alone, new
    <3> QED
      BY <1>1, <1>3, <1>4, <2>2, <3>3, AnswerStep
  <2> QED
    BY <1>1, <2>1, <2>2
<1>6. Known' = Known
  BY <1>5, StepKeeps
<1>7. \A b \in bindings : RealIn(b, sids', Known')
  <2>1. \A b \in bindings : RealIn(b, sids, Known)
    BY DEF IInv, ServerInv, Real
  <2> QED
    BY <1>2, <1>4, <1>6, <2>1, RealGrows
<1>8. Apps \subseteq Apps' /\ Creds \subseteq Creds'
  BY <1>2, <1>4, TypesGrow
<1>9. apps' \subseteq Apps' /\ creds' \subseteq Creds'
  <2>1. [sid |-> sid, app |-> me.app] \in Creds'
    BY <1>2, <1>3, <1>4 DEF Creds, Progress
  <2> QED
    BY <1>3, <1>8, <2>1 DEF IInv, TypeOK
<1>10. bindings' \subseteq [sid : 1..sids', app : 1..sids', identity : Clients, address : Tokens]
  BY <1>3, <1>7 DEF RealIn
<1>11. ServerInv'
  <2>1. \A a \in apps' \cup creds' : a.sid # NoSid
    BY <1>2, <1>3 DEF IInv, ServerInv, NoSid
  <2>2. \A b \in bindings' : RealIn(b, sids', Known')
    BY <1>3, <1>7
  <2> QED
    BY <1>1, <1>3, <1>6, <2>1, <2>2 DEF IInv, ServerInv, Real, defaults
<1>12. NothingTwice'
  <2>1. ~overlapped => \A c \in creds : c.app # me.app
    BY <1>1, <1>2 DEF AloneIn
  <2> QED
    BY <1>1, <1>3, <2>1 DEF IInv, NothingTwice
<1> QED
  BY <1>1, <1>5, <1>9, <1>10, <1>11, <1>12, ServerStep


LEMMA ServerCreatesBindingIInv ==
  ASSUME IInv, NEW r \in Registrations, ServerHandles(r), reg[r].step = "createBinding"
  PROVE  IInv'
<1> DEFINE me == reg[r]
           sid == sids + 1
           new == reg'[r]
<1>1. /\ me.phase \in {"asking", "orphan"} /\ Working(r)
      /\ UNCHANGED <<kills, overlapped, switched>> /\ UNCHANGED defaults
      /\ application' = application
  BY DEF ServerHandles, Working, defaults
<1>2. /\ me \in Progress /\ sids \in Nat /\ me.token \in Tokens
      /\ ChainedIn(me, sids, Known, apps, creds, kills)
      /\ ~overlapped => AloneIn(me, application.sid, apps, creds, bindings)
  BY <1>1, WorkingFacts
<1> DEFINE made == [sid |-> sid, app |-> me.app, identity |-> me.client, address |-> me.token]
<1>3. /\ bindings' = bindings \cup {made} /\ sids' = sid /\ Answer(r, sid)
      /\ apps' = apps /\ creds' = creds
  BY DEF ServerHandles
<1>4. /\ sid \in Nat /\ sids' \in Nat /\ sids =< sids' /\ sid =< sids'
      /\ apps \subseteq apps' /\ creds \subseteq creds'
  BY <1>2, <1>3
<1>5. StepOf(r)
  <2>1. CASE me.phase = "orphan"
    BY <1>1, <1>3, <1>4, <2>1, OrphanStep
  <2>2. CASE me.phase = "asking"
    <3>1. /\ reg' = [reg EXCEPT ![r] = new]
          /\ new.phase = "answered" /\ new.step = me.step /\ new.found = sid
          /\ new.user = me.user /\ new.client = me.client
          /\ new.token = me.token /\ new.sandbox = me.sandbox /\ new.app = me.app
          /\ new.binding = me.binding
      BY <1>3, <1>4, <2>2, AnswerIs
    <3> HIDE DEF new, sid
    <3>2. ~overlapped => AloneIn(new, application'.sid, apps', creds', bindings')
      <4>1. made.app = me.app /\ made.address = me.token /\ made.identity = me.client
        OBVIOUS
      <4> HIDE DEF made
      <4> QED
        BY <1>1, <1>2, <1>3, <3>1, <4>1, StepKinds DEF AloneIn
    <3>3. ~overlapped => Alone(reg[r])'
      BY <3>2 DEF Alone, new
    <3> QED
      BY <1>1, <1>3, <1>4, <2>2, <3>3, AnswerStep
  <2> QED
    BY <1>1, <2>1, <2>2
<1>6. Known' = Known
  BY <1>5, StepKeeps
<1>7. \A b \in bindings : RealIn(b, sids', Known')
  <2>1. \A b \in bindings : RealIn(b, sids, Known)
    BY DEF IInv, ServerInv, Real
  <2> QED
    BY <1>2, <1>4, <1>6, <2>1, RealGrows
<1>8. Apps \subseteq Apps' /\ Creds \subseteq Creds'
  BY <1>2, <1>4, TypesGrow
<1>9. apps' \subseteq Apps' /\ creds' \subseteq Creds'
  BY <1>3, <1>8 DEF IInv, TypeOK
<1>10. RealIn(made, sids', Known')
  <2>1. /\ me.client \in Clients /\ me.client \in Known
        /\ [sid |-> me.app, sandbox |-> me.sandbox] \in apps
    BY <1>1, <1>2, StepKinds DEF ChainedIn
  <2>2. me.app \in 1..sids'
    BY <1>2, <1>3, <2>1 DEF IInv, ServerInv, NoSid, Progress
  <2>3. sid \in 1..sids'
    BY <1>2, <1>3
  <2>4. made \in [sid : 1..sids', app : 1..sids', identity : Clients, address : Tokens]
    BY <1>2, <2>1, <2>2, <2>3
  <2> QED
    BY <1>6, <2>1, <2>4 DEF RealIn
<1>11. \A b \in bindings' : RealIn(b, sids', Known')
  BY <1>3, <1>7, <1>10
<1>12. bindings' \subseteq [sid : 1..sids', app : 1..sids', identity : Clients, address : Tokens]
  BY <1>11 DEF RealIn
<1>13. ServerInv'
  <2>1. \A b \in bindings : b.sid # made.sid
    BY <1>2 DEF IInv, TypeOK
  <2>2. \A b, c \in bindings' : b.sid = c.sid => b = c
    BY <1>3, <2>1 DEF IInv, ServerInv
  <2> QED
    BY <1>1, <1>3, <1>6, <1>11, <2>2 DEF IInv, ServerInv, Real, defaults
<1>14. NothingTwice'
  <2>1. ~overlapped => \A b \in bindings : b.app # me.app
    BY <1>1, <1>2 DEF AloneIn
  <2> QED
    BY <1>1, <1>3, <2>1 DEF IInv, NothingTwice
<1> QED
  BY <1>1, <1>5, <1>9, <1>12, <1>13, <1>14, ServerStep

LEMMA ServerUpdatesBindingIInv ==
  ASSUME IInv, NEW r \in Registrations, ServerHandles(r), reg[r].step = "updateBinding"
  PROVE  IInv'
<1> DEFINE me == reg[r]
           sent == me.binding
           sid == sent.sid
           new == reg'[r]
<1>1. /\ me.phase \in {"asking", "orphan"} /\ Working(r)
      /\ UNCHANGED <<kills, overlapped, switched>> /\ UNCHANGED defaults
      /\ application' = application
  BY DEF ServerHandles, Working, defaults
<1>2. /\ me \in Progress /\ sids \in Nat /\ me.token \in Tokens
      /\ ChainedIn(me, sids, Known, apps, creds, kills)
      /\ ~overlapped => AloneIn(me, application.sid, apps, creds, bindings)
  BY <1>1, WorkingFacts
<1>3. /\ bindings' = {IF b.sid = sent.sid THEN sent ELSE b : b \in bindings}
      /\ Answer(r, sid) /\ apps' = apps /\ creds' = creds /\ sids' = sids
  BY DEF ServerHandles
<1>4. RealIn(sent, sids, Known)
  BY <1>1, <1>2 DEF ChainedIn
<1>5. /\ sid \in Nat /\ sids' \in Nat /\ sids =< sids' /\ sid =< sids'
      /\ apps \subseteq apps' /\ creds \subseteq creds'
  BY <1>2, <1>3, <1>4 DEF RealIn
<1>6. ~overlapped => /\ application.sid = me.app /\ \E c \in creds : c.app = me.app
                     /\ sent.app = me.app /\ sent.address = me.token
                     /\ \E b \in bindings : b.sid = sent.sid /\ b.app = me.app
  BY <1>1, <1>2, StepKinds DEF AloneIn
<1>7. ~overlapped => sent \in bindings'
  BY <1>3, <1>6
<1>8. StepOf(r)
  <2>1. CASE me.phase = "orphan"
    BY <1>1, <1>3, <1>5, <2>1, OrphanStep
  <2>2. CASE me.phase = "asking"
    <3>1. /\ new.phase = "answered" /\ new.step = me.step /\ new.token = me.token
          /\ new.app = me.app /\ new.binding = me.binding
      BY <1>3, <1>5, <2>2, AnswerIs
    <3> HIDE DEF new
    <3>2. ~overlapped => AloneIn(new, application'.sid, apps', creds', bindings')
      BY <1>1, <1>3, <1>6, <1>7, <3>1 DEF AloneIn
    <3>3. ~overlapped => Alone(reg[r])'
      BY <3>2 DEF Alone, new
    <3> QED
      BY <1>1, <1>3, <1>5, <2>2, <3>3, AnswerStep
  <2> QED
    BY <1>1, <2>1, <2>2
<1>9. Known' = Known
  BY <1>8, StepKeeps
<1>10. apps' \subseteq Apps' /\ creds' \subseteq Creds'
  BY <1>3 DEF IInv, TypeOK, Apps, Creds
<1>11. \A b \in bindings' : RealIn(b, sids', Known')
  <2>1. \A b \in bindings : RealIn(b, sids, Known)
    BY DEF IInv, ServerInv, Real
  <2> QED
    BY <1>3, <1>4, <1>9, <2>1
<1>12. bindings' \subseteq [sid : 1..sids', app : 1..sids', identity : Clients, address : Tokens]
  BY <1>11 DEF RealIn
<1>13. ServerInv'
  <2>1. \A b, c \in bindings' : b.sid = c.sid => b = c
    BY <1>3 DEF IInv, ServerInv
  <2> QED
    BY <1>1, <1>3, <1>9, <1>11, <2>1 DEF IInv, ServerInv, Real, defaults
<1>14. NothingTwice'
  <2> SUFFICES ASSUME ~overlapped, NEW b \in bindings', NEW c \in bindings', b.app = c.app
               PROVE  b = c
    BY <1>1, <1>3 DEF IInv, NothingTwice
  <2>1. PICK old \in bindings : old.sid = sent.sid /\ old.app = sent.app
    BY <1>6
  <2>2. \A x \in bindings : x.sid = sent.sid => x = old
    BY <2>1 DEF IInv, ServerInv
  <2>3. PICK x \in bindings : b = IF x.sid = sent.sid THEN sent ELSE x
    BY <1>3
  <2>4. PICK y \in bindings : c = IF y.sid = sent.sid THEN sent ELSE y
    BY <1>3
  <2>5. x.app = b.app /\ y.app = c.app
    BY <2>1, <2>2, <2>3, <2>4
  <2>6. x = y
    BY <2>5 DEF IInv, NothingTwice
  <2> QED
    BY <2>3, <2>4, <2>6
<1> QED
  BY <1>1, <1>8, <1>10, <1>12, <1>13, <1>14, ServerStep

LEMMA ServerHandlesIInv ==
  ASSUME IInv, NEW r \in Registrations, ServerHandles(r)
  PROVE  IInv'
<1>1. reg[r].step \in {"account", "client", "application", "credentials", "binding",
                       "createApplication", "createCredentials", "createBinding", "updateBinding"}
  BY DEF ServerHandles
<1> QED
  BY <1>1, ServerReadsIInv, ServerCreatesApplicationIInv, ServerCreatesCredentialsIInv,
     ServerCreatesBindingIInv, ServerUpdatesBindingIInv
-----------------------------------------------------------------------------
(* The beginning and the end of registrations *)

LEMMA RegisterDeviceIInv ==
  ASSUME IInv, NEW r \in Registrations, NEW user \in Users, NEW token \in Tokens \cup {NoToken},
         NEW sandbox \in Sandboxes, RegisterDevice(r, user, token, sandbox)
  PROVE  IInv'
<1> DEFINE new == reg'[r]
<1>1. /\ reg[r].phase = "unborn" /\ UNCHANGED <<defaults, server, kills>>
      /\ overlapped' = (overlapped \/ \E q \in Registrations : Busy(q))
      /\ switched' = (switched \/ \E q \in Registrations : reg[q].user \notin {NoUser, user})
  BY DEF RegisterDevice
<1>2. TypeOK /\ reg \in [Registrations -> Progress] /\ sids \in Nat
  BY DEF IInv, TypeOK
<1>3. /\ sids' = sids /\ apps' = apps /\ creds' = creds /\ bindings' = bindings /\ kills' = kills
      /\ account' = account /\ client' = client /\ application' = application
      /\ credentials' = credentials
  BY <1>1 DEF server, defaults
<1>4. /\ new \in Progress /\ \A q \in Registrations : q # r => reg'[q] = reg[q]
      /\ reg' = [reg EXCEPT ![r] = new]
      /\ \/ new.phase = "reporting" /\ new.outcome = "error" /\ new.user = NoUser
         \/ /\ new.phase = "looking" /\ new.step = "account" /\ new.user = user
            /\ new.token \in Tokens /\ new.outcome = "none"
  <2>1. Unborn \in Progress
    BY <1>2 DEF Unborn, Progress, Bindings, NoBinding, Phases, Steps, Outcomes, NoSid
  <2>2. CASE token = NoToken
    <3> DEFINE refused == [Unborn EXCEPT !.phase = "reporting", !.outcome = "error"]
    <3>1. Set(r, refused)
      BY <2>2 DEF RegisterDevice
    <3>2. "reporting" \in Phases /\ "error" \in Outcomes
      BY DEF Phases, Outcomes
    <3>3. refused \in Progress
      BY <2>1, <3>2, Zenon DEF Progress
    <3>4. refused.phase = "reporting" /\ refused.outcome = "error" /\ refused.user = NoUser
      BY DEF Unborn
    <3> HIDE DEF refused
    <3> QED
      BY <1>2, <3>1, <3>3, <3>4 DEF Set
  <2>3. CASE token # NoToken
    <3> DEFINE born == [Unborn EXCEPT !.phase = "looking", !.user = user, !.token = token,
                                      !.sandbox = sandbox]
    <3>1. Set(r, born)
      BY <2>3 DEF RegisterDevice
    <3>2. "looking" \in Phases /\ sandbox \in BOOLEAN /\ user \in Users \cup {NoUser}
      BY PushAssumption DEF Phases
    <3>3. born \in Progress
      BY <2>1, <3>2, Zenon DEF Progress
    <3>4. /\ born.phase = "looking" /\ born.step = "account" /\ born.user = user
          /\ born.token \in Tokens /\ born.outcome = "none"
      BY <2>3 DEF Unborn
    <3> HIDE DEF born
    <3> QED
      BY <1>2, <3>1, <3>3, <3>4 DEF Set
  <2> QED
    BY <2>2, <2>3
<1>5. reg[r].user = NoUser
  BY <1>1 DEF IInv, ChainInv, Chained, ChainedIn
<1> HIDE DEF new
<1>6. Known \subseteq Known'
  BY <1>4, <1>5 DEF Known
<1>7. TypeOK'
  <2>1. Progress' = Progress /\ Apps' = Apps /\ Creds' = Creds
    BY <1>3 DEF Progress, Bindings, Apps, Creds
  <2>2. reg' \in [Registrations -> Progress']
    BY <1>2, <1>4, <2>1
  <2>3. overlapped' \in BOOLEAN /\ switched' \in BOOLEAN
    BY <1>1, Zenon
  <2>4. account' \in BOOLEAN
    BY <1>2, <1>3 DEF TypeOK
  <2> QED
    BY <1>2, <1>3, <2>1, <2>2, <2>3, <2>4 DEF TypeOK
<1>8. ChainInv'
  <2> SUFFICES ASSUME NEW q \in Registrations PROVE Chained(reg[q])'
    BY DEF ChainInv
  <2>1. CASE q = r
    <3>1. ChainedIn(new, sids', Known', apps', creds', kills')
      BY <1>4, StepKinds DEF ChainedIn
    <3> QED
      BY <2>1, <3>1 DEF Chained, new
  <2>2. CASE q # r
    <3>1. ChainedIn(reg[q], sids, Known, apps, creds, kills) /\ kills \in Nat
      BY <1>2, PushAssumption DEF IInv, ChainInv, Chained, TypeOK
    <3>2. ChainedIn(reg[q], sids, Known', apps, creds, kills)
      BY <1>2, <1>6, <3>1, ChainGrows
    <3> QED
      BY <1>3, <1>4, <2>2, <3>2 DEF Chained
  <2> QED
    BY <2>1, <2>2
<1>9. ServerInv'
  <2>1. \A b \in bindings : RealIn(b, sids, Known)
    BY DEF IInv, ServerInv, Real
  <2>2. \A b \in bindings : RealIn(b, sids, Known')
    BY <1>2, <1>6, <2>1, RealGrows
  <2> QED
    BY <1>3, <1>6, <2>2 DEF IInv, ServerInv, Real
<1>10. DefaultsAreTrue' /\ NothingTwice'
  BY <1>1, <1>3 DEF IInv, DefaultsAreTrue, NothingTwice
<1>11. OnlyBindingReportsLost'
  BY <1>3, <1>4 DEF IInv, OnlyBindingReportsLost, new
<1>12. SameUser'
  <2> SUFFICES ASSUME ~switched' PROVE \A q \in Registrations : reg'[q].user \in {NoUser, user}
    BY DEF SameUser
  <2>1. \A q \in Registrations : reg[q].user \in {NoUser, user}
    BY <1>1
  <2> QED
    BY <1>4, <2>1 DEF new
<1>13. AloneInv'
  <2> SUFFICES ASSUME ~overlapped' PROVE AloneInv'
    BY DEF AloneInv
  <2>1. \A q \in Registrations : q # r => reg'[q].phase \in {"unborn", "over"}
    BY <1>1, <1>4 DEF Busy
  <2>2. AloneIn(new, application'.sid, apps', creds', bindings')
    BY <1>4, StepKinds DEF AloneIn
  <2>3. ASSUME NEW q \in Registrations PROVE Alone(reg[q])'
    <3>1. CASE q = r
      BY <2>2, <3>1 DEF Alone, new
    <3>2. CASE q # r
      BY <2>1, <3>2 DEF Alone, AloneIn
    <3> QED
      BY <3>1, <3>2
  <2>4. \A p, q \in Registrations : Busy(p)' /\ Busy(q)' => p = q
    BY <2>1 DEF Busy
  <2> QED
    BY <2>3, <2>4 DEF AloneInv
<1> QED
  BY <1>7, <1>8, <1>9, <1>10, <1>11, <1>12, <1>13 DEF IInv

\* Of a killed App only the requests are left, and they end without an answer.
LEMMA KillIInv ==
  ASSUME IInv, Kill
  PROVE  IInv'
<1>1. /\ kills < MaxKills /\ kills' = kills + 1 /\ UNCHANGED <<defaults, server, overlapped, switched>>
  BY DEF Kill
<1>2. TypeOK /\ reg \in [Registrations -> Progress] /\ sids \in Nat /\ kills \in Nat /\ kills' \in Nat
  BY <1>1, PushAssumption DEF IInv, TypeOK
<1>3. /\ sids' = sids /\ apps' = apps /\ creds' = creds /\ bindings' = bindings
      /\ account' = account /\ client' = client /\ application' = application
      /\ credentials' = credentials
      /\ overlapped' = overlapped /\ switched' = switched
  BY <1>1 DEF server, defaults
<1>4. ASSUME NEW q \in Registrations
      PROVE  /\ reg'[q] \in Progress /\ reg'[q].user = reg[q].user
             /\ \/ reg'[q] = reg[q] /\ reg[q].phase \notin {"looking", "asking", "answered", "reporting"}
                \/ reg'[q].phase = "over"
                \/ /\ reg[q].phase = "asking" /\ Moved(reg'[q], reg[q], "orphan", reg[q].step)
                   /\ reg'[q].about = reg[q].about
  <2> DEFINE lost == [reg[q] EXCEPT !.phase = "orphan"]
  <2>1. reg'[q] = CASE reg[q].phase = "asking" -> lost
                    [] reg[q].phase \in {"looking", "answered", "reporting"} -> Over(reg[q], "none")
                    [] OTHER -> reg[q]
    BY DEF Kill
  <2>2. reg[q] \in Progress /\ "orphan" \in Phases /\ "none" \in Outcomes
    BY <1>2 DEF Phases, Outcomes
  <2>3. CASE reg[q].phase = "asking"
    <3>1. lost \in Progress
      BY <2>2, Zenon DEF Progress
    <3>2. Moved(lost, reg[q], "orphan", reg[q].step) /\ lost.about = reg[q].about
      BY <2>2 DEF Progress, Moved
    <3>3. reg'[q] = lost
      BY <2>1, <2>3
    <3> HIDE DEF lost
    <3> QED
      BY <2>3, <3>1, <3>2, <3>3 DEF Moved
  <2>4. CASE reg[q].phase \in {"looking", "answered", "reporting"}
    <3>1. reg'[q] = Over(reg[q], "none")
      BY <2>1, <2>4
    <3> QED
      BY <1>2, <2>2, <3>1, OverIs
  <2>5. CASE reg[q].phase \notin {"looking", "asking", "answered", "reporting"}
    BY <2>1, <2>2, <2>5
  <2> QED
    BY <2>3, <2>4, <2>5
<1>5. Known' = Known
  BY <1>4 DEF Known
<1>6. TypeOK'
  <2>1. Progress' = Progress /\ Apps' = Apps /\ Creds' = Creds
    BY <1>3 DEF Progress, Bindings, Apps, Creds
  <2>2. reg' \in [Registrations -> Progress']
    <3>1. reg' = [q \in Registrations |-> reg'[q]]
      BY DEF Kill
    <3> QED
      BY <1>4, <2>1, <3>1
  <2>3. overlapped' \in BOOLEAN /\ switched' \in BOOLEAN /\ account' \in BOOLEAN
    BY <1>2, <1>3 DEF TypeOK
  <2>4. kills' \in 0..MaxKills
    BY <1>1, <1>2, PushAssumption
  <2> QED
    BY <1>2, <1>3, <2>1, <2>2, <2>3, <2>4 DEF TypeOK
<1>7. ChainInv'
  <2> SUFFICES ASSUME NEW q \in Registrations PROVE Chained(reg[q])'
    BY DEF ChainInv
  <2>1. ChainedIn(reg[q], sids, Known, apps, creds, kills) /\ kills =< kills'
    BY <1>1, <1>2 DEF IInv, ChainInv, Chained
  <2>2. ChainedIn(reg[q], sids, Known, apps, creds, kills')
    BY <1>2, <2>1, ChainGrows
  <2>3. kills' > 0
    BY <1>1, <1>2
  <2>4. ChainedIn(reg'[q], sids, Known, apps, creds, kills')
    BY <1>4, <2>2, <2>3 DEF ChainedIn, Moved
  <2> QED
    BY <1>3, <1>5, <2>4 DEF Chained
<1>8. ServerInv' /\ DefaultsAreTrue' /\ NothingTwice'
  BY <1>3, <1>5 DEF IInv, ServerInv, Real, DefaultsAreTrue, NothingTwice
<1>9. OnlyBindingReportsLost'
  BY <1>1, <1>2 DEF OnlyBindingReportsLost
<1>10. SameUser'
  BY <1>3, <1>4 DEF IInv, SameUser
<1>11. AloneInv'
  <2>1. \A q \in Registrations : Busy(q)' => Busy(q)
    BY <1>4 DEF Busy, Moved
  <2>2. ASSUME NEW q \in Registrations, ~overlapped PROVE Alone(reg[q])'
    <3>1. AloneIn(reg[q], application.sid, apps, creds, bindings)
      BY <2>2 DEF IInv, AloneInv, Alone
    <3>2. AloneIn(reg'[q], application.sid, apps, creds, bindings)
      BY <1>4, <3>1 DEF AloneIn, Moved
    <3> QED
      BY <1>3, <3>2 DEF Alone
  <2> QED
    BY <1>3, <2>1, <2>2 DEF IInv, AloneInv
<1> QED
  BY <1>6, <1>7, <1>8, <1>9, <1>10, <1>11 DEF IInv

LEMMA DeliveredIInv ==
  ASSUME IInv, NEW r \in Registrations, Delivered(r) \/ HandlerGone(r)
  PROVE  IInv'
<1>1. /\ Busy(r) /\ reg[r].phase = "reporting" /\ UNCHANGED <<defaults, server>>
      /\ UNCHANGED <<kills, overlapped, switched>>
  BY DEF Delivered, HandlerGone, Busy
<1>2. reg[r].outcome \in Outcomes /\ "none" \in Outcomes /\ sids \in Nat
  BY DEF IInv, TypeOK, Progress, Outcomes
<1>3. reg[r].outcome # "none"
  BY <1>1 DEF IInv, ChainInv, Chained, ChainedIn
<1>4. sids' \in Nat /\ sids =< sids' /\ apps \subseteq apps' /\ creds \subseteq creds'
  BY <1>1, <1>2 DEF server
<1>5. CASE Delivered(r)
  <2>1. Set(r, Over(reg[r], reg[r].outcome))
    BY <1>5 DEF Delivered
  <2> QED
    BY <1>1, <1>2, <1>3, <1>4, <2>1, OverStep, QuietStep
<1>6. CASE HandlerGone(r)
  <2>1. Set(r, Over(reg[r], "none")) /\ reg[r].step \in BindingSteps
    BY <1>6 DEF HandlerGone
  <2> QED
    BY <1>1, <1>2, <1>4, <2>1, OverStep, QuietStep
<1> QED
  BY <1>5, <1>6
-----------------------------------------------------------------------------
(* The theorems *)

LEMMA StutterIInv ==
  ASSUME IInv, UNCHANGED vars
  PROVE  IInv'
BY DEF IInv, TypeOK, Progress, Bindings, Apps, Creds, ChainInv, Chained, Known, ServerInv, Real,
       DefaultsAreTrue, OnlyBindingReportsLost, SameUser, AloneInv, Alone, Busy, NothingTwice,
       vars, defaults, server

LEMMA NextIInv ==
  ASSUME IInv, [Next]_vars
  PROVE  IInv'
<1>1. CASE Kill
  BY <1>1, KillIInv
<1>2. ASSUME NEW r \in Registrations, NEW user \in Users, NEW token \in Tokens \cup {NoToken},
             NEW sandbox \in Sandboxes, RegisterDevice(r, user, token, sandbox)
      PROVE  IInv'
  BY <1>2, RegisterDeviceIInv
<1>3. ASSUME NEW r \in Registrations,
             \/ LookUp(r) \/ ServerHandles(r) \/ RequestFails(r) \/ Handle(r)
             \/ Delivered(r) \/ HandlerGone(r)
      PROVE  IInv'
  BY <1>3, LookUpIInv, ServerHandlesIInv, RequestFailsIInv, HandleAccountIInv, HandleClientIInv,
     HandleApplicationIInv, HandleCreateApplicationIInv, HandleCredentialsIInv,
     HandleCreateCredentialsIInv, HandleBindingIInv, HandleBoundIInv, DeliveredIInv DEF Handle
<1>4. CASE UNCHANGED vars
  BY <1>4, StutterIInv
<1> QED
  BY <1>1, <1>2, <1>3, <1>4 DEF Next

\* The inductive invariant holds however often the App is killed and however
\* registrations overlap.
THEOREM PushInductive == Spec => []IInv
<1>1. Init => IInv
  BY InitIInv
<1>2. IInv /\ [Next]_vars => IInv'
  BY NextIInv
<1> QED
  BY <1>1, <1>2, PTL DEF Spec

\* Type correctness: no binding is asked for without an identity or an address.
THEOREM PushTyped == Spec => []TypeOK
<1>1. IInv => TypeOK
  BY DEF IInv
<1> QED
  BY <1>1, PushInductive, PTL

\* As long as registrations do not overlap, nothing is on the server twice,
\* whatever fails and however often the App is killed.
THEOREM NothingTwiceAlways == Spec => []NothingTwice
<1>1. IInv => NothingTwice
  BY DEF IInv
<1> QED
  BY <1>1, PushInductive, PTL

\* NSUserDefaults are never ahead of the server.
THEOREM DefaultsAlways == Spec => []DefaultsAreTrue
<1>1. IInv => DefaultsAreTrue
  BY DEF IInv
<1> QED
  BY <1>1, PushInductive, PTL

\* Whatever fails before the binding, the delegate is told, unless the App is
\* killed.
THEOREM EarlyFailuresReported == Spec => []OnlyBindingReportsLost
<1>1. IInv => OnlyBindingReportsLost
  BY DEF IInv
<1> QED
  BY <1>1, PushInductive, PTL
-----------------------------------------------------------------------------
(* Success *)

\* With one user only, any known user is the user of r.
LEMMA OneUser ==
  ASSUME IInv, NEW r \in Registrations, Working(r), ~switched, NEW u \in Known
  PROVE  u = reg[r].user
<1>1. PICK q \in Registrations : reg[q].user = u /\ u # NoUser
  BY DEF Known
<1>2. reg[r].user # NoUser
  BY WorkingFacts, PushAssumption
<1> QED
  BY <1>1, <1>2 DEF IInv, SameUser

\* A binding of r's application and token that is for a known user will do.
LEMMA BoundBy ==
  ASSUME IInv, NEW r \in Registrations, Working(r), ~overlapped, ~switched,
         reg[r].step \in BindingSteps, NEW b \in bindings,
         b.app = reg[r].app, b.address = reg[r].token
  PROVE  Bound(r)
<1> DEFINE me == reg[r]
           a == [sid |-> me.app, sandbox |-> me.sandbox]
<1>1. /\ ChainedIn(me, sids, Known, apps, creds, kills)
      /\ AloneIn(me, application.sid, apps, creds, bindings)
  BY WorkingFacts
<1>2. a \in apps
  BY <1>1, StepKinds DEF ChainedIn, Working
<1>3. \E c \in creds : c.app = me.app
  BY <1>1 DEF AloneIn, Working
<1>4. b.identity = me.user
  <2>1. b.identity \in Known
    BY DEF IInv, ServerInv, Real, RealIn
  <2> QED
    BY <2>1, OneUser
<1>5. a.sandbox = me.sandbox /\ a.sid = me.app
  OBVIOUS
<1> HIDE DEF a
<1> QED
  BY <1>2, <1>3, <1>4, <1>5 DEF Bound

LEMMA NoSuccess ==
  ASSUME IInv, NEW p \in Registrations, Working(p), NEW r \in Registrations, Working(r),
         NEW rec, Set(p, rec), rec.outcome # "success"
  PROVE  reg'[r].outcome # "success"
<1>1. reg[r].outcome = "none"
  BY WorkingFacts
<1> QED
  BY <1>1 DEF IInv, TypeOK, Set

\* The steps of the chain but the last two keep the outcome, or report an error.
LEMMA ChainNoSuccess ==
  ASSUME IInv, NEW p \in Registrations, NEW r \in Registrations, Working(r),
         \/ LookUp(p) \/ ServerHandles(p) \/ RequestFails(p)
         \/ HandleAccount(p) \/ HandleClient(p) \/ HandleApplication(p)
         \/ HandleCreateApplication(p) \/ HandleCredentials(p) \/ HandleCreateCredentials(p)
  PROVE  reg'[r].outcome # "success"
<1> DEFINE me == reg[p]
<1>1. Working(p)
  BY DEF LookUp, ServerHandles, RequestFails, HandleAccount, HandleClient, HandleApplication,
         HandleCreateApplication, HandleCredentials, HandleCreateCredentials, Answered, Working
<1>2. me \in Progress /\ me.outcome = "none"
  BY <1>1, WorkingFacts
<1> SUFFICES \E rec : Set(p, rec) /\ rec.outcome # "success"
  BY <1>1, NoSuccess
<1>3. \A x, step, about : /\ GoOn(me, step).outcome = "none"
                          /\ GoOn([me EXCEPT !.client = x], step).outcome = "none"
                          /\ GoOn([me EXCEPT !.app = x], step).outcome = "none"
                          /\ Ask(me, step, about).outcome = "none"
  BY <1>2 DEF GoOn, Ask, Progress
<1>4. /\ Over(me, "none").outcome = "none"
      /\ [me EXCEPT !.phase = "reporting", !.outcome = "error"].outcome = "error"
  BY <1>2 DEF Over, Unborn, Progress
<1>5. CASE LookUp(p)
  BY <1>3, <1>5 DEF LookUp
<1>6. CASE ServerHandles(p)
  <2>1. ASSUME NEW matching, Lists(p, matching) PROVE \E sid : Answer(p, sid)
    BY <2>1 DEF Lists
  <2>2. PICK sid : Answer(p, sid)
    <3> HIDE DEF me
    <3> QED
      BY <1>6, <2>1, Zenon DEF ServerHandles
  <2>3. CASE me.phase = "orphan"
    BY <1>4, <2>2, <2>3 DEF Answer
  <2>4. CASE me.phase # "orphan"
    <3> DEFINE bind == IF me.step = "binding" /\ sid # NoSid
                       THEN CHOOSE b \in bindings : b.sid = sid ELSE me.binding
               rec == [me EXCEPT !.phase = "answered", !.found = sid, !.binding = bind]
    <3>1. Set(p, rec)
      BY <1>2, <2>2, <2>4 DEF Answer, Set, Progress
    <3>2. rec.outcome = me.outcome
      BY <1>2 DEF Progress
    <3> HIDE DEF rec
    <3> QED
      BY <1>2, <3>1, <3>2
  <2> QED
    BY <2>3, <2>4
<1>7. CASE RequestFails(p)
  <2> DEFINE rec == [me EXCEPT !.phase = "answered", !.failed = TRUE, !.found = NoSid]
  <2>1. Set(p, Over(me, "none")) \/ Set(p, rec)
    BY <1>7 DEF RequestFails
  <2>2. rec.outcome = me.outcome
    BY <1>2 DEF Progress
  <2> HIDE DEF rec
  <2> QED
    BY <1>2, <1>4, <2>1, <2>2
<1>8. CASE HandleAccount(p)
  BY <1>3, <1>4, <1>8 DEF HandleAccount, Report
<1>9. CASE HandleClient(p)
  BY <1>3, <1>4, <1>9 DEF HandleClient, Report
<1>10. CASE HandleApplication(p) \/ HandleCreateApplication(p)
  BY <1>3, <1>4, <1>10 DEF HandleApplication, HandleCreateApplication, KeepApplication, Report
<1>11. CASE HandleCredentials(p) \/ HandleCreateCredentials(p)
  BY <1>3, <1>4, <1>11 DEF HandleCredentials, HandleCreateCredentials, KeepCredentials, Report
<1> QED
  BY <1>5, <1>6, <1>7, <1>8, <1>9, <1>10, <1>11

LEMMA HandleBindingSuccess ==
  ASSUME IInv, NEW p \in Registrations, HandleBinding(p), NEW r \in Registrations, Working(r),
         reg'[r].outcome = "success", ~overlapped, ~switched
  PROVE  Bound(r)
<1> DEFINE me == reg[p]
<1>1. Working(p) /\ me.phase = "answered" /\ me.step = "binding"
  BY DEF HandleBinding, Answered, Working
<1>2. p = r
  BY <1>1 DEF IInv, AloneInv, Working, Busy
<1>3. /\ me \in Progress /\ me.outcome = "none"
      /\ AloneIn(me, application.sid, apps, creds, bindings)
  BY <1>1, WorkingFacts
<1>4. ~me.failed /\ me.found # NoSid /\ me.binding.address = me.token
  <2>1. [me EXCEPT !.phase = "reporting", !.outcome = "error"].outcome # "success"
    BY <1>3 DEF Progress
  <2>2. /\ Ask(me, "createBinding", NoSid).outcome # "success"
        /\ [Ask(me, "updateBinding", NoSid) EXCEPT !.binding.address = me.token].outcome # "success"
    BY <1>3 DEF Ask, Progress
  <2>3. ASSUME NEW rec, Set(p, rec) PROVE rec.outcome = "success"
    BY <1>1, <1>2, <2>3, NoSuccess
  <2> QED
    BY <2>1, <2>2, <2>3 DEF HandleBinding, Report
<1>5. me.binding \in bindings /\ me.binding.app = me.app
  BY <1>1, <1>3, <1>4 DEF AloneIn
<1> QED
  BY <1>1, <1>2, <1>4, <1>5, BoundBy, StepKinds

LEMMA HandleBoundSuccess ==
  ASSUME IInv, NEW p \in Registrations, HandleBound(p), NEW r \in Registrations, Working(r),
         reg'[r].outcome = "success", ~overlapped, ~switched
  PROVE  Bound(r)
<1> DEFINE me == reg[p]
<1>1. Working(p) /\ me.phase = "answered" /\ me.step \in {"updateBinding", "createBinding"}
  BY DEF HandleBound, Answered, Working
<1>2. p = r
  BY <1>1 DEF IInv, AloneInv, Working, Busy
<1>3. me \in Progress /\ AloneIn(me, application.sid, apps, creds, bindings)
  BY <1>1, WorkingFacts
<1>4. ~me.failed
  <2>1. [me EXCEPT !.phase = "reporting", !.outcome = "error"].outcome # "success"
    BY <1>3 DEF Progress
  <2>2. ASSUME NEW rec, Set(p, rec) PROVE rec.outcome = "success"
    BY <1>1, <1>2, <2>2, NoSuccess
  <2> QED
    BY <2>1, <2>2 DEF HandleBound, Report
<1>5. \E b \in bindings : b.app = me.app /\ b.address = me.token
  BY <1>1, <1>3, <1>4 DEF AloneIn
<1>6. me.step \in BindingSteps
  BY <1>1, StepKinds
<1> QED
  BY <1>1, <1>2, <1>5, <1>6, BoundBy

\* A step of r's chain, or of the main queue for r.
ActionOf(r) ==
    LookUp(r) \/ ServerHandles(r) \/ RequestFails(r) \/ Handle(r) \/ Delivered(r) \/ HandlerGone(r)

LEMMA ActionIs ==
  ASSUME IInv, NEW p \in Registrations, ActionOf(p)
  PROVE  /\ Busy(p) /\ UNCHANGED <<overlapped, switched>>
         /\ \A q \in Registrations : q # p => reg'[q] = reg[q]
<1>1. Busy(p)
  BY DEF ActionOf, Handle, LookUp, ServerHandles, RequestFails, HandleAccount, HandleClient,
         HandleApplication, HandleCreateApplication, HandleCredentials, HandleCreateCredentials,
         HandleBinding, HandleBound, Delivered, HandlerGone, Answered, Busy
<1>2. UNCHANGED <<overlapped, switched>>
  BY DEF ActionOf, Handle, LookUp, ServerHandles, RequestFails, HandleAccount, HandleClient,
         HandleApplication, HandleCreateApplication, HandleCredentials, HandleCreateCredentials,
         HandleBinding, HandleBound, Delivered, HandlerGone
<1>3. \E rec : Set(p, rec)
  <2>1. LookUp(p) \/ RequestFails(p) \/ Delivered(p) \/ HandlerGone(p) => \E rec : Set(p, rec)
    BY DEF LookUp, RequestFails, Delivered, HandlerGone
  <2>2. ServerHandles(p) => \E rec : Set(p, rec)
    BY DEF ServerHandles, Answer, Lists
  <2>3. HandleAccount(p) \/ HandleClient(p) \/ HandleBinding(p) \/ HandleBound(p) =>
          \E rec : Set(p, rec)
    BY DEF HandleAccount, HandleClient, HandleBinding, HandleBound, Report
  <2>4. HandleApplication(p) \/ HandleCreateApplication(p) => \E rec : Set(p, rec)
    BY DEF HandleApplication, HandleCreateApplication, KeepApplication, Report
  <2>5. HandleCredentials(p) \/ HandleCreateCredentials(p) => \E rec : Set(p, rec)
    BY DEF HandleCredentials, HandleCreateCredentials, KeepCredentials, Report
  <2> QED
    BY <2>1, <2>2, <2>3, <2>4, <2>5 DEF ActionOf, Handle
<1>4. \A q \in Registrations : q # p => reg'[q] = reg[q]
  BY <1>3 DEF Set, IInv, TypeOK
<1> QED
  BY <1>1, <1>2, <1>4

\* As long as nobody interferes, a step is one of a busy r, or leaves r alone.
LEMMA AloneActs ==
  ASSUME IInv, NEW r \in Registrations, [Next]_vars, ~overlapped', ~switched', ~Kill
  PROVE  /\ ~overlapped /\ ~switched
         /\ \/ ActionOf(r)
            \/ UNCHANGED vars
            \/ ~Busy(r) /\ reg'[r] = reg[r]
            \/ reg[r].phase = "unborn" /\ reg'[r].outcome # "success"
<1>1. CASE UNCHANGED vars
  BY <1>1 DEF vars
<1>2. ASSUME NEW p \in Registrations, NEW user \in Users, NEW token \in Tokens \cup {NoToken},
             NEW sandbox \in Sandboxes, RegisterDevice(p, user, token, sandbox)
      PROVE  /\ ~overlapped /\ ~switched
             /\ \/ ~Busy(r) /\ reg'[r] = reg[r]
                \/ reg[r].phase = "unborn" /\ reg'[r].outcome # "success"
  <2>1. ~overlapped /\ ~switched /\ ~Busy(r)
    BY <1>2 DEF RegisterDevice
  <2>2. p # r => reg'[r] = reg[r]
    BY <1>2 DEF RegisterDevice, Set, IInv, TypeOK
  <2>3. p = r => reg[r].phase = "unborn" /\ reg'[r].outcome # "success"
    BY <1>2 DEF RegisterDevice, Set, IInv, TypeOK, Unborn
  <2> QED
    BY <2>1, <2>2, <2>3
<1>3. ASSUME NEW p \in Registrations, ActionOf(p)
      PROVE  /\ ~overlapped /\ ~switched
             /\ ActionOf(r) \/ (~Busy(r) /\ reg'[r] = reg[r])
  <2>1. ~overlapped /\ ~switched /\ Busy(p) /\ (r # p => reg'[r] = reg[r])
    BY <1>3, ActionIs
  <2>2. Busy(r) => r = p
    BY <2>1 DEF IInv, AloneInv
  <2> QED
    BY <1>3, <2>1, <2>2
<1> QED
  BY <1>1, <1>2, <1>3 DEF Next, ActionOf

\* The last step of a chain at work leaves the report and nothing else.
LEMMA LastStep ==
  ASSUME IInv, NEW r \in Registrations, HandleBinding(r) \/ HandleBound(r)
  PROVE  /\ UNCHANGED server /\ Busy(r)'
         /\ reg'[r].token = reg[r].token /\ reg'[r].user = reg[r].user
         /\ reg'[r].sandbox = reg[r].sandbox
<1> DEFINE me == reg[r]
<1>1. me \in Progress /\ TypeOK
  BY DEF IInv, TypeOK
<1>2. UNCHANGED server
  BY DEF HandleBinding, HandleBound
<1>3. \/ Report(r, "success") \/ Report(r, "error")
      \/ Set(r, [Ask(me, "updateBinding", NoSid) EXCEPT !.binding.address = me.token])
      \/ Set(r, Ask(me, "createBinding", NoSid))
  BY DEF HandleBinding, HandleBound
<1>4. ASSUME NEW rec, Set(r, rec) PROVE reg'[r] = rec
  BY <1>1, <1>4, SetIs
<1>5. CASE Report(r, "success") \/ Report(r, "error")
  BY <1>1, <1>2, <1>4, <1>5 DEF Report, Busy, Progress
<1>6. CASE \/ Set(r, [Ask(me, "updateBinding", NoSid) EXCEPT !.binding.address = me.token])
           \/ Set(r, Ask(me, "createBinding", NoSid))
  BY <1>1, <1>2, <1>4, <1>6 DEF Ask, Busy, Progress
<1> QED
  BY <1>3, <1>5, <1>6

\* A registration is over once the main queue has come to its report.
LEMMA DeliveryIs ==
  ASSUME IInv, NEW r \in Registrations
  PROVE  /\ Delivered(r) => reg'[r].phase = "over" /\ reg'[r].outcome = reg[r].outcome
         /\ HandlerGone(r) => reg'[r].phase = "over" /\ reg'[r].outcome = "none"
<1>1. TypeOK
  BY DEF IInv
<1>2. \A out : Over(reg[r], out).phase = "over" /\ Over(reg[r], out).outcome = out
  BY DEF Over, Unborn
<1>3. ASSUME Delivered(r) PROVE reg'[r] = Over(reg[r], reg[r].outcome)
  BY <1>1, <1>3, SetIs DEF Delivered
<1>4. ASSUME HandlerGone(r) PROVE reg'[r] = Over(reg[r], "none")
  BY <1>1, <1>4, SetIs DEF HandlerGone
<1> QED
  BY <1>2, <1>3, <1>4

\* While the report of success waits in the main queue it stays true.
ReportInv ==
    ~overlapped /\ ~switched =>
        \A r \in Registrations :
            reg[r].phase = "reporting" /\ reg[r].outcome = "success" => Bound(r)

LEMMA ReportStays ==
  ASSUME IInv, ReportInv, [Next]_vars
  PROVE  ReportInv'
<1> SUFFICES ASSUME ~overlapped', ~switched', NEW r \in Registrations,
                    reg'[r].phase = "reporting", reg'[r].outcome = "success"
             PROVE  Bound(r)'
  BY DEF ReportInv
<1>1. ~Kill
  <2>1. Over(reg[r], "none").phase = "over"
    BY DEF Over, Unborn
  <2>2. reg[r].phase = "asking" => [reg[r] EXCEPT !.phase = "orphan"].phase = "orphan"
    BY DEF IInv, TypeOK, Progress
  <2> QED
    BY <2>1, <2>2 DEF Kill
<1>2. /\ ~overlapped /\ ~switched
      /\ ActionOf(r) \/ UNCHANGED vars
  BY <1>1, AloneActs DEF Busy, IInv, ChainInv, Chained, ChainedIn
<1>3. CASE UNCHANGED vars
  BY <1>2, <1>3 DEF ReportInv, Bound, vars, server
<1>4. CASE ActionOf(r)
  <2>1. ~Delivered(r) /\ ~HandlerGone(r)
    BY DeliveryIs
  <2>2. Working(r)
    BY <1>4, <2>1 DEF ActionOf, Handle, LookUp, ServerHandles, RequestFails, HandleAccount,
         HandleClient, HandleApplication, HandleCreateApplication, HandleCredentials,
         HandleCreateCredentials, HandleBinding, HandleBound, Answered, Working
  <2>3. HandleBinding(r) \/ HandleBound(r)
    BY <1>4, <2>1, <2>2, ChainNoSuccess DEF ActionOf, Handle
  <2>4. Bound(r)
    BY <1>2, <2>2, <2>3, HandleBindingSuccess, HandleBoundSuccess
  <2>5. /\ apps' = apps /\ creds' = creds /\ bindings' = bindings
        /\ reg'[r].token = reg[r].token /\ reg'[r].user = reg[r].user
        /\ reg'[r].sandbox = reg[r].sandbox
    BY <2>3, LastStep DEF server
  <2> QED
    BY <2>4, <2>5 DEF Bound
<1> QED
  BY <1>2, <1>3, <1>4

\* When a registration that nobody interfered with reports success, the server
\* pushes to its token what is for its user, also by the time the main queue
\* tells the delegate.
THEOREM SuccessBound == Spec => SuccessMeansBound
<1> DEFINE P == \A r \in Registrations :
                  (Busy(r) /\ ~Busy(r)' /\ reg'[r].outcome = "success") /\ ~overlapped /\ ~switched
                      => Bound(r)
<1>1. Init => ReportInv
  BY DEF Init, ReportInv, Unborn
<1>2. Spec => []ReportInv
  BY <1>1, ReportStays, PushInductive, PTL DEF Spec
<1>3. IInv /\ ReportInv /\ [Next]_vars => P
  <2> SUFFICES ASSUME IInv, ReportInv, [Next]_vars, NEW r \in Registrations, Busy(r), ~Busy(r)',
                      reg'[r].outcome = "success", ~overlapped, ~switched
               PROVE  Bound(r)
    OBVIOUS
  <2>1. reg[r] \in Progress
    BY DEF IInv, TypeOK
  <2>2. ~Kill
    <3>1. Over(reg[r], "none").outcome = "none"
      BY DEF Over, Unborn
    <3>2. [reg[r] EXCEPT !.phase = "orphan"].phase = "orphan"
      BY <2>1 DEF Progress
    <3> QED
      BY <3>1, <3>2 DEF Kill, Busy
  <2>3. ASSUME NEW p \in Registrations, NEW user \in Users, NEW token \in Tokens \cup {NoToken},
               NEW sandbox \in Sandboxes, RegisterDevice(p, user, token, sandbox)
        PROVE  FALSE
    BY <2>3 DEF RegisterDevice, Set, Busy, IInv, TypeOK
  <2>4. ~UNCHANGED vars
    BY DEF vars, Busy
  <2>5. PICK p \in Registrations : ActionOf(p)
    BY <2>2, <2>3, <2>4 DEF Next, ActionOf
  <2>6. p = r
    BY <2>5, ActionIs DEF IInv, AloneInv
  <2>7. ~HandlerGone(r)
    BY DeliveryIs
  <2>8. CASE Delivered(r)
    <3>1. reg'[r].outcome = reg[r].outcome
      BY <2>8, DeliveryIs
    <3> QED
      BY <2>8, <3>1 DEF Delivered, ReportInv
  <2>9. CASE ~Delivered(r)
    <3>1. Working(r)
      BY <2>5, <2>6, <2>7, <2>9 DEF ActionOf, Handle, LookUp, ServerHandles, RequestFails,
           HandleAccount, HandleClient, HandleApplication, HandleCreateApplication,
           HandleCredentials, HandleCreateCredentials, HandleBinding, HandleBound, Answered, Working
    <3>2. HandleBinding(r) \/ HandleBound(r)
      BY <2>5, <2>6, <2>7, <2>9, <3>1, ChainNoSuccess DEF ActionOf, Handle
    <3> QED
      BY <3>2, LastStep
  <2> QED
    BY <2>8, <2>9
<1> HIDE DEF P
<1>4. Spec => [][P]_vars
  BY <1>2, <1>3, PushInductive, PTL DEF Spec
<1>5. [][P]_vars <=> SuccessMeansBound
  BY DEF P, SuccessMeansBound
<1> QED
  BY <1>4, <1>5
=============================================================================
