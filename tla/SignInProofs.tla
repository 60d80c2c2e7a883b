---------------------------- MODULE SignInProofs ----------------------------
(***************************************************************************)
(* The sign-in page's handles are what it says they are: the types, the    *)
(* four invariants and the action property of SignIn, for any number of    *)
(* requests under way and of handles.                                      *)
(*                                                                         *)
(* SignInInv follows a handle from the answer that brings it, over the     *)
(* step that holds it, to the requests that present it: an answer's handle *)
(* is in nobody's hands yet, so that two logins under way never come to    *)
(* hold the same one.                                                      *)
(***************************************************************************)
EXTENDS SignIn, TLAPS

\* The handles the identity provider has given out.
Issued(h) == pending[h].st # "unissued"

\* An answer that names the next step of a login carries its handle.
Carries(c) == c.at = "back" /\ c.answer.says \in Needs

\* A 2xx means what the client reads in it: only an answer that names a step,
\* a wait, or nothing that can be read comes without a session.
Honest(c) ==
  /\ c.answer.ok /\ c.kind \in {"login", "change", "finish", "mfa", "complete"} =>
       c.answer.session \/ c.answer.says \in Needs \cup {"waiting", "cut"}
  /\ c.answer.says = "waiting" => c.kind = "login"
  /\ c.answer.says = "session" => c.answer.session

\* What a request presents was issued for it, and what an answer carries was
\* issued for the step it names and never asked about.
Presents(c) ==
  /\ c.handle # None <=> c.kind \in {"change", "mfa", "initiate", "complete"}
  /\ c.handle # None => Issued(c.handle) /\ pending[c.handle].need = About[c.kind]
  /\ c.kind = "initiate" => asked[c.handle] >= 1
Brings(c) ==
  Carries(c) =>
    /\ c.kind \in {"login", "change", "finish"} /\ c.answer.handle # None
    /\ Issued(c.answer.handle) /\ pending[c.answer.handle].need = c.answer.says
    /\ asked[c.answer.handle] = 0

\* No two requests of a kind present a handle, no two answers carry one, and
\* what an answer carries no request presents.
Apart(c, d) ==
  /\ c.handle # None /\ c.handle = d.handle => c.kind # d.kind
  /\ Carries(c) /\ Carries(d) => c.answer.handle # d.answer.handle
NewTo(c, d) == Carries(c) => d.handle # c.answer.handle

CallsOK ==
  /\ \A s \in Slots : Honest(calls[s]) /\ Presents(calls[s]) /\ Brings(calls[s])
  /\ \A s, t \in Slots : NewTo(calls[s], calls[t]) /\ (s # t => Apart(calls[s], calls[t]))

\* What LoginFlow holds was issued for the step it is held for, and is no
\* handle an answer under way carries.
HeldOK ==
  /\ \A n \in Needs : held[n] # None => Issued(held[n]) /\ pending[held[n]].need = n
  /\ \A n \in Needs : step = StepFor[n] => held[n] # None
  /\ \A s \in Slots, n \in Needs : Carries(calls[s]) => held[n] # calls[s].answer.handle

\* The mounted form knows the submit that presents the handle of its step.
SubmitOK ==
  \A n \in Needs : step = StepFor[n] =>
    \A s \in Slots : calls[s].kind = Submits[step] /\ calls[s].handle = held[n] => form.submit = s

\* The enrolment form has asked for the handle it says it has, and for no
\* other; it shows recovery codes of an answer that came with a session.
EnrolOK ==
  /\ form.started # None => asked[form.started] >= 1
  /\ step = "MFA_ENROLL" /\ form.started # held["enroll"] => asked[held["enroll"]] = 0
  /\ LoadingIsAnswered
  /\ form.phase = "recovery" => form.role.session

HistoryOK ==
  /\ OneInitiate /\ SuccessIsSession
  /\ \A h \in Handles : asked[h] >= 1 => Issued(h)

SignInInv == TypeOK /\ CallsOK /\ HeldOK /\ SubmitOK /\ EnrolOK /\ HistoryOK

-----------------------------------------------------------------------------
(* Values and types.                                                       *)

FormStates ==
  [submit : Slots \cup {None}, started : Handles \cup {None}, listens : Slots \cup {None},
   phase : {"loading", "display", "recovery", "error"}, codes : Handles \cup {None}, role : Answers]
Pendings == [Handles -> [need : Needs \cup {"none"}, st : {"unissued", "open", "minted", "spent"}]]

\* The type invariant, in the pieces the steps change.
PageTyped ==
  /\ step \in Steps /\ held \in [Needs -> Handles \cup {None}]
  /\ mixed \in BOOLEAN /\ notice \in {"none", "error"} /\ form \in FormStates
IdpTyped ==
  pending \in Pendings /\ sendsCodes \in BOOLEAN
PastTyped ==
  asked \in [Handles -> Nat] /\ entered \in Entries /\ unseen \subseteq Handles

\* The type invariant falls into its pieces,
LEMMA Typed ==
  ASSUME TypeOK
  PROVE  PageTyped /\ calls \in [Slots -> Requests] /\ IdpTyped /\ PastTyped
BY DEF TypeOK, PageTyped, IdpTyped, PastTyped, FormStates, Pendings

\* ... and they make it again.
LEMMA TypedNext ==
  ASSUME PageTyped', calls' \in [Slots -> Requests], IdpTyped', PastTyped'
  PROVE  TypeOK'
BY DEF TypeOK, PageTyped, IdpTyped, PastTyped, FormStates, Pendings

\* No handle is no handle.
LEMMA NoneIsNone == None \notin Handles /\ None \notin Slots
BY SlotAssumption DEF Handles, None

\* The steps, the requests of their forms, and what these are about.
LEMMA StepsAre ==
  /\ \A n \in Needs :
       /\ StepFor[n] \in Forms /\ StepFor[n] \in Steps
       /\ StepFor[n] \notin {"EMAIL", "SSO_SELECT", "PASSWORD", "console", "provider"}
       /\ Submits[StepFor[n]] \in {"change", "mfa", "complete"}
       /\ About[Submits[StepFor[n]]] = n
       /\ StepFor[n] = "MFA_ENROLL" => n = "enroll"
       /\ \A m \in Needs : StepFor[m] = StepFor[n] => m = n
  /\ StepFor["enroll"] = "MFA_ENROLL" /\ "enroll" \in Needs
  /\ About["initiate"] = "enroll"
  /\ {"EMAIL", "SSO_SELECT", "PASSWORD", "console", "provider"} \subseteq Steps
  /\ Submits["PASSWORD"] = "login"
  /\ \A f \in Forms : f = "PASSWORD" \/ \E n \in Needs : f = StepFor[n]
<1>1. Needs = {"change", "mfa", "enroll"}
  BY DEF Needs
<1>2. /\ StepFor["change"] = "PASSWORD_CHANGE" /\ StepFor["mfa"] = "MFA" /\ StepFor["enroll"] = "MFA_ENROLL"
  BY DEF StepFor
<1>3. /\ Submits["PASSWORD_CHANGE"] = "change" /\ Submits["MFA"] = "mfa"
      /\ Submits["MFA_ENROLL"] = "complete" /\ Submits["PASSWORD"] = "login"
  BY DEF Submits
<1>4. /\ About["change"] = "change" /\ About["mfa"] = "mfa" /\ About["complete"] = "enroll"
      /\ About["initiate"] = "enroll"
  BY DEF About
<1>5. \A n \in Needs : StepFor[n] \in Forms /\ StepFor[n] \in Steps
  BY DEF Forms, Steps
<1>6. \A f \in Forms : f = "PASSWORD" \/ \E n \in Needs : f = StepFor[n]
  BY DEF Forms
<1>7. {"EMAIL", "SSO_SELECT", "PASSWORD", "console", "provider"} \subseteq Steps
  BY DEF Steps, Forms
<1> QED
  BY <1>1, <1>2, <1>3, <1>4, <1>5, <1>6, <1>7

\* Each step of a login is for one need.
LEMMA StepsDiffer == \A n, m \in Needs : StepFor[m] = StepFor[n] => m = n
<1> SUFFICES ASSUME NEW n \in Needs, NEW m \in Needs, StepFor[m] = StepFor[n] PROVE m = n
  OBVIOUS
<1> QED
  BY StepsAre

\* The blank answer, the idle slot, and a request that was just sent.
LEMMA BlankIs ==
  /\ Blank \in Answers /\ ~Blank.ok /\ Blank.says = "none" /\ ~Blank.session
  /\ Idle \in Requests /\ Idle.kind = "none" /\ Idle.handle = None
  /\ Idle.answer = Blank /\ Idle.at = "idle"
<1>1. Blank \in Answers /\ ~Blank.ok /\ Blank.says = "none" /\ ~Blank.session
  BY DEF Blank, Answers, Says
<1>2. /\ Idle \in Requests /\ Idle.kind = "none" /\ Idle.handle = None
      /\ Idle.answer = Blank /\ Idle.at = "idle"
  BY <1>1 DEF Idle, Requests
<1> QED
  BY <1>1, <1>2

\* What the passkey ceremony sends or opens presents nothing.
LEMMA PasskeySentIs ==
  ASSUME NEW kind \in PasskeySteps, NEW at \in {"out", "back"}, NEW c,
         c = [Idle EXCEPT !.kind = kind, !.at = at]
  PROVE  c \in Requests /\ c.kind = kind /\ c.handle = None /\ c.answer = Blank
BY BlankIs DEF Idle, Requests, Kinds, PasskeySteps

\* One slot changes.
LEMMA OneSlot ==
  ASSUME NEW S, NEW cs \in [Slots -> S], NEW s \in Slots, NEW c \in S, NEW now, now = [cs EXCEPT ![s] = c]
  PROVE  /\ now \in [Slots -> S] /\ now[s] = c
         /\ \A t \in Slots : t # s => now[t] = cs[t]
OBVIOUS

-----------------------------------------------------------------------------
(* The requests.                                                           *)

\* A request that presents nothing and has no answer yet, or none any more.
Mute(c) ==
  c.handle = None /\ c.kind \notin {"change", "mfa", "initiate", "complete"} /\ c.answer = Blank

\* Such a request disturbs nothing that is said of requests.
LEMMA MuteIs ==
  ASSUME NEW c, Mute(c)
  PROVE  /\ Honest(c) /\ Presents(c) /\ Brings(c) /\ Presents(c)' /\ Brings(c)' /\ ~Carries(c)
         /\ \A d : NewTo(c, d) /\ Apart(c, d) /\ (d.handle # None => Apart(d, c))
<1>1. ~c.answer.ok /\ c.answer.says = "none"
  BY BlankIs DEF Mute
<1>2. ~Carries(c)
  BY <1>1 DEF Carries, Needs
<1>3. Honest(c)
  BY <1>1 DEF Honest
<1>4. Presents(c) /\ Presents(c)'
  BY DEF Mute, Presents
<1>5. Brings(c) /\ Brings(c)'
  BY <1>2 DEF Brings
<1>6. ASSUME NEW d PROVE NewTo(c, d) /\ Apart(c, d) /\ (d.handle # None => Apart(d, c))
  BY <1>2 DEF Mute, NewTo, Apart
<1> QED
  BY <1>2, <1>3, <1>4, <1>5, <1>6

\* The identity provider takes no handle back, and gives none a new purpose.
PendingGrows == \A h \in Handles : Issued(h) => Issued(h)' /\ pending'[h].need = pending[h].need

\* It does neither when it changes nothing.
LEMMA PendingStays ==
  ASSUME UNCHANGED pending
  PROVE  PendingGrows
BY DEF PendingGrows, Issued

\* Requests end or are sent that present nothing, and no other changes.
LEMMA CallsFall ==
  ASSUME calls \in [Slots -> Requests], CallsOK, UNCHANGED <<pending, asked>>,
         \A s \in Slots : calls'[s] = calls[s] \/ Mute(calls'[s])
  PROVE  CallsOK'
<1>1. ASSUME NEW s \in Slots
      PROVE  Honest(calls'[s]) /\ Presents(calls[s])' /\ Brings(calls[s])'
  <2>1. PICK c : c = calls'[s]
    OBVIOUS
  <2>2 CASE Mute(c)
    <3>1. Honest(c) /\ Presents(c)' /\ Brings(c)'
      BY <2>2, MuteIs
    <3> QED
      BY <2>1, <3>1 DEF Presents, Brings
  <2>3 CASE c = calls[s]
    <3>1. Honest(c) /\ Presents(c) /\ Brings(c)
      BY <2>3 DEF CallsOK
    <3>2. Presents(c)' /\ Brings(c)'
      BY <3>1 DEF Presents, Brings, Issued
    <3> QED
      BY <2>1, <3>1, <3>2 DEF Presents, Brings
  <2> QED
    BY <2>1, <2>2, <2>3
<1>2. ASSUME NEW s \in Slots, NEW t \in Slots
      PROVE  NewTo(calls'[s], calls'[t]) /\ (s # t => Apart(calls'[s], calls'[t]))
  <2>1. PICK c, d : c = calls'[s] /\ d = calls'[t]
    OBVIOUS
  <2>2 CASE Mute(c)
    BY <2>1, <2>2, MuteIs
  <2>3 CASE c = calls[s] /\ Mute(d)
    <3>1. ~Carries(d) /\ d.handle = None
      BY <2>3, MuteIs DEF Mute
    <3>2. NewTo(c, d)
      <4>1. Brings(c)
        BY <2>3 DEF CallsOK
      <4> QED
        BY <3>1, <4>1 DEF NewTo, Brings
    <3>3. Apart(c, d)
      BY <3>1 DEF Apart
    <3> QED
      BY <2>1, <3>2, <3>3
  <2>4 CASE c = calls[s] /\ d = calls[t]
    BY <2>1, <2>4 DEF CallsOK
  <2> QED
    BY <2>1, <2>2, <2>3, <2>4
<1> QED
  BY <1>1, <1>2 DEF CallsOK

\* A request that presents a handle is sent.
LEMMA CallsSend ==
  ASSUME calls \in [Slots -> Requests], CallsOK, UNCHANGED pending,
         asked \in [Handles -> Nat], asked' \in [Handles -> Nat],
         NEW s \in Slots, NEW c \in Requests, calls' = [calls EXCEPT ![s] = c],
         NEW h \in Handles, c.handle = h, c.answer = Blank,
         c.kind \in {"change", "mfa", "initiate", "complete"},
         Issued(h), pending[h].need = About[c.kind], c.kind = "initiate" => asked'[h] >= 1,
         \A x \in Handles : asked'[x] = asked[x] \/ (x = h /\ asked'[x] >= 1),
         \A t \in Slots : calls[t].handle = h => calls[t].kind # c.kind,
         \A t \in Slots : Carries(calls[t]) => calls[t].answer.handle # h
  PROVE  CallsOK'
<1>1. calls'[s] = c /\ \A t \in Slots : t # s => calls'[t] = calls[t]
  BY OneSlot
<1>2. ~Carries(c) /\ Honest(c)
  BY BlankIs DEF Carries, Honest, Needs
<1>3. Presents(c)' /\ Brings(c)'
  BY <1>2, NoneIsNone DEF Presents, Brings, Issued
<1>4. ASSUME NEW t \in Slots
      PROVE  Honest(calls'[t]) /\ Presents(calls[t])' /\ Brings(calls[t])'
  <2>1 CASE t = s
    BY <1>1, <1>2, <1>3, <2>1 DEF Presents, Brings
  <2>2 CASE t # s
    <3>1. PICK d : d = calls[t]
      OBVIOUS
    <3>2. d \in Requests /\ calls'[t] = d
      BY <1>1, <2>2, <3>1
    <3>3. Honest(d) /\ Presents(d) /\ Brings(d) /\ (Carries(d) => d.answer.handle # h)
      BY <3>1 DEF CallsOK
    <3>4. d.handle \in Handles \cup {None} /\ d.answer.handle \in Handles \cup {None}
      BY <3>2 DEF Requests, Answers
    <3>5. Presents(d)'
      BY <3>3, <3>4 DEF Presents, Issued
    <3>6. Brings(d)'
      BY <3>3, <3>4 DEF Brings, Issued
    <3> QED
      BY <3>2, <3>3, <3>5, <3>6 DEF Presents, Brings
  <2> QED
    BY <2>1, <2>2
<1>5. ASSUME NEW t \in Slots, NEW u \in Slots
      PROVE  NewTo(calls'[t], calls'[u]) /\ (t # u => Apart(calls'[t], calls'[u]))
  <2>1. PICK d, e : d = calls[t] /\ e = calls[u]
    OBVIOUS
  <2>2. NewTo(d, e) /\ (t # u => Apart(d, e)) /\ (Carries(d) => d.answer.handle # h)
        /\ (d.handle = h => d.kind # c.kind) /\ (e.handle = h => e.kind # c.kind)
    BY <2>1 DEF CallsOK
  <2>3 CASE t = s
    <3>1. calls'[t] = c /\ calls'[u] \in {c, e} /\ (t # u => calls'[u] = e)
      BY <1>1, <2>1, <2>3
    <3>2. \A x : NewTo(c, x)
      BY <1>2 DEF NewTo
    <3>3. Apart(c, e)
      BY <1>2, <2>2 DEF Apart
    <3> QED
      BY <3>1, <3>2, <3>3
  <2>4 CASE t # s /\ u = s
    <3>1. calls'[t] = d /\ calls'[u] = c
      BY <1>1, <2>1, <2>4
    <3>2. NewTo(d, c)
      BY <2>2 DEF NewTo
    <3>3. Apart(d, c)
      BY <1>2, <2>2 DEF Apart
    <3> QED
      BY <3>1, <3>2, <3>3
  <2>5 CASE t # s /\ u # s
    BY <1>1, <2>1, <2>2, <2>5
  <2> QED
    BY <2>3, <2>4, <2>5
<1> QED
  BY <1>4, <1>5 DEF CallsOK

\* A request is answered, or its answer is torn.
LEMMA CallsAnswer ==
  ASSUME TypeOK, CallsOK, HistoryOK, PendingGrows, UNCHANGED asked,
         NEW s \in Slots, NEW c \in Requests, calls' = [calls EXCEPT ![s] = c],
         c.kind = calls[s].kind, c.handle = calls[s].handle, Honest(c),
         Carries(c) => /\ c.kind \in {"login", "change", "finish"} /\ c.answer.handle # None
                       /\ ~Issued(c.answer.handle)
                       /\ Issued(c.answer.handle)' /\ pending'[c.answer.handle].need = c.answer.says
  PROVE  CallsOK'
<1>0. /\ calls \in [Slots -> Requests] /\ asked \in [Handles -> Nat]
      /\ \A h \in Handles : asked[h] >= 1 => Issued(h)
  BY Typed DEF PastTyped, HistoryOK
<1>1. calls'[s] = c /\ \A t \in Slots : t # s => calls'[t] = calls[t]
  BY <1>0, OneSlot
<1>a. ASSUME NEW d \in Requests, Presents(d) PROVE Presents(d)'
  <2>1. d.handle \in Handles \cup {None}
    BY DEF Requests
  <2> QED
    BY <1>a, <2>1 DEF Presents, PendingGrows
<1>b. ASSUME NEW d \in Requests, Brings(d) PROVE Brings(d)'
  <2>1. d.answer.handle \in Handles \cup {None}
    BY DEF Requests, Answers
  <2> QED
    BY <1>b, <2>1 DEF Brings, PendingGrows
<1>2. Presents(c)'
  <2>1. PICK d : d = calls[s]
    OBVIOUS
  <2>2. d \in Requests /\ Presents(d)
    BY <1>0, <2>1 DEF CallsOK
  <2>3. Presents(d)'
    BY <1>a, <2>2
  <2> QED
    BY <2>1, <2>3 DEF Presents
<1>3. c.answer.handle \in Handles \cup {None}
  BY DEF Requests, Answers
<1>4. Brings(c)'
  <2> SUFFICES ASSUME Carries(c) PROVE asked[c.answer.handle] = 0
    BY DEF Brings
  <2>1. asked[c.answer.handle] \in Nat /\ ~(asked[c.answer.handle] >= 1)
    BY <1>0, <1>3
  <2> QED
    BY <2>1
<1>5. ASSUME NEW t \in Slots
      PROVE  Honest(calls'[t]) /\ Presents(calls[t])' /\ Brings(calls[t])'
  <2>1. PICK d : d = calls'[t]
    OBVIOUS
  <2>2 CASE t = s
    BY <1>1, <1>2, <1>4, <2>2 DEF Presents, Brings
  <2>3 CASE t # s
    <3>1. d = calls[t] /\ d \in Requests /\ Honest(d) /\ Presents(d) /\ Brings(d)
      BY <1>0, <1>1, <2>1, <2>3 DEF CallsOK
    <3>2. Presents(d)' /\ Brings(d)'
      BY <1>a, <1>b, <3>1
    <3> QED
      BY <2>1, <3>1, <3>2 DEF Presents, Brings
  <2> QED
    BY <2>2, <2>3
<1>6. ASSUME NEW t \in Slots, Carries(c)
      PROVE  /\ calls[t].handle # c.answer.handle
             /\ Carries(calls[t]) => calls[t].answer.handle # c.answer.handle
  <2>1. PICK d : d = calls[t]
    OBVIOUS
  <2>2. Presents(d) /\ Brings(d) /\ ~Issued(c.answer.handle) /\ c.answer.handle # None
    BY <1>6, <2>1 DEF CallsOK
  <2> QED
    BY <2>1, <2>2 DEF Presents, Brings
<1>7. ASSUME NEW t \in Slots, NEW u \in Slots
      PROVE  NewTo(calls'[t], calls'[u]) /\ (t # u => Apart(calls'[t], calls'[u]))
  <2>1. PICK d, e : d = calls[t] /\ e = calls[u]
    OBVIOUS
  <2>2. NewTo(d, e) /\ (t # u => Apart(d, e))
    BY <2>1 DEF CallsOK
  <2>3. Carries(c) => /\ d.handle # c.answer.handle /\ e.handle # c.answer.handle
                      /\ Carries(d) => d.answer.handle # c.answer.handle
                      /\ Carries(e) => e.answer.handle # c.answer.handle
    BY <1>6, <2>1
  <2>4 CASE t = s /\ u = s
    <3>1. calls'[t] = c /\ calls'[u] = c /\ c.handle = d.handle
      BY <1>1, <2>1, <2>4
    <3> QED
      BY <2>3, <2>4, <3>1 DEF NewTo
  <2>5 CASE t = s /\ u # s
    <3>1. calls'[t] = c /\ calls'[u] = e /\ c.handle = d.handle /\ c.kind = d.kind
      BY <1>1, <2>1, <2>5
    <3>2. NewTo(c, e)
      BY <2>3 DEF NewTo
    <3>3. Apart(c, e)
      BY <2>2, <2>3, <2>5, <3>1 DEF Apart
    <3> QED
      BY <3>1, <3>2, <3>3
  <2>6 CASE t # s /\ u = s
    <3>1. calls'[t] = d /\ calls'[u] = c /\ c.handle = e.handle /\ c.kind = e.kind
      BY <1>1, <2>1, <2>6
    <3>2. NewTo(d, c)
      BY <2>2, <3>1 DEF NewTo
    <3>3. Apart(d, c)
      BY <2>2, <2>3, <2>6, <3>1 DEF Apart
    <3> QED
      BY <3>1, <3>2, <3>3
  <2>7 CASE t # s /\ u # s
    BY <1>1, <2>1, <2>2, <2>7
  <2> QED
    BY <2>4, <2>5, <2>6, <2>7
<1> QED
  BY <1>5, <1>7 DEF CallsOK

-----------------------------------------------------------------------------
(* The page.                                                               *)

\* A form just mounted has no submit and no handle.
LEMMA FreshIs ==
  /\ Fresh \in FormStates /\ Fresh.submit = None /\ Fresh.started = None
  /\ Fresh.listens = None /\ Fresh.phase = "loading"
BY BlankIs DEF Fresh, FormStates

\* A form whose submit may be over, and which is the same otherwise.
SameForm(f) ==
  /\ f.started = form.started /\ f.listens = form.listens
  /\ f.phase = form.phase /\ f.role = form.role

\* A submit's end changes nothing else of its form.
LEMMA ReleasedIs ==
  ASSUME form \in FormStates, NEW s, NEW f, f = Released(s)
  PROVE  f \in FormStates /\ SameForm(f) /\ f.submit = (IF form.submit = s THEN None ELSE form.submit)
BY DEF FormStates, Released, SameForm

\* What an answer carries, it carried before the step, or it is new.
NothingNew ==
  \A s \in Slots : Carries(calls'[s]) =>
    \/ ~Issued(calls'[s].answer.handle)
    \/ Carries(calls[s]) /\ calls[s].answer.handle = calls'[s].answer.handle

\* What LoginFlow holds stays right when it takes no new handle.
LEMMA HeldStays ==
  ASSUME HeldOK, CallsOK', PendingGrows, NothingNew, held \in [Needs -> Handles \cup {None}],
         \A n \in Needs : held'[n] \in {held[n], None},
         \A n \in Needs : step' = StepFor[n] => step = step' /\ held'[n] = held[n]
  PROVE  HeldOK'
<1>1. ASSUME NEW n \in Needs, held'[n] # None
      PROVE  Issued(held[n])' /\ (pending[held[n]].need = n)'
  <2>1. PICK h : h = held[n]
    OBVIOUS
  <2>2. h \in Handles /\ Issued(h) /\ pending[h].need = n /\ held'[n] = h
    BY <1>1, <2>1, NoneIsNone DEF HeldOK
  <2>3. Issued(h)' /\ pending'[h].need = n
    BY <2>2 DEF PendingGrows
  <2> QED
    BY <2>2, <2>3 DEF Issued
<1>2. ASSUME NEW n \in Needs, step' = StepFor[n] PROVE held'[n] # None
  BY <1>2 DEF HeldOK
<1>3. ASSUME NEW s \in Slots, NEW n \in Needs, Carries(calls'[s])
      PROVE  held'[n] # calls'[s].answer.handle
  <2>1. PICK c : c = calls'[s]
    OBVIOUS
  <2>2. c.answer.handle # None
    <3>1. Brings(calls[s])'
      BY DEF CallsOK
    <3> QED
      BY <1>3, <2>1, <3>1 DEF Brings
  <2>3. held[n] # c.answer.handle
    BY <1>3, <2>1, <2>2 DEF NothingNew, HeldOK
  <2> QED
    BY <2>1, <2>2, <2>3
<1> QED
  BY <1>1, <1>2, <1>3 DEF HeldOK

\* The step stays, with its handle: submits end, and no initiate does.
LEMMA PageStays ==
  ASSUME TypeOK, HeldOK, SubmitOK, EnrolOK, CallsOK', PendingGrows, NothingNew,
         UNCHANGED <<step, held, asked>>, SameForm(form'),
         \A s \in Slots : form.submit = s => form'.submit = s \/ calls'[s].handle = None,
         \A s \in Slots : \/ calls'[s].kind = calls[s].kind /\ calls'[s].handle = calls[s].handle
                          \/ /\ calls'[s].handle = None
                             /\ calls[s].kind # "initiate" \/ form.listens # s
  PROVE  HeldOK' /\ SubmitOK' /\ EnrolOK'
<1>a. held \in [Needs -> Handles \cup {None}] /\ form \in FormStates
  BY Typed DEF PageTyped
<1>1. HeldOK'
  BY <1>a, HeldStays
<1>2. SubmitOK'
  <2> SUFFICES ASSUME NEW n \in Needs, step = StepFor[n], NEW s \in Slots,
                      calls'[s].kind = Submits[step], calls'[s].handle = held[n]
               PROVE  form'.submit = s
    BY DEF SubmitOK
  <2>1. held[n] # None
    BY DEF HeldOK
  <2>2. calls[s].kind = Submits[step] /\ calls[s].handle = held[n]
    BY <2>1
  <2>3. form.submit = s
    BY <2>2 DEF SubmitOK
  <2> QED
    BY <2>1, <2>3
<1>3. EnrolOK'
  <2>1. LoadingIsAnswered'
    <3> SUFFICES ASSUME step = "MFA_ENROLL", form.phase = "loading", form.started = held["enroll"]
                 PROVE  /\ form'.listens # None
                        /\ calls'[form'.listens].kind = "initiate"
                        /\ calls'[form'.listens].handle = held["enroll"]
      BY DEF LoadingIsAnswered, SameForm
    <3>1. PICK s : s = form.listens
      OBVIOUS
    <3>2. s # None /\ calls[s].kind = "initiate" /\ calls[s].handle = held["enroll"]
      BY <3>1 DEF EnrolOK, LoadingIsAnswered
    <3>3. s \in Slots
      BY <1>a, <3>1, <3>2 DEF FormStates
    <3>4. calls'[s].kind = "initiate" /\ calls'[s].handle = held["enroll"]
      BY <3>1, <3>2, <3>3
    <3> QED
      BY <3>1, <3>2, <3>4 DEF SameForm
  <2> QED
    BY <2>1 DEF EnrolOK, SameForm
<1> QED
  BY <1>1, <1>2, <1>3

\* A step without a handle is shown, or LoginFlow goes.
LEMMA PageLeaves ==
  ASSUME TypeOK, HeldOK, EnrolOK, CallsOK', PendingGrows, NothingNew, UNCHANGED asked,
         step' \in {"EMAIL", "SSO_SELECT", "PASSWORD", "console", "provider"},
         held' \in {held, [n \in Needs |-> None]}, form' = Fresh \/ SameForm(form')
  PROVE  HeldOK' /\ SubmitOK' /\ EnrolOK'
<1>a. held \in [Needs -> Handles \cup {None}]
  BY Typed DEF PageTyped
<1>b. \A n \in Needs : step' # StepFor[n]
  BY StepsAre
<1>1. HeldOK'
  BY <1>a, <1>b, HeldStays
<1>2. SubmitOK'
  BY <1>b DEF SubmitOK
<1>3. EnrolOK'
  <2>1. step' # "MFA_ENROLL"
    OBVIOUS
  <2>2. form'.started = None \/ form'.started = form.started
    BY FreshIs DEF SameForm
  <2>3. form'.phase = "recovery" => form.phase = "recovery" /\ form'.role = form.role
    BY FreshIs DEF SameForm
  <2> QED
    BY <2>1, <2>2, <2>3 DEF EnrolOK, LoadingIsAnswered
<1> QED
  BY <1>1, <1>2, <1>3

\* An answer leads to the step it names.
LEMMA PageGoesOn ==
  ASSUME TypeOK, CallsOK, HeldOK, EnrolOK, UNCHANGED <<pending, asked>>,
         NEW s \in Slots, NEW n \in Needs, NEW h, Carries(calls[s]), calls[s].answer.says = n,
         calls[s].answer.handle = h, calls' = [calls EXCEPT ![s] = Idle],
         step' = StepFor[n], held' = [held EXCEPT ![n] = h], form' = Fresh \/ SameForm(form')
  PROVE  HeldOK' /\ SubmitOK' /\ EnrolOK'
<1>a. held \in [Needs -> Handles \cup {None}] /\ calls \in [Slots -> Requests]
  BY Typed DEF PageTyped
<1>b. calls'[s] = Idle /\ \A t \in Slots : t # s => calls'[t] = calls[t]
  BY <1>a, BlankIs, OneSlot
<1>c. held'[n] = h /\ \A m \in Needs : m # n => held'[m] = held[m]
  BY <1>a
<1>d. h # None /\ Issued(h) /\ pending[h].need = n /\ asked[h] = 0
  <2>1. Brings(calls[s])
    BY DEF CallsOK
  <2> QED
    BY <2>1 DEF Brings
<1>e. \A m \in Needs : step' = StepFor[m] => m = n
  BY StepsDiffer
<1>f. \A t \in Slots : calls[t].handle # h /\ (t # s /\ Carries(calls[t]) => calls[t].answer.handle # h)
  <2> SUFFICES ASSUME NEW t \in Slots
               PROVE  calls[t].handle # h /\ (t # s /\ Carries(calls[t]) => calls[t].answer.handle # h)
    OBVIOUS
  <2>1. NewTo(calls[s], calls[t]) /\ (s # t => Apart(calls[s], calls[t]))
    BY DEF CallsOK
  <2> QED
    BY <2>1 DEF NewTo, Apart
<1>g. ~Carries(Idle) /\ Idle.handle = None
  BY BlankIs DEF Carries
<1>1. HeldOK'
  <2>1. ASSUME NEW m \in Needs, held'[m] # None
        PROVE  Issued(held[m])' /\ (pending[held[m]].need = m)'
    BY <1>c, <1>d, <2>1 DEF HeldOK, Issued
  <2>2. ASSUME NEW m \in Needs, step' = StepFor[m] PROVE held'[m] # None
    BY <1>c, <1>d, <1>e, <2>2
  <2>3. ASSUME NEW t \in Slots, NEW m \in Needs, Carries(calls'[t])
        PROVE  held'[m] # calls'[t].answer.handle
    <3>1. t # s /\ calls'[t] = calls[t] /\ Carries(calls[t])
      BY <1>b, <1>g, <2>3
    <3> QED
      BY <1>c, <1>f, <3>1 DEF HeldOK
  <2> QED
    BY <2>1, <2>2, <2>3 DEF HeldOK
<1>2. SubmitOK'
  <2> SUFFICES ASSUME NEW m \in Needs, step' = StepFor[m], NEW t \in Slots,
                      calls'[t].kind = Submits[step'], calls'[t].handle = held'[m]
               PROVE  FALSE
    BY DEF SubmitOK
  <2>1. calls'[t].handle = h
    BY <1>c, <1>e
  <2> QED
    BY <1>b, <1>d, <1>f, <1>g, <2>1
<1>3. EnrolOK'
  <2>1. step' = "MFA_ENROLL" => held'["enroll"] = h
    BY <1>c, <1>e, StepsAre
  <2>2. form'.started = None \/ form'.started = form.started
    BY FreshIs DEF SameForm
  <2>3. form'.started # h
    BY <1>d, <2>2 DEF EnrolOK
  <2>4. form'.phase = "recovery" => form.phase = "recovery" /\ form'.role = form.role
    BY FreshIs DEF SameForm
  <2> QED
    BY <1>d, <2>1, <2>2, <2>3, <2>4 DEF EnrolOK, LoadingIsAnswered
<1> QED
  BY <1>1, <1>2, <1>3

-----------------------------------------------------------------------------
(* What the handlers are built from.                                       *)

\* Requests end, or present nothing.
Falls == \A s \in Slots : calls'[s] = calls[s] \/ Mute(calls'[s])

\* Requests that end disturb neither the others nor the handles.
LEMMA FallsIs ==
  ASSUME SignInInv, Falls, UNCHANGED <<pending, asked>>
  PROVE  CallsOK' /\ PendingGrows /\ NothingNew
<1>1. CallsOK'
  BY Typed, CallsFall DEF SignInInv, Falls
<1>2. NothingNew
  BY MuteIs DEF Falls, NothingNew
<1> QED
  BY <1>1, <1>2, PendingStays

\* An answer that is received ends its request, and no other.
LEMMA SettleIs ==
  ASSUME calls \in [Slots -> Requests], NEW s \in Slots, Settle(s)
  PROVE  /\ calls' \in [Slots -> Requests] /\ Falls /\ calls'[s] = Idle
         /\ \A t \in Slots : t # s => calls'[t] = calls[t]
<1>1. /\ calls' \in [Slots -> Requests] /\ calls'[s] = Idle
      /\ \A t \in Slots : t # s => calls'[t] = calls[t]
  BY BlankIs, OneSlot DEF Settle
<1>2. Mute(Idle)
  BY BlankIs DEF Mute
<1> QED
  BY <1>1, <1>2 DEF Falls

\* What was called on a session, or on a password change without its body.
Founded(e) == e = Nobody \/ e.session \/ (e.by = "change" /\ e.cut)

\* The history stays right when nothing is asked and onSuccess is called on a session.
LEMMA HistoryStays ==
  ASSUME HistoryOK, PendingGrows, UNCHANGED asked, entered' = entered \/ Founded(entered')
  PROVE  HistoryOK'
<1>1. SuccessIsSession'
  BY DEF HistoryOK, SuccessIsSession, Founded
<1> QED
  BY <1>1 DEF HistoryOK, OneInitiate, PendingGrows

\* The step and its handle stay.
LEMMA StaysKeep ==
  ASSUME SignInInv, Falls, UNCHANGED <<pending, sendsCodes, step, held, asked>>,
         calls' \in [Slots -> Requests], PageTyped', PastTyped', SameForm(form'),
         entered' = entered \/ Founded(entered'),
         \A s \in Slots : form.submit = s => form'.submit = s \/ calls'[s].handle = None,
         \A s \in Slots : \/ calls'[s] = calls[s]
                          \/ calls[s].kind # "initiate" \/ form.listens # s
  PROVE  SignInInv'
<1>1. CallsOK' /\ PendingGrows /\ NothingNew
  BY FallsIs
<1>2. HeldOK' /\ SubmitOK' /\ EnrolOK'
  <2>1. \A s \in Slots : \/ calls'[s].kind = calls[s].kind /\ calls'[s].handle = calls[s].handle
                         \/ /\ calls'[s].handle = None
                            /\ calls[s].kind # "initiate" \/ form.listens # s
    BY DEF Falls, Mute
  <2> QED
    BY <1>1, <2>1, PageStays DEF SignInInv
<1>3. IdpTyped' /\ TypeOK'
  <2>1. IdpTyped'
    BY Typed DEF SignInInv, IdpTyped
  <2> QED
    BY <2>1, TypedNext
<1> QED
  BY <1>1, <1>2, <1>3, HistoryStays DEF SignInInv

\* A step without a handle is shown, or LoginFlow goes.
LEMMA LeavesKeep ==
  ASSUME SignInInv, Falls, UNCHANGED <<pending, sendsCodes, asked>>,
         calls' \in [Slots -> Requests], mixed' \in BOOLEAN, notice' \in {"none", "error"}, PastTyped',
         step' \in {"EMAIL", "SSO_SELECT", "PASSWORD", "console", "provider"},
         held' \in {held, [n \in Needs |-> None]},
         form' \in FormStates, form' = Fresh \/ SameForm(form'),
         entered' = entered \/ Founded(entered')
  PROVE  SignInInv'
<1>1. CallsOK' /\ PendingGrows /\ NothingNew
  BY FallsIs
<1>2. HeldOK' /\ SubmitOK' /\ EnrolOK'
  BY <1>1, PageLeaves DEF SignInInv
<1>3. IdpTyped' /\ PageTyped'
  BY Typed, StepsAre DEF SignInInv, IdpTyped, PageTyped
<1> QED
  BY <1>1, <1>2, <1>3, TypedNext, HistoryStays DEF SignInInv

\* A step without a handle is shown to a LoginFlow that is there.
LEMMA ShowIs ==
  ASSUME SignInInv, NEW to \in {"EMAIL", "SSO_SELECT", "PASSWORD"}, NEW s, Show(to, s)
  PROVE  /\ step' \in {"EMAIL", "SSO_SELECT", "PASSWORD", "console", "provider"}
         /\ form' \in FormStates /\ (form' = Fresh \/ SameForm(form'))
         /\ Mounted => step' = to
<1>1. form \in FormStates
  BY Typed DEF SignInInv, PageTyped
<1>2. PICK f : f = Released(s)
  OBVIOUS
<1>3. f \in FormStates /\ SameForm(f)
  BY <1>1, <1>2, ReleasedIs
<1>4. SameForm(form)
  BY DEF SameForm
<1>5. \/ Mounted /\ step' = to /\ form' \in {f, Fresh}
      \/ ~Mounted /\ UNCHANGED <<step, form>>
  BY <1>2 DEF Show
<1>6. Fresh \in FormStates
  BY FreshIs
<1>7. ~Mounted => step \in {"console", "provider"}
  BY DEF Mounted
<1> QED
  BY <1>1, <1>3, <1>4, <1>5, <1>6, <1>7

\* The pieces of the invariant, as the steps need them.
LEMMA PiecesAre ==
  ASSUME SignInInv
  PROVE  /\ TypeOK /\ CallsOK /\ HeldOK /\ SubmitOK /\ EnrolOK /\ HistoryOK
         /\ PageTyped /\ calls \in [Slots -> Requests] /\ IdpTyped /\ PastTyped
         /\ form \in FormStates /\ held \in [Needs -> Handles \cup {None}]
         /\ mixed \in BOOLEAN /\ notice \in {"none", "error"} /\ step \in Steps
         /\ asked \in [Handles -> Nat] /\ entered \in Entries /\ unseen \subseteq Handles
         /\ SameForm(form)
BY Typed DEF SignInInv, PageTyped, PastTyped, SameForm

\* onSuccess() is called.
LEMMA EnterKeeps ==
  ASSUME SignInInv, NEW kind \in Kinds, NEW a \in Answers,
         a.session \/ (kind = "change" /\ a.says = "cut"), Enter(kind, a),
         Falls, calls' \in [Slots -> Requests], UNCHANGED <<pending, sendsCodes, asked, unseen>>
  PROVE  SignInInv'
<1>1. PICK e : e = [by |-> kind, session |-> a.session, cut |-> a.says = "cut"]
  OBVIOUS
<1>2. /\ step' = "console" /\ held' = [n \in Needs |-> None] /\ mixed' = FALSE /\ notice' = "none"
      /\ form' = Fresh /\ entered' = e
  BY <1>1 DEF Enter
<1>3. e \in Entries
  <2>1. a.session \in BOOLEAN /\ (a.says = "cut") \in BOOLEAN
    BY DEF Answers
  <2> QED
    BY <1>1, <2>1 DEF Entries
<1>4. Founded(e)
  BY <1>1 DEF Founded
<1>5. PastTyped'
  BY <1>2, <1>3, PiecesAre DEF PastTyped
<1> QED
  BY <1>2, <1>4, <1>5, FreshIs, LeavesKeep

\* Another document.
LEMMA LeaveKeeps ==
  ASSUME SignInInv, NEW to \in {"EMAIL", "provider"}, NEW why \in {"none", "error"}, Leave(to, why),
         UNCHANGED <<pending, sendsCodes, asked>>
  PROVE  SignInInv'
<1>1. /\ step' = to /\ held' = [n \in Needs |-> None] /\ mixed' = FALSE /\ notice' = why
      /\ form' = Fresh /\ calls' = [s \in Slots |-> Idle] /\ entered' = Nobody /\ unseen' = {}
  BY DEF Leave
<1>2. Mute(Idle)
  BY BlankIs DEF Mute
<1>3. calls' \in [Slots -> Requests] /\ Falls
  BY <1>1, <1>2, BlankIs DEF Falls
<1>4. PastTyped' /\ Founded(entered')
  BY <1>1, PiecesAre DEF PastTyped, Entries, Nobody, Founded
<1> QED
  BY <1>1, <1>3, <1>4, FreshIs, LeavesKeep

\* A form, or the page, says what went wrong, and stays.
LEMMA ComplainKeeps ==
  ASSUME SignInInv, NEW s \in Slots, Settle(s), form' = Released(s) \/ UNCHANGED form,
         UNCHANGED <<step, held, entered, pending, sendsCodes, asked, unseen>>,
         mixed' \in BOOLEAN, notice' \in {"none", "error"}, calls[s].kind # "initiate"
  PROVE  SignInInv'
<1>1. /\ calls' \in [Slots -> Requests] /\ Falls /\ calls'[s] = Idle
      /\ \A t \in Slots : t # s => calls'[t] = calls[t]
  BY PiecesAre, SettleIs
<1>2. /\ form' \in FormStates /\ SameForm(form')
      /\ form'.submit = form.submit \/ form.submit = s
  <2>1 CASE UNCHANGED form
    BY <2>1, PiecesAre DEF SameForm
  <2>2 CASE form' = Released(s)
    <3>1. PICK f : f = Released(s)
      OBVIOUS
    <3>2. f \in FormStates /\ SameForm(f) /\ f.submit = (IF form.submit = s THEN None ELSE form.submit)
      BY <3>1, PiecesAre, ReleasedIs
    <3>3. form' = f
      BY <2>2, <3>1
    <3> QED
      BY <3>2, <3>3 DEF SameForm
  <2> QED
    BY <2>1, <2>2
<1>3. PageTyped' /\ PastTyped'
  BY <1>2, PiecesAre DEF PageTyped, PastTyped
<1>4. Idle.handle = None
  BY BlankIs
<1> QED
  BY <1>1, <1>2, <1>3, <1>4, StaysKeep

\* An answer leads to the step it names, if LoginFlow is there.
LEMMA GoOnKeeps ==
  ASSUME SignInInv, NEW s \in Slots, Settle(s), NEW a, a = calls[s].answer, calls[s].at = "back",
         Continues(a), GoOn(a.says, a.handle, s), UNCHANGED <<pending, sendsCodes, asked, unseen>>
  PROVE  SignInInv'
<1>1. PICK n : n = a.says
  OBVIOUS
<1>2. PICK h : h = a.handle
  OBVIOUS
<1>3. n \in Needs /\ Carries(calls[s]) /\ calls[s].answer.says = n /\ calls[s].answer.handle = h
  BY <1>1, <1>2 DEF Continues, Carries
<1>4. /\ calls' \in [Slots -> Requests] /\ Falls /\ calls'[s] = Idle
      /\ \A t \in Slots : t # s => calls'[t] = calls[t]
  BY PiecesAre, SettleIs
<1>5. calls[s].kind # "initiate"
  <2>1. Brings(calls[s])
    BY PiecesAre DEF CallsOK
  <2> QED
    BY <1>3, <2>1 DEF Brings
<1>6. Show(StepFor[n], s) /\ held' = (IF Mounted THEN [held EXCEPT ![n] = h] ELSE held)
      /\ UNCHANGED <<mixed, notice, entered>>
  BY <1>1, <1>2 DEF GoOn
<1>7 CASE ~Mounted
  <2>1. UNCHANGED <<step, held, form>>
    BY <1>6, <1>7 DEF Show
  <2> QED
    BY <1>5, <1>6, <2>1, PiecesAre, ComplainKeeps
<1>8 CASE Mounted
  <2>1. PICK f : f = Released(s)
    OBVIOUS
  <2>2. f \in FormStates /\ SameForm(f)
    BY <2>1, PiecesAre, ReleasedIs
  <2>3. step' = StepFor[n] /\ form' \in {f, Fresh} /\ held' = [held EXCEPT ![n] = h]
    BY <1>6, <1>8, <2>1 DEF Show
  <2>4. form' \in FormStates /\ (form' = Fresh \/ SameForm(form'))
    BY <2>2, <2>3, FreshIs
  <2>5. calls' = [calls EXCEPT ![s] = Idle]
    BY DEF Settle
  <2>6. HeldOK' /\ SubmitOK' /\ EnrolOK'
    BY <1>3, <2>3, <2>4, <2>5, PiecesAre, PageGoesOn
  <2>7. CallsOK' /\ PendingGrows
    BY <1>4, FallsIs
  <2>8. h \in Handles \cup {None}
    <3>1. calls[s] \in Requests
      BY PiecesAre
    <3> QED
      BY <1>3, <3>1 DEF Requests, Answers
  <2>9. PageTyped' /\ PastTyped' /\ IdpTyped'
    <3>1. held' \in [Needs -> Handles \cup {None}]
      BY <2>3, <2>8, PiecesAre
    <3> QED
      BY <1>3, <1>6, <2>3, <2>4, <3>1, PiecesAre, StepsAre DEF PageTyped, PastTyped, IdpTyped
  <2>10. HistoryOK'
    BY <1>6, <2>7, PiecesAre, HistoryStays
  <2> QED
    BY <1>4, <2>6, <2>7, <2>9, <2>10, TypedNext DEF SignInInv
<1> QED
  BY <1>7, <1>8

\* The enrolment form is answered, or its request has failed.
LEMMA MintKeeps ==
  ASSUME SignInInv, NEW s \in Slots, Settle(s), calls[s].kind = "initiate", NEW a, Minted(s, a),
         UNCHANGED <<step, held, mixed, notice, pending, sendsCodes, asked, entered, unseen>>
  PROVE  SignInInv'
<1>1. /\ calls' \in [Slots -> Requests] /\ Falls /\ calls'[s] = Idle
      /\ \A t \in Slots : t # s => calls'[t] = calls[t]
  BY PiecesAre, SettleIs
<1>2 CASE form.listens # s
  <2>1. form' = form
    BY <1>2 DEF Minted
  <2>2. PageTyped' /\ PastTyped'
    BY <2>1, PiecesAre DEF PageTyped, PastTyped
  <2>3. SameForm(form')
    BY <2>1, PiecesAre DEF SameForm
  <2> QED
    BY <1>1, <1>2, <2>1, <2>2, <2>3, StaysKeep
<1>3 CASE form.listens = s
  <2>1. PICK h : h = calls[s].handle
    OBVIOUS
  <2>2. h \in Handles \cup {None}
    <3>1. calls[s] \in Requests
      BY PiecesAre
    <3> QED
      BY <2>1, <3>1 DEF Requests
  <2>3. \/ form' = [form EXCEPT !.listens = None, !.phase = "display", !.codes = IF sendsCodes THEN h ELSE None]
        \/ form' = [form EXCEPT !.listens = None, !.phase = "error"]
    BY <1>3, <2>1 DEF Minted
  <2>4. /\ form' \in FormStates /\ form'.submit = form.submit /\ form'.started = form.started
        /\ form'.phase \in {"display", "error"}
    <3>1 CASE form' = [form EXCEPT !.listens = None, !.phase = "error"]
      BY <3>1, PiecesAre DEF FormStates
    <3>2 CASE form' = [form EXCEPT !.listens = None, !.phase = "display", !.codes = IF sendsCodes THEN h ELSE None]
      BY <2>2, <3>2, PiecesAre DEF FormStates
    <3> QED
      BY <2>3, <3>1, <3>2
  <2>5. CallsOK' /\ PendingGrows /\ NothingNew
    BY <1>1, FallsIs
  <2>6. HeldOK'
    BY <2>5, PiecesAre, HeldStays
  <2>7. SubmitOK'
    <3> SUFFICES ASSUME NEW n \in Needs, step = StepFor[n], NEW t \in Slots,
                        calls'[t].kind = Submits[step], calls'[t].handle = held[n]
                 PROVE  form.submit = t
      BY <2>4 DEF SubmitOK
    <3>1. held[n] # None
      BY PiecesAre DEF HeldOK
    <3>2. calls'[t] = calls[t]
      BY <1>1, <3>1, BlankIs
    <3> QED
      BY <3>2, PiecesAre DEF SubmitOK
  <2>8. EnrolOK'
    BY <2>4, PiecesAre DEF EnrolOK, LoadingIsAnswered
  <2>9. PageTyped' /\ PastTyped' /\ IdpTyped'
    BY <2>4, PiecesAre DEF PageTyped, PastTyped, IdpTyped
  <2>10. HistoryOK'
    BY <2>5, PiecesAre, HistoryStays
  <2> QED
    BY <1>1, <2>5, <2>6, <2>7, <2>8, <2>9, <2>10, TypedNext DEF SignInInv
<1> QED
  BY <1>2, <1>3

-----------------------------------------------------------------------------
(* The user, and the enrolment form's effect.                              *)

\* A request that presents nothing is sent, and the page changes no handle.
LEMMA SendsNothing ==
  ASSUME SignInInv, NEW s \in Slots, NEW kind \in {"lookup", "admin_lookup", "begin", "login"},
         Send(s, kind, None)
  PROVE  /\ calls' \in [Slots -> Requests] /\ Falls
         /\ \A t \in Slots : calls'[t] = calls[t] \/ calls[t].kind # "initiate"
<1>1. PICK c : c = [Idle EXCEPT !.kind = kind, !.handle = None, !.at = "out"]
  OBVIOUS
<1>2. c \in Requests /\ c.kind = kind /\ c.handle = None /\ c.answer = Blank
  <2>1. kind \in Kinds
    BY DEF Kinds, Lookups, PasskeySteps
  <2> QED
    BY <1>1, <2>1, BlankIs DEF Idle, Requests
<1>3. Mute(c)
  BY <1>2 DEF Mute
<1>4. calls[s] = Idle /\ calls' = [calls EXCEPT ![s] = c]
  BY <1>1 DEF Send
<1>5. /\ calls' \in [Slots -> Requests] /\ calls'[s] = c
      /\ \A t \in Slots : t # s => calls'[t] = calls[t]
  BY <1>2, <1>4, PiecesAre, OneSlot
<1> QED
  BY <1>3, <1>4, <1>5, BlankIs DEF Falls

\* The lookup of an address is sent.
LEMMA ContinueKeeps ==
  ASSUME SignInInv, NEW s \in Slots, NEW kind \in Lookups, Continue(s, kind)
  PROVE  SignInInv'
<1>1. /\ Send(s, kind, None) /\ notice' = "none"
      /\ UNCHANGED <<step, held, mixed, form, pending, sendsCodes, asked, entered, unseen>>
  BY DEF Continue, idp, history
<1>2. /\ calls' \in [Slots -> Requests] /\ Falls
      /\ \A t \in Slots : calls'[t] = calls[t] \/ calls[t].kind # "initiate"
  BY <1>1, SendsNothing DEF Lookups
<1>3. PageTyped' /\ PastTyped' /\ SameForm(form')
  BY <1>1, PiecesAre DEF PageTyped, PastTyped, SameForm
<1> QED
  BY <1>1, <1>2, <1>3, StaysKeep

\* The passkey options are asked for.
LEMMA StartPasskeyKeeps ==
  ASSUME SignInInv, NEW s \in Slots, StartPasskey(s)
  PROVE  SignInInv'
<1>1. /\ Send(s, "begin", None)
      /\ UNCHANGED <<step, held, mixed, notice, form, pending, sendsCodes, asked, entered, unseen>>
  BY DEF StartPasskey, page, idp, history
<1>2. /\ calls' \in [Slots -> Requests] /\ Falls
      /\ \A t \in Slots : calls'[t] = calls[t] \/ calls[t].kind # "initiate"
  BY <1>1, SendsNothing
<1>3. PageTyped' /\ PastTyped' /\ SameForm(form')
  BY <1>1, PiecesAre DEF PageTyped, PastTyped, SameForm
<1> QED
  BY <1>1, <1>2, <1>3, StaysKeep

\* The passkey goes on from one request to the next, or ends.
LEMMA PasskeyKeeps ==
  ASSUME SignInInv, NEW s \in Slots, NEW c \in Requests, Mute(c), calls[s].kind # "initiate",
         calls' = [calls EXCEPT ![s] = c], UNCHANGED <<page, idp, history>>
  PROVE  SignInInv'
<1>1. UNCHANGED <<step, held, mixed, notice, form, pending, sendsCodes, asked, entered, unseen>>
  BY DEF page, idp, history
<1>2. /\ calls' \in [Slots -> Requests] /\ calls'[s] = c
      /\ \A t \in Slots : t # s => calls'[t] = calls[t]
  BY PiecesAre, OneSlot
<1>3. PageTyped' /\ PastTyped' /\ SameForm(form') /\ Falls
  BY <1>1, <1>2, PiecesAre DEF PageTyped, PastTyped, SameForm, Falls
<1> QED
  BY <1>1, <1>2, <1>3, StaysKeep

\* A free slot presents nothing.
LEMMA IdleIsMute == Idle \in Requests /\ Mute(Idle)
BY BlankIs DEF Mute

\* The passkey prompt is answered, or cancelled.
LEMMA AnswerPromptKeeps ==
  ASSUME SignInInv, NEW s \in Slots, NEW agreed \in BOOLEAN, AnswerPrompt(s, agreed)
  PROVE  SignInInv'
<1>1. PICK c : c = (IF agreed THEN [Idle EXCEPT !.kind = "finish", !.at = "out"] ELSE Idle)
  OBVIOUS
<1>2. c \in Requests /\ Mute(c)
  <2>1 CASE agreed
    <3>1. c = [Idle EXCEPT !.kind = "finish", !.at = "out"] /\ "finish" \in PasskeySteps
      BY <1>1, <2>1 DEF PasskeySteps
    <3>2. c \in Requests /\ c.kind = "finish" /\ c.handle = None /\ c.answer = Blank
      BY <3>1, PasskeySentIs
    <3> QED
      BY <3>2 DEF Mute
  <2>2 CASE ~agreed
    BY <1>1, <2>2, IdleIsMute
  <2> QED
    BY <2>1, <2>2
<1>3. calls[s].kind = "prompt" /\ calls' = [calls EXCEPT ![s] = c] /\ UNCHANGED <<page, idp, history>>
  BY <1>1 DEF AnswerPrompt
<1> QED
  BY <1>2, <1>3, PasskeyKeeps

\* The passkey options open the prompt.
LEMMA ReceiveOptionsKeeps ==
  ASSUME SignInInv, NEW s \in Slots, ReceiveOptions(s)
  PROVE  SignInInv'
<1>1. PICK c : c = (IF calls[s].answer.ok /\ calls[s].answer.says = "options"
                    THEN [Idle EXCEPT !.kind = "prompt", !.at = "back"] ELSE Idle)
  OBVIOUS
<1>2. c \in Requests /\ Mute(c)
  <2>1. ASSUME c = [Idle EXCEPT !.kind = "prompt", !.at = "back"] PROVE c \in Requests /\ Mute(c)
    <3>1. "prompt" \in PasskeySteps
      BY DEF PasskeySteps
    <3>2. c \in Requests /\ c.kind = "prompt" /\ c.handle = None /\ c.answer = Blank
      BY <2>1, <3>1, PasskeySentIs
    <3> QED
      BY <3>2 DEF Mute
  <2> QED
    BY <1>1, <2>1, IdleIsMute
<1>3. calls[s].kind = "begin" /\ calls' = [calls EXCEPT ![s] = c] /\ UNCHANGED <<page, idp, history>>
  BY <1>1, PiecesAre DEF ReceiveOptions
<1> QED
  BY <1>2, <1>3, PasskeyKeeps

\* The form's submit presents the handle of its step, which no request of its kind does.
LEMMA SubmitKeeps ==
  ASSUME SignInInv, NEW s \in Slots, Submit(s)
  PROVE  SignInInv'
<1>1. /\ step \in Forms /\ form.submit = None /\ (step = "MFA_ENROLL" => form.phase = "display")
      /\ Send(s, Submits[step], IF step = "PASSWORD" THEN None ELSE held[About[Submits[step]]])
      /\ form' = [form EXCEPT !.submit = s]
      /\ UNCHANGED <<step, held, mixed, notice, pending, sendsCodes, asked, entered, unseen>>
  BY DEF Submit, idp, history
<1>2. form' \in FormStates /\ SameForm(form') /\ form'.submit = s
  BY <1>1, PiecesAre DEF FormStates, SameForm
<1>3. PageTyped' /\ PastTyped' /\ IdpTyped'
  BY <1>1, <1>2, PiecesAre DEF PageTyped, PastTyped, IdpTyped
<1>4 CASE step = "PASSWORD"
  <2>1. Send(s, "login", None)
    BY <1>1, <1>4, StepsAre
  <2>2. /\ calls' \in [Slots -> Requests] /\ Falls
        /\ \A t \in Slots : calls'[t] = calls[t] \/ calls[t].kind # "initiate"
    BY <2>1, SendsNothing
  <2> QED
    BY <1>1, <1>2, <1>3, <2>2, NoneIsNone, StaysKeep
<1>5 CASE step # "PASSWORD"
  <2>1. PICK n \in Needs : step = StepFor[n]
    BY <1>1, <1>5, StepsAre
  <2>2. PICK kind : kind = Submits[step]
    OBVIOUS
  <2>3. kind \in {"change", "mfa", "complete"} /\ About[kind] = n /\ kind \in Kinds
    BY <2>1, <2>2, StepsAre DEF Kinds
  <2>4. PICK h : h = held[n]
    OBVIOUS
  <2>5. h \in Handles /\ Issued(h) /\ pending[h].need = n
    BY <2>1, <2>4, PiecesAre DEF HeldOK
  <2>6. PICK c : c = [Idle EXCEPT !.kind = kind, !.handle = h, !.at = "out"]
    OBVIOUS
  <2>7. c \in Requests /\ c.kind = kind /\ c.handle = h /\ c.answer = Blank
    BY <2>3, <2>5, <2>6, BlankIs DEF Idle, Requests
  <2>8. calls[s] = Idle /\ calls' = [calls EXCEPT ![s] = c]
    BY <1>1, <1>5, <2>2, <2>3, <2>4, <2>6 DEF Send
  <2>9. /\ calls' \in [Slots -> Requests] /\ calls'[s] = c
        /\ \A t \in Slots : t # s => calls'[t] = calls[t]
    BY <2>7, <2>8, PiecesAre, OneSlot
  <2>10. \A t \in Slots : calls[t].handle = h => calls[t].kind # kind
    BY <1>1, <2>1, <2>2, <2>4, PiecesAre, NoneIsNone DEF SubmitOK
  <2>11. \A t \in Slots : Carries(calls[t]) => calls[t].answer.handle # h
    BY <2>4, PiecesAre DEF HeldOK
  <2>12. CallsOK'
    BY <1>1, <2>3, <2>5, <2>7, <2>8, <2>10, <2>11, PiecesAre, CallsSend
  <2>13. PendingGrows /\ NothingNew
    <3>1. ~Carries(c)
      BY <2>7, BlankIs DEF Carries, Needs
    <3> QED
      BY <1>1, <2>9, <3>1, PendingStays DEF NothingNew
  <2>14. HeldOK'
    BY <1>1, <2>12, <2>13, PiecesAre, HeldStays
  <2>15. SubmitOK'
    <3> SUFFICES ASSUME NEW m \in Needs, step = StepFor[m], NEW t \in Slots, t # s,
                        calls'[t].kind = Submits[step], calls'[t].handle = held[m]
                 PROVE  FALSE
      BY <1>1, <1>2 DEF SubmitOK
    <3>1. m = n
      <4>1. StepFor[m] = StepFor[n]
        BY <2>1
      <4> QED
        BY <4>1, StepsAre
    <3>2. calls[t].kind = kind /\ calls[t].handle = h
      BY <2>2, <2>4, <2>9, <3>1
    <3> QED
      BY <2>10, <3>2
  <2>16. EnrolOK'
    <3>1. LoadingIsAnswered'
      BY <1>1, <1>2 DEF LoadingIsAnswered, SameForm
    <3> QED
      BY <1>1, <1>2, <3>1, PiecesAre DEF EnrolOK, SameForm
  <2>17. HistoryOK'
    BY <1>1, <2>13, PiecesAre, HistoryStays
  <2> QED
    BY <1>3, <2>9, <2>12, <2>14, <2>15, <2>16, <2>17, TypedNext DEF SignInInv
<1> QED
  BY <1>4, <1>5

\* The effect asks for the secret of a handle nobody has asked for.
LEMMA EffectKeeps ==
  ASSUME SignInInv, NEW s \in Slots, Effect(s)
  PROVE  SignInInv'
<1>1. PICK h : h = held["enroll"]
  OBVIOUS
<1>2. /\ step = "MFA_ENROLL" /\ form.started # h /\ Send(s, "initiate", h)
      /\ asked' = [asked EXCEPT ![h] = @ + 1]
      /\ form' = [form EXCEPT !.started = h, !.listens = s]
      /\ UNCHANGED <<step, held, mixed, notice, pending, sendsCodes, entered, unseen>>
  BY <1>1 DEF Effect, idp
<1>3. h \in Handles /\ Issued(h) /\ pending[h].need = "enroll" /\ asked[h] = 0
  <2>1. h # None /\ h \in Handles \cup {None}
    BY <1>1, <1>2, StepsAre, PiecesAre DEF HeldOK
  <2>2. Issued(h) /\ pending[h].need = "enroll"
    BY <1>1, <2>1, StepsAre, PiecesAre DEF HeldOK
  <2>3. asked[h] = 0
    BY <1>1, <1>2, PiecesAre DEF EnrolOK
  <2> QED
    BY <2>1, <2>2, <2>3
<1>4. /\ asked' \in [Handles -> Nat] /\ asked'[h] = 1
      /\ \A x \in Handles : x # h => asked'[x] = asked[x]
  BY <1>2, <1>3, PiecesAre
<1>5. /\ form' \in FormStates /\ form'.started = h /\ form'.listens = s
      /\ form'.submit = form.submit /\ form'.phase = form.phase /\ form'.role = form.role
  BY <1>2, <1>3, PiecesAre DEF FormStates
<1>6. PICK c : c = [Idle EXCEPT !.kind = "initiate", !.handle = h, !.at = "out"]
  OBVIOUS
<1>7. c \in Requests /\ c.kind = "initiate" /\ c.handle = h /\ c.answer = Blank
  BY <1>3, <1>6, BlankIs DEF Idle, Requests, Kinds
<1>8. calls[s] = Idle /\ calls' = [calls EXCEPT ![s] = c]
  BY <1>2, <1>6 DEF Send
<1>9. /\ calls' \in [Slots -> Requests] /\ calls'[s] = c
      /\ \A t \in Slots : t # s => calls'[t] = calls[t]
  BY <1>7, <1>8, PiecesAre, OneSlot
<1>10. \A t \in Slots : calls[t].handle = h => calls[t].kind # "initiate"
  <2> SUFFICES ASSUME NEW t \in Slots, calls[t].handle = h, calls[t].kind = "initiate" PROVE FALSE
    OBVIOUS
  <2>1. Presents(calls[t])
    BY PiecesAre DEF CallsOK
  <2> QED
    BY <1>3, <2>1 DEF Presents
<1>11. \A t \in Slots : Carries(calls[t]) => calls[t].answer.handle # h
  BY <1>1, PiecesAre, StepsAre DEF HeldOK
<1>12. CallsOK'
  <2>1. pending[h].need = About[c.kind] /\ c.kind \in {"change", "mfa", "initiate", "complete"}
    BY <1>3, <1>7, StepsAre
  <2>2. \A x \in Handles : asked'[x] = asked[x] \/ (x = h /\ asked'[x] >= 1)
    BY <1>4
  <2>3. c.kind = "initiate" => asked'[h] >= 1
    BY <1>4
  <2>4. \A t \in Slots : calls[t].handle = h => calls[t].kind # c.kind
    BY <1>7, <1>10
  <2>5. UNCHANGED pending /\ calls \in [Slots -> Requests] /\ CallsOK /\ asked \in [Handles -> Nat]
    BY <1>2, PiecesAre
  <2> QED
    BY <1>3, <1>4, <1>7, <1>8, <1>11, <2>1, <2>2, <2>3, <2>4, <2>5, CallsSend
<1>13. PendingGrows /\ NothingNew
  <2>1. ~Carries(c)
    BY <1>7, BlankIs DEF Carries, Needs
  <2> QED
    BY <1>2, <1>9, <2>1, PendingStays DEF NothingNew
<1>14. HeldOK'
  BY <1>2, <1>12, <1>13, PiecesAre, HeldStays
<1>15. SubmitOK'
  <2> SUFFICES ASSUME NEW m \in Needs, step = StepFor[m], NEW t \in Slots,
                      calls'[t].kind = Submits[step], calls'[t].handle = held[m]
               PROVE  form.submit = t
    BY <1>2, <1>5 DEF SubmitOK
  <2>1. t # s
    BY <1>7, <1>9, StepsAre
  <2> QED
    BY <1>9, <2>1, PiecesAre DEF SubmitOK
<1>16. EnrolOK'
  <2>1. s # None /\ calls'[s].kind = "initiate" /\ calls'[s].handle = h
    BY <1>7, <1>9, NoneIsNone
  <2>2. LoadingIsAnswered'
    BY <1>1, <1>2, <1>5, <2>1 DEF LoadingIsAnswered
  <2> QED
    BY <1>1, <1>2, <1>4, <1>5, <2>2, PiecesAre DEF EnrolOK
<1>17. HistoryOK'
  <2>1. OneInitiate'
    BY <1>4, PiecesAre DEF HistoryOK, OneInitiate
  <2>2. SuccessIsSession'
    BY <1>2, PiecesAre DEF HistoryOK, SuccessIsSession
  <2>3. \A x \in Handles : asked'[x] >= 1 => Issued(x)'
    BY <1>2, <1>3, <1>4, PiecesAre DEF HistoryOK, Issued
  <2> QED
    BY <2>1, <2>2, <2>3 DEF HistoryOK
<1>18. PageTyped' /\ PastTyped' /\ IdpTyped'
  BY <1>2, <1>4, <1>5, PiecesAre DEF PageTyped, PastTyped, IdpTyped
<1> QED
  BY <1>9, <1>12, <1>14, <1>15, <1>16, <1>17, <1>18, TypedNext DEF SignInInv

\* A step is shown, and no request changes.
LEMMA ShowsOnly ==
  ASSUME SignInInv, NEW to \in {"EMAIL", "SSO_SELECT", "PASSWORD"}, NEW s, Show(to, s),
         UNCHANGED <<held, mixed, notice, calls, idp, history>>
  PROVE  SignInInv'
<1>1. UNCHANGED <<held, mixed, notice, calls, pending, sendsCodes, asked, entered, unseen>>
  BY DEF idp, history
<1>2. Falls /\ calls' \in [Slots -> Requests] /\ PastTyped'
  BY <1>1, PiecesAre DEF Falls, PastTyped
<1> QED
  BY <1>1, <1>2, PiecesAre, ShowIs, LeavesKeep

\* The other buttons present no handle.
LEMMA UserKeeps ==
  ASSUME SignInInv,
         Back \/ ChoosePassword \/ Acknowledge \/ SignInAgain \/ \E valid \in BOOLEAN : ChooseProvider(valid)
  PROVE  SignInInv'
<1>1 CASE Back
  <2>1. PICK to \in {"EMAIL", "PASSWORD"} : Show(to, None)
    BY <1>1 DEF Back
  <2> QED
    BY <1>1, <2>1, ShowsOnly DEF Back
<1>2 CASE ChoosePassword
  BY <1>2, ShowsOnly DEF ChoosePassword
<1>3 CASE Acknowledge
  <2>1. /\ form.phase = "recovery" /\ Enter("complete", form.role)
        /\ UNCHANGED <<calls, pending, sendsCodes, asked, unseen>>
    BY <1>3 DEF Acknowledge, idp
  <2>2. form.role \in Answers /\ form.role.session /\ "complete" \in Kinds
    BY <2>1, PiecesAre DEF EnrolOK, FormStates, Kinds
  <2>3. Falls /\ calls' \in [Slots -> Requests]
    BY <2>1, PiecesAre DEF Falls
  <2>4. PICK a : a = form.role
    OBVIOUS
  <2>5. a \in Answers /\ a.session /\ Enter("complete", a)
    BY <2>1, <2>2, <2>4
  <2> QED
    BY <2>1, <2>2, <2>3, <2>5, EnterKeeps
<1>4 CASE SignInAgain
  BY <1>4, LeaveKeeps DEF SignInAgain, idp
<1>5. ASSUME NEW valid \in BOOLEAN, ChooseProvider(valid) PROVE SignInInv'
  <2>1 CASE Leave("provider", "none")
    BY <1>5, <2>1, LeaveKeeps DEF ChooseProvider, idp
  <2>2 CASE notice' = "error" /\ UNCHANGED <<step, held, mixed, form, calls, entered, unseen>>
    <3>1. UNCHANGED <<pending, sendsCodes, asked>>
      BY <1>5 DEF ChooseProvider, idp
    <3>2. PageTyped' /\ PastTyped' /\ SameForm(form') /\ Falls /\ calls' \in [Slots -> Requests]
      BY <2>2, <3>1, PiecesAre DEF PageTyped, PastTyped, SameForm, Falls
    <3> QED
      BY <2>2, <3>1, <3>2, StaysKeep
  <2> QED
    BY <1>5, <2>1, <2>2 DEF ChooseProvider
<1> QED
  BY <1>1, <1>2, <1>3, <1>4, <1>5

-----------------------------------------------------------------------------
(* The answers.                                                            *)

\* What an answer that is back says.
LEMMA BackIs ==
  ASSUME SignInInv, NEW s \in Slots, NEW a, a = calls[s].answer
  PROVE  /\ a \in Answers /\ a.session \in BOOLEAN /\ calls[s] \in Requests /\ calls[s].kind \in Kinds \cup {"none"}
         /\ a.ok /\ calls[s].kind \in {"login", "change", "finish", "mfa", "complete"} =>
              a.session \/ a.says \in Needs \cup {"waiting", "cut"}
         /\ a.says = "waiting" => calls[s].kind = "login"
         /\ a.says = "session" => a.session
         /\ calls[s].at = "back" /\ a.says \in Needs => calls[s].kind \in {"login", "change", "finish"}
         /\ calls[s].kind = "complete" => calls[s].handle \in Handles
<1>1. PICK c : c = calls[s]
  OBVIOUS
<1>2. c \in Requests /\ Honest(c) /\ Brings(c) /\ Presents(c) /\ a = c.answer
  BY <1>1, PiecesAre DEF CallsOK
<1>3. a \in Answers /\ a.session \in BOOLEAN /\ c.kind \in Kinds \cup {"none"}
  BY <1>2 DEF Requests, Answers
<1>4. c.at = "back" /\ a.says \in Needs => c.kind \in {"login", "change", "finish"}
  BY <1>2 DEF Brings, Carries
<1>5. c.kind = "complete" => c.handle \in Handles
  BY <1>2 DEF Presents, Requests
<1> QED
  BY <1>1, <1>2, <1>3, <1>4, <1>5 DEF Honest

\* A lookup leads to a provider, to a choice, or to the password.
LEMMA LookupRouteIs ==
  ASSUME NEW kind, NEW a, NEW to, to = RouteAfterLookup(kind, a)
  PROVE  to \in {"PASSWORD", "provider", "SSO_SELECT"}
BY DEF RouteAfterLookup

\* Its answer moves the page on without a handle.
LEMMA ReceiveLookupKeeps ==
  ASSUME SignInInv, NEW s \in Slots, ReceiveLookup(s)
  PROVE  SignInInv'
<1>1. PICK a, to : a = calls[s].answer /\ to = RouteAfterLookup(calls[s].kind, a)
  OBVIOUS
<1>2. /\ calls[s].kind \in Lookups
      /\ \/ Leave("provider", "none")
         \/ /\ Settle(s) /\ mixed' = (Mounted /\ a.ok /\ a.says = "mixed")
            /\ IF to = "provider"
               THEN notice' = (IF Mounted THEN "error" ELSE notice) /\ UNCHANGED <<step, form>>
               ELSE Show(to, s) /\ UNCHANGED notice
            /\ UNCHANGED <<held, entered, unseen>>
      /\ UNCHANGED <<pending, sendsCodes, asked>>
  BY <1>1 DEF ReceiveLookup, idp
<1>3. to \in {"PASSWORD", "provider", "SSO_SELECT"} /\ a.ok \in BOOLEAN
  BY <1>1, BackIs, LookupRouteIs DEF Answers
<1>4 CASE Leave("provider", "none")
  BY <1>2, <1>4, LeaveKeeps
<1>5 CASE /\ Settle(s) /\ mixed' = (Mounted /\ a.ok /\ a.says = "mixed")
          /\ UNCHANGED <<held, entered, unseen>>
          /\ to = "provider"
          /\ notice' = (IF Mounted THEN "error" ELSE notice) /\ UNCHANGED <<step, form>>
  <2>1. mixed' \in BOOLEAN
    BY <1>5
  <2>2. notice' \in {"none", "error"} /\ calls[s].kind # "initiate"
    BY <1>2, <1>5, PiecesAre DEF Lookups
  <2> QED
    BY <1>2, <1>5, <2>1, <2>2, ComplainKeeps
<1>6 CASE /\ Settle(s) /\ mixed' = (Mounted /\ a.ok /\ a.says = "mixed")
          /\ UNCHANGED <<held, entered, unseen>>
          /\ to # "provider" /\ Show(to, s) /\ UNCHANGED notice
  <2>1. mixed' \in BOOLEAN
    BY <1>6
  <2>2. calls' \in [Slots -> Requests] /\ Falls
    BY <1>6, PiecesAre, SettleIs
  <2>3. PastTyped' /\ notice' \in {"none", "error"}
    BY <1>2, <1>6, PiecesAre DEF PastTyped
  <2>4. /\ step' \in {"EMAIL", "SSO_SELECT", "PASSWORD", "console", "provider"}
        /\ form' \in FormStates /\ (form' = Fresh \/ SameForm(form'))
    BY <1>3, <1>6, ShowIs
  <2> QED
    BY <1>2, <1>6, <2>1, <2>2, <2>3, <2>4, LeavesKeep
<1> QED
  BY <1>2, <1>4, <1>5, <1>6

\* The answer to a login names a step, begins a session, or is a refusal.
LEMMA ReceiveLoginKeeps ==
  ASSUME SignInInv, NEW s \in Slots, ReceiveLogin(s)
  PROVE  SignInInv'
<1>1. PICK a : a = calls[s].answer
  OBVIOUS
<1>2. /\ calls[s].kind = "login" /\ calls[s].at = "back" /\ Settle(s)
      /\ IF Continues(a) THEN GoOn(a.says, a.handle, s)
         ELSE IF LoginSucceeds(a) THEN Enter("login", a) ELSE Complain(s)
      /\ UNCHANGED <<pending, sendsCodes, asked, unseen>>
  BY <1>1 DEF ReceiveLogin, idp
<1>3 CASE Continues(a)
  BY <1>1, <1>2, <1>3, GoOnKeeps
<1>4 CASE ~Continues(a) /\ LoginSucceeds(a)
  <2>1. a.session /\ a \in Answers /\ "login" \in Kinds
    BY <1>1, <1>2, <1>4, BackIs DEF LoginSucceeds, Kinds
  <2>2. calls' \in [Slots -> Requests] /\ Falls
    BY <1>2, PiecesAre, SettleIs
  <2> QED
    BY <1>2, <1>4, <2>1, <2>2, EnterKeeps
<1>5 CASE ~Continues(a) /\ ~LoginSucceeds(a)
  BY <1>2, <1>5, PiecesAre, ComplainKeeps DEF Complain
<1> QED
  BY <1>3, <1>4, <1>5

\* So does that to a password change, whose refusal may end the sign-in.
LEMMA ReceiveChangeKeeps ==
  ASSUME SignInInv, NEW s \in Slots, ReceiveChange(s)
  PROVE  SignInInv'
<1>1. PICK a : a = calls[s].answer
  OBVIOUS
<1>2. /\ calls[s].kind = "change" /\ calls[s].at = "back" /\ Settle(s)
      /\ IF Continues(a) THEN GoOn(a.says, a.handle, s)
         ELSE IF a.ok THEN Enter("change", a)
         ELSE IF a.says = "policy" THEN Complain(s)
         ELSE /\ Show("EMAIL", s)
              /\ notice' = IF Mounted THEN "error" ELSE notice
              /\ UNCHANGED <<held, mixed, entered>>
      /\ UNCHANGED <<pending, sendsCodes, asked, unseen>>
  BY <1>1 DEF ReceiveChange, idp
<1>3. calls' \in [Slots -> Requests] /\ Falls
  BY <1>2, PiecesAre, SettleIs
<1>4 CASE Continues(a)
  BY <1>1, <1>2, <1>4, GoOnKeeps
<1>5 CASE ~Continues(a) /\ a.ok
  <2>1. a \in Answers /\ "change" \in Kinds /\ (a.session \/ a.says = "cut")
    BY <1>1, <1>2, <1>5, BackIs DEF Continues, Kinds
  <2> QED
    BY <1>2, <1>3, <1>5, <2>1, EnterKeeps
<1>6 CASE ~Continues(a) /\ ~a.ok /\ a.says = "policy"
  BY <1>2, <1>6, PiecesAre, ComplainKeeps DEF Complain
<1>7 CASE ~Continues(a) /\ ~a.ok /\ a.says # "policy"
  <2>1. /\ Show("EMAIL", s) /\ notice' = (IF Mounted THEN "error" ELSE notice)
        /\ UNCHANGED <<held, mixed, entered>>
    BY <1>2, <1>7
  <2>2. PastTyped' /\ notice' \in {"none", "error"} /\ mixed' \in BOOLEAN
    BY <1>2, <2>1, PiecesAre DEF PastTyped
  <2>3. /\ step' \in {"EMAIL", "SSO_SELECT", "PASSWORD", "console", "provider"}
        /\ form' \in FormStates /\ (form' = Fresh \/ SameForm(form'))
    BY <2>1, ShowIs
  <2> QED
    BY <1>2, <1>3, <2>1, <2>2, <2>3, LeavesKeep
<1> QED
  BY <1>4, <1>5, <1>6, <1>7

\* So does that to the passkey.
LEMMA ReceiveFinishKeeps ==
  ASSUME SignInInv, NEW s \in Slots, ReceiveFinish(s)
  PROVE  SignInInv'
<1>1. PICK a : a = calls[s].answer
  OBVIOUS
<1>2. /\ calls[s].kind = "finish" /\ calls[s].at = "back" /\ Settle(s)
      /\ IF Continues(a) THEN GoOn(a.says, a.handle, s)
         ELSE IF a.ok /\ a.says = "session" THEN Enter("finish", a) ELSE Complain(s)
      /\ UNCHANGED <<pending, sendsCodes, asked, unseen>>
  BY <1>1 DEF ReceiveFinish, idp
<1>3 CASE Continues(a)
  BY <1>1, <1>2, <1>3, GoOnKeeps
<1>4 CASE ~Continues(a) /\ a.ok /\ a.says = "session"
  <2>1. a.session /\ a \in Answers /\ "finish" \in Kinds
    BY <1>1, <1>4, BackIs DEF Kinds, PasskeySteps
  <2>2. calls' \in [Slots -> Requests] /\ Falls
    BY <1>2, PiecesAre, SettleIs
  <2> QED
    BY <1>2, <1>4, <2>1, <2>2, EnterKeeps
<1>5 CASE ~Continues(a) /\ ~(a.ok /\ a.says = "session")
  BY <1>2, <1>5, PiecesAre, ComplainKeeps DEF Complain
<1> QED
  BY <1>3, <1>4, <1>5

\* A code that was accepted came with a session.
LEMMA AcceptedIs ==
  ASSUME SignInInv, NEW s \in Slots, calls[s].at = "back", calls[s].kind \in {"mfa", "complete"},
         NEW a, a = calls[s].answer, CodeAccepted(a)
  PROVE  a \in Answers /\ a.session
BY BackIs DEF CodeAccepted

\* A code is accepted, refused, or too late.
LEMMA ReceiveMfaKeeps ==
  ASSUME SignInInv, NEW s \in Slots, ReceiveMfa(s)
  PROVE  SignInInv'
<1>1. PICK a : a = calls[s].answer
  OBVIOUS
<1>2. /\ calls[s].kind = "mfa" /\ calls[s].at = "back"
      /\ IF SessionGone(a) THEN Leave("EMAIL", "error")
         ELSE /\ Settle(s)
              /\ IF CodeAccepted(a) THEN Enter("mfa", a) ELSE Complain(s)
              /\ UNCHANGED unseen
      /\ UNCHANGED <<pending, sendsCodes, asked>>
  BY <1>1 DEF ReceiveMfa, idp
<1>3 CASE SessionGone(a)
  BY <1>2, <1>3, LeaveKeeps
<1>4 CASE ~SessionGone(a) /\ CodeAccepted(a)
  <2>1. a.session /\ a \in Answers /\ "mfa" \in Kinds
    BY <1>1, <1>2, <1>4, AcceptedIs DEF Kinds
  <2>2. calls' \in [Slots -> Requests] /\ Falls
    BY <1>2, <1>4, PiecesAre, SettleIs
  <2> QED
    BY <1>2, <1>4, <2>1, <2>2, EnterKeeps
<1>5 CASE ~SessionGone(a) /\ ~CodeAccepted(a)
  BY <1>2, <1>5, PiecesAre, ComplainKeeps DEF Complain
<1> QED
  BY <1>3, <1>4, <1>5

\* An enrolment is accepted: its recovery codes are shown if its form is there.
LEMMA ReceiveCompletionKeeps ==
  ASSUME SignInInv, NEW s \in Slots, ReceiveCompletion(s)
  PROVE  SignInInv'
<1>1. PICK a, h : a = calls[s].answer /\ h = calls[s].handle
  OBVIOUS
<1>2. /\ calls[s].kind = "complete" /\ calls[s].at = "back"
      /\ IF SessionGone(a) THEN Leave("EMAIL", "error")
         ELSE /\ Settle(s)
              /\ IF ~CodeAccepted(a) THEN Complain(s) /\ UNCHANGED unseen
                 ELSE IF ~sendsCodes THEN Enter("complete", a) /\ UNCHANGED unseen
                 ELSE /\ form' = IF form.submit = s
                                 THEN [form EXCEPT !.submit = None, !.phase = "recovery", !.role = a]
                                 ELSE form
                      /\ unseen' = IF form.submit = s /\ form.codes = h THEN unseen ELSE unseen \cup {h}
                      /\ UNCHANGED <<step, held, mixed, notice, entered>>
      /\ UNCHANGED <<pending, sendsCodes, asked>>
  BY <1>1 DEF ReceiveCompletion, idp
<1>3 CASE SessionGone(a)
  BY <1>2, <1>3, LeaveKeeps
<1>4 CASE ~SessionGone(a) /\ ~CodeAccepted(a)
  BY <1>2, <1>4, PiecesAre, ComplainKeeps DEF Complain
<1>5. ASSUME ~SessionGone(a), CodeAccepted(a)
      PROVE  /\ a.session /\ a \in Answers /\ "complete" \in Kinds /\ Settle(s)
             /\ calls' \in [Slots -> Requests] /\ Falls /\ calls'[s] = Idle
             /\ \A t \in Slots : t # s => calls'[t] = calls[t]
  <2>1. a.session /\ a \in Answers /\ "complete" \in Kinds
    BY <1>1, <1>2, <1>5, AcceptedIs DEF Kinds
  <2>2. Settle(s)
    BY <1>2, <1>5
  <2> QED
    BY <2>1, <2>2, PiecesAre, SettleIs
<1>6 CASE ~SessionGone(a) /\ CodeAccepted(a) /\ ~sendsCodes
  BY <1>2, <1>5, <1>6, EnterKeeps
<1>7 CASE ~SessionGone(a) /\ CodeAccepted(a) /\ sendsCodes
  <2>1. /\ form' = (IF form.submit = s
                    THEN [form EXCEPT !.submit = None, !.phase = "recovery", !.role = a] ELSE form)
        /\ unseen' = (IF form.submit = s /\ form.codes = h THEN unseen ELSE unseen \cup {h})
        /\ UNCHANGED <<step, held, mixed, notice, entered>>
    BY <1>2, <1>7
  <2>2. h \in Handles
    BY <1>1, <1>2, BackIs
  <2>3. PastTyped'
    BY <1>2, <2>1, <2>2, PiecesAre DEF PastTyped
  <2>4 CASE form.submit # s
    <3>1. form' = form
      BY <2>1, <2>4
    <3>2. PageTyped' /\ SameForm(form')
      BY <2>1, <3>1, PiecesAre DEF PageTyped, SameForm
    <3>3. \A t \in Slots : calls'[t] = calls[t] \/ calls[t].kind # "initiate"
      BY <1>2, <1>5, <1>7
    <3> QED
      BY <1>2, <1>5, <1>7, <2>1, <2>3, <3>1, <3>2, <3>3, StaysKeep
  <2>5 CASE form.submit = s
    <3>1. form' = [form EXCEPT !.submit = None, !.phase = "recovery", !.role = a]
      BY <2>1, <2>5
    <3>2. /\ form' \in FormStates /\ form'.started = form.started /\ form'.phase = "recovery"
          /\ form'.role = a
      BY <1>5, <1>7, <3>1, PiecesAre DEF FormStates
    <3>3. CallsOK' /\ PendingGrows /\ NothingNew
      BY <1>2, <1>5, <1>7, FallsIs
    <3>4. HeldOK'
      BY <2>1, <3>3, PiecesAre, HeldStays
    <3>5. SubmitOK'
      <4> SUFFICES ASSUME NEW n \in Needs, step = StepFor[n], NEW t \in Slots,
                          calls'[t].kind = Submits[step], calls'[t].handle = held[n]
                   PROVE  FALSE
        BY <2>1 DEF SubmitOK
      <4>1. held[n] # None
        BY PiecesAre DEF HeldOK
      <4>2. t # s /\ calls'[t] = calls[t]
        BY <1>5, <1>7, <4>1, BlankIs
      <4>3. form.submit = t
        BY <4>2, PiecesAre DEF SubmitOK
      <4> QED
        BY <2>5, <4>2, <4>3
    <3>6. EnrolOK'
      BY <1>2, <1>5, <1>7, <2>1, <3>2, PiecesAre DEF EnrolOK, LoadingIsAnswered
    <3>7. PageTyped' /\ IdpTyped'
      BY <1>2, <2>1, <3>2, PiecesAre DEF PageTyped, IdpTyped
    <3>8. HistoryOK'
      BY <1>2, <2>1, <3>3, PiecesAre, HistoryStays
    <3> QED
      BY <1>5, <1>7, <2>3, <3>3, <3>4, <3>5, <3>6, <3>7, <3>8, TypedNext DEF SignInInv
  <2> QED
    BY <2>4, <2>5
<1> QED
  BY <1>3, <1>4, <1>6, <1>7

\* The secret reaches the form that listens.
LEMMA ReceiveMintKeeps ==
  ASSUME SignInInv, NEW s \in Slots, ReceiveMint(s)
  PROVE  SignInInv'
<1>1. /\ calls[s].kind = "initiate" /\ Settle(s) /\ Minted(s, calls[s].answer)
      /\ UNCHANGED <<step, held, mixed, notice, pending, sendsCodes, asked, entered, unseen>>
  BY DEF ReceiveMint, idp, history
<1>2. PICK a : a = calls[s].answer
  OBVIOUS
<1>3. Minted(s, a)
  BY <1>1, <1>2
<1> QED
  BY <1>1, <1>3, MintKeeps

\* Whatever is received keeps the invariant,
LEMMA ReceiveKeeps ==
  ASSUME SignInInv, NEW s \in Slots, Receive(s)
  PROVE  SignInInv'
BY ReceiveLookupKeeps, ReceiveOptionsKeeps, ReceiveLoginKeeps, ReceiveChangeKeeps, ReceiveFinishKeeps,
   ReceiveMfaKeeps, ReceiveCompletionKeeps, ReceiveMintKeeps DEF Receive

\* ... and so does what fails.
LEMMA FailKeeps ==
  ASSUME SignInInv, NEW s \in Slots, Fail(s)
  PROVE  SignInInv'
<1>1. PICK k : k = calls[s].kind
  OBVIOUS
<1>2. /\ Settle(s)
      /\ IF k \in Lookups
         THEN Show("PASSWORD", s) /\ mixed' = FALSE
         ELSE /\ IF k = "initiate" THEN Minted(s, Blank) ELSE form' = Released(s)
              /\ UNCHANGED <<step, mixed>>
      /\ UNCHANGED <<held, notice, pending, sendsCodes, asked, entered, unseen>>
  BY <1>1 DEF Fail, idp, history
<1>3 CASE k \in Lookups
  <2>1. calls' \in [Slots -> Requests] /\ Falls
    BY <1>2, PiecesAre, SettleIs
  <2>2. PastTyped' /\ notice' \in {"none", "error"} /\ mixed' \in BOOLEAN
    BY <1>2, <1>3, PiecesAre DEF PastTyped
  <2>3. /\ step' \in {"EMAIL", "SSO_SELECT", "PASSWORD", "console", "provider"}
        /\ form' \in FormStates /\ (form' = Fresh \/ SameForm(form'))
    BY <1>2, <1>3, ShowIs
  <2> QED
    BY <1>2, <2>1, <2>2, <2>3, LeavesKeep
<1>4 CASE k \notin Lookups /\ k = "initiate"
  BY <1>1, <1>2, <1>4, MintKeeps
<1>5 CASE k \notin Lookups /\ k # "initiate"
  BY <1>1, <1>2, <1>5, PiecesAre, ComplainKeeps
<1> QED
  BY <1>3, <1>4, <1>5

-----------------------------------------------------------------------------
(* The identity provider, and the network.                                 *)

\* An answer arrives at its request: it carries no handle, or a new one.
LEMMA AnsweredKeeps ==
  ASSUME SignInInv, NEW s \in Slots, NEW c \in Requests, calls' = [calls EXCEPT ![s] = c],
         c.kind = calls[s].kind, c.handle = calls[s].handle, Honest(c),
         Carries(c) => /\ c.kind \in {"login", "change", "finish"} /\ c.answer.handle # None
                       /\ ~Issued(c.answer.handle)
                       /\ Issued(c.answer.handle)' /\ pending'[c.answer.handle].need = c.answer.says,
         PendingGrows, IdpTyped', UNCHANGED <<page, history>>
  PROVE  SignInInv'
<1>1. CallsOK'
  BY PiecesAre, CallsAnswer DEF history
<1>2. calls' \in [Slots -> Requests] /\ calls'[s] = c /\ \A t \in Slots : t # s => calls'[t] = calls[t]
  BY PiecesAre, OneSlot
<1>3. NothingNew
  BY <1>2 DEF NothingNew
<1>4. UNCHANGED <<step, held, mixed, notice, form, asked, entered, unseen>>
  BY DEF page, history
<1>5. SameForm(form')
  BY <1>4 DEF SameForm
<1>6. \A t \in Slots : calls'[t].kind = calls[t].kind /\ calls'[t].handle = calls[t].handle
  BY <1>2
<1>7. HeldOK' /\ SubmitOK' /\ EnrolOK'
  BY <1>1, <1>3, <1>4, <1>5, <1>6, PiecesAre, PageStays
<1>8. PageTyped' /\ PastTyped'
  BY <1>4, PiecesAre DEF PageTyped, PastTyped
<1>9. HistoryOK'
  BY <1>4, PiecesAre, HistoryStays
<1> QED
  BY <1>1, <1>2, <1>7, <1>8, <1>9, TypedNext DEF SignInInv

\* An answer arrives: the request is the same, and has it.
Arrives(s, a) == calls' = [calls EXCEPT ![s].at = "back", ![s].answer = a]

\* An arriving answer changes its request alone.
LEMMA ArrivesIs ==
  ASSUME calls \in [Slots -> Requests], NEW s \in Slots, NEW a \in Answers, Arrives(s, a)
  PROVE  \E c \in Requests :
           /\ calls' = [calls EXCEPT ![s] = c] /\ c.kind = calls[s].kind /\ c.handle = calls[s].handle
           /\ c.answer = a
<1>1. PICK d : d = calls[s]
  OBVIOUS
<1>2. PICK c : c = [d EXCEPT !.at = "back", !.answer = a]
  OBVIOUS
<1>3. d \in Requests
  BY <1>1
<1>4. c \in Requests /\ c.kind = d.kind /\ c.handle = d.handle /\ c.answer = a
  BY <1>2, <1>3 DEF Requests
<1>5. calls' = [calls EXCEPT ![s] = c]
  BY <1>1, <1>2, <1>3 DEF Arrives, Requests
<1> QED
  BY <1>1, <1>4, <1>5

\* A handle that is used, or used up, stays issued for what it was issued for.
LEMMA UsedIs ==
  ASSUME pending \in Pendings, NEW h \in Handles, NEW now,
         now = [pending EXCEPT ![h].st = "minted"] \/ now = [pending EXCEPT ![h].st = "spent"]
  PROVE  /\ now \in Pendings
         /\ \A g \in Handles : now[g].need = pending[g].need /\ (Issued(g) => now[g].st # "unissued")
<1>1. pending[h] \in [need : Needs \cup {"none"}, st : {"unissued", "open", "minted", "spent"}]
  BY DEF Pendings
<1>2. PICK p, q : p = [pending[h] EXCEPT !.st = "minted"] /\ q = [pending[h] EXCEPT !.st = "spent"]
  OBVIOUS
<1>3. /\ p \in [need : Needs \cup {"none"}, st : {"unissued", "open", "minted", "spent"}]
      /\ q \in [need : Needs \cup {"none"}, st : {"unissued", "open", "minted", "spent"}]
      /\ p.need = pending[h].need /\ q.need = pending[h].need /\ p.st = "minted" /\ q.st = "spent"
  BY <1>1, <1>2
<1>4. now = [pending EXCEPT ![h] = p] \/ now = [pending EXCEPT ![h] = q]
  BY <1>2
<1> QED
  BY <1>3, <1>4 DEF Pendings, Issued

\* A handle used up, if the request presented one.
LEMMA SpentIs ==
  ASSUME pending \in Pendings, NEW h \in Handles \cup {None}, NEW now, now = Spent(h)
  PROVE  /\ now \in Pendings
         /\ \A g \in Handles : now[g].need = pending[g].need /\ (Issued(g) => now[g].st # "unissued")
<1>1 CASE h = None
  BY <1>1 DEF Spent, Issued
<1>2 CASE h # None
  <2>1. h \in Handles /\ now = [pending EXCEPT ![h].st = "spent"]
    BY <1>2 DEF Spent
  <2> QED
    BY <2>1, UsedIs
<1> QED
  BY <1>1, <1>2

\* An answer that carries no handle.
LEMMA RepliedKeeps ==
  ASSUME SignInInv, NEW s \in Slots, NEW a \in Answers, Arrives(s, a),
         UNCHANGED <<page, history>>, PendingGrows, IdpTyped', a.says \notin Needs,
         a.ok /\ calls[s].kind \in {"login", "change", "finish", "mfa", "complete"} =>
           a.session \/ a.says = "waiting",
         a.says = "waiting" => calls[s].kind = "login", a.says = "session" => a.session
  PROVE  SignInInv'
<1>1. PICK c \in Requests :
        /\ calls' = [calls EXCEPT ![s] = c] /\ c.kind = calls[s].kind /\ c.handle = calls[s].handle
        /\ c.answer = a
  BY PiecesAre, ArrivesIs
<1>2. Honest(c) /\ ~Carries(c)
  BY <1>1 DEF Honest, Carries
<1> QED
  BY <1>1, <1>2, AnsweredKeeps

\* A next step comes with a handle never given out before.
LEMMA ServeStepKeeps ==
  ASSUME SignInInv, NEW s \in Slots, NEW need \in Needs, NEW h \in Handles, ServeStep(s, need, h),
         UNCHANGED <<page, sendsCodes, history>>
  PROVE  SignInInv'
<1>1. PICK a \in Answers : Arrives(s, a) /\ a.says = need /\ a.handle = h
  <2>1. PICK ok \in BOOLEAN : Reply(s, ok, need, h, FALSE)
    BY DEF ServeStep
  <2>2. PICK a : a = [ok |-> ok, says |-> need, handle |-> h, session |-> FALSE]
    OBVIOUS
  <2>3. a \in Answers /\ a.says = need /\ a.handle = h
    BY <2>2 DEF Answers, Says
  <2>4. Arrives(s, a)
    BY <2>1, <2>2 DEF Reply, Arrives
  <2> QED
    BY <2>3, <2>4
<1>2. PICK c \in Requests :
        /\ calls' = [calls EXCEPT ![s] = c] /\ c.kind = calls[s].kind /\ c.handle = calls[s].handle
        /\ c.answer = a
  BY <1>1, PiecesAre, ArrivesIs
<1>3. c.answer.says = need /\ c.answer.handle = h
  BY <1>1, <1>2
<1>4. Honest(c)
  BY <1>3 DEF Honest, Needs
<1>5. c.kind \in {"login", "change", "finish"} /\ c.answer.handle # None /\ ~Issued(h)
  BY <1>2, <1>3, NoneIsNone DEF ServeStep, Issued
<1>6. PICK was : was = Spent(calls[s].handle)
  OBVIOUS
<1>7. calls[s].handle \in Handles \cup {None}
  BY <1>2 DEF Requests
<1>8. /\ was \in Pendings
      /\ \A g \in Handles : was[g].need = pending[g].need /\ (Issued(g) => was[g].st # "unissued")
  BY <1>6, <1>7, PiecesAre, SpentIs DEF IdpTyped
<1>9. pending' = [was EXCEPT ![h] = [need |-> need, st |-> "open"]]
  BY <1>6 DEF ServeStep
<1>10. IdpTyped'
  <2>1. [need |-> need, st |-> "open"] \in [need : Needs \cup {"none"}, st : {"unissued", "open", "minted", "spent"}]
    OBVIOUS
  <2> QED
    BY <1>8, <1>9, <2>1, PiecesAre DEF IdpTyped, Pendings
<1>11. pending'[h] = [need |-> need, st |-> "open"] /\ \A g \in Handles : g # h => pending'[g] = was[g]
  BY <1>8, <1>9 DEF Pendings
<1>12. PendingGrows
  BY <1>5, <1>8, <1>11 DEF PendingGrows, Issued
<1>13. Issued(c.answer.handle)' /\ pending'[c.answer.handle].need = c.answer.says
  <2>1. Issued(h)' /\ pending'[h].need = need
    BY <1>11 DEF Issued
  <2> QED
    BY <1>3, <2>1 DEF Issued
<1>14. ~Issued(c.answer.handle)
  BY <1>3, <1>5
<1> QED
  BY <1>2, <1>3, <1>4, <1>5, <1>10, <1>12, <1>13, <1>14, AnsweredKeeps

\* Whatever the identity provider answers keeps the invariant,
LEMMA ServeKeeps ==
  ASSUME SignInInv, NEW s \in Slots, Serve(s)
  PROVE  SignInInv'
<1>1. UNCHANGED <<page, sendsCodes, history>>
  BY DEF Serve
<1>2. calls[s].handle \in Handles \cup {None}
  <2>1. calls[s] \in Requests
    BY PiecesAre
  <2> QED
    BY <2>1 DEF Requests
<1>3. ASSUME UNCHANGED pending PROVE PendingGrows /\ IdpTyped'
  BY <1>1, <1>3, PiecesAre, PendingStays DEF IdpTyped
<1>4. ASSUME pending' = Spent(calls[s].handle) PROVE PendingGrows /\ IdpTyped'
  <2>1. /\ pending' \in Pendings
        /\ \A g \in Handles : pending'[g].need = pending[g].need
                              /\ (Issued(g) => pending'[g].st # "unissued")
    BY <1>2, <1>4, PiecesAre, SpentIs DEF IdpTyped
  <2> QED
    BY <1>1, <2>1, PiecesAre DEF PendingGrows, Issued, IdpTyped
<1>5. ASSUME NEW says \in Routes \cup {"options", "session", "minted", "refused", "policy", "waiting", "expired"}
      PROVE  says \in Says /\ says \notin Needs
  BY DEF Says, Routes, Needs
<1>6 CASE ServeLookup(s)
  <2>1. PICK says \in Routes : Reply(s, TRUE, says, None, FALSE)
    BY <1>6 DEF ServeLookup
  <2>2. says \in Says /\ says \notin Needs /\ says # "waiting" /\ says # "session"
    BY <1>5 DEF Routes
  <2>3. PICK a \in Answers : Arrives(s, a) /\ a.says = says
    <3>1. PICK a : a = [ok |-> TRUE, says |-> says, handle |-> None, session |-> FALSE]
      OBVIOUS
    <3>2. a \in Answers /\ a.says = says
      BY <3>1, <1>5 DEF Answers
    <3>3. Arrives(s, a)
      BY <3>1, <2>1 DEF Reply, Arrives
    <3> QED
      BY <3>2, <3>3
  <2>4. calls[s].kind \in Lookups /\ UNCHANGED pending
    BY <1>6 DEF ServeLookup
  <2>5. calls[s].kind \notin {"login", "change", "finish", "mfa", "complete"}
    BY <2>4 DEF Lookups
  <2> QED
    BY <1>1, <1>3, <2>2, <2>3, <2>4, <2>5, RepliedKeeps
<1>7 CASE ServeOptions(s)
  <2>1. calls[s].kind = "begin" /\ Reply(s, TRUE, "options", None, FALSE) /\ UNCHANGED pending
    BY <1>7 DEF ServeOptions
  <2>2. PICK a \in Answers : Arrives(s, a) /\ a.says = "options"
    <3>1. PICK a : a = [ok |-> TRUE, says |-> "options", handle |-> None, session |-> FALSE]
      OBVIOUS
    <3>2. a \in Answers /\ a.says = "options"
      BY <3>1, <1>5 DEF Answers
    <3>3. Arrives(s, a)
      BY <3>1, <2>1 DEF Reply, Arrives
    <3> QED
      BY <3>2, <3>3
  <2> QED
    BY <1>1, <1>3, <1>5, <2>1, <2>2, RepliedKeeps
<1>8 CASE ServeSession(s)
  <2>1. Reply(s, TRUE, "session", None, TRUE) /\ pending' = Spent(calls[s].handle)
    BY <1>8 DEF ServeSession
  <2>2. PICK a \in Answers : Arrives(s, a) /\ a.says = "session" /\ a.session
    <3>1. PICK a : a = [ok |-> TRUE, says |-> "session", handle |-> None, session |-> TRUE]
      OBVIOUS
    <3>2. a \in Answers /\ a.says = "session" /\ a.session
      BY <3>1, <1>5 DEF Answers
    <3>3. Arrives(s, a)
      BY <3>1, <2>1 DEF Reply, Arrives
    <3> QED
      BY <3>2, <3>3
  <2> QED
    BY <1>1, <1>4, <1>5, <2>1, <2>2, RepliedKeeps
<1>9 CASE \E need \in Needs, h \in Handles : ServeStep(s, need, h)
  BY <1>1, <1>9, ServeStepKeeps
<1>10 CASE ServeMint(s)
  <2>1. /\ calls[s].kind = "initiate" /\ Reply(s, TRUE, "minted", None, FALSE)
        /\ pending' = [pending EXCEPT ![calls[s].handle].st = "minted"]
    BY <1>10 DEF ServeMint
  <2>2. PICK h : h = calls[s].handle
    OBVIOUS
  <2>3. h \in Handles
    <3>1. Presents(calls[s])
      BY PiecesAre DEF CallsOK
    <3> QED
      BY <1>2, <2>1, <2>2, <3>1 DEF Presents
  <2>4. /\ pending' \in Pendings
        /\ \A g \in Handles : pending'[g].need = pending[g].need
                              /\ (Issued(g) => pending'[g].st # "unissued")
    <3>1. PICK now : now = pending'
      OBVIOUS
    <3>2. pending \in Pendings /\ now = [pending EXCEPT ![h].st = "minted"]
      BY <2>1, <2>2, <3>1, PiecesAre DEF IdpTyped
    <3>3. /\ now \in Pendings
          /\ \A g \in Handles : now[g].need = pending[g].need /\ (Issued(g) => now[g].st # "unissued")
      BY <2>3, <3>2, UsedIs
    <3> QED
      BY <3>1, <3>3
  <2>5. PendingGrows /\ IdpTyped'
    BY <1>1, <2>4, PiecesAre DEF PendingGrows, Issued, IdpTyped
  <2>6. PICK a \in Answers : Arrives(s, a) /\ a.says = "minted"
    <3>1. PICK a : a = [ok |-> TRUE, says |-> "minted", handle |-> None, session |-> FALSE]
      OBVIOUS
    <3>2. a \in Answers /\ a.says = "minted"
      BY <3>1, <1>5 DEF Answers
    <3>3. Arrives(s, a)
      BY <3>1, <2>1 DEF Reply, Arrives
    <3> QED
      BY <3>2, <3>3
  <2> QED
    BY <1>1, <1>5, <2>1, <2>5, <2>6, RepliedKeeps
<1>11 CASE ServeRefusal(s)
  <2>1. PICK a \in Answers :
          /\ Arrives(s, a)
          /\ \/ ~a.ok /\ a.says \in {"refused", "policy"}
             \/ calls[s].kind = "login" /\ a.says = "waiting"
    <3>1 CASE Reply(s, FALSE, "refused", None, FALSE)
      <4>1. PICK a : a = [ok |-> FALSE, says |-> "refused", handle |-> None, session |-> FALSE]
        OBVIOUS
      <4>2. a \in Answers /\ a.says = "refused" /\ ~a.ok
        BY <4>1, <1>5 DEF Answers
      <4>3. Arrives(s, a)
        BY <4>1, <3>1 DEF Reply, Arrives
      <4> QED
        BY <4>2, <4>3, <3>1
    <3>2 CASE Reply(s, FALSE, "policy", None, FALSE)
      <4>1. PICK a : a = [ok |-> FALSE, says |-> "policy", handle |-> None, session |-> FALSE]
        OBVIOUS
      <4>2. a \in Answers /\ a.says = "policy" /\ ~a.ok
        BY <4>1, <1>5 DEF Answers
      <4>3. Arrives(s, a)
        BY <4>1, <3>2 DEF Reply, Arrives
      <4> QED
        BY <4>2, <4>3, <3>2
    <3>3 CASE calls[s].kind = "login" /\ Reply(s, TRUE, "waiting", None, FALSE)
      <4>1. PICK a : a = [ok |-> TRUE, says |-> "waiting", handle |-> None, session |-> FALSE]
        OBVIOUS
      <4>2. a \in Answers /\ a.says = "waiting"
        BY <4>1, <1>5 DEF Answers
      <4>3. Arrives(s, a)
        BY <4>1, <3>3 DEF Reply, Arrives
      <4> QED
        BY <4>2, <4>3, <3>3
    <3> QED
      BY <1>11, <3>1, <3>2, <3>3 DEF ServeRefusal
  <2>2. UNCHANGED pending
    BY <1>11 DEF ServeRefusal
  <2> QED
    BY <1>1, <1>3, <1>5, <2>1, <2>2, RepliedKeeps
<1>12 CASE ServeExpired(s)
  <2>1. Reply(s, FALSE, "expired", None, FALSE) /\ pending' = Spent(calls[s].handle)
    BY <1>12 DEF ServeExpired
  <2>2. PICK a \in Answers : Arrives(s, a) /\ ~a.ok /\ a.says = "expired"
    <3>1. PICK a : a = [ok |-> FALSE, says |-> "expired", handle |-> None, session |-> FALSE]
      OBVIOUS
    <3>2. a \in Answers /\ ~a.ok /\ a.says = "expired"
      BY <3>1, <1>5 DEF Answers
    <3>3. Arrives(s, a)
      BY <3>1, <2>1 DEF Reply, Arrives
    <3> QED
      BY <3>2, <3>3
  <2> QED
    BY <1>1, <1>4, <1>5, <2>1, <2>2, RepliedKeeps
<1> QED
  BY <1>6, <1>7, <1>8, <1>9, <1>10, <1>11, <1>12 DEF Serve

\* An answer that is torn, and its request.
LEMMA TornIs ==
  ASSUME calls \in [Slots -> Requests], NEW s \in Slots, Tear(s)
  PROVE  \E c \in Requests :
           /\ calls' = [calls EXCEPT ![s] = c] /\ c.kind = calls[s].kind /\ c.handle = calls[s].handle
           /\ c.answer.says = "cut"
<1>1. calls[s] \in Requests /\ calls[s].answer \in Answers
  BY DEF Requests
<1>2. PICK a : a = [calls[s].answer EXCEPT !.says = "cut", !.handle = None]
  OBVIOUS
<1>3. a \in Answers /\ a.says = "cut"
  BY <1>1, <1>2 DEF Answers, Says
<1>4. PICK c : c = [calls[s] EXCEPT !.answer = a]
  OBVIOUS
<1>5. c \in Requests /\ c.kind = calls[s].kind /\ c.handle = calls[s].handle /\ c.answer = a
  BY <1>1, <1>3, <1>4 DEF Requests
<1>6. calls' = [calls EXCEPT ![s].answer.says = "cut", ![s].answer.handle = None]
  BY DEF Tear
<1>7. calls' = [calls EXCEPT ![s] = c]
  BY <1>1, <1>2, <1>4, <1>6 DEF Requests, Answers
<1> QED
  BY <1>3, <1>5, <1>7

\* ... and so does an answer torn on its way.
LEMMA TearKeeps ==
  ASSUME SignInInv, NEW s \in Slots, Tear(s)
  PROVE  SignInInv'
<1>1. PICK c \in Requests :
        /\ calls' = [calls EXCEPT ![s] = c] /\ c.kind = calls[s].kind /\ c.handle = calls[s].handle
        /\ c.answer.says = "cut"
  BY PiecesAre, TornIs
<1>2. Honest(c) /\ ~Carries(c)
  BY <1>1 DEF Honest, Carries, Needs
<1>3. UNCHANGED <<page, history, pending, sendsCodes>>
  BY DEF Tear, idp
<1>4. PendingGrows /\ IdpTyped'
  BY <1>3, PiecesAre, PendingStays DEF IdpTyped
<1> QED
  BY <1>1, <1>2, <1>3, <1>4, AnsweredKeeps

-----------------------------------------------------------------------------
(* The invariant.                                                          *)

\* The first document satisfies the invariant,
LEMMA SignInBegins == Init => SignInInv
<1> SUFFICES ASSUME Init PROVE SignInInv
  OBVIOUS
<1>1. /\ step = "EMAIL" /\ held = [n \in Needs |-> None] /\ mixed = FALSE /\ notice = "none" /\ form = Fresh
      /\ calls = [s \in Slots |-> Idle]
      /\ pending = [h \in Handles |-> [need |-> "none", st |-> "unissued"]] /\ sendsCodes \in BOOLEAN
      /\ asked = [h \in Handles |-> 0] /\ entered = Nobody /\ unseen = {}
  BY DEF Init
<1>2. TypeOK
  <2>1. PageTyped
    BY <1>1, FreshIs, StepsAre DEF PageTyped
  <2>2. Nobody \in Entries
    BY DEF Nobody, Entries
  <2> QED
    BY <1>1, <2>1, <2>2, BlankIs DEF TypeOK, PageTyped, FormStates
<1>3. Mute(Idle)
  BY BlankIs DEF Mute
<1>4. CallsOK
  BY <1>1, <1>3, MuteIs DEF CallsOK
<1>5. \A n \in Needs : held[n] = None /\ step # StepFor[n]
  BY <1>1, StepsAre
<1>6. \A s \in Slots : ~Carries(calls[s])
  BY <1>1, <1>3, MuteIs
<1>7. HeldOK /\ SubmitOK
  BY <1>5, <1>6 DEF HeldOK, SubmitOK
<1>8. EnrolOK
  BY <1>1, FreshIs DEF EnrolOK, LoadingIsAnswered
<1>9. HistoryOK
  BY <1>1 DEF HistoryOK, OneInitiate, SuccessIsSession
<1> QED
  BY <1>2, <1>4, <1>7, <1>8, <1>9 DEF SignInInv

\* ... and every step keeps it.
LEMMA SignInKeeps ==
  ASSUME SignInInv, [Next]_vars
  PROVE  SignInInv'
<1>1. ASSUME NEW s \in Slots,
             \/ \E kind \in Lookups : Continue(s, kind)
             \/ StartPasskey(s)
             \/ \E agreed \in BOOLEAN : AnswerPrompt(s, agreed)
             \/ Submit(s) \/ Effect(s) \/ Receive(s) \/ Fail(s) \/ Serve(s) \/ Tear(s)
      PROVE  SignInInv'
  BY <1>1, ContinueKeeps, StartPasskeyKeeps, AnswerPromptKeeps, SubmitKeeps, EffectKeeps,
     ReceiveKeeps, FailKeeps, ServeKeeps, TearKeeps
<1>2 CASE Back \/ ChoosePassword \/ Acknowledge \/ SignInAgain \/ \E valid \in BOOLEAN : ChooseProvider(valid)
  BY <1>2, UserKeeps
<1>3 CASE UNCHANGED vars
  <2>1. UNCHANGED <<step, held, mixed, notice, form, calls, pending, sendsCodes, asked, entered, unseen>>
    BY <1>3 DEF vars, page, idp, history
  <2>2. Falls /\ calls' \in [Slots -> Requests]
    BY <2>1, PiecesAre DEF Falls
  <2>3. PageTyped' /\ PastTyped' /\ SameForm(form')
    BY <2>1, PiecesAre DEF PageTyped, PastTyped, SameForm
  <2> QED
    BY <2>1, <2>2, <2>3, StaysKeep
<1> QED
  BY <1>1, <1>2, <1>3 DEF Next

\* SignInInv is an invariant of the sign-in page.
LEMMA SignInHolds == Spec => []SignInInv
<1>1. Init => SignInInv
  BY SignInBegins
<1>2. SignInInv /\ [Next]_vars => SignInInv'
  BY SignInKeeps
<1> QED
  BY <1>1, <1>2, PTL DEF Spec

-----------------------------------------------------------------------------
(* What the page promises.                                                 *)

\* Every field of the page, of its requests and of the identity provider
\* keeps its type.
THEOREM SignInTypesHold == Spec => []TypeOK
<1>1. SignInInv => TypeOK
  BY DEF SignInInv
<1> QED
  BY <1>1, SignInHolds, PTL

\* The enrolment form asks for a handle's secret once, whatever renders it
\* again and however many logins hand it a handle (mfa-enroll-form.tsx,
\* initiateRef).
THEOREM OneInitiateHolds == Spec => []OneInitiate
<1>1. SignInInv => OneInitiate
  BY DEF SignInInv, HistoryOK
<1> QED
  BY <1>1, SignInHolds, PTL

\* The console is entered on a session, or on a password change whose body
\* was lost: on no answer, of whichever status, that names a further step, a
\* refusal or a wait (lib/idp-client.ts, login-flow.tsx).
THEOREM SuccessIsSessionHolds == Spec => []SuccessIsSession
<1>1. SignInInv => SuccessIsSession
  BY DEF SignInInv, HistoryOK
<1> QED
  BY <1>1, SignInHolds, PTL

\* The enrolment form that says "Setting up" is waiting for something that
\* comes: its effect, or an answer it will show (mfa-enroll-form.tsx).
THEOREM LoadingIsAnsweredHolds == Spec => []LoadingIsAnswered
<1>1. SignInInv => LoadingIsAnswered
  BY DEF SignInInv, EnrolOK
<1> QED
  BY <1>1, SignInHolds, PTL

\* Each step of a login, and each request of one, has a handle issued for it,
\* and one submit at a time presents it, however many logins are under way and
\* in whichever order their answers come (login-flow.tsx).
THEOREM RightHandleHolds == Spec => []RightHandle
<1>1. SignInInv => RightHandle
  <2> SUFFICES ASSUME SignInInv PROVE RightHandle
    OBVIOUS
  <2>1. ASSUME NEW n \in Needs, step = StepFor[n] PROVE held[n] # None /\ pending[held[n]].need = n
    BY <2>1, PiecesAre DEF HeldOK
  <2>2. ASSUME NEW s \in Slots, calls[s].handle # None
        PROVE  pending[calls[s].handle].need = About[calls[s].kind]
    <3>1. Presents(calls[s])
      BY PiecesAre DEF CallsOK
    <3> QED
      BY <2>2, <3>1 DEF Presents
  <2>3. ASSUME NEW s \in Slots, NEW t \in Slots, s # t, calls[s].handle # None,
               calls[s].handle = calls[t].handle
        PROVE  calls[s].kind # calls[t].kind
    <3>1. Apart(calls[s], calls[t])
      BY <2>3, PiecesAre DEF CallsOK
    <3> QED
      BY <2>3, <3>1 DEF Apart
  <2> QED
    BY <2>1, <2>2, <2>3 DEF RightHandle
<1> QED
  BY <1>1, SignInHolds, PTL

\* A request that is no lookup ends, and a lookup under way stays.
LEMMA LookupStays ==
  ASSUME TypeOK, NEW s \in Slots, calls[s].kind \in Lookups,
         NEW t \in Slots, calls[t].kind \notin Lookups, Settle(t)
  PROVE  UnderWay(Lookups)'
<1>1. calls'[s] = calls[s]
  BY Typed, SettleIs
<1> QED
  BY <1>1 DEF UnderWay

\* A request changes otherwise, and is the lookup it was, or none.
LEMMA LookupKept ==
  ASSUME TypeOK, NEW s \in Slots, calls[s].kind \in Lookups, NEW t \in Slots, NEW c \in Requests,
         calls' = [calls EXCEPT ![t] = c], calls[t].kind \in Lookups => c.kind = calls[t].kind
  PROVE  UnderWay(Lookups)'
<1>1. calls'[t] = c /\ \A r \in Slots : r # t => calls'[r] = calls[r]
  BY Typed, OneSlot
<1>2. calls'[s].kind \in Lookups
  BY <1>1
<1> QED
  BY <1>2 DEF UnderWay

\* The answer of a lookup, or its failure, leads on from the address.
LEMMA LookupAnswered ==
  ASSUME TypeOK, step = "EMAIL", NEW s \in Slots, ReceiveLookup(s)
  PROVE  step' # "EMAIL" \/ notice' # "none"
<1>1. PICK to : to = RouteAfterLookup(calls[s].kind, calls[s].answer)
  OBVIOUS
<1>2. to \in {"PASSWORD", "SSO_SELECT", "provider"}
  BY <1>1 DEF RouteAfterLookup
<1>3. Mounted
  BY DEF Mounted
<1>4. \/ to = "provider" /\ Leave("provider", "none")
      \/ to = "provider" /\ notice' = "error"
      \/ to # "provider" /\ Show(to, s)
  BY <1>1, <1>3 DEF ReceiveLookup
<1>5. ASSUME to = "provider", Leave("provider", "none") PROVE step' = "provider"
  BY <1>5 DEF Leave
<1>6. ASSUME to # "provider", Show(to, s) PROVE step' = to
  BY <1>3, <1>6 DEF Show
<1> QED
  BY <1>2, <1>4, <1>5, <1>6

\* So does whatever else ends it.
LEMMA LookupLeads ==
  ASSUME SignInInv, [Next]_vars, step = "EMAIL", UnderWay(Lookups), ~UnderWay(Lookups)'
  PROVE  step' # "EMAIL" \/ notice' # "none"
<1>1. PICK s \in Slots : calls[s].kind \in Lookups
  BY DEF UnderWay
<1>2. TypeOK /\ calls \in [Slots -> Requests] /\ "EMAIL" \notin Forms
  BY PiecesAre DEF Forms, StepFor, Needs
<1>3. ASSUME NEW t \in Slots, Receive(t) PROVE step' # "EMAIL" \/ notice' # "none"
  <2>1 CASE ReceiveLookup(t)
    BY <1>2, <2>1, LookupAnswered
  <2>2 CASE ReceiveOptions(t)
    <3>1. PICK c : c = (IF calls[t].answer.ok /\ calls[t].answer.says = "options"
                        THEN [Idle EXCEPT !.kind = "prompt", !.at = "back"] ELSE Idle)
      OBVIOUS
    <3>2. c \in Requests
      BY <3>1, BlankIs DEF Idle, Requests, Kinds, PasskeySteps
    <3>3. calls[t].kind \notin Lookups /\ calls' = [calls EXCEPT ![t] = c]
      BY <2>2, <3>1 DEF ReceiveOptions, Lookups
    <3> QED
      BY <1>1, <1>2, <3>2, <3>3, LookupKept
  <2>3 CASE ReceiveLogin(t) \/ ReceiveChange(t) \/ ReceiveFinish(t) \/ ReceiveMint(t)
    <3>1. Settle(t) /\ calls[t].kind \notin Lookups
      BY <2>3 DEF ReceiveLogin, ReceiveChange, ReceiveFinish, ReceiveMint, Lookups
    <3> QED
      BY <1>1, <1>2, <3>1, LookupStays
  <2>4 CASE ReceiveMfa(t) \/ ReceiveCompletion(t)
    <3>1. calls[t].kind \notin Lookups /\ (Leave("EMAIL", "error") \/ Settle(t))
      BY <2>4 DEF ReceiveMfa, ReceiveCompletion, Lookups
    <3>2. ASSUME Leave("EMAIL", "error") PROVE notice' = "error"
      BY <3>2 DEF Leave
    <3> QED
      BY <1>1, <1>2, <3>1, <3>2, LookupStays
  <2> QED
    BY <1>3, <2>1, <2>2, <2>3, <2>4 DEF Receive
<1>4. ASSUME NEW t \in Slots, Fail(t) PROVE step' # "EMAIL" \/ notice' # "none"
  <2>1. Settle(t)
    BY <1>4 DEF Fail
  <2>2 CASE calls[t].kind \in Lookups
    <3>1. Show("PASSWORD", t)
      BY <1>4, <2>2 DEF Fail
    <3>2. step' = "PASSWORD"
      BY <3>1 DEF Show, Mounted
    <3> QED
      BY <3>2
  <2>3 CASE calls[t].kind \notin Lookups
    BY <1>1, <1>2, <2>1, <2>3, LookupStays
  <2> QED
    BY <2>2, <2>3
<1>5. ASSUME NEW t \in Slots, Serve(t) \/ Tear(t) PROVE FALSE
  <2>1. \A r \in Slots : calls'[r].kind = calls[r].kind
    <3>1. ASSUME NEW ok, NEW says, NEW h, NEW session, Reply(t, ok, says, h, session)
          PROVE  \A r \in Slots : calls'[r].kind = calls[r].kind
      BY <1>2, <3>1 DEF Reply, Requests
    <3>2 CASE Serve(t)
      <4>1. \E ok, says, h, session : Reply(t, ok, says, h, session)
        BY <3>2 DEF Serve, ServeLookup, ServeOptions, ServeSession, ServeStep, ServeMint, ServeRefusal,
                    ServeExpired
      <4> QED
        BY <3>1, <4>1
    <3>3 CASE Tear(t)
      <4>1. PICK c \in Requests : calls' = [calls EXCEPT ![t] = c] /\ c.kind = calls[t].kind
        BY <1>2, <3>3, TornIs
      <4> QED
        BY <1>2, <4>1, OneSlot
    <3> QED
      BY <1>5, <3>2, <3>3
  <2> QED
    BY <1>1, <2>1 DEF UnderWay
<1>6. ASSUME NEW t \in Slots, NEW agreed \in BOOLEAN, AnswerPrompt(t, agreed) PROVE FALSE
  <2>1. PICK c : c = (IF agreed THEN [Idle EXCEPT !.kind = "finish", !.at = "out"] ELSE Idle)
    OBVIOUS
  <2>2. c \in Requests
    BY <2>1, BlankIs DEF Idle, Requests, Kinds, PasskeySteps
  <2>3. calls[t].kind \notin Lookups /\ calls' = [calls EXCEPT ![t] = c]
    BY <1>6, <2>1 DEF AnswerPrompt, Lookups
  <2> QED
    BY <1>1, <1>2, <2>2, <2>3, LookupKept
<1>7. ASSUME NEW t \in Slots,
             (\E kind \in Lookups : Continue(t, kind)) \/ StartPasskey(t) \/ Submit(t) \/ Effect(t)
      PROVE  FALSE
  BY <1>2, <1>7 DEF Continue, StartPasskey, Submit, Effect, UnderWay
<1>8. ASSUME Back \/ ChoosePassword \/ Acknowledge \/ SignInAgain \/ \E valid \in BOOLEAN : ChooseProvider(valid)
      PROVE  FALSE
  BY <1>8 DEF Back, ChoosePassword, Acknowledge, SignInAgain, ChooseProvider
<1>9. ASSUME UNCHANGED vars PROVE FALSE
  BY <1>9 DEF vars, UnderWay
<1> QED
  BY <1>3, <1>4, <1>5, <1>6, <1>7, <1>8, <1>9 DEF Next

\* A lookup the user waits for at the address ends at a further step, at a
\* provider, or with a notice, however many requests run beside it
\* (login-flow.tsx, onEmailSubmit and routeAfterLookup).
THEOREM LookupLeadsOnHolds == Spec => LookupLeadsOn
<1>1. SignInInv /\ [Next]_vars =>
        [step = "EMAIL" /\ UnderWay(Lookups) /\ ~UnderWay(Lookups)'
           => step' # "EMAIL" \/ notice' # "none"]_vars
  BY LookupLeads
<1> QED
  BY <1>1, SignInHolds, PTL DEF Spec, LookupLeadsOn
=============================================================================
