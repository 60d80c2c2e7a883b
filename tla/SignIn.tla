------------------------------- MODULE SignIn -------------------------------
(***************************************************************************)
(* The sign-in page: the steps of LoginFlow (components/auth/              *)
(* login-flow.tsx), the form each step mounts, and the requests of         *)
(* lib/idp-client.ts.  A request outlives the form that sent it: after     *)
(* Back its answer still reaches LoginFlow, which moves to another step or *)
(* calls onSuccess, while what it would set in the form is lost.           *)
(*                                                                         *)
(* A handle is a pending session of the identity provider: the session_id  *)
(* with which one login continues at its next step.                        *)
(***************************************************************************)
EXTENDS Naturals, FiniteSets

CONSTANTS
  Slots,       \* bound: requests under way at once
  MaxHandles   \* bound: handles the identity provider issues

Handles == 1..MaxHandles
None == 0      \* no handle, no request

ASSUME SlotAssumption == MaxHandles \in Nat /\ None \notin Slots

VARIABLES
  step,        \* LoginFlow's step; "console" after onSuccess, "provider" after an SSO redirect
  held,        \* changeSessionId, mfaSessionId and enrollSessionId
  mixed,       \* does orgConfig's policy offer the password beside its providers?
  notice,      \* LoginFlow's serverError, or the reason in the address
  form,        \* the local state of the form the step has mounted
  calls,       \* the requests and the passkey prompt, by slot
  pending,     \* the identity provider: the handles it has issued
  sendsCodes,  \* the identity provider: does enrolment come with recovery codes?
  asked,       \* history: initiate requests sent, by handle
  entered,     \* history of this document: what onSuccess was last called on
  unseen       \* history of this document: handles enrolled, recovery codes not on screen

page == <<step, held, mixed, notice, form>>
idp == <<pending, sendsCodes>>
history == <<asked, entered, unseen>>
vars == <<page, calls, idp, history>>

\* What a login may still need, and the step where it is done.
Needs == {"change", "mfa", "enroll"}
StepFor == [change |-> "PASSWORD_CHANGE", mfa |-> "MFA", enroll |-> "MFA_ENROLL"]
Forms == {"PASSWORD"} \cup {StepFor[n] : n \in Needs}
Steps == {"EMAIL", "SSO_SELECT", "console", "provider"} \cup Forms

Submits == [PASSWORD |-> "login", PASSWORD_CHANGE |-> "change", MFA |-> "mfa", MFA_ENROLL |-> "complete"]
Lookups == {"lookup", "admin_lookup"}
PasskeySteps == {"begin", "prompt", "finish"}
Kinds == Lookups \cup PasskeySteps \cup {"login", "change", "mfa", "initiate", "complete"}

\* The step of a login each request is about.
About == [change |-> "change", mfa |-> "mfa", initiate |-> "enroll", complete |-> "enroll"]

\* An answer: is its status 2xx, what its body says ("cut" when the body is
\* lost), the handle it carries, and whether a session came with it.
Routes == {"unknown", "sso", "select", "mixed"}
Says == Routes \cup Needs \cup {"none", "session", "minted", "options", "refused", "expired",
                                "policy", "waiting", "cut"}
Blank == [ok |-> FALSE, says |-> "none", handle |-> None, session |-> FALSE]
Answers == [ok : BOOLEAN, says : Says, handle : Handles \cup {None}, session : BOOLEAN]

Idle == [kind |-> "none", handle |-> None, at |-> "idle", answer |-> Blank]
Requests == [kind : Kinds \cup {"none"}, handle : Handles \cup {None},
             at : {"idle", "out", "back"}, answer : Answers]

\* A form just mounted: no submit under way.  The enrolment form also has the
\* handle its effect asked for, the request it listens to, its phase, whose
\* recovery codes it holds, and the answer its pendingRole came from.
Fresh == [submit |-> None, started |-> None, listens |-> None, phase |-> "loading",
          codes |-> None, role |-> Blank]

\* What onSuccess is called on: the request, whether a session came with its
\* answer, and whether the body of that answer was lost.
Nobody == [by |-> "none", session |-> FALSE, cut |-> FALSE]
Entries == [by : Kinds \cup {"none"}, session : BOOLEAN, cut : BOOLEAN]

Init ==
  /\ step = "EMAIL"
  /\ held = [n \in Needs |-> None]
  /\ mixed = FALSE
  /\ notice = "none"
  /\ form = Fresh
  /\ calls = [s \in Slots |-> Idle]
  /\ pending = [h \in Handles |-> [need |-> "none", st |-> "unissued"]]
  /\ sendsCodes \in BOOLEAN
  /\ asked = [h \in Handles |-> 0]
  /\ entered = Nobody
  /\ unseen = {}

-----------------------------------------------------------------------------
(* What every handler is built from.                                       *)

UnderWay(kinds) == \E s \in Slots : calls[s].kind \in kinds
Mounted == step \notin {"console", "provider"}

\* A request takes the first free slot.
Send(s, kind, h) ==
  /\ calls[s] = Idle /\ \A t \in Slots : t < s => calls[t] # Idle
  /\ calls' = [calls EXCEPT ![s] = [Idle EXCEPT !.kind = kind, !.handle = h, !.at = "out"]]

Settle(s) == calls' = [calls EXCEPT ![s] = Idle]

\* The mounted form's own submit is over: its button is free again.
Released(s) == IF form.submit = s THEN [form EXCEPT !.submit = None] ELSE form

\* setStep(): another step mounts another form; it has no effect on a
\* LoginFlow that is gone.
Show(to, s) ==
  IF Mounted
  THEN step' = to /\ form' = IF to = step THEN Released(s) ELSE Fresh
  ELSE UNCHANGED <<step, form>>

\* Fault: the enrolment's handle is kept where the code's is.
GoOnWithOneHandle(need, h, s) ==
  /\ Show(StepFor[need], s)
  /\ held' = IF Mounted THEN [held EXCEPT !["mfa"] = h] ELSE held
  /\ UNCHANGED <<mixed, notice, entered>>

\* Fault: the step is named after the answer.
GoOnByName(need, h, s) ==
  /\ Show(need, s)
  /\ held' = IF Mounted THEN [held EXCEPT ![need] = h] ELSE held
  /\ UNCHANGED <<mixed, notice, entered>>

\* handlePasswordChangeRequired(), handleMfaRequired(), handleMfaEnrollmentRequired().
GoOn(need, h, s) ==
  /\ Show(StepFor[need], s)
  /\ held' = IF Mounted THEN [held EXCEPT ![need] = h] ELSE held
  /\ UNCHANGED <<mixed, notice, entered>>

\* onSuccess(): the router leaves for the console, and LoginFlow goes.
Enter(kind, a) ==
  /\ step' = "console"
  /\ held' = [n \in Needs |-> None]
  /\ mixed' = FALSE
  /\ notice' = "none"
  /\ form' = Fresh
  /\ entered' = [by |-> kind, session |-> a.session, cut |-> a.says = "cut"]

\* The form says what went wrong, if it is still there, and stays.
Complain(s) ==
  /\ form' = Released(s)
  /\ UNCHANGED <<step, held, mixed, notice, entered>>

\* window.location.href: a new document; the requests of the old one are dropped.
Leave(to, why) ==
  /\ step' = to
  /\ notice' = why
  /\ held' = [n \in Needs |-> None]
  /\ mixed' = FALSE
  /\ form' = Fresh
  /\ calls' = [s \in Slots |-> Idle]
  /\ entered' = Nobody
  /\ unseen' = {}

-----------------------------------------------------------------------------
(* The user.                                                               *)

\* Continue, or "Administrator? Sign in with password".
Continue(s, kind) ==
  /\ step = "EMAIL"
  /\ ~UnderWay(Lookups)
  /\ Send(s, kind, None)
  /\ notice' = "none"
  /\ UNCHANGED <<step, held, mixed, form, idp, history>>

StartPasskey(s) ==
  /\ step = "EMAIL"
  /\ ~UnderWay(Lookups \cup PasskeySteps)
  /\ Send(s, "begin", None)
  /\ UNCHANGED <<page, idp, history>>

\* The passkey prompt is answered, or cancelled.
AnswerPrompt(s, agreed) ==
  /\ calls[s].kind = "prompt"
  /\ calls' = [calls EXCEPT ![s] = IF agreed THEN [Idle EXCEPT !.kind = "finish", !.at = "out"] ELSE Idle]
  /\ UNCHANGED <<page, idp, history>>

\* The mounted form's button: login, loginPasswordChange, mfaLogin, mfaEnrollComplete.
Submit(s) ==
  /\ step \in Forms
  /\ form.submit = None
  /\ step = "MFA_ENROLL" => form.phase = "display"
  /\ Send(s, Submits[step], IF step = "PASSWORD" THEN None ELSE held[About[Submits[step]]])
  /\ form' = [form EXCEPT !.submit = s]
  /\ UNCHANGED <<step, held, mixed, notice, idp, history>>

\* Back does not wait for what is under way.
Back ==
  /\ \/ step \in {"SSO_SELECT", "PASSWORD"} /\ Show("EMAIL", None)
     \/ step = "MFA" /\ Show("PASSWORD", None)
     \/ step = "MFA_ENROLL" /\ form.phase = "display" /\ Show("EMAIL", None)
  /\ UNCHANGED <<held, mixed, notice, calls, idp, history>>

ChoosePassword ==
  /\ step = "SSO_SELECT" /\ mixed
  /\ Show("PASSWORD", None)
  /\ UNCHANGED <<held, mixed, notice, calls, idp, history>>

\* A provider's button; a URL that is not the SSO initiation route is refused.
ChooseProvider(valid) ==
  /\ step = "SSO_SELECT"
  /\ IF valid
     THEN Leave("provider", "none")
     ELSE notice' = "error" /\ UNCHANGED <<step, held, mixed, form, calls, entered, unseen>>
  /\ UNCHANGED <<idp, asked>>

\* "I've saved my recovery codes"
Acknowledge ==
  /\ step = "MFA_ENROLL" /\ form.phase = "recovery"
  /\ Enter("complete", form.role)
  /\ UNCHANGED <<calls, idp, asked, unseen>>

\* The link of the enrolment form's error phase.
SignInAgain ==
  /\ step = "MFA_ENROLL" /\ form.phase = "error"
  /\ Leave("EMAIL", "none")
  /\ UNCHANGED <<idp, asked>>

-----------------------------------------------------------------------------
(* The enrolment form's effect.                                            *)

\* Fault: the form is rendered again and asks again.
EffectEachRender(s) ==
  /\ step = "MFA_ENROLL" /\ form.phase = "loading"
  /\ Send(s, "initiate", held.enroll)
  /\ asked' = [asked EXCEPT ![held.enroll] = @ + 1]
  /\ form' = [form EXCEPT !.started = held.enroll, !.listens = s]
  /\ UNCHANGED <<step, held, mixed, notice, idp, entered, unseen>>

\* Fault: only the run that asked applies the answer, and StrictMode has
\* cancelled that run.
EffectOfCancelledRun(s) ==
  /\ step = "MFA_ENROLL" /\ form.started # held.enroll
  /\ Send(s, "initiate", held.enroll)
  /\ asked' = [asked EXCEPT ![held.enroll] = @ + 1]
  /\ form' = [form EXCEPT !.started = held.enroll]
  /\ UNCHANGED <<step, held, mixed, notice, idp, entered, unseen>>

\* useEffect([sessionId]): one initiate request per handle, kept in
\* initiateRef; the latest run applies its result.
Effect(s) ==
  /\ step = "MFA_ENROLL" /\ form.started # held.enroll
  /\ Send(s, "initiate", held.enroll)
  /\ asked' = [asked EXCEPT ![held.enroll] = @ + 1]
  /\ form' = [form EXCEPT !.started = held.enroll, !.listens = s]
  /\ UNCHANGED <<step, held, mixed, notice, idp, entered, unseen>>

-----------------------------------------------------------------------------
(* The answers, as the client reads them.                                  *)

\* Fault: every 2xx signs in.
LoginByStatus(a) == a.ok

\* login(): a 2xx that names no further step, no refusal, and can be read.
LoginSucceeds(a) == a.ok /\ a.says \notin Needs \cup {"waiting", "cut"}

\* Fault: a lookup that fails keeps the user at the address.
RouteAfterAnswer(kind, a) ==
  LET found == IF a.ok THEN a.says ELSE "unknown" IN
  IF ~a.ok THEN "EMAIL"
  ELSE IF kind = "admin_lookup" THEN "PASSWORD"
  ELSE CASE found = "sso" -> "provider"
         [] found \in {"select", "mixed"} -> "SSO_SELECT"
         [] OTHER -> "PASSWORD"

\* onEmailSubmit() and routeAfterLookup(): a lookup that fails in any way
\* leads to the password, as an address no organization claims does.
RouteAfterLookup(kind, a) ==
  LET found == IF a.ok THEN a.says ELSE "unknown" IN
  IF kind = "admin_lookup" THEN "PASSWORD"
  ELSE CASE found = "sso" -> "provider"
         [] found \in {"select", "mixed"} -> "SSO_SELECT"
         [] OTHER -> "PASSWORD"

ReceiveLookup(s) ==
  LET a == calls[s].answer
      to == RouteAfterLookup(calls[s].kind, a) IN
  /\ calls[s].kind \in Lookups /\ calls[s].at = "back"
  /\ \/ to = "provider" /\ Leave("provider", "none")
     \/ /\ Settle(s)
        /\ mixed' = (Mounted /\ a.ok /\ a.says = "mixed")
        /\ IF to = "provider"
           THEN notice' = (IF Mounted THEN "error" ELSE notice) /\ UNCHANGED <<step, form>>
           ELSE Show(to, s) /\ UNCHANGED notice
        /\ UNCHANGED <<held, entered, unseen>>
  /\ UNCHANGED <<idp, asked>>

\* The passkey options open the browser's prompt.
ReceiveOptions(s) ==
  /\ calls[s].kind = "begin" /\ calls[s].at = "back"
  /\ calls' = [calls EXCEPT ![s] = IF @.answer.ok /\ @.answer.says = "options"
                                   THEN [Idle EXCEPT !.kind = "prompt", !.at = "back"] ELSE Idle]
  /\ UNCHANGED <<page, idp, history>>

\* The body of an answer names the login's next step, whatever its status.
Continues(a) == a.says \in Needs

ReceiveLogin(s) ==
  LET a == calls[s].answer IN
  /\ calls[s].kind = "login" /\ calls[s].at = "back"
  /\ Settle(s)
  /\ IF Continues(a) THEN GoOn(a.says, a.handle, s)
     ELSE IF LoginSucceeds(a) THEN Enter("login", a)
     ELSE Complain(s)
  /\ UNCHANGED <<idp, asked, unseen>>

\* loginPasswordChange() and its form: a 2xx without a next step is success,
\* a 400 is shown, anything else means the sign-in has expired.
ReceiveChange(s) ==
  LET a == calls[s].answer IN
  /\ calls[s].kind = "change" /\ calls[s].at = "back"
  /\ Settle(s)
  /\ IF Continues(a) THEN GoOn(a.says, a.handle, s)
     ELSE IF a.ok THEN Enter("change", a)
     ELSE IF a.says = "policy" THEN Complain(s)
     ELSE /\ Show("EMAIL", s)
          /\ notice' = IF Mounted THEN "error" ELSE notice
          /\ UNCHANGED <<held, mixed, entered>>
  /\ UNCHANGED <<idp, asked, unseen>>

\* The end of the passkey ceremony.
ReceiveFinish(s) ==
  LET a == calls[s].answer IN
  /\ calls[s].kind = "finish" /\ calls[s].at = "back"
  /\ Settle(s)
  /\ IF Continues(a) THEN GoOn(a.says, a.handle, s)
     ELSE IF a.ok /\ a.says = "session" THEN Enter("finish", a)
     ELSE Complain(s)
  /\ UNCHANGED <<idp, asked, unseen>>

\* mfaLogin(), mfaEnrollComplete(): a 2xx that can be read.
CodeAccepted(a) == a.ok /\ a.says # "cut"

\* ... and the refusal that names the pending session, on which they reload.
SessionGone(a) == a.says = "expired"

ReceiveMfa(s) ==
  LET a == calls[s].answer IN
  /\ calls[s].kind = "mfa" /\ calls[s].at = "back"
  /\ IF SessionGone(a) THEN Leave("EMAIL", "error")
     ELSE /\ Settle(s)
          /\ IF CodeAccepted(a) THEN Enter("mfa", a) ELSE Complain(s)
          /\ UNCHANGED unseen
  /\ UNCHANGED <<idp, asked>>

\* The form shows its recovery codes before onSuccess; a form that is gone
\* has none to show, and does not go on.
ReceiveCompletion(s) ==
  LET a == calls[s].answer
      h == calls[s].handle
      live == form.submit = s IN
  /\ calls[s].kind = "complete" /\ calls[s].at = "back"
  /\ IF SessionGone(a) THEN Leave("EMAIL", "error")
     ELSE /\ Settle(s)
          /\ IF ~CodeAccepted(a) THEN Complain(s) /\ UNCHANGED unseen
             ELSE IF ~sendsCodes THEN Enter("complete", a) /\ UNCHANGED unseen
             ELSE /\ form' = IF live THEN [form EXCEPT !.submit = None, !.phase = "recovery", !.role = a]
                             ELSE form
                  /\ unseen' = IF live /\ form.codes = h THEN unseen ELSE unseen \cup {h}
                  /\ UNCHANGED <<step, held, mixed, notice, entered>>
  /\ UNCHANGED <<idp, asked>>

\* The enrolment form shows what was minted, if it still listens.
Minted(s, a) ==
  form' = IF form.listens # s THEN form
          ELSE IF a.ok /\ a.says = "minted"
          THEN [form EXCEPT !.listens = None, !.phase = "display",
                            !.codes = IF sendsCodes THEN calls[s].handle ELSE None]
          ELSE [form EXCEPT !.listens = None, !.phase = "error"]

ReceiveMint(s) ==
  /\ calls[s].kind = "initiate" /\ calls[s].at = "back"
  /\ Settle(s)
  /\ Minted(s, calls[s].answer)
  /\ UNCHANGED <<step, held, mixed, notice, idp, history>>

Receive(s) ==
  \/ ReceiveLookup(s) \/ ReceiveOptions(s) \/ ReceiveLogin(s) \/ ReceiveChange(s) \/ ReceiveFinish(s)
  \/ ReceiveMfa(s) \/ ReceiveCompletion(s) \/ ReceiveMint(s)

\* The request fails, or its timer ends it, whether or not it was served.
Fail(s) ==
  LET k == calls[s].kind IN
  /\ k \in Kinds \ {"prompt"}
  /\ Settle(s)
  /\ IF k \in Lookups
     THEN Show("PASSWORD", s) /\ mixed' = FALSE
     ELSE /\ IF k = "initiate" THEN Minted(s, Blank) ELSE form' = Released(s)
          /\ UNCHANGED <<step, mixed>>
  /\ UNCHANGED <<held, notice, idp, history>>

-----------------------------------------------------------------------------
(* The identity provider.                                                  *)

Reply(s, ok, says, h, session) ==
  calls' = [calls EXCEPT ![s].at = "back",
                         ![s].answer = [ok |-> ok, says |-> says, handle |-> h, session |-> session]]

\* The state in which a handle serves a request.
Serves == [change |-> "open", mfa |-> "open", initiate |-> "open", complete |-> "minted"]
Good(c) == pending[c.handle] = [need |-> About[c.kind], st |-> Serves[c.kind]]
Spent(h) == IF h = None THEN pending ELSE [pending EXCEPT ![h].st = "spent"]

ServeLookup(s) ==
  /\ calls[s].kind \in Lookups
  /\ \E found \in Routes : Reply(s, TRUE, found, None, FALSE)
  /\ UNCHANGED pending

ServeOptions(s) ==
  /\ calls[s].kind = "begin"
  /\ Reply(s, TRUE, "options", None, FALSE)
  /\ UNCHANGED pending

\* A credential, a new password or a code is accepted: a session begins.
ServeSession(s) ==
  /\ \/ calls[s].kind \in {"login", "finish"}
     \/ calls[s].kind \in {"change", "mfa", "complete"} /\ Good(calls[s])
  /\ Reply(s, TRUE, "session", None, TRUE)
  /\ pending' = Spent(calls[s].handle)

\* It is accepted, and the login has a step left: a handle for it, under a
\* 200 or a 401 as the step-status opt-in is honoured or not.
ServeStep(s, need, h) ==
  /\ \/ calls[s].kind = "login"
     \/ calls[s].kind = "finish" /\ need # "enroll"
     \/ calls[s].kind = "change" /\ need # "change" /\ Good(calls[s])
  /\ pending[h].st = "unissued" /\ \A g \in 1..(h - 1) : pending[g].st # "unissued"
  /\ \E ok \in BOOLEAN : Reply(s, ok, need, h, FALSE)
  /\ pending' = [Spent(calls[s].handle) EXCEPT ![h] = [need |-> need, st |-> "open"]]

\* The secret and the recovery codes are minted once.
ServeMint(s) ==
  /\ calls[s].kind = "initiate" /\ Good(calls[s])
  /\ Reply(s, TRUE, "minted", None, FALSE)
  /\ pending' = [pending EXCEPT ![calls[s].handle].st = "minted"]

\* A refusal leaves the handle as it is.  A sign-up that waits for approval
\* may be told so under a 200.
ServeRefusal(s) ==
  /\ \/ calls[s].kind # "change" /\ Reply(s, FALSE, "refused", None, FALSE)
     \/ calls[s].kind = "change" /\ Good(calls[s]) /\ Reply(s, FALSE, "policy", None, FALSE)
     \/ calls[s].kind = "login" /\ Reply(s, TRUE, "waiting", None, FALSE)
  /\ UNCHANGED pending

\* The pending session is gone: used up, or a few minutes old.
ServeExpired(s) ==
  /\ calls[s].kind \in {"change", "mfa", "complete"}
  /\ Reply(s, FALSE, "expired", None, FALSE)
  /\ pending' = Spent(calls[s].handle)

Serve(s) ==
  /\ calls[s].at = "out"
  /\ \/ ServeLookup(s) \/ ServeOptions(s) \/ ServeSession(s)
     \/ \E need \in Needs, h \in Handles : ServeStep(s, need, h)
     \/ ServeMint(s) \/ ServeRefusal(s) \/ ServeExpired(s)
  /\ UNCHANGED <<page, sendsCodes, history>>

\* The network loses the body of an answer whose status has arrived.  A 400
\* and a refusal say enough by their status; a lookup and the passkey options
\* without their body are read as refused.
Tear(s) ==
  /\ calls[s].kind \notin Lookups \cup {"begin", "prompt"} /\ calls[s].at = "back"
  /\ calls[s].answer.says \notin {"cut", "policy", "refused"}
  /\ calls' = [calls EXCEPT ![s].answer.says = "cut", ![s].answer.handle = None]
  /\ UNCHANGED <<page, idp, history>>

Next ==
  \/ \E s \in Slots :
       \/ \E kind \in Lookups : Continue(s, kind)
       \/ StartPasskey(s)
       \/ \E agreed \in BOOLEAN : AnswerPrompt(s, agreed)
       \/ Submit(s) \/ Effect(s) \/ Receive(s) \/ Fail(s) \/ Serve(s) \/ Tear(s)
  \/ Back \/ ChoosePassword \/ Acknowledge \/ SignInAgain
  \/ \E valid \in BOOLEAN : ChooseProvider(valid)

Spec == Init /\ [][Next]_vars

-----------------------------------------------------------------------------

\* Type invariant.
TypeOK ==
  /\ step \in Steps
  /\ held \in [Needs -> Handles \cup {None}]
  /\ mixed \in BOOLEAN
  /\ notice \in {"none", "error"}
  /\ form \in [submit : Slots \cup {None}, started : Handles \cup {None}, listens : Slots \cup {None},
               phase : {"loading", "display", "recovery", "error"}, codes : Handles \cup {None}, role : Answers]
  /\ calls \in [Slots -> Requests]
  /\ pending \in [Handles -> [need : Needs \cup {"none"}, st : {"unissued", "open", "minted", "spent"}]]
  /\ sendsCodes \in BOOLEAN
  /\ asked \in [Handles -> Nat]
  /\ entered \in Entries
  /\ unseen \subseteq Handles

\* The enrolment form asks for a handle's secret at most once, however often
\* it is rendered and whatever late answer changes the handle under it: the
\* identity provider refuses a second time, which would take the place of
\* the secret already shown (mfa-enroll-form.tsx).
OneInitiate == \A h \in Handles : asked[h] <= 1

\* The page enters the console only on an answer that a session came with:
\* never on one that names a further step, a refusal or a wait, whichever
\* status it has.  Only a password change whose 2xx lost its body is taken
\* at its status.
SuccessIsSession ==
  entered # Nobody => entered.session \/ (entered.by = "change" /\ entered.cut)

\* Every step, and every request that presents a handle, has one that the
\* identity provider issued for that purpose, whichever of several logins
\* under way the answer that brought it belonged to; and no two submits
\* present the same handle at once, not even when Back has left one of them
\* without its form: a code or a new password is tried once per click.
RightHandle ==
  /\ \A n \in Needs : step = StepFor[n] => held[n] # None /\ pending[held[n]].need = n
  /\ \A s \in Slots : calls[s].handle # None => pending[calls[s].handle].need = About[calls[s].kind]
  /\ \A s, t \in Slots :
       s # t /\ calls[s].handle # None /\ calls[s].handle = calls[t].handle =>
         calls[s].kind # calls[t].kind

\* The organization lookup never holds a sign-in up: when the one a user waits
\* for is over, however it went, the user is at a further step or at a
\* provider, or the page says why not (login-flow.tsx, onEmailSubmit).
LookupLeadsOn ==
  [][step = "EMAIL" /\ UnderWay(Lookups) /\ ~UnderWay(Lookups)'
       => step' # "EMAIL" \/ notice' # "none"]_vars

\* The enrolment form never loads in vain: while it says "Setting up", its
\* effect is about to ask for the present handle, or a request is under way
\* whose answer this very form will show.
LoadingIsAnswered ==
  step = "MFA_ENROLL" /\ form.phase = "loading" =>
    \/ form.started # held.enroll
    \/ /\ form.listens # None
       /\ calls[form.listens].kind = "initiate" /\ calls[form.listens].handle = held.enroll

\* "Show recovery codes before completing -- they will not be shown again"
\* (mfa-enroll-form.tsx:104): nobody is enrolled, to the page's knowledge,
\* without the recovery codes on screen.
CodesAreShown == unseen = {}
=============================================================================
