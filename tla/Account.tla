------------------------------- MODULE Account -------------------------------
(***************************************************************************)
(* The account settings of one person, in one document of the export: the  *)
(* tabs of /account/settings, the actions behind their forms, and the IdP  *)
(* they are about, which the same person also uses from other browsers.    *)
(*                                                                         *)
(* A link between the tabs moves inside the document, so an action may be  *)
(* answered after its form is gone (orphan), and revalidatePath() re-runs  *)
(* whichever tab is open then, in place: what a form holds is kept while   *)
(* the same form is shown, and lost with it.  Any answer may be lost or    *)
(* lose its body; a request whose connection breaks was carried out        *)
(* before, or never is.  An action's check of the session is one step with *)
(* its submission, and a tab has one form under way at a time.  "save"     *)
(* stands for the actions of the other tabs: the profile, an application's *)
(* access.  Every session is there from the start: one begun later is none *)
(* that a list read before it can name.  Typed confirmations, wrong codes  *)
(* and the wording of failures are left out: each is a refusal.            *)
(***************************************************************************)
EXTENDS Naturals

CONSTANTS
  Others,      \* the sessions of other browsers
  MaxSecrets,  \* bound: authenticator secrets issued
  MaxCodes     \* bound: sets of recovery codes issued

ASSUME AccountAssumption == MaxSecrets \in Nat \ {0} /\ MaxCodes \in Nat

Here == "here"   \* the session of this document
Sessions == Others \cup {Here}
Secrets == 1..MaxSecrets
Codes == 1..MaxCodes
Nil == 0

VARIABLES
  account,   \* the IdP: the sessions that live, the secrets issued, awaited and
             \* armed, the newest set of codes, and the newest that no form of
             \* this document waited for
  section,   \* the tab open, what it shows, and whether it is to be (re-)run
  held,      \* what the form shown holds
  action,    \* the request of a form shown
  orphan     \* the request of a form that is gone

screen == <<section, held, action, orphan>>
settings == <<account, screen>>

Sections == {"elsewhere", "sessions", "mfa", "other"}
\* What a tab shows: its forms; on the MFA tab the enrolment, or the forms of
\* an enrolled account; no form, when what it is about could not be read.
Views == {"none", "forms", "enrol", "enrolled", "bare"}
Away == [at |-> "elsewhere", shows |-> "none", stale |-> FALSE]

Revocations == {"current", "others", "all"}
Ops == Revocations \cup {"password", "save", "initiate", "complete", "regenerate", "disable"}
NoRequest == [op |-> "none", at |-> "idle", todo |-> {}, ends |-> {}, failed |-> FALSE,
              secret |-> Nil, says |-> "failed", codes |-> Nil]
Requests == [op : Ops \cup {"none"}, at : {"idle", "out", "looping", "back"},
             todo : SUBSET Sessions, ends : SUBSET Sessions, failed : BOOLEAN,
             secret : Secrets \cup {Nil}, says : {"ok", "enrolled", "refused", "failed"},
             codes : Codes \cup {Nil}]

\* The enrolment's phase and secret; the codes on screen; the sessions a form
\* says it revoked; is that form, or the one that made the codes, done?
NothingHeld == [phase |-> "password", secret |-> Nil, codes |-> Nil,
                revoked |-> {}, done |-> FALSE]

Accounts == [live : SUBSET Sessions, issued : 0..MaxSecrets,
             awaited : Secrets \cup {Nil}, armed : Secrets \cup {Nil},
             codes : 0..MaxCodes, apart : 0..MaxCodes]
Helds == [phase : {"password", "display", "already", "error", "success"},
          secret : Secrets \cup {Nil}, codes : Codes \cup {Nil},
          revoked : SUBSET Sessions, done : BOOLEAN]

AccountTypeOK ==
  /\ account \in Accounts
  /\ section \in [at : Sections, shows : Views, stale : BOOLEAN]
  /\ held \in Helds
  /\ action \in Requests /\ orphan \in Requests

AccountInit ==
  /\ \E secret \in {Nil, 1} :
       account = [live |-> Sessions, issued |-> secret, awaited |-> Nil,
                  armed |-> secret, codes |-> 0, apart |-> 0]
  /\ section = Away /\ held = NothingHeld
  /\ action = NoRequest /\ orphan = NoRequest

-----------------------------------------------------------------------------
(* The IdP, and the other browsers *)

SignedIn == Here \in account.live

SecretIssued == [account EXCEPT !.issued = @ + 1, !.awaited = account.issued + 1]
Armed(secret) ==
  [account EXCEPT !.awaited = Nil, !.armed = secret, !.codes = @ + 1]
NewCodes == [account EXCEPT !.codes = @ + 1]
Disarmed == [account EXCEPT !.armed = Nil, !.live = {}]
Ended(sessions) == [account EXCEPT !.live = @ \ sessions]

\* The codes are made for nobody in this document.
Apart(a) == [a EXCEPT !.apart = IF a.codes # account.codes THEN a.codes ELSE @]

\* Another browser works at the same account.
WorkElsewhere ==
  /\ account.live \cap Others # {}
  /\ \/ account.armed = Nil /\ account.issued < MaxSecrets /\ account' = SecretIssued
     \/ /\ account.armed = Nil /\ account.awaited # Nil /\ account.codes < MaxCodes
        /\ account' = Apart(Armed(account.awaited))
     \/ account.armed # Nil /\ account.codes < MaxCodes /\ account' = Apart(NewCodes)
     \/ account.armed # Nil /\ account' = Disarmed
     \/ \E s \in account.live : account' = Ended({s})
  /\ UNCHANGED screen

Answered(r, says) == [r EXCEPT !.at = "back", !.says = says]

\* What the list of the sessions leads an action to revoke.
Targets(op) ==
  CASE op = "current" -> account.live \cap {Here}
    [] op = "others"  -> account.live \ {Here}
    [] OTHER          -> account.live

\* Fault: only the last revocation counts.
LastTells(r, s, ok) == [r EXCEPT !.todo = @ \ {s}, !.failed = ~ok]

\* One revocation of a bulk one: a failure is remembered, and the loop goes on.
Revoked(r, s, ok) == [r EXCEPT !.todo = @ \ {s}, !.failed = @ \/ ~ok]

\* A bulk revocation lists the sessions, then ends them one by one; each call
\* may fail or lose its answer.
Revokes(r) ==
  IF r.at = "out"
  THEN {<<account, Answered(r, "failed")>>} \cup
       IF SignedIn THEN {<<account, [r EXCEPT !.at = "looping", !.todo = Targets(r.op),
                                              !.ends = Targets(r.op)]>>} ELSE {}
  ELSE IF r.todo = {} THEN {<<account, Answered(r, IF r.failed THEN "failed" ELSE "ok")>>}
  ELSE UNION {{<<account, Revoked(r, s, FALSE)>>} \cup
              IF SignedIn THEN {<<Ended({s}), Revoked(r, s, ok)>> : ok \in BOOLEAN} ELSE {}
              : s \in r.todo}

\* What else a request may come to, for whoever is signed in.
Granted(r) ==
  LET ok == Answered(r, "ok") IN
  CASE r.op = "save" -> {<<account, ok>>}
    [] r.op = "password" -> {<<Ended(Others), ok>>}
    [] r.op \in {"initiate", "complete"} /\ account.armed # Nil ->
         {<<account, Answered(r, "enrolled")>>}
    [] r.op = "initiate" /\ account.armed = Nil /\ account.issued < MaxSecrets ->
         {<<SecretIssued, [ok EXCEPT !.secret = account.issued + 1]>>}
    [] r.op = "complete" /\ account.armed = Nil /\ r.secret = account.awaited
         /\ account.codes < MaxCodes ->
         {<<Armed(r.secret), [ok EXCEPT !.codes = account.codes + 1]>>}
    [] r.op = "regenerate" /\ account.armed # Nil /\ account.codes < MaxCodes ->
         {<<NewCodes, [ok EXCEPT !.codes = account.codes + 1]>>}
    [] r.op = "disable" /\ account.armed # Nil -> {<<Disarmed, ok>>}
    [] OTHER -> {}

\* What becomes of the account and of request r.
Outcomes(r) ==
  IF r.op \in Revocations THEN Revokes(r)
  ELSE {<<account, Answered(r, "refused")>>} \cup (IF SignedIn THEN Granted(r) ELSE {})

\* A form that is gone shows nothing of what its request brings back.
Left(r) == [r EXCEPT !.ends = {}, !.codes = Nil, !.secret = IF r.op = "complete" THEN @ ELSE Nil,
                     !.says = IF @ = "ok" THEN "ok" ELSE "failed"]

ServeAction ==
  /\ action.at \in {"out", "looping"}
  /\ \E out \in Outcomes(action) : account' = out[1] /\ action' = out[2]
  /\ UNCHANGED <<section, held, orphan>>

ServeOrphan ==
  /\ orphan.at \in {"out", "looping"}
  /\ \E out \in Outcomes(orphan) : account' = Apart(out[1]) /\ orphan' = Left(out[2])
  /\ UNCHANGED <<section, held, action>>

-----------------------------------------------------------------------------
(* The tabs *)

\* The forms shown are gone.  Bound: one request at a time outlives its form.
FormsGone ==
  /\ action = NoRequest \/ orphan = NoRequest
  /\ orphan' = IF action = NoRequest THEN orphan ELSE Left(action)
  /\ action' = NoRequest /\ held' = NothingHeld

Opened(t) == [at |-> t, shows |-> "none", stale |-> t # "elsewhere"]

OpenSection(t) ==
  /\ t # section.at
  /\ section' = Opened(t) /\ FormsGone
  /\ UNCHANGED account

\* The document is loaded, at t: nothing of it remains.
Loads(t) ==
  /\ section' = Opened(t)
  /\ held' = NothingHeld /\ action' = NoRequest /\ orphan' = NoRequest

LoadAgain == section.at # "elsewhere" /\ Loads(section.at) /\ UNCHANGED account

\* What a run of the tab finds: the guard may meet an outage, the list of the
\* sessions may fail, and the status of MFA is the session's when its own
\* read fails, and unknown when the session does not have it.
Found(t) ==
  {"bare", IF t # "mfa" THEN "forms" ELSE IF account.armed = Nil THEN "enrol" ELSE "enrolled"}

\* The tab is run, and shown in place; whoever is signed out goes to /login.
RunSection ==
  /\ section.stale
  /\ IF SignedIn
     THEN \E view \in Found(section.at) :
            /\ section' = [section EXCEPT !.shows = view, !.stale = FALSE]
            /\ IF view = section.shows THEN UNCHANGED <<held, action, orphan>> ELSE FormsGone
     ELSE section' = Away /\ FormsGone
  /\ UNCHANGED account

\* Fault: a form that is done may be submitted again.
OffersAgain(op) ==
  CASE op \in Revocations -> section.at = "sessions" /\ section.shows = "forms"
    [] op \in {"password", "save"} -> section.at = "other" /\ section.shows = "forms"
    [] op = "initiate"    -> section.shows = "enrol" /\ held.phase = "password"
    [] op = "complete"    -> section.shows = "enrol" /\ held.phase = "display"
    [] OTHER              -> section.shows = "enrolled"

\* The forms of each view, and when they can be submitted.
Offers(op) ==
  CASE op \in Revocations ->
         section.at = "sessions" /\ section.shows = "forms" /\ (op = "others" => ~held.done)
    [] op \in {"password", "save"} -> section.at = "other" /\ section.shows = "forms"
    [] op = "initiate"    -> section.shows = "enrol" /\ held.phase = "password"
    [] op = "complete"    -> section.shows = "enrol" /\ held.phase = "display"
    [] op = "regenerate"  -> section.shows = "enrolled" /\ ~held.done
    [] OTHER              -> section.shows = "enrolled"

\* A form is submitted.  All but the enrolment's are actions, which first ask
\* for the session, and send whoever has none, or meets an outage, away.
SubmitForm(op) ==
  /\ Offers(op) /\ action = NoRequest
  /\ \/ /\ action' = [NoRequest EXCEPT !.op = op, !.at = "out",
                        !.secret = IF op = "complete" THEN held.secret ELSE Nil]
        /\ UNCHANGED <<section, held, orphan>>
     \/ op \notin {"initiate", "complete"} /\ section' = Away /\ FormsGone
  /\ UNCHANGED account

-----------------------------------------------------------------------------
(* The answers *)

Bodied == {"initiate", "complete", "regenerate"}

\* What is lost, or has lost a body that was to be read, is a failure.
Heard(r, whole) ==
  IF r.at = "back" /\ (whole \/ r.op \notin Bodied \/ r.says # "ok") THEN r.says ELSE "failed"

\* A bulk revocation is a loop of calls: it has no answer to lose as a whole.
MayEnd(r) == r.op \notin Revocations \/ r.at = "back"

\* revalidatePath(): whatever is open is run again.
RunsAgain == section' = [section EXCEPT !.stale = section.at # "elsewhere"]

GotInitiate(says) ==
  /\ held' = CASE says = "ok" -> [held EXCEPT !.phase = "display", !.secret = action.secret]
               [] says = "enrolled" -> [held EXCEPT !.phase = "already"]
               [] says = "refused" -> held
               [] OTHER -> [held EXCEPT !.phase = "error"]
  /\ action' = NoRequest
  /\ UNCHANGED <<section, orphan>>

GotComplete(says) ==
  /\ held' = CASE says = "ok" -> [held EXCEPT !.phase = "success", !.codes = action.codes]
               [] says = "enrolled" -> [held EXCEPT !.phase = "already"]
               [] OTHER -> held
  /\ action' = NoRequest
  /\ UNCHANGED <<section, orphan>>

\* What a form left in place says once its action is done.
SaysDone ==
  CASE action.op = "others"     -> [held EXCEPT !.revoked = action.ends, !.done = TRUE]
    [] action.op = "regenerate" -> [held EXCEPT !.codes = action.codes, !.done = TRUE]
    [] OTHER                    -> held

\* The session that signs itself out, and the person whose MFA is disabled,
\* go to /login by a document load; a changed password leads there too.
GotAnswer ==
  /\ action # NoRequest /\ MayEnd(action)
  /\ \E whole \in BOOLEAN :
       LET says == Heard(action, whole) IN
       CASE action.op = "initiate" -> GotInitiate(says)
         [] action.op = "complete" -> GotComplete(says)
         [] says = "ok" /\ action.op \in {"current", "all", "disable"} -> Loads("elsewhere")
         [] says = "ok" /\ action.op = "password" ->
              section' = Away /\ held' = NothingHeld /\ action' = NoRequest /\ UNCHANGED orphan
         [] says = "ok" /\ action.op \in {"others", "save", "regenerate"} ->
              RunsAgain /\ held' = SaysDone /\ action' = NoRequest /\ UNCHANGED orphan
         [] OTHER -> action' = NoRequest /\ UNCHANGED <<section, held, orphan>>
  /\ UNCHANGED account

GotOrphan ==
  /\ orphan # NoRequest /\ MayEnd(orphan)
  /\ \E whole \in BOOLEAN :
       IF Heard(orphan, whole) = "ok" /\ orphan.op \notin {"password", "initiate", "complete"}
       THEN RunsAgain ELSE UNCHANGED section
  /\ orphan' = NoRequest
  /\ UNCHANGED <<account, held, action>>

\* "Done" under the recovery codes: router.refresh().
HideCodes ==
  /\ section.shows = "enrol" /\ held.phase = "success"
  /\ held' = [held EXCEPT !.codes = Nil] /\ RunsAgain
  /\ UNCHANGED <<account, action, orphan>>

AccountNext ==
  \/ WorkElsewhere \/ ServeAction \/ ServeOrphan
  \/ \E t \in Sections : OpenSection(t)
  \/ LoadAgain \/ RunSection \/ HideCodes \/ GotAnswer \/ GotOrphan
  \/ \E op \in Ops : SubmitForm(op)

AccountSpec == AccountInit /\ [][AccountNext]_settings

-----------------------------------------------------------------------------
(* Properties *)

\* What the settings say is done is so, however many calls failed, answers
\* were lost and other browsers stepped in: the sessions a form says it
\* revoked are gone (revokeSessionAction), and a page that says the
\* authenticator is enrolled says it of the secret it showed, until MFA is
\* disabled and every session with it (accountMfaSetupComplete,
\* AccountMFAEnrollForm).
DoneIsDone ==
  /\ held.revoked \cap account.live = {}
  /\ held.phase = "success" => held.secret = account.armed \/ account.live = {}

\* "Save these now" (mfa-self-service-forms.tsx:62): the recovery codes on
\* screen are the newest, unless another browser, or a form that is gone,
\* had newer ones made.
CodesAreTheNewest ==
  held.codes # Nil => held.codes = account.codes \/ account.apart > held.codes
=============================================================================
