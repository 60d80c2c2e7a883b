----------------------------- MODULE SetupWizard -----------------------------
(***************************************************************************)
(* The /setup page (src/app/setup/page.tsx), its wizard (setup-wizard.tsx) *)
(* and the licence step (license-step.tsx), over the three clients they    *)
(* call.  Each handler waits for its answer with the controls of the       *)
(* others disabled, so one request is under way at a time.  What is typed  *)
(* in the form is left out.  "failed" stands for every answer, or lack of  *)
(* one, that the wizard only words: an e-mail changed under the enrolment  *)
(* is one of them.                                                         *)
(***************************************************************************)
EXTENDS Appliance

VARIABLES
  enrolment,  \* the machine: the last MFA session of the setup
  afloat,     \* is a completion of a wizard that is gone not yet carried out?
  shown,      \* is the wizard on screen?
  dist,       \* the distribution the page found: "ce", "oss" or "none"
  lic,        \* licenseStatus: "null", "missing" or "valid"
  code,       \* codeState
  submit,     \* submitState
  call        \* the request under way

installed == <<enrolment, afloat>>
panel == <<shown, dist, lic, code, submit>>
setupWizard == <<installed, panel, call>>

Kinds == {"verify", "upload", "initiate", "mfa", "complete"}
NoCall == [kind |-> "none", at |-> "idle", says |-> "failed"]
Calls == [kind : Kinds \cup {"none"}, at : {"idle", "out", "back"},
          says : {"ok", "bad_token", "already_complete", "failed"}]

SetupTypeOK ==
  /\ enrolment \in {"none", "begun", "verified"}
  /\ afloat \in BOOLEAN
  /\ shown \in BOOLEAN
  /\ dist \in {"ce", "oss", "none"} /\ lic \in {"null", "missing", "valid"}
  /\ code \in {"idle", "verifying", "ok", "error"}
  /\ submit \in {"idle", "initiating_mfa", "mfa_pending", "verifying_mfa", "submitting", "ok", "error"}
  /\ call \in Calls

SetupInit ==
  /\ enrolment = "none"
  /\ afloat = FALSE
  /\ shown = FALSE /\ dist = "none" /\ lic = "null"
  /\ code = "idle" /\ submit = "idle"
  /\ call = NoCall

-----------------------------------------------------------------------------
(* The page.                                                               *)

\* Either probe of the page, its own or the runtime's, may see the machine.
\* The licence is asked for on CE only, and null when nothing answers.
OpenSetup ==
  /\ page = "/setup" /\ ~shown /\ Settled
  /\ \E seen \in {Mounted, FALSE} :
       IF seen /\ setup = "complete"
       THEN page' = "/login" /\ UNCHANGED panel
       ELSE /\ shown' = TRUE
            /\ dist' = IF seen THEN serving ELSE "none"
            /\ lic' \in {"null"} \cup IF dist' = "ce" THEN {CeOnly(licence)} \ {"absent"} ELSE {}
            /\ UNCHANGED <<page, code, submit>>
  /\ UNCHANGED <<machine, edition, installed, call>>

\* The wizard is gone.
Unmount ==
  /\ shown' = FALSE /\ dist' = "none" /\ lic' = "null"
  /\ code' = "idle" /\ submit' = "idle"
  /\ call' = NoCall

\* The document goes elsewhere: a completion it had sent may be carried out.
LeaveSetup ==
  /\ afloat' = (afloat \/ (call.kind = "complete" /\ call.at = "out"))
  /\ UNCHANGED enrolment
  /\ Unmount

\* router.replace("/login").
GoToLogin ==
  /\ page' = "/login"
  /\ Unmount
  /\ UNCHANGED <<machine, edition, installed>>

-----------------------------------------------------------------------------
(* The machine carries a request out; its answer may be lost.              *)

\* POST /api/setup/complete, accepted.
Completes ==
  /\ Mounted /\ setup = "required"
  /\ serving = "ce" => enrolment = "verified"
  /\ setup' = "complete"
  /\ UNCHANGED <<licence, enrolment>>

\* What it does when it accepts the request.
Accepts(c) ==
  /\ Mounted /\ setup = "required"
  /\ \/ c.kind = "verify" /\ UNCHANGED <<setup, licence, enrolment>>
     \/ /\ c.kind = "upload" /\ serving = "ce"
        /\ licence' = "valid"
        /\ UNCHANGED <<setup, enrolment>>
     \/ /\ c.kind = "initiate" /\ serving = "ce"
        /\ enrolment' = "begun"
        /\ UNCHANGED <<setup, licence>>
     \/ /\ c.kind = "mfa" /\ serving = "ce" /\ enrolment # "none"
        /\ enrolment' = "verified"
        /\ UNCHANGED <<setup, licence>>
     \/ c.kind = "complete" /\ Completes

\* 410 once it is set up; otherwise a wrong setup code, or any other refusal.
Refuses(answer) ==
  /\ answer = IF Mounted /\ setup = "complete" THEN "already_complete" ELSE "bad_token"
  /\ UNCHANGED <<setup, licence, enrolment>>

Loses == UNCHANGED <<setup, licence, enrolment>>

ServeSetup ==
  /\ call.at = "out"
  /\ \E says \in {"ok", "bad_token", "already_complete", "failed"} :
       /\ \/ says \in {"ok", "failed"} /\ Accepts(call)
          \/ Refuses(says)
          \/ says = "failed" /\ Loses
       /\ call' = [call EXCEPT !.at = "back", !.says = says]
  /\ UNCHANGED <<serving, schema, tab, afloat, panel>>

ServeAfloat ==
  /\ afloat /\ afloat' = FALSE
  /\ Completes \/ Loses
  /\ UNCHANGED <<serving, schema, tab, panel, call>>

-----------------------------------------------------------------------------
(* The operator, and the answers.                                          *)

Ask(kind) == call' = [NoCall EXCEPT !.kind = kind, !.at = "out"]

\* The answer is back, as the clients put it: completeSetup() and the others
\* keep of it what the wizard tells apart.
Answered(kind) == call.kind = kind /\ call.at = "back"

\* handleVerifyCode().
VerifyCode ==
  /\ shown /\ code \in {"idle", "error"} /\ call = NoCall
  /\ code' = "verifying" /\ Ask("verify")
  /\ UNCHANGED <<appliance, installed, shown, dist, lic, submit>>

GotVerify ==
  /\ Answered("verify")
  /\ IF call.says = "already_complete"
     THEN GoToLogin
     ELSE /\ code' = IF call.says = "ok" THEN "ok" ELSE "error"
          /\ call' = NoCall
          /\ UNCHANGED <<appliance, installed, shown, dist, lic, submit>>

\* LicenseStep, on CE while the licence is known not to be valid: handleUpload().
UploadLicence ==
  /\ shown /\ dist = "ce" /\ lic = "missing" /\ code = "ok" /\ call = NoCall
  /\ Ask("upload")
  /\ UNCHANGED <<appliance, installed, panel>>

GotUpload ==
  /\ Answered("upload")
  /\ lic' = IF call.says = "ok" THEN "valid" ELSE lic
  /\ call' = NoCall
  /\ UNCHANGED <<appliance, installed, shown, dist, code, submit>>

\* Fault: a licence that could not be asked for is no objection.
NullIsAccepted == dist # "ce" \/ lic # "missing"

\* licenseAccepted.
LicenceAccepted == dist # "ce" \/ lic = "valid"

\* setupTimeMFA.
SetupTimeMFA == dist = "ce"

FormOpen == shown /\ code = "ok" /\ LicenceAccepted

\* handleComplete().
Complete ==
  /\ FormOpen /\ submit \in {"idle", "error"} /\ call = NoCall
  /\ IF SetupTimeMFA
     THEN submit' = "initiating_mfa" /\ Ask("initiate")
     ELSE submit' = "submitting" /\ Ask("complete")
  /\ UNCHANGED <<appliance, installed, shown, dist, lic, code>>

GotInitiate ==
  /\ Answered("initiate")
  /\ submit' = IF call.says = "ok" THEN "mfa_pending" ELSE "error"
  /\ call' = NoCall
  /\ UNCHANGED <<appliance, installed, shown, dist, lic, code>>

\* handleVerifyAndFinishMFA().
VerifyAndFinish ==
  /\ shown /\ submit = "mfa_pending" /\ call = NoCall
  /\ submit' = "verifying_mfa" /\ Ask("mfa")
  /\ UNCHANGED <<appliance, installed, shown, dist, lic, code>>

GotMfa ==
  /\ Answered("mfa")
  /\ IF call.says = "ok"
     THEN submit' = "submitting" /\ Ask("complete")
     ELSE submit' = "mfa_pending" /\ call' = NoCall
  /\ UNCHANGED <<appliance, installed, shown, dist, lic, code>>

\* submitComplete(), answered.
GotComplete ==
  /\ Answered("complete")
  /\ IF call.says = "already_complete"
     THEN GoToLogin
     ELSE /\ submit' = CASE call.says = "ok"        -> "ok"
                         [] call.says = "bad_token" -> "idle"
                         [] OTHER                   -> "error"
          /\ code' = IF call.says = "bad_token" THEN "error" ELSE code
          /\ call' = NoCall
          /\ UNCHANGED <<appliance, installed, shown, dist, lic>>

\* "Continue to sign in".
Continue == shown /\ submit = "ok" /\ call = NoCall /\ GoToLogin

SetupNext ==
  \/ OpenSetup \/ ServeSetup \/ ServeAfloat
  \/ VerifyCode \/ GotVerify \/ UploadLicence \/ GotUpload
  \/ Complete \/ GotInitiate \/ VerifyAndFinish \/ GotMfa \/ GotComplete
  \/ Continue

-----------------------------------------------------------------------------
\* A CE machine is not set up before its licence is valid, whatever the page
\* could and could not find out when it opened, and although the binary may
\* have been replaced under it (setup-wizard.tsx licenseAccepted: an
\* unlicensed CE appliance cannot mount its login surface).
CeSetUpLicensed == [][setup' # setup /\ serving = "ce" => licence = "valid"]_<<machine, setupWizard>>
=============================================================================
