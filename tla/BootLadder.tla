----------------------------- MODULE BootLadder ------------------------------
(***************************************************************************)
(* What the document does at /: the effect of Root (export/src/main.tsx)   *)
(* runs rootDestination() (export/src/session.ts), which asks the machine  *)
(* one question after another and moves the browser to what it found.      *)
(* Every probe has a timer of its own, which the wait for the edition does *)
(* not heed, and a probe that fails, times out or says something unknown   *)
(* is an outage, never an invitation to set the machine up.  A probe is    *)
(* one step: the machine is read when it answers.                          *)
(***************************************************************************)
EXTENDS Appliance

VARIABLE ladder   \* the probe Root waits for, "none" away from /

Probes == {"component", "upgrade", "setup", "session"}

LadderTypeOK == ladder \in Probes \cup {"none"}

LadderInit == ladder = "component"

\* Root mounts at /; anywhere else its effect has been cancelled.
LadderAt(address) == ladder' = IF address = "/" THEN "component" ELSE "none"

-----------------------------------------------------------------------------
Climb(probe) ==
  /\ ladder' = probe
  /\ UNCHANGED appliance

Land(address) ==
  /\ page' = address
  /\ ladder' = "none"
  /\ UNCHANGED <<machine, edition>>

\* GET /api/v1/component: only its 404 asks for the upgrade status.
AskComponent ==
  /\ ladder = "component"
  /\ \/ Mounted /\ Climb("setup")
     \/ ~Mounted /\ Climb("upgrade")
     \/ Land("/unavailable")

\* upgradeStateNeedsWizard().
NeedsWizard == {"upgrade_required", "incompatible_database"}

\* upgradeNeedsWizard(): any failure, and any other state, is no.
AskUpgrade ==
  /\ ladder = "upgrade" /\ Settled
  /\ \E state \in {CeOnly(UpgradeState), "failed"} :
       Land(IF state \in NeedsWizard THEN "/upgrade" ELSE "/unavailable")

\* Fault: a failing setup probe reads as a machine never set up.
AskSetupOrElse ==
  /\ ladder = "setup"
  /\ \/ Mounted /\ setup = "complete" /\ Climb("session")
     \/ Land("/setup")

\* Fault: a failing setup probe is asked again.
AskSetupAgain ==
  /\ ladder = "setup"
  /\ \/ Mounted /\ setup = "complete" /\ Climb("session")
     \/ Mounted /\ setup = "required" /\ Land("/setup")
     \/ Climb("component")

\* GET /api/setup/status.
AskSetup ==
  /\ ladder = "setup"
  /\ \/ Mounted /\ setup = "complete" /\ Climb("session")
     \/ Mounted /\ setup = "required" /\ Land("/setup")
     \/ Land("/unavailable")

\* validateSession(): a visitor it cannot vouch for signs in.
AskSession ==
  /\ ladder = "session"
  /\ Land("home") \/ Land("/login")

LadderNext == AskComponent \/ AskUpgrade \/ AskSetup \/ AskSession

-----------------------------------------------------------------------------
\* The setup wizard is offered only by a machine that says it has not been
\* set up, and the upgrade wizard only by one whose schema is old: no
\* failure of a probe is taken for either (session.ts discoverPlatform()).
OffersWhatIsNeeded ==
  [][page = "/" => /\ page' = "/setup" => Mounted /\ setup = "required"
                   /\ page' = "/upgrade" => ~Mounted /\ schema # "ce"]_appliance

\* A document at / moves on, whatever the machine is and however its probes
\* fail, unless it waits for the edition: the probe of the upgrade status has a
\* timer, but its request begins only once loadEdition() has read the edition,
\* and that read has none (session.ts rootDestination(), next-proxy.ts:44,
\* edition.ts).
LadderLands == page = "/" ~> page # "/" \/ (ladder = "upgrade" /\ ~Settled)
=============================================================================
