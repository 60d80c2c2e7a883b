------------------------------ MODULE FirstRun -------------------------------
(***************************************************************************)
(* The first run of an appliance: one document, the boot ladder and the    *)
(* two wizards it runs at its addresses, the machine they are about, the   *)
(* operator who replaces the binary and restarts it, and another browser   *)
(* that may finish the setup first.                                        *)
(***************************************************************************)
EXTENDS BootLadder, UpgradeWizard, SetupWizard

vars == <<appliance, ladder, upgrade, setupWizard>>

TypeOK == ApplianceTypeOK /\ LadderTypeOK /\ UpgradeTypeOK /\ SetupTypeOK

Init == ApplianceInit /\ LadderInit /\ UpgradeInit /\ SetupInit

\* The operator loads one of the addresses; at / the ladder is left to finish.
Load(address) ==
  /\ page # "/"
  /\ page' = address /\ edition' = "reading"
  /\ LadderAt(address) /\ LeaveUpgrade /\ LeaveSetup
  /\ UNCHANGED machine

\* The process that ends takes the requests it still had with it.
Restart ==
  /\ Restarts
  /\ late' = {} /\ afloat' = FALSE
  /\ UNCHANGED <<ladder, stored, made, wizard, enrolment, panel, call>>

Climbs == LadderNext /\ UNCHANGED <<upgrade, setupWizard>>
LoadsEdition == ReadEdition /\ UNCHANGED <<ladder, upgrade, setupWizard>>

Next ==
  \/ Climbs \/ LoadsEdition
  \/ UpgradeNext /\ UNCHANGED <<ladder, setupWizard>>
  \/ SetupNext /\ UNCHANGED <<ladder, upgrade>>
  \/ SetupElsewhere /\ UNCHANGED <<ladder, upgrade, setupWizard>>
  \/ Restart
  \/ \E address \in {"/", "/upgrade", "/setup"} : Load(address)

\* Every probe of the ladder has a timer.  The read of the edition has none.
Spec == Init /\ [][Next]_vars /\ WF_vars(Climbs)
=============================================================================
