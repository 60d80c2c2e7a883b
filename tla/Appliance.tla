------------------------------ MODULE Appliance ------------------------------
(***************************************************************************)
(* The machine a first run is about, and the one document that watches it: *)
(* the binary and its database, the edition the document reads once when   *)
(* it loads (export/src/edition.ts), and the address it shows.  A call to  *)
(* a route only identuum-idp-ce serves waits for the edition and is        *)
(* answered in the page unless it is "ce" (export/src/next-proxy.ts).      *)
(*                                                                         *)
(* BootLadder, UpgradeWizard and SetupWizard are what the document runs at *)
(* three of its addresses; FirstRun composes them.                         *)
(***************************************************************************)

VARIABLES
  serving,   \* the binary: OSS, CE over an old schema ("upgrade"), or CE
  schema,    \* its database: "oss", "ce" once upgraded, "newer" than the binary
  setup,     \* its first-run setup: "required" or "complete"
  licence,   \* its CE licence: "missing" or "valid"
  edition,   \* what this document made of /api/runtime-config
  page       \* the address of this document

machine == <<serving, schema, setup, licence>>
tab == <<edition, page>>
appliance == <<machine, tab>>

Pages == {"/", "/upgrade", "/setup", "/login", "/unavailable", "home"}

ApplianceTypeOK ==
  /\ serving \in {"oss", "upgrade", "ce"}
  /\ schema \in {"oss", "ce", "newer"}
  /\ setup \in {"required", "complete"}
  /\ licence \in {"missing", "valid"}
  /\ edition \in {"reading", "oss", "ce", "unknown"}
  /\ page \in Pages

ApplianceInit ==
  /\ \/ serving = "oss" /\ schema = "oss"
     \/ serving = "upgrade" /\ schema \in {"oss", "newer"}
     \/ serving = "ce" /\ schema = "ce"
  /\ setup \in {"required", "complete"}
  /\ licence \in IF serving = "ce" THEN {"missing", "valid"} ELSE {"missing"}
  /\ edition = "reading"
  /\ page = "/"

-----------------------------------------------------------------------------
(* What the machine answers, and what of it reaches the page.              *)

\* GET /api/upgrade/status.  "upgrade_required" stands for the five states
\* the pages treat as it: fresh_ce, oss_database_detected, backup_required
\* and database_unreachable are the others.
UpgradeState ==
  IF serving = "oss"     THEN "absent"
  ELSE IF serving = "ce" THEN "ce_migrations_current"
  ELSE CASE schema = "ce"    -> "upgrade_complete"
         [] schema = "newer" -> "incompatible_database"
         [] OTHER            -> "upgrade_required"

\* The component and the setup status are mounted, but not in upgrade mode.
Mounted == serving # "upgrade"

\* The edition is known: a call to a CE-only route is let go, or answered here.
Settled == edition # "reading"

\* What the page receives for a CE-only route that answers this.
CeOnly(answer) == IF edition = "ce" THEN answer ELSE "absent"

\* loadEdition(): any failure is "unknown", for the life of the document.
ReadEdition ==
  /\ edition = "reading"
  /\ edition' \in {"unknown", IF serving = "oss" THEN "oss" ELSE "ce"}
  /\ UNCHANGED <<machine, page>>

-----------------------------------------------------------------------------
(* The operator, and the other browsers.                                   *)

\* The OSS binary is replaced by the CE binary, on the same database.
SwapBinary ==
  /\ serving = "oss"
  /\ serving' = "upgrade"
  /\ UNCHANGED <<schema, setup, licence, tab>>

\* After the upgrade the service is restarted.
RestartService ==
  /\ serving = "upgrade" /\ schema = "ce"
  /\ serving' = "ce"
  /\ UNCHANGED <<schema, setup, licence, tab>>

\* Another browser finishes the same wizard, behind the same licence gate.
SetupElsewhere ==
  /\ Mounted /\ setup = "required"
  /\ serving = "ce" => licence = "valid"
  /\ setup' = "complete"
  /\ UNCHANGED <<serving, schema, licence, tab>>

Restarts == SwapBinary \/ RestartService
=============================================================================
