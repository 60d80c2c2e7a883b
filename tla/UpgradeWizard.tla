---------------------------- MODULE UpgradeWizard ----------------------------
(***************************************************************************)
(* The /upgrade page (src/app/upgrade/page.tsx) and its wizard             *)
(* (upgrade-wizard.tsx) over lib/idp-upgrade-client.ts.  Setting the       *)
(* status runs two effects again, the probe of the backups and the         *)
(* preflight, and changing the confirmation runs the second; a run that is *)
(* replaced is cancelled and its answer ignored, so only the last run of   *)
(* each is kept.  The other requests answer to a handler, at any time.     *)
(*                                                                         *)
(* "failed" stands for a request that did not arrive, an answer that did   *)
(* not, a status that is not 2xx and a body that does not parse: the page  *)
(* tells them apart only in its wording.  A state change and the effects   *)
(* it runs are one step; the upgrade token is typed with the submit and    *)
(* dropped with its answer; a button that shows a spinner is one whose     *)
(* request is under way, and how the last create or prune ended is only    *)
(* told, never used.  A status may be old when it arrives; the preview and *)
(* the list of backups are taken as they are at that moment.               *)
(***************************************************************************)
EXTENDS Appliance, FiniteSets, Naturals

CONSTANTS
  MaxBackups,   \* bound: backups the operator makes
  MaxAsked      \* bound: requests of handlers under way when the operator acts

ASSUME UpgradeAssumption == MaxBackups \in Nat /\ MaxAsked \in Nat

Files == 1..MaxBackups
NoFile == 0

VARIABLES
  stored,      \* the machine: the backups on its data volume
  made,        \* the machine: backups ever made
  late,        \* writes of a wizard that is gone, not yet carried out
  view,        \* is the wizard on screen?
  status,      \* the state it was last told, "none" for none
  confirmed,   \* backupConfirmed
  preflight,   \* "none", or the preview on screen: "unticked" or "ticked",
               \*   as the box was when it was asked for
  applied,     \* is applyState ok?
  backup,      \* is backupStatus ok?
  listed,      \* the backups its list shows
  pending,     \* backupPrune: the file whose removal awaits a confirmation
  asked        \* the requests under way, by what asked

store == <<stored, made, late>>
backups == <<backup, listed, pending>>
wizard == <<view, status, confirmed, preflight, applied, backups, asked>>
upgrade == <<store, wizard>>

Writes == {"create", "prune", "apply"}
Relists == {"relistCreated", "relistPruned"}
StatusReads == {"mount", "refresh"}
Handlers == Writes \cup Relists \cup {"refresh"}
Asks == Handlers \cup {"mount", "probe", "preflight"}

States == {"upgrade_required", "incompatible_database", "upgrade_complete", "ce_migrations_current"}

Idle == [at |-> "idle", file |-> NoFile, box |-> FALSE, says |-> "failed"]
Out == [Idle EXCEPT !.at = "out"]
Requests == [at : {"idle", "out", "back"}, file : Files \cup {NoFile}, box : BOOLEAN,
             says : States \cup {"failed", "ok"}]

PreviewFor(box) == IF box THEN "ticked" ELSE "unticked"

UpgradeTypeOK ==
  /\ stored \subseteq Files /\ made \in 0..MaxBackups
  /\ late \subseteq (Writes \X (Files \cup {NoFile}))
  /\ view \in BOOLEAN
  /\ status \in States \cup {"none"}
  /\ confirmed \in BOOLEAN
  /\ preflight \in {"none", "unticked", "ticked"}
  /\ applied \in BOOLEAN
  /\ backup \in BOOLEAN
  /\ listed \subseteq Files /\ pending \in Files \cup {NoFile}
  /\ asked \in [Asks -> Requests]

NothingAsked == [a \in Asks |-> Idle]

UpgradeInit ==
  /\ stored = {} /\ made = 0 /\ late = {}
  /\ view = FALSE /\ status = "none"
  /\ confirmed = FALSE /\ preflight = "none"
  /\ applied = FALSE
  /\ backup = FALSE /\ listed = {} /\ pending = NoFile
  /\ asked = NothingAsked

-----------------------------------------------------------------------------
(* The two effects, and the page.                                          *)

\* An effect returns early without a status, and once the upgrade is complete.
Watches(s) == s \notin {"none", "upgrade_complete"}

\* The preflight effect runs: its last run is cancelled.
PreflightRuns(asks, s, box) ==
  [asks EXCEPT !["preflight"] = IF Watches(s) THEN [Out EXCEPT !.box = box] ELSE Idle]

\* It takes the last preview off the screen.
PreviewGoes(s) == preflight' = IF Watches(s) THEN "none" ELSE preflight

\* setStatus(): a new object always, so both effects run.
SetStatus(s, asks) ==
  /\ status' = s
  /\ asked' = [PreflightRuns(asks, s, confirmed) EXCEPT
                 !["probe"] = IF Watches(s) THEN Out ELSE Idle]
  /\ PreviewGoes(s)
  /\ backup' = (~Watches(s) /\ backup)

StatusAnswers == ({CeOnly(UpgradeState)} \ {"absent"}) \cup {"failed"}

\* UpgradePage(): a schema that is current goes to /login.
OpenWizard ==
  /\ page = "/upgrade" /\ ~view /\ Settled
  /\ \E answer \in StatusAnswers :
       IF answer = "ce_migrations_current"
       THEN /\ page' = "/login"
            /\ UNCHANGED <<machine, edition, upgrade>>
       ELSE /\ view' = TRUE
            /\ SetStatus(IF answer = "failed" THEN "none" ELSE answer,
                         [asked EXCEPT !["mount"] = Out])
            /\ UNCHANGED <<appliance, store, confirmed, applied, listed, pending>>

\* The document goes elsewhere: what it had sent may still be carried out.
\* Bound: the writes of one wizard at a time outlive it.
LeaveUpgrade ==
  LET sent == {<<w, asked[w].file>> : w \in {v \in Writes : asked[v].at = "out"}}
  IN  /\ late' = IF late = {} THEN sent ELSE late
      /\ UNCHANGED <<stored, made>>
      /\ view' = FALSE /\ status' = "none"
      /\ confirmed' = FALSE /\ preflight' = "none"
      /\ applied' = FALSE
      /\ backup' = FALSE /\ listed' = {} /\ pending' = NoFile
      /\ asked' = NothingAsked

-----------------------------------------------------------------------------
(* The machine carries a request out; its answer may be lost.              *)

\* What it makes of a write, given what it answers when nothing is lost.
Works(write, file, answer) ==
  \/ /\ write = "create" /\ serving = "upgrade" /\ made < MaxBackups
     /\ made' = made + 1 /\ stored' = stored \cup {made + 1}
     /\ answer = "ok" /\ UNCHANGED schema
  \/ /\ write = "prune" /\ serving = "upgrade" /\ file \in stored
     /\ stored' = stored \ {file}
     /\ answer = "ok" /\ UNCHANGED <<made, schema>>
  \/ /\ write = "apply" /\ serving = "upgrade" /\ schema # "newer"
     /\ schema' = "ce"
     /\ answer = IF schema = "ce" THEN "ce_migrations_current" ELSE "upgrade_complete"
     /\ UNCHANGED <<made, stored>>
  \/ answer = "failed" /\ UNCHANGED <<made, stored, schema>>

ServeWrite(w) ==
  /\ asked[w].at = "out"
  /\ \E answer \in {"ok", "ce_migrations_current", "upgrade_complete", "failed"} :
       /\ Works(w, asked[w].file, answer)
       /\ \E says \in {answer, "failed"} : 
            asked' = [asked EXCEPT ![w].at = "back", ![w].says = says]
  /\ UNCHANGED <<serving, setup, licence, tab, late, view, status, confirmed, preflight, applied, backups>>

ServeLate ==
  /\ \E l \in late :
       /\ late' = late \ {l}
       /\ \E answer \in {"ok", "ce_migrations_current", "upgrade_complete", "failed"} :
            Works(l[1], l[2], answer)
  /\ UNCHANGED <<serving, setup, licence, tab, wizard>>

ServeStatus(r) ==
  /\ asked[r].at = "out"
  /\ \E answer \in StatusAnswers : asked' = [asked EXCEPT ![r].at = "back", ![r].says = answer]
  /\ UNCHANGED <<appliance, store, view, status, confirmed, preflight, applied, backups>>

-----------------------------------------------------------------------------
(* The answers.                                                            *)

Free(a) == asked[a].at = "idle"
Back(a) == asked[a].at = "back"
Done(a) == [asked EXCEPT ![a] = Idle]

\* Fault: the answer is not looked at before it is taken for a status.
GotAnyStatus(a) ==
  /\ Back(a)
  /\ SetStatus(asked[a].says, Done(a))
  /\ UNCHANGED <<appliance, store, view, confirmed, applied, listed, pending>>

\* The effect on mount, and handleRefreshStatus(): only a status is kept.
GotStatus(a) ==
  /\ Back(a)
  /\ IF asked[a].says = "failed"
     THEN asked' = Done(a) /\ UNCHANGED <<status, preflight, backup>>
     ELSE SetStatus(asked[a].says, Done(a))
  /\ UNCHANGED <<appliance, store, view, confirmed, applied, listed, pending>>

GotProbe ==
  /\ ~Free("probe")
  /\ asked' = Done("probe")
  /\ \/ backup' = TRUE /\ listed' = stored
     \/ backup' = FALSE /\ listed' = {}
  /\ UNCHANGED <<appliance, store, view, status, confirmed, preflight, applied, pending>>

GotPreflight ==
  /\ ~Free("preflight")
  /\ asked' = Done("preflight")
  /\ preflight' \in {"none", PreviewFor(asked["preflight"].box)}
  /\ UNCHANGED <<appliance, store, view, status, confirmed, applied, backups>>

\* The list after a write of it: a failure leaves what is there.
GotRelist(a) ==
  /\ ~Free(a)
  /\ asked' = Done(a)
  /\ \/ backup' = TRUE /\ listed' = stored
     \/ UNCHANGED <<backup, listed>>
  /\ UNCHANGED <<appliance, store, view, status, confirmed, preflight, applied, pending>>

\* handleCreateBackup(), answered: the box is ticked for the operator.
GotCreate ==
  /\ Back("create")
  /\ IF asked["create"].says = "failed"
     THEN asked' = Done("create") /\ UNCHANGED <<confirmed, preflight, backup>>
     ELSE LET relisting == [Done("create") EXCEPT !["relistCreated"] = Out]
          IN  /\ confirmed' = TRUE /\ backup' = FALSE
              /\ IF confirmed
                 THEN asked' = relisting /\ UNCHANGED preflight
                 ELSE asked' = PreflightRuns(relisting, status, TRUE) /\ PreviewGoes(status)
  /\ UNCHANGED <<appliance, store, view, status, applied, listed, pending>>

\* handleConfirmPrune(), answered.
GotPrune ==
  /\ Back("prune")
  /\ IF asked["prune"].says = "failed"
     THEN asked' = Done("prune") /\ UNCHANGED backup
     ELSE /\ backup' = FALSE
          /\ asked' = [Done("prune") EXCEPT !["relistPruned"] = Out]
  /\ UNCHANGED <<appliance, store, view, status, confirmed, preflight, applied, listed, pending>>

\* Fault: an apply whose answer is lost is taken for done.
GotApplyAnyhow ==
  /\ Back("apply")
  /\ applied' = TRUE /\ SetStatus("upgrade_complete", Done("apply"))
  /\ UNCHANGED <<appliance, store, view, confirmed, listed, pending>>

\* handleApply(), answered: its state is the status.
GotApply ==
  /\ Back("apply")
  /\ IF asked["apply"].says = "failed"
     THEN applied' = FALSE /\ asked' = Done("apply") /\ UNCHANGED <<status, preflight, backup>>
     ELSE applied' = TRUE /\ SetStatus(asked["apply"].says, Done("apply"))
  /\ UNCHANGED <<appliance, store, view, confirmed, listed, pending>>

-----------------------------------------------------------------------------
(* The operator.                                                           *)

\* The sections of the page, and the bound on the requests under way.
ShowApplyForm ==
  view /\ status \notin {"none", "ce_migrations_current", "upgrade_complete", "incompatible_database"}
ShowCompleted == view /\ (status = "upgrade_complete" \/ applied)
FormShown == ShowApplyForm /\ ~ShowCompleted
CardShown == FormShown /\ backup
MayAsk == Cardinality({h \in Handlers : ~Free(h)}) < MaxAsked

RefreshStatus ==
  /\ view /\ Free("refresh") /\ MayAsk
  /\ asked' = [asked EXCEPT !["refresh"] = Out]
  /\ UNCHANGED <<appliance, store, view, status, confirmed, preflight, applied, backups>>

\* Fault: the preflight effect does not depend on the box.
ToggleOnly ==
  /\ FormShown /\ Free("apply")
  /\ confirmed' = ~confirmed
  /\ UNCHANGED <<appliance, store, view, status, preflight, applied, backups, asked>>

\* The box is ticked or cleared.
ToggleConfirm ==
  /\ FormShown /\ Free("apply")
  /\ confirmed' = ~confirmed
  /\ asked' = PreflightRuns(asked, status, ~confirmed)
  /\ PreviewGoes(status)
  /\ UNCHANGED <<appliance, store, view, status, applied, backups>>

\* Bound: not while the list of the last one is under way.
CreateBackup ==
  /\ CardShown /\ Free("create") /\ Free("relistCreated") /\ MayAsk
  /\ asked' = [asked EXCEPT !["create"] = Out]
  /\ UNCHANGED <<appliance, store, view, status, confirmed, preflight, applied, backups>>

\* handleRequestPrune(), and handleCancelPrune() beside the row it is for.
RequestPrune ==
  /\ CardShown /\ Free("prune")
  /\ \/ pending' \in listed \ {pending}
     \/ pending \in listed /\ pending' = NoFile
  /\ UNCHANGED <<appliance, store, view, status, confirmed, preflight, applied, backup, listed, asked>>

\* handleConfirmPrune().  Bound: as for CreateBackup.
ConfirmPrune ==
  /\ CardShown /\ pending \in listed /\ Free("relistPruned") /\ MayAsk
  /\ asked' = [asked EXCEPT !["prune"] = [Out EXCEPT !.file = pending]]
  /\ pending' = NoFile
  /\ UNCHANGED <<appliance, store, view, status, confirmed, preflight, applied, backup, listed>>

\* handleApply(): the button needs the box and a token.
Apply ==
  /\ FormShown /\ confirmed /\ Free("apply") /\ MayAsk
  /\ applied' = FALSE
  /\ asked' = [asked EXCEPT !["apply"] = Out]
  /\ UNCHANGED <<appliance, store, view, status, confirmed, preflight, backups>>

UpgradeNext ==
  \/ OpenWizard
  \/ \E w \in Writes : ServeWrite(w)
  \/ \E r \in StatusReads : ServeStatus(r)
  \/ ServeLate
  \/ \E a \in StatusReads : GotStatus(a)
  \/ \E a \in Relists : GotRelist(a)
  \/ GotProbe \/ GotPreflight \/ GotCreate \/ GotPrune \/ GotApply
  \/ RefreshStatus \/ ToggleConfirm \/ CreateBackup \/ RequestPrune \/ ConfirmPrune \/ Apply

-----------------------------------------------------------------------------
\* The preview on screen is the one for the box as it is now, whatever the
\* order the answers come in: a run of the effect that was replaced never
\* speaks (upgrade-wizard.tsx, the preflight effect and its cancelled flag;
\* the box is changed by the operator and by a backup that is answered).
FreshPreview == ShowApplyForm /\ preflight # "none" => preflight = PreviewFor(confirmed)

\* "Upgrade complete" is shown only over a schema that was upgraded, though
\* the answer of the apply may be lost and older statuses arrive after it
\* (handleApply(), showCompleted).
CompletedIsReal == ShowCompleted => schema = "ce"
=============================================================================
