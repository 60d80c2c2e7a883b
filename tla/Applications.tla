---------------------------- MODULE Applications -----------------------------
(***************************************************************************)
(* One application of an organization, and the pages of one document that  *)
(* show, edit, rotate and delete it, in the export: links move inside the  *)
(* document, so an action may be answered after its page has been left,    *)
(* and revalidatePath() re-runs whichever page is mounted then, in place   *)
(* (next-cache.ts, server-route.tsx).                                      *)
(*                                                                         *)
(* What another document or administrator does is ChangedElsewhere and     *)
(* RemovedElsewhere. A page is read and shown in one step: a change in     *)
(* between is one just after. Any answer may be lost or lose its body; a   *)
(* request whose connection breaks was carried out before, or never is.    *)
(* Which field is wrong, the typed confirmation and who may administer     *)
(* what are left out: each is a refusal, or sends the administrator away.  *)
(* So is a disabled application, which can only be deleted.                *)
(***************************************************************************)
EXTENDS Naturals

CONSTANT MaxVersions   \* bound: versions of the application

ASSUME ApplicationsAssumption == MaxVersions \in Nat \ {0}

Versions == 1..MaxVersions
None == 0

VARIABLES
  stamps,  \* does the IdP send updated_at? (the OSS one does, the CE one not)
  app,     \* the IdP's application: is it there, which version, and the
           \* last version that is somebody else's
  route,   \* the page mounted, and whether it is to be (re-)run
  form,    \* what the page was built with, the version its typed text goes
           \* back to, was it re-run in place, the version the banner
           \* offers to save over, the success panel
  call,    \* the action of this page under way
  late     \* an action under way whose page was left

document == <<route, form, call, late>>
applications == <<stamps, app, document>>

Routes == {"elsewhere", "detail", "edit"}

\* A save knows the versions its author has seen, for the property.
NoCall == [op |-> "none", at |-> "idle", stamp |-> None, knew |-> {},
           rebuilt |-> FALSE, says |-> "refused", found |-> None]
Calls == [op : {"none", "save", "reread", "rotate", "delete"},
          at : {"idle", "out", "back"}, stamp : {None} \cup Versions,
          knew : SUBSET Versions, rebuilt : BOOLEAN,
          says : {"ok", "changed", "gone", "refused"}, found : {None} \cup Versions]

NoForm == [read |-> None, basis |-> None, rebuilt |-> FALSE,
           latest |-> None, done |-> FALSE]

ApplicationsTypeOK ==
  /\ stamps \in BOOLEAN
  /\ app \in [exists : BOOLEAN, version : Versions, others : Versions]
  /\ route \in [page : Routes, stale : BOOLEAN]
  /\ form \in [read : {None} \cup Versions, basis : {None} \cup Versions,
               rebuilt : BOOLEAN, latest : {None} \cup Versions, done : BOOLEAN]
  /\ call \in Calls /\ late \in Calls

ApplicationsInit ==
  /\ stamps \in BOOLEAN
  /\ app = [exists |-> TRUE, version |-> 1, others |-> 1]
  /\ route = [page |-> "elsewhere", stale |-> FALSE]
  /\ form = NoForm
  /\ call = NoCall /\ late = NoCall

-----------------------------------------------------------------------------
(* The IdP *)

Changed == [app EXCEPT !.version = @ + 1]

ChangedElsewhere ==
  /\ app.exists /\ app.version < MaxVersions
  /\ app' = [Changed EXCEPT !.others = app.version + 1]
  /\ UNCHANGED <<stamps, document>>

RemovedElsewhere ==
  /\ app.exists
  /\ app' = [app EXCEPT !.exists = FALSE]
  /\ UNCHANGED <<stamps, document>>

Says(c, says) == [c EXCEPT !.at = "back", !.says = says]

\* What becomes of the application, and of request c. An update or a rotation
\* makes a new version; an update with a stamp is for the version stamped.
Served(c) ==
  {<<app, Says(c, "refused")>>} \cup
  IF ~app.exists THEN {<<app, Says(c, "gone")>>}
  ELSE CASE c.op = "reread" -> {<<app, [Says(c, "ok") EXCEPT !.found = app.version]>>}
         [] c.op = "delete" -> {<<[app EXCEPT !.exists = FALSE], Says(c, "ok")>>}
         [] c.op = "save" /\ c.stamp \notin {None, app.version} -> {<<app, Says(c, "changed")>>}
         [] OTHER -> IF app.version < MaxVersions THEN {<<Changed, Says(c, "ok")>>} ELSE {}

ServeCall ==
  /\ call.at = "out"
  /\ \E out \in Served(call) : app' = out[1] /\ call' = out[2]
  /\ UNCHANGED <<stamps, route, form, late>>

ServeLateCall ==
  /\ late.at = "out"
  /\ \E out \in Served(late) : app' = out[1] /\ late' = out[2]
  /\ UNCHANGED <<stamps, route, form, call>>

-----------------------------------------------------------------------------
(* The pages *)

\* The page goes; one action at a time outlives its page.
Leave ==
  /\ call = NoCall \/ late = NoCall
  /\ late' = IF call = NoCall THEN late ELSE call
  /\ call' = NoCall /\ form' = NoForm

Go(page) ==
  /\ page # route.page
  /\ route' = [page |-> page, stale |-> page # "elsewhere"]
  /\ Leave
  /\ UNCHANGED <<stamps, app>>

\* The browser reloads the document ("Load the latest version").
Reload ==
  /\ route.page # "elsewhere"
  /\ route' = [route EXCEPT !.stale = TRUE]
  /\ form' = NoForm /\ call' = NoCall /\ late' = NoCall
  /\ UNCHANGED <<stamps, app>>

\* The page is run, and shown in place of what it showed before; the state of
\* the forms stays, unless an error panel takes their place.
Load ==
  /\ route.stale
  /\ route' = [route EXCEPT !.stale = FALSE]
  /\ \/ /\ app.exists
        /\ form' = [form EXCEPT !.read = app.version, !.rebuilt = form.read # None]
        /\ UNCHANGED <<call, late>>
     \/ Leave
  /\ UNCHANGED <<stamps, app>>

Idle(page) == route.page = page /\ form.read # None /\ call = NoCall

\* The inputs are disabled while a save is under way.
TypeText ==
  /\ Idle("edit") /\ ~form.done /\ form.basis = None
  /\ form' = [form EXCEPT !.basis = form.read]
  /\ UNCHANGED <<stamps, app, route, call, late>>

Basis == IF form.basis = None THEN form.read ELSE form.basis

Sends(stamp, knew) ==
  /\ Idle("edit") /\ ~form.done
  /\ form' = [form EXCEPT !.basis = Basis]
  /\ call' = [NoCall EXCEPT !.op = "save", !.at = "out", !.rebuilt = form.rebuilt,
                            !.stamp = stamp, !.knew = knew]
  /\ UNCHANGED <<stamps, app, route, late>>

\* "Save application": the stamp the page was built with, if there was one.
Save == Sends(IF stamps THEN form.read ELSE None, {Basis})

\* Fault: the second button sends no stamp at all.
ForceSave == form.latest # None /\ Sends(None, {Basis, form.latest})

\* "Save my version anyway": the stamp the banner brought.
SaveAnyway == form.latest # None /\ Sends(form.latest, {Basis, form.latest})

\* The detail page's two forms; one of them at a time.
Ask(op) ==
  /\ Idle("detail") /\ (op = "rotate" => ~form.done)
  /\ call' = [NoCall EXCEPT !.op = op, !.at = "out"]
  /\ UNCHANGED <<stamps, app, route, form, late>>

-----------------------------------------------------------------------------
(* The answers. What is lost, or has lost the body that was to be read, is *)
(* told as a failure; a deletion has no body.                              *)

Tells(c, whole) ==
  IF whole \/ (c.op = "delete" /\ c.at = "back") THEN c.says ELSE "refused"

\* revalidatePath(): whatever is mounted is run again.
Revalidates == route' = [route EXCEPT !.stale = route.page # "elsewhere"]

\* A 409 client_changed has the action read the application again.
Rereads(c) == [c EXCEPT !.op = "reread", !.at = "out"]

\* The deletion is done, by whoever: to the list, from wherever.
ToTheList == route' = [page |-> "elsewhere", stale |-> FALSE]

\* What was typed is handed back; the banner stands until the next answer.
GotCall ==
  /\ call # NoCall
  /\ \E whole \in IF call.at = "back" THEN BOOLEAN ELSE {FALSE} :
       LET says == Tells(call, whole) IN
       CASE call.op = "save" /\ says = "changed" ->
              call' = Rereads(call) /\ UNCHANGED <<route, form, late>>
         [] call.op \in {"save", "rotate"} /\ says = "ok" ->
              /\ call' = NoCall /\ form' = [form EXCEPT !.done = TRUE, !.basis = None]
              /\ Revalidates /\ UNCHANGED late
         [] call.op = "delete" /\ says \in {"ok", "gone"} ->
              call' = NoCall /\ form' = NoForm /\ ToTheList /\ UNCHANGED late
         [] OTHER ->
              /\ call' = NoCall
              /\ form' = [form EXCEPT !.latest = IF call.op = "reread" /\ says = "ok" /\ stamps
                                              THEN call.found ELSE None]
              /\ UNCHANGED <<route, late>>
  /\ UNCHANGED <<stamps, app>>

GotLateCall ==
  /\ late # NoCall
  /\ \E whole \in IF late.at = "back" THEN BOOLEAN ELSE {FALSE} :
       LET says == Tells(late, whole) IN
       CASE late.op = "save" /\ says = "changed" ->
              late' = Rereads(late) /\ UNCHANGED <<route, form, call>>
         [] late.op \in {"save", "rotate"} /\ says = "ok" ->
              late' = NoCall /\ Revalidates /\ UNCHANGED <<form, call>>
         [] late.op = "delete" /\ says \in {"ok", "gone"} ->
              late' = call /\ call' = NoCall /\ form' = NoForm /\ ToTheList
         [] OTHER -> late' = NoCall /\ UNCHANGED <<route, form, call>>
  /\ UNCHANGED <<stamps, app>>

ApplicationsNext ==
  \/ ChangedElsewhere \/ RemovedElsewhere \/ ServeCall \/ ServeLateCall
  \/ \E page \in Routes : Go(page)
  \/ Reload \/ Load \/ TypeText \/ Save \/ SaveAnyway
  \/ \E op \in {"rotate", "delete"} : Ask(op)
  \/ GotCall \/ GotLateCall

ApplicationsSpec == ApplicationsInit /\ [][ApplicationsNext]_applications

-----------------------------------------------------------------------------
(* Properties *)

\* The step in which the IdP applies save c, and its author has seen the last
\* of the changes it is applied over.
Applies(c, done) ==
  c.op = "save" /\ c.at = "out" /\ done.at = "back" /\ done.says = "ok"
Informed(c) == \E v \in c.knew : v >= app.others

\* "When someone changed the application since, the IdP refuses" and a banner
\* offers to save over it (edit-application-form.tsx:18-22): no save is applied
\* over somebody else's change its author neither read nor was told of.
NoBlindOverwrite ==
  [][stamps => /\ Applies(call, call') => Informed(call)
               /\ Applies(late, late') => Informed(late)]_applications

\* Whatever was lost, refused, saved over or left behind on the way, that
\* holds of every form whose page was not run again under what was typed
\* (updateApplicationAction: expect_updated_at and save_anyway_updated_at).
BlindOnlyIfRebuilt ==
  [][stamps => /\ Applies(call, call') /\ ~call.rebuilt => Informed(call)
               /\ Applies(late, late') /\ ~late.rebuilt => Informed(late)]_applications
=============================================================================
