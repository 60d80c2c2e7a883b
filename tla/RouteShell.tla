----------------------------- MODULE RouteShell -----------------------------
(***************************************************************************)
(* How the exported console gets from an address to a page: the router's   *)
(* location and generation (export/src/router.ts), the session verdict     *)
(* shared per generation (platform/server-session.ts), the builds          *)
(* ServerRoute starts and cancels (server-route.tsx), the layouts' guard   *)
(* (lib/session-guard.ts, app/*/layout.tsx) and the redirects that move    *)
(* the browser from inside a build (platform/next-navigation.ts).          *)
(*                                                                         *)
(* The signed-in user is an org_admin: "org" is the user's home, "site" an *)
(* area of another role, "settings" the account area of every role.        *)
(***************************************************************************)
EXTENDS Naturals, Sequences

CONSTANTS
  Entries,      \* the addresses the tab may be opened at
  Links,        \* the addresses the user may navigate to
  Answers,      \* the verdicts a validation may reach
  MaxMoves,     \* bound: navigations and revalidations by the user
  ReadsSession, \* the guarded areas with a page that itself calls getServerSession()
  ReadsOrganization  \* those with a page that first reads its own organization

Areas == {"org", "site", "settings"}
Public == {"login", "login_expired", "unavailable"}
Paths == Areas \cup Public
Verdicts == {"authenticated", "needs_mfa", "no_credential", "expired", "unavailable"}

ASSUME ShellAssumption ==
  /\ Entries \subseteq Paths /\ Links \subseteq Paths
  /\ Answers \subseteq Verdicts
  /\ MaxMoves \in Nat
  /\ ReadsSession \subseteq Areas /\ ReadsOrganization \subseteq Areas

VARIABLES
  path,        \* window.location
  revalidation,
  generation,
  committed,   \* the routeKey and revalidation ServerRoute's effect last ran for
  builds,      \* every build() started, in order
  memo,        \* the generation and the validation getServerSessionState() keeps
  validations, \* every validation started: the generation it began in, its verdict
  view,        \* the build whose tree is set, 0 for none
  moves        \* bound: what the user has done

vars == <<path, revalidation, generation, committed, builds, memo, validations, view, moves>>

Stages == {"layout", "shell", "session", "organization", "data", "done", "failed", "redirected"}

\* What a page's read of its organization is answered: the organization, a
\* 401, or anything else, an outage included.
Reads == {"ok", "unauthorized", "other"}

Init ==
  /\ path \in Entries
  /\ revalidation = 0
  /\ generation = 0
  /\ committed = <<>>
  /\ builds = <<>>
  /\ memo = [generation |-> 0, validation |-> 0]
  /\ validations = <<>>
  /\ view = 0
  /\ moves = 0

-----------------------------------------------------------------------------

\* Fault: whatever validation there is serves every later navigation.
AnyMemoIsCurrent == memo.validation > 0

\* getServerSessionState(): join the validation of this generation, or start one.
MemoIsCurrent == memo.validation > 0 /\ memo.generation = generation

SharedValidation == IF MemoIsCurrent THEN memo.validation ELSE Len(validations) + 1

AskSession ==
  IF MemoIsCurrent
  THEN UNCHANGED <<memo, validations>>
  ELSE /\ validations' = Append(validations, [began |-> generation, verdict |-> "pending"])
       /\ memo' = [generation |-> generation, validation |-> Len(validations) + 1]

\* The verdicts that name a user.
Signed == {"authenticated", "needs_mfa"}

\* Fault: an outage is taken for a refused session.
GuardOutageAsExpired(area, verdict) ==
  CASE verdict = "no_credential" -> "login"
    [] verdict \in {"expired", "unavailable"} -> "login_expired"
    [] verdict \in Signed /\ area = "site" -> "org"
    [] verdict = "needs_mfa" /\ area = "org" -> "settings"
    [] OTHER -> "render"

\* Fault: the layout forgets the second factor its role needs.
GuardForgetsMfa(area, verdict) ==
  CASE verdict = "unavailable" -> "render"
    [] verdict = "no_credential" -> "login"
    [] verdict = "expired" -> "login_expired"
    [] verdict \in Signed /\ area = "site" -> "org"
    [] OTHER -> "render"

\* Fault: another role is sent to a home that is no route.
GuardSendsHome(area, verdict) ==
  CASE verdict = "unavailable" -> "render"
    [] verdict = "no_credential" -> "login"
    [] verdict = "expired" -> "login_expired"
    [] verdict \in Signed /\ area = "site" -> "home"
    [] OTHER -> "render"

\* decideSessionGuard() and the role rules of the area's layout.
Guard(area, verdict) ==
  CASE verdict = "unavailable" -> "render"
    [] verdict = "no_credential" -> "login"
    [] verdict = "expired" -> "login_expired"
    [] verdict \in Signed /\ area = "site" -> "org"
    [] verdict = "needs_mfa" /\ area = "org" -> "settings"
    [] OTHER -> "render"

\* navigate(): the address changes, and everything shared per generation is stale.
GoTo(p) ==
  /\ path' = p
  /\ generation' = generation + 1
  /\ UNCHANGED revalidation

\* redirect(): navigates at once, whichever build throws it.
Redirect(b, p) ==
  /\ GoTo(p)
  /\ builds' = [builds EXCEPT ![b].stage = "redirected"]
  /\ UNCHANGED <<memo, validations>>

-----------------------------------------------------------------------------
(* The user.                                                               *)

\* A link, a form's navigation, or a history step: also to the present path.
Navigate(p) ==
  /\ moves < MaxMoves
  /\ moves' = moves + 1
  /\ GoTo(p)
  /\ UNCHANGED <<committed, builds, memo, validations, view>>

\* router.refresh(), or a server action's revalidatePath().
Revalidate ==
  /\ moves < MaxMoves
  /\ moves' = moves + 1
  /\ revalidation' = revalidation + 1
  /\ generation' = generation + 1
  /\ UNCHANGED <<path, committed, builds, memo, validations, view>>

-----------------------------------------------------------------------------
(* ServerRoute.                                                            *)

\* React commits a new route key or revalidation: the effect's clean-up
\* cancels the build before, and the build of the path begins with its layout.
Commit ==
  /\ committed # <<path, revalidation>>
  /\ committed' = <<path, revalidation>>
  /\ LET guarded == path \in Areas
         cancelled == [b \in DOMAIN builds |-> [builds[b] EXCEPT !.cancelled = TRUE]] IN
     /\ builds' = Append(cancelled,
          [key |-> path, began |-> generation, cancelled |-> FALSE,
           stage |-> IF guarded THEN "layout" ELSE "data",
           layout |-> IF guarded THEN SharedValidation ELSE 0, page |-> 0, read |-> "none"])
     /\ IF guarded THEN AskSession ELSE UNCHANGED <<memo, validations>>
  /\ UNCHANGED <<path, revalidation, generation, view, moves>>

Answer(v, verdict) ==
  /\ validations[v].verdict = "pending"
  /\ validations' = [validations EXCEPT ![v].verdict = verdict]
  /\ UNCHANGED <<path, revalidation, generation, committed, builds, memo, view, moves>>

VerdictOf(v) == IF v = 0 THEN "pending" ELSE validations[v].verdict

\* The layout's guard, once its verdict is there.  An outage renders in
\* place, and the page is built after it all the same (area-routes.tsx).
RunGuard(b) ==
  /\ builds[b].stage = "layout"
  /\ VerdictOf(builds[b].layout) # "pending"
  /\ LET to == Guard(builds[b].key, VerdictOf(builds[b].layout)) IN
     IF to = "render"
     THEN /\ builds' = [builds EXCEPT ![b].stage = "shell"]
          /\ UNCHANGED <<path, revalidation, generation, memo, validations>>
     ELSE Redirect(b, to)
  /\ UNCHANGED <<committed, view, moves>>

\* What the pages of an address begin with.
FirstReads(key) ==
  {"data"} \cup (IF key \in ReadsSession THEN {"session"} ELSE {})
           \cup (IF key \in ReadsOrganization THEN {"organization"} ELSE {})

\* The rest of the layout is resolved and a page of the area begins.
BeginPage(b) ==
  /\ builds[b].stage = "shell"
  /\ \E first \in FirstReads(builds[b].key) :
       IF first = "session"
       THEN /\ builds' = [builds EXCEPT ![b].stage = first, ![b].page = SharedValidation]
            /\ AskSession
       ELSE /\ builds' = [builds EXCEPT ![b].stage = first]
            /\ UNCHANGED <<memo, validations>>
  /\ UNCHANGED <<path, revalidation, generation, committed, view, moves>>

\* getServerSession() in the page: an outage is sent to /unavailable.
PageSession(b) ==
  /\ builds[b].stage = "session"
  /\ VerdictOf(builds[b].page) # "pending"
  /\ IF VerdictOf(builds[b].page) = "unavailable"
     THEN Redirect(b, "unavailable")
     ELSE /\ builds' = [builds EXCEPT ![b].stage = "data"]
          /\ UNCHANGED <<path, revalidation, generation, memo, validations>>
  /\ UNCHANGED <<committed, view, moves>>

\* The answer to the page's getOwnOrganizationResult(), its one retry included.
AnswerRead(b, answer) ==
  /\ builds[b].stage = "organization" /\ builds[b].read = "none"
  /\ builds' = [builds EXCEPT ![b].read = answer]
  /\ UNCHANGED <<path, revalidation, generation, committed, memo, validations, view, moves>>

\* Fault: any failure of the read is taken for the end of the session.
AnyFailureEndsSession(answer) == answer # "ok"

\* The failure getOwnOrganizationResult() calls one of the "session".
EndsSession(answer) == answer = "unauthorized"

\* A page without its session is sent to "session expired"; one without its
\* organization says why, and goes on.
PageOrganization(b) ==
  /\ builds[b].stage = "organization" /\ builds[b].read # "none"
  /\ IF EndsSession(builds[b].read)
     THEN Redirect(b, "login_expired")
     ELSE /\ builds' = [builds EXCEPT ![b].stage = "data"]
          /\ UNCHANGED <<path, revalidation, generation, memo, validations>>
  /\ UNCHANGED <<committed, view, moves>>

\* Fault: the build's result is set whether or not it was cancelled.
FinishAnyway(b, stage) ==
  /\ builds[b].stage = "data" \/ (builds[b].stage = "shell" /\ stage = "failed")
  /\ builds' = [builds EXCEPT ![b].stage = stage]
  /\ view' = b
  /\ UNCHANGED <<path, revalidation, generation, committed, memo, validations, moves>>

\* The build settles; only one that was not cancelled is shown.
Finish(b, stage) ==
  /\ builds[b].stage = "data" \/ (builds[b].stage = "shell" /\ stage = "failed")
  /\ builds' = [builds EXCEPT ![b].stage = stage]
  /\ view' = IF builds[b].cancelled THEN view ELSE b
  /\ UNCHANGED <<path, revalidation, generation, committed, memo, validations, moves>>

Next ==
  \/ \E p \in Links : Navigate(p)
  \/ Revalidate
  \/ Commit
  \/ \E v \in DOMAIN validations, verdict \in Answers : Answer(v, verdict)
  \/ \E b \in DOMAIN builds :
       \/ RunGuard(b) \/ BeginPage(b) \/ PageSession(b) \/ PageOrganization(b)
       \/ \E answer \in Reads : AnswerRead(b, answer)
       \/ \E stage \in {"done", "failed"} : Finish(b, stage)

Spec == Init /\ [][Next]_vars

-----------------------------------------------------------------------------

Build == [key : Paths, began : Nat, cancelled : BOOLEAN, stage : Stages,
          layout : Nat, page : Nat, read : Reads \cup {"none"}]

\* Type invariant.
TypeOK ==
  /\ path \in Paths
  /\ revalidation \in Nat /\ generation \in Nat /\ moves \in 0..MaxMoves
  /\ committed = <<>> \/ committed \in Paths \X Nat
  /\ builds \in Seq(Build)
  /\ memo \in [generation : Nat, validation : 0..Len(validations)]
  /\ validations \in Seq([began : Nat, verdict : Verdicts \cup {"pending"}])
  /\ view \in 0..Len(builds)

\* No route load acts on a verdict from before the navigation that led to it:
\* not on a "signed out" from before the sign-in, nor on a session from
\* before the sign-out. Both the layout and the page ask in the generation
\* the build began in, or in a later one.
FreshVerdicts ==
  \A b \in DOMAIN builds :
    \A v \in {builds[b].layout, builds[b].page} \ {0} :
      validations[v].began >= builds[b].began

\* A build that a newer one replaced never takes the screen back, however
\* late it finishes: what is shown moves forward only.
ViewMovesForward == [][view' >= view]_vars

\* The verdicts under which this user may see something of an area; an outage
\* shows the area's own "service unavailable" state.
Admitted(area) ==
  {"unavailable"} \cup (CASE area = "org" -> {"authenticated"}
                         [] area = "settings" -> {"authenticated", "needs_mfa"}
                         [] OTHER -> {})

\* A guarded tree reaches the screen only if the validation that very load
\* waited for has been answered, with a verdict that admits this user to the
\* area: not before the answer, not on the verdict of an earlier address, and
\* not of a load whose guard has sent the browser elsewhere.
ShownIsAdmitted ==
  view > 0 /\ builds[view].key \in Areas =>
    VerdictOf(builds[view].layout) \in Admitted(builds[view].key)

\* Nothing but the user, a verdict against the session, and a 401 to a page's
\* own read of its organization moves the browser to the sign-in page, and
\* "session expired" is said of a refused credential only: an outage, of the
\* validation or of that read, never does either.
OnlyAVerdictSignsOut ==
  [][path' # path /\ moves' = moves /\ path' \in {"login", "login_expired"}
       => \E b \in DOMAIN builds :
            /\ builds'[b].stage = "redirected"
            /\ \/ /\ builds[b].stage = "layout"
                  /\ VerdictOf(builds[b].layout) =
                       IF path' = "login" THEN "no_credential" ELSE "expired"
               \/ /\ builds[b].stage = "organization" /\ builds[b].read = "unauthorized"
                  /\ path' = "login_expired"]_vars

\* An outage leaves the address alone (session-guard.ts: "no redirect, no
\* cookie touched, the URL stays so a reload retries").
OutageKeepsAddress ==
  [][path' # path /\ moves' = moves => path' # "unavailable"]_vars
=============================================================================
