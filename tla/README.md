# Verification of the identuum console

TLA+ models of the identuum web console (`src/`), TLC configurations that check
them on small instances, and TLAPS proofs of the properties that matter most.
Every definition is translated from the source; `PROJECT.json` ("map") names the
lines each one stands for.  Where a comment below and the code disagree, the
code is what is modelled; the disagreements met are listed under "Findings".

To check: `tlc -workers 2 -config BoundaryReads.cfg MCSessionBoundary` (and so on for each
pair in "Runs"), `tlapm SessionBoundaryProofs.tla` (and so on).

## 1. The system

The console is one TypeScript code base in two deployments: an exported
single-page application served by a Go binary (`export/src`, which stands in
for Next.js with a small router, a route shell and a `bff()` client), and a
standalone Next.js server (`src/app`, with a proxy under `app/api`).  Both share
the pages, the forms and the clients of `src/lib`.  The Go boundary and the
identity provider (IdP) are other programs: here they are environments, modelled
only through what the code in `src/` sends them and does with their answers.

| Component | State | Operations | Talks to |
|---|---|---|---|
| **Browser session boundary** `export/src/bff.ts`, `logout.ts` | `refreshInFlight`, `refreshEpoch`; one promise per call; the cookie jar | `bff()` for reads, mutations and login steps; `refreshSession()`; `signOutDestination()` | the Go boundary; every data client and the route shell call it |
| **Session verdict engine** `src/lib/session-validation.ts` | the clock of one run, the last `Retry-After` | `validateSessionResponse()`: attempt, classify, wait, give up | asked by the route shell and by the Next server |
| **Route shell and guards** `export/src/{router,server-route,area-routes,main}.ts(x)`, `platform/*`, `src/lib/session-guard.ts`, the three area layouts | the address, `revalidation`, `routeGeneration`; the memo of `getServerSessionState()`; the builds and the tree on screen | `navigate`, `revalidate`, start and cancel a build, guard, redirect | the verdict engine; every page |
| **Sign-in flow** `components/auth/*`, `lib/idp-client.ts`, `lib/login-route.ts` | the step, the handles of the pending login, each form's local state, requests under way | look-up, password, SSO, passkey, password change, MFA, MFA enrolment, Back | the IdP; `onSuccess` moves the router |
| **Boot ladder and runtime composition** `export/src/{session,main,edition,next-proxy}.ts(x)`, `src/lib/runtime-composition.ts` | the probe `Root` waits for; the edition promise of the document; in the Next deployment a memo of the discovery | `rootDestination()`, `discoverPlatform()`, `loadEdition()`, the gate of the CE-only calls | the machine's status routes; decides which wizard the document runs |
| **Setup wizard** `app/setup/*`, `idp-setup-*client.ts` | the distribution and licence the page found, `codeState`, `submitState`, the call under way | probe, verify the code, upload the licence, begin and verify MFA, complete | the machine; another browser may finish first |
| **Upgrade wizard** `app/upgrade/*`, `idp-upgrade-client.ts` | `status`, `backupConfirmed`, `preflight`, `applyState`, the backup card | refresh, back up, prune, preview, apply; two effects re-run by the state they read | the machine, whose binary is replaced and restarted under it |
| Next server proxy and logout `app/api/*`, `same-origin-guard.ts`, `server-session.ts` | none of its own; cookies in transit | forward, rewrite, logout | the IdP |
| **Token ceremonies** `claim`, `activate`, `invite`, `reset-link`, `reset-password` actions and forms; `verify-email` | per page the last answer and the typed password; for a claim the pending session of its enrolment | check a link, redeem it, open the enrolment | the IdP; the console pages that issue the links |
| Admin data client `idp-admin-client.ts` | none | about 6000 lines of typed requests | the session boundary |
| **Organization administration pages** (applications, links; service accounts, domains, roles) | edit forms, the conflict banner, one-time secrets and links | edit, save over, rotate, delete, issue | the admin data client; `revalidatePath()` re-runs the mounted route |
| **Account settings** `app/account/settings/*`, `idp-account-client.ts` | per tab the state of its forms: the enrolment's phase, the codes on screen, what was revoked | revoke sessions, enrol, regenerate the codes, disable MFA, change the password, save | the IdP, which the same person uses from other browsers; `revalidatePath()` |
| Organization link and import | plan, dry run, partial results | dry run, execute | the admin data client |
| Agent governance console `ag-*.ts` | none shared | one request per page | its own server |
| Presentation and tooling | none | layout, formatting, scripts | |

### What is hard here, and what makes each part correct

*Session boundary.*  Many calls share one refresh token that may be used once.
They fail, time out and are cancelled independently, in the middle of each
other's renewals, with a body still to come after each status.  Correct means:
one renewal at a time and none for a refusal that a renewal has outdated; a
caller that gives up disturbs nobody; a write is never sent twice, and its
caller is never told it was refused after it happened; nobody is told that
the session is over while it could still be renewed, but for a 401 whose body is
lost and for a renewal the tab had given up; a sign-out claims no more than was confirmed; every call settles.

*Verdict engine.*  An outage and a verdict must never be confused, `Retry-After`
is to be honoured, and all of it has to fit 8 s of wall-clock time although timers fire
late.

*Route shell.*  Asynchronous builds of several addresses overlap.  A verdict must
belong to the load it decides, a build the user has left must not come back,
nothing guarded is shown unless admitted, and only a verdict, or a 401 to a page's own
read, signs anyone out.

*Sign-in.*  A request outlives the form that sent it: after Back its answer
still moves the flow.  Handles must reach the step they were issued for, the enrolment
secret that is minted once must be asked for once, although React runs effects again,
and the console must be entered with a session.

*First run.*  The machine is replaced and restarted under the page that watches
it, so every probe can fail at every moment; requests are answered after the state
they were asked about has changed; effects run again while their last run is
under way; another browser may finish the setup.  Correct means: a failure is
never an invitation to set up or upgrade; `/` leads somewhere unless it waits for
the edition; the preview is that of the box as it is now; an upgrade is not called complete
before it is; a CE machine is not set up without its licence.

*Links handed over.*  A link is issued on one page and redeemed once on another,
and every answer between may be lost.  Correct means: whoever is told the
password is set has an account with that password; an invite page calls its link dead
only when it is, and so do the claim and reset-link forms once they were submitted; an
administrator never holds a retired link that looks good.  The first check of a claim,
activation or reset link, the submission of an activation and that of a mailed reset are
not held to the second: there the code calls a link dead after a network error or a torn answer too.

*Applications.*  Two administrators edit one record; an action is answered after
its page has been left and re-runs whichever page is there.  Correct means: a save never goes
over a change its author was not shown.

*Account settings.*  One revocation of "everywhere" is a call per session, the enrolment
is two calls with another browser in between, and recovery codes are
shown once.  Correct means: what the page says is done is done for all of it, and the
codes it says to save are those that work.

`PROJECT.json` lists the hazards one by one with their lines, and the
property that would catch each, or why there is none.

## 2. Modules

| Module | Models | Lines of code it stands for |
|---|---|---|
| `SessionContract` | what a caller of `bff()` may rely on: the abstract specification | |
| `SessionBoundary` | `bff()`, the shared renewal, the jar, logout, and the boundary's answers | `bff.ts`, `logout.ts` |
| `MCSessionBoundary` | model values for its instances | |
| `SessionBoundaryProofs`, `SessionVerdictProofs` | proofs about `SessionBoundary` | |
| `SessionValidation` | one run of the retry loop | `session-validation.ts` |
| `SessionValidationProofs` | proofs about it | |
| `RouteShell` | router, builds, memo, guards, redirects | `router.ts`, `server-route.tsx`, `area-routes.tsx`, `platform/*`, `session-guard.ts`, layouts |
| `RouteShellProofs` | proofs about it | |
| `SignIn` | the sign-in page and the pending logins of the IdP | `components/auth/*`, `idp-client.ts`, `login-route.ts` |
| `SignInProofs` | proofs about it | |
| `Appliance` | the machine of a first run, the edition and address of one document | `edition.ts`, `next-proxy.ts`; the machine is external |
| `BootLadder` | what the document does at `/` | `session.ts`, `main.tsx` |
| `UpgradeWizard` | the `/upgrade` page, its two effects and its requests | `app/upgrade/*`, `idp-upgrade-client.ts` |
| `SetupWizard` | the `/setup` page and the licence step | `app/setup/*`, `idp-setup-*client.ts` |
| `FirstRun` | composes the four above | |
| `FirstRunProofs` | proofs about the composition | |
| `HandOver`, `MCHandOver` | one-time links from issue to redemption | the five ceremonies, the buttons that issue links, the client calls under both |
| `Applications` | one application: show, edit, rotate, delete | `org-admin/applications/[id]/*`, `next-cache.ts` |
| `Account` | the tabs of the account settings and their actions | `account/settings/*`, `idp-account-client.ts`, `idp-client.ts` (the enrolment) |
| `AccountProofs` | proofs about it | |
| `Console` | composes `HandOver`, `Applications` and `Account` | |
| `ConsoleProofs` | proofs about `HandOver` and `Applications`; carries them, and those about `Account`, over to `Console` | |

Definitions named with a "Fault:" comment are single changes of the definition
that follows them, of the kind a slip in the code would make.  No
specification uses them; substituted for the original, each makes one property
of a run fail.  They are the evidence that the property constrains the code.

### SessionBoundary

A call is one invocation of `bff()`, one value of `Calls`; the kinds are disjoint
sets of calls (`KindsAssumption`).  A step is what JavaScript does between two awaits.
`pc` follows the awaits of the function: `Start` (bff.ts:92-112) sends, or for a
mutation first sends the read-only validate; `Receive` is the resumption when
`fetch` resolves; `ReadBody` the one after `readJson`; `JoinRenewal` is
`refreshSession()`, with `refreshInFlight` shared; `Resume` what follows it, the
retry included; `Judge` the body of the retried answer; `Abort` the caller's signal or
timer, `Lose` a rejected `fetch`.  Renewals are records named by the call
that began them, since they live on when that call has gone: `FlightReturns` (the
answer's cookies and status arrive), `FlightSettles` (the shared promise settles, the epoch
moves), `FlightFails` (loss or the renewal's own timer).  A renewal has two halves for that: `client` is
the promise of the tab, `st` the request in the network.  When the first has failed, the second may
still be served, and `FlightReturns` stores its cookies all the same - with `refreshEpoch` where it was.
`Strayed(g)` says that this has been the lot of a renewal of the session of `g`.

`wire` is the request in the network, and outlives the call: an aborted
mutation, login step or logout may still be served (`Left`), and its `Set-Cookie` may still arrive
(`CookiesArrive`); those of an abandoned read have none, and it is dropped.
Credentials are numbered pairs; `family` gives each its session, so that
"the session is over" and "a newer pair of the same session" can be said.  The
server's side - a refresh rotates a pair and spends the old one, a logout
revokes the family, answers 200, 401, 503, outages, expiry, administrative revocation -
is external and nondeterministic.

Modelled as the code has them: the 200 "signed out" a probe opts in to; a body
lost after its status (`MayTear`): "blank" is a 200 and "bare" a 401, which is handed on with no
renewal and counts as one of the `Verdicts`; the validate
read a mutation makes first, which alone may be renewed and resent; login steps and bearer
calls, which are never renewed.  Left out: header contents, JSON shapes, the
origin rewriting of `withBoundaryHeaders`.

`SessionContract` is what this amounts to for a caller: open, take effect at
most once, close as "done" only after the effect, as "denied" only without one
and for good, or as "unknown".  `SessionBoundary` implements it under the
mapping `Contract` (phases from `pc`, outcomes from `result` by `Meaning`,
effects from `applied`), checked as `ImplementsContract`.

### SessionValidation

`now` is milliseconds since the start of the run.  `Attempt`, `Verdict`, `Busy` (429 and 5xx,
with or without `Retry-After`), `NoAnswer` (a rejection, or the attempt's own
timer), `Retry`/`PlanNextWait`, `Wake` and `GiveUp` are the branches of the
loop, with its arithmetic: the attempt's timeout cut to what remains, the wait
the larger of backoff and `Retry-After` up to `MaxWait`, and no further attempt
when the budget cannot hold that wait and a useful attempt.
"cut" is a 2xx whose body is lost, which the code returns as authenticated with
a null session.  Timers fire late by any of `Lateness`.  The date form of
`Retry-After` is reduced to seconds.

### RouteShell

Three guarded areas seen by an `org_admin`: "org" (home), "site" (another role's),
"settings" (everyone's), and the public addresses.  `builds` holds every
`build()` ever started with its stage - `layout` (waiting for the verdict),
`shell` (guard passed or outage state rendered), then how the page begins: `session` (its own
`getServerSession`), `organization` (the read of its organization by `org-admin/settings` and its sign-in provider pages, whose 401
redirects to "session expired") or `data` at once, and at last `done`, `failed` or `redirected` -
because a cancelled build keeps running and may still redirect.  An area stands for all of its pages, so
which of these begins is a choice of `BeginPage` within `ReadsSession` and `ReadsOrganization`.  `memo` and
`validations` are the verdict shared per `routeGeneration`; a generation that
changes during a build gives the page a newer verdict than its layout had, which the
model has.  `Commit` is React's effect in `ServerRoute`, which cancels the previous
build.  The root ladder is in `BootLadder`.  Left out: the runtime memo; the not-configured branches; the redirects
pages make by role, by what they did not find, or to another tab; and those made by server actions and forms rather
than by a build, which go to "session expired" when the action itself finds no session
(`account/settings/actions.ts:39`, `account/settings/mfa-self-service-forms.tsx:95` and their like).

### SignIn

`step` is `LoginFlow`'s step, `form` the local state of the mounted form, `calls`
the requests under way, `pending` the IdP's handles (`session_id`).  Each form's
submit, the two look-ups, the three passkey steps and the enrolment effect
send a request; `Receive...` are the continuations, `Fail` the rejection and `Tear` a
body lost after its status.  An answer is abstracted to its 2xx-ness, what
its body says, its handle, and whether cookies came with it, which is what the
discriminations of `idp-client.ts` look at: a further step is read from the body
under 200 and under 401 alike.

Abstractions: `onSuccess` and a `window.location` assignment take effect at once,
and the first unmounts `LoginFlow`; e-mail addresses are reduced to where
their look-up leads; the 401 `mfa_enrollment_required` that carries no handle is
one of the refusals; a handle expires only when it is presented; the passkey finish is
assumed not to ask for enrolment.  `LookupLeadsOn` and `LoadingIsAnswered` are
safety forms of "this wait leads somewhere": they need no fairness, and say
that no step ends the wait without its successor.

### Appliance, BootLadder, UpgradeWizard, SetupWizard, FirstRun

`machine` is the binary that serves, its schema, its setup and its licence; `tab`
is the edition the document has read and its address.  A call to a route
only CE serves waits until the edition is `Settled` and gets through
only under "ce" (`CeOnly`).  `Restart` replaces the OSS binary by CE, or restarts the
service after the upgrade, and drops the requests it had in flight.  `Load` is a
document load: it resets everything the tab held, so no answer reaches a
wizard that is gone, but a write it had sent may still be carried out (`late`, `afloat`).

`ladder` is the probe `rootDestination()` waits for; a probe is one step, which
answers, fails or is unintelligible.  In `UpgradeWizard` each handler
has a request of its own (`asked`), served and answered in separate steps, so an old
status may arrive after a newer one.  `SetStatus` re-runs both effects and a
change of the box re-runs the preflight; of each effect only the last run
is kept, because the others are cancelled and their answers ignored.  "failed"
stands for no answer, a non-2xx status and a body that does not parse, which the
page tells apart only in wording; "upgrade_required" stands for the five
states the pages treat alike.  In `SetupWizard` one request is under way at a time, as
the disabled controls have it; what is typed is left out, and an e-mail
changed under the enrolment is a refusal like another.

### HandOver

A behaviour is about one account and one `kind` of link, since each kind has a page
and an action of its own (`ClaimTold` and so on: what each page makes of each answer,
whole or not).  `panel` is the console page that issues; `tab` is each browser
tab with a link; `idp` is the account.  A redemption that is given up on stays
`adrift` and may still be carried out.  `submits` numbers the passwords, so
that "the password is set" can be checked against the password it is said
of.  A claim link survives `MaxWeak` - 1 weak passwords.  Loading the page and checking
the link is one step, because a form whose link dies meanwhile is as stale as one
that was open.  Whether fields are well formed, which product offers which ceremony, and wording
are left out; the enrolment form itself is in `SignIn`.

### Applications

Versions stand for `updated_at`, which the OSS IdP sends and the CE one does
not (`stamps`).  `form.read` is what the edit page was built with and is what
`Save` stamps; `form.basis` is the version the typed text goes back to; `form.latest` is the version the
banner offers to save over.  `Load` re-runs a mounted page in place, after which the typed
text stays and the hidden stamp is new.  `call` belongs to the mounted page and `late`
to one that was left: its answer calls `revalidatePath()` all the same.  `knew` and
`rebuilt` are history for the properties.  The typed confirmations, field errors and who
may administer what are left out: each is a refusal or a redirect away.

### Account

`section` is the tab open and what it shows, `held` what the form there holds, `action`
its request and `orphan` the request of a form that is gone: a
tab is a link inside the document, so its answer still re-runs whatever is open.
`RunSection` re-runs a tab in place: `held` stays if the same form comes back, and is lost
if not.  A revocation of several sessions is a loop (`Revokes`) whose calls are answered,
lost or refused one by one, in any order and in the middle of what other browsers do; nothing is revoked once
this session has ended.  `WorkElsewhere` is another browser of the same person: it is
issued a secret, completes an enrolment, regenerates, disables, ends sessions.
`account.apart` is history for `CodesAreTheNewest`.  `save` stands for
the actions that change nothing the properties speak of.

`Console` is the union of the three, which share no state of the IdP.

## 3. Runs

| Run | Instance | States | Checks |
|---|---|---|---|
| `boundary_reads` | a probe, a read, a login step | 2,523,577 | `OneRenewal`, `NoStaleRotation`, `VerdictIsReal`, `NotOverWhileRenewable`, `OwnCancellation`, `ReadAtMostTwice` |
| `boundary_writes` | a probe, a mutation, a logout | 1,569,021 | `TypeOK`, `WrittenAtMostOnce`, `SignOutIsHonest` |
| `boundary_settles` | a probe, a mutation, with fairness | 28,190 | `EveryCallSettles`, `ImplementsContract` |
| `boundary_local_sign_out` | a probe, a logout | | `SignedOutOnThisDevice` is violated |
| `session_validation` | the budget of the code | 147,546 | `TypeOK`, `WithinBudget`, `OutageIsNotVerdict`, `HonorsRetryAfter`, `Returns` |
| `route_shell` | 2 entries, 3 links, 5 verdicts, 1 move | 262,736 | `TypeOK`, `FreshVerdicts`, `ShownIsAdmitted`, `ViewMovesForward`, `OnlyAVerdictSignsOut` |
| `route_outage` | 1 entry, 1 link | | `OutageKeepsAddress` is violated |
| `sign_in` | 2 slots, 2 handles | 1,993,139 | `TypeOK`, `OneInitiate`, `SuccessIsSession`, `RightHandle`, `LoadingIsAnswered`, `LookupLeadsOn` |
| `sign_in_codes` | the same | | `CodesAreShown` is violated |
| `first_run` | 1 backup, 1 request of a handler at a time | 284,591 | `TypeOK`, `FreshPreview`, `CompletedIsReal`, `OffersWhatIsNeeded`, `LadderLands`, `CeSetUpLicensed` |
| `console` | 2 tabs, 2 links, 2 passwords; 4 versions; 3 sessions, 2 secrets, 2 sets of codes | 1,308,109 | `ConsoleTypeOK`, `SetIsMine`, `DeadIsDead`, `StaleLinkIsFlagged`, `DoneIsDone`, `CodesAreTheNewest`, `BlindOnlyIfRebuilt` |
| `blind_save` | 4 versions | | `NoBlindOverwrite` is violated |

`CHECK_DEADLOCK FALSE` is set but for `console` and `blind_save`: when every call has settled, a run
has returned, or the user stops clicking, the system does stop.  In the console somebody can always open
another page, and deadlock is checked.

### Bounds, and why they are enough

*Boundary.*  `Calls` is the only bound; epochs, pairs and sends are unbounded and
finite because each call begins at most one renewal.  Three calls
are the first size at which one call begins a renewal, another joins it and a
third changes the credentials under both (the login step in `boundary_reads`,
the logout in `boundary_writes`).  The probe differs from the read by its opt-in to the 200
"signed out", so both are in the first instance.  A mutation is two
legs, hence a second reader of its own.  The theorems of section 5 lift this
bound for all of its properties but `EveryCallSettles`.

*Validation.*  The constants are those of the code.  `Delays` {0, 150, 900, 3950} ms
have an answer that is immediate, one near the backoff, one near a `Retry-After`
of 1 s, and one just inside the attempt's 4 s; `RetryAfters` {0, 1, 3} s lie below,
between and above the backoff and `MaxWait`; `Lateness` {0, 40, 9000} ms is a timer on time, a busy
event loop, and a suspended tab that wakes after the cap.

*Routes.*  `MaxMoves` bounds what the user does after opening the address; the
redirects that follow are not bounded.  One move is
enough for two overlapping builds plus those that redirects start, and so for a stale build,
a shared verdict that outlives its navigation, and a redirect from a cancelled build.
Two moves give several million states without a new kind of step.

*Sign-in.*  Two requests at once are a request of the mounted form and one of a
form the user has left.  Two handles are two logins, or a login that has a password
change and then MFA.

*First run.*  One backup is enough to be made, listed, pruned and to tick the box; a second one only
repeats it.  `MaxAsked` = 1 bounds the requests of handlers (create, prune, apply,
refresh and the lists after a write) under way when the operator starts another;
the effects and the first read are not bounded by it, and a write's list may
overlap the next handler.  The writes of one departed wizard at a time are late.  The operator
does not leave `/` before the ladder has finished: the ladder takes seconds.

*Links.*  Two links are one and its replacement, two submits a password and the one
tried after its answer was lost, in one tab or in two; with `MaxWeak` = 2 a claim link
survives a weak password and is burned by the next.  The tabs are symmetric.

*Applications.*  The shortest blind save needs four versions: the one read, the rotation's, the
other administrator's, and the save's.  One action at a time outlives its page.

*Account.*  Two other browsers are the least of which one can be revoked and one not.
Two secrets are this page's and another browser's; two sets of codes are one and
its successor, and an account may be enrolled from the start.  All sessions are there
from the start, because one begun later is in no list read before.

### Fairness, and why the code justifies it

*Boundary* (`FairSpec`, in `boundary_settles`; only `EveryCallSettles` needs it): weak fairness of `Abort`
and `FlightFails` - the timers of bff.ts:44 and :95 fire - and of `Resume`,
`ReadBody`/`Judge` and `FlightSettles`, continuations the event loop has ready.
Nothing is asked of the network or the server, which may stay silent for ever.

*Validation* (`FairSpec`, for `Returns`): the loop's own steps and its timers
(session-validation.ts:67 and :106-114).  No answer of the provider is fair.

*First run* (`Spec`, for `LadderLands` only): weak fairness of `Climbs`, because
every probe has a timer of 5 s or less.  Nothing is asked of the machine's answers, nor of the
read of the edition: the fetch of `loadEdition()` (edition.ts:49) has no timer, and next-proxy.ts:44 waits
for it without heeding the signal of the probe.  So `LadderLands` excepts the one wait that hangs on it,
the probe of the upgrade status while the edition is unread, and says that the ladder stands nowhere else.

*Routes, sign-in and the console* need no fairness: their properties are safety properties.

## 4. Findings

1. `SignedOutOnThisDevice` (`boundary_local_sign_out`).  `signOutDestination()`
   neither waits for nor cancels a renewal under way, so its answer may put
   live cookies back after the sign-in page has said "You were signed out on
   this device only" (login-route.tsx:102).  After a confirmed sign-out
   such cookies may come back too, but they are dead: `SignOutIsHonest` has the server accept no pair
   of that session.
2. `OutageKeepsAddress` (`route_outage`).  session-guard.ts:13-15 says an
   outage keeps the URL; area-routes.tsx:132 builds the page after a layout that
   rendered the outage state, and a page that calls `getServerSession()` redirects to
   `/unavailable`.
3. `CodesAreShown` (`sign_in_codes`).  "Back to sign in" (mfa-enroll-form.tsx:185)
   stays enabled while the enrolment is being completed.  If it succeeds, the user is
   enrolled and never sees the recovery codes, which line 104 says must be
   shown before completing.

4. `NoBlindOverwrite` (`blind_save`).  `revalidatePath()` re-runs whichever route is
   mounted (next-cache.ts:8).  A secret rotation that is answered after its page was left for
   the edit page rebuilds that page in place: the hidden `expect_updated_at` becomes
   the new stamp, the typed text stays, and the next save goes over another
   administrator's change, which edit-application-form.tsx:18-22 says is
   refused.  `BlindOnlyIfRebuilt` shows that there is no other way to it.

Also met, and not claimed by a run: a renewal that timed out (bff.ts:44) may be served and its
cookies stored with `refreshEpoch` where it was, and a refusal from before it then rotates
the fresh pair (bff.ts:134; `NoStaleRotation` excepts it as `Strayed`); a 401 whose body is lost is returned without
a renewal (bff.ts:122-127), and session-validation.ts:124-131 makes of it a verdict that sends a user with a live
refresh token to "session expired" (`VerdictIsReal` excepts it as "bare"); `org-admin/settings`
and its sign-in provider pages send their visitor there on a 401 to their own read, with no verdict of the layout (page.tsx:47); the boot ladder
stands at the upgrade probe as long as the edition is not read, although the probe has a timer of
5 s; "sign out everywhere" revokes in the order of the list,
so if the IdP refuses the calls of a session that has just ended itself, the sessions after
it stay, and the form says that this session has expired; an enrolment completed
with its answer lost is refused the second time as "already enrolled", and its
codes are never seen; codes on screen are lost when the tab is re-run while the MFA status cannot be
read, and are void when a form that is gone has newer ones made; change-password-form.tsx:81 says every session is
revoked and actions.ts:14-17 says the current one is not; after a save whose answer was lost, the
next one is refused and the banner names "someone" else, who is the author; a redirect out of an address and back
before React commits starts no new build; a redirect from a cancelled
build still moves the browser; a 2xx password change whose body is lost is taken for success
(`SuccessIsSession` excepts it by name); a 2xx validation whose body is lost is
"authenticated" with a null session.

## 5. Proofs

Checked by `tlapm` with Z3, Zenon and LS4, for every value of the constants that
satisfies the assumptions, each named in the module that declares the constants:

| Assumption | Says |
|---|---|
| `KindsAssumption` | the kinds of call are disjoint and `None` is none of them |
| `BudgetAssumption` | the constants are naturals, `MinUseful` is positive and at most the attempt's timeout and the cap; delays, `Retry-After`s and lateness are any sets of naturals |
| `ShellAssumption` | the entries and links are addresses the model knows, the answers are verdicts of the engine, the pages that read the session or their organization are in areas, and moves are counted |
| `SlotAssumption` | handles are counted, and no slot is the value that stands for none |
| `UpgradeAssumption` | backups and requests are counted, possibly none |
| `HandOverAssumption`, `ApplicationsAssumption`, `AccountAssumption` | links, submissions, codes are counted, and there is at least one version, secret and weak password |

So: any number of calls of each kind, any budget, any number of navigations, of requests
under way, of handles, backups, tabs, links, versions and sessions.  No
finiteness of a set is assumed.  Every safety property that a passing run checks is a
theorem, and so is every action property and the refinement.

**`SessionBoundaryProofs`.**

- `TypeCorrect`: `TypeInv` is the type invariant by parts (`ClientTyped`,
  `RenewalTyped`, `ServerTyped`) with `WaitsForOne` - a waiting call names a
  renewal, without which the step that applies it is not typed - and that the
  server accepts only pairs it issued.
- `OneRenewalHolds` from `SharedRenewal`: a renewal that is outstanding *is*
  `refreshInFlight`.  `OneRenewal` alone is not inductive: it does not see that
  the variable was cleared early.
- `ReadAtMostTwiceHolds` from `SendsByPhase` (the count is a function of the
  phase).  `OwnCancellationHolds` is inductive with the types.
- `WrittenAtMostOnceHolds` from `WriteByPhase`: while it confirms, a mutation has
  done nothing; after that it has one request, and a write carried out is
  no longer in the network.

**`SessionVerdictProofs`.**

- `VerdictIsRealHolds` from `VerdictInv`: `JoinsOnce` (a call that was sent
  again joined a renewal and will not join another), `PairsIssued` and
  `SessionsNamed` (what travels was issued, and a session is named by its first
  pair), `DeadWhenRefused` (a refused renewal presented a pair that is dead, and dead
  pairs stay dead: `DeadStays`), `AnswerInHand` and `RefusedIsDead` (the same of the access
  token behind a 401 that is in hand or was handed on unread), `OnlyTheOptedIn` (the 200 "signed
  out" goes to probes only), `ResultByPhase`.
- `SignOutIsHonestHolds` from `RevokedIsDead`, about the answer already on the wire, and
  `SessionStaysDead`: a rotation needs a live pair, so a dead family stays dead.
- `NoStaleRotationHolds` from `RotationInv`.  Its heart is `EpochTells`: a
  call whose credentials the jar has outdated has an older epoch, or the renewal that
  outdated them has its cookies and has yet to settle, and is then joined
  rather than begun anew - or that renewal has failed in the eyes of the tab and the session is
  `Strayed`, for good (`StrayedStays`).  It needs the code to move the epoch no later than it
  clears `refreshInFlight`; if it did not, this is where the proof would break.
- `NotOverWhileRenewableHolds` from `OverInv`.  `LiveIsNewest`: a pair that can be renewed is the newest
  of its session.  `PairsFollowed`: of the pair in the jar, and of the one the renewal under way presents, nothing is
  newer but what strayed, or what that renewal is about to bring; so a renewal the server refuses has not been
  overtaken, and its session has nothing left to renew (`OverWhenRefused`).  `GrantsUnseen` keeps the pair of a
  sign-in out of it until its answer arrives.
- `ContractImplemented` is the refinement.  `ContractInv` joins `VerdictInv` and
  `WriteByPhase` with `Replied` (what has come back names an answer, and a renewal that has settled an outcome) and `WriteIsTold` (an answer on the wire
  says what became of the write, and a result that closes the question leaves no request in the network); with it every step is one of
  `SessionContract` under the mapping `Contract`, or changes nothing it can see.

**`SessionValidationProofs`.**  `BudgetInv` joins `TypeOK`, `LoopState` (what the
timer and the last outage are in each phase), `WithinBudget` and `OutageIsNotVerdict`;
`PlanLeavesRoom` is the arithmetic of `planNextWaitMs` on its own: a
planned wait leaves `MinUseful` of the budget.  `WaitsItsTurn` - a sleep was
planned to end no earlier than the `Retry-After` - gives the action property
`HonorsRetryAfter`.

**`RouteShellProofs`.**  `ShellInv` speaks of every build that was ever started, not only of
the one on screen: `Sound` (what a build waits for was asked for no earlier than
the build began, and a guarded build is past its layout only on a verdict that admits
the user), `OneIsCurrent` (all builds but the last are cancelled) and `ShownIsSettled`.
`Sound` needs `MemoKnows`: the memo's verdict is of the generation the memo says.  From it
`FreshVerdictsHolds`, `ShownIsAdmittedHolds`, and by one step each `ViewMovesForwardHolds` (only a
build that is not cancelled commits, and that is the last) and `OnlyAVerdictSignsOutHolds`.

**`SignInProofs`.**  `SignInInv` follows a handle from the answer that brings it (`Brings`: issued for
the step it names, never asked about), to the field that holds it (`HeldOK`), to the requests that
present it (`Presents`).  `Apart` and `NewTo` say that nobody else has a handle that is still on
its way, so two logins under way never come to share one, in whichever order they
are answered.  `SubmitOK` - the mounted form knows of the submit that
presents its handle - is what keeps a second submit out, although Back forgets the form: a form
that is mounted again has another handle or none.  `EnrolOK` ties `started` to `asked`, and gives
`OneInitiateHolds` and `LoadingIsAnsweredHolds`; `Honest` says what a 2xx means, and gives
`SuccessIsSessionHolds`.  `LookupLeadsOnHolds` is one step from the types.

**`FirstRunProofs`.**  `FirstRunInv` joins the types of the four modules with `Told` (an answer on its way
back says nothing untrue of the schema; as a schema is never taken back, it is still true when taken
over, however late), `ToldComplete`, `FreshRun` (the preflight under way, not only the preview shown, is for the
box as it is) and `LicenceFirst` (whatever leads to a completion is behind a valid licence).  They
give `CompletedIsRealHolds`, `FreshPreviewHolds` and `CeSetUpLicensedHolds`; `OffersWhatIsNeededHolds` is a
property of single steps of the ladder.

**`AccountProofs`, `ConsoleProofs`.**  `AccountInv` joins the types with `FormsMatch` (which form a
request in flight belongs to, and what that form holds), `LoopHolds` (of the sessions a
bulk revocation set out to end, those it has been through are gone, unless a call
failed), `AnswerHolds` (an answer still travelling says what is so), `OrphanHolds` and
`ScreenHolds`, which gives `WhatIsSaidIsDone` and `CodesShownAreTheNewest`.  The properties alone
are not inductive: they do not see an answer until it is shown.  What the IdP may do
between an answer and its showing is stated once, as `Lasts` (sessions only end, and an armed
secret stays or every session ends) and `MadeApart`, and each action is shown to stay within
them.

`HandOverInv` says of every tab that it is `Sound`: its submission is one that was made, the answer
on its way tells what the IdP did, and so does the page.  `Onward` is all that the IdP may do between
the two - no link but a new one comes to redeem, no password set is unset - and `RedemptionTells`
is the redemption alone.  They give `SetIsMineHolds` and `DeadIsDeadHolds`.  `StaleLinkIsFlagged` is
inductive with the types, once it is shown that no page of a link moves the panel.
`ApplicationsInv` has `KnowsItsStamp` (a save from a page that was not run again carries a stamp its author
saw), from which `BlindOnlyIfRebuiltHolds`.  `LinksAreTold`, `SavesAreInformed` and `SettingsAreTold` carry
all of this to `ConsoleSpec`: each part of the console is left alone by the work of the other two.

**Only model-checked.**  `EveryCallSettles`, `Returns` and `LadderLands`: liveness under fairness, and with it
`ENABLED`, is outside the prover.  The four violated statements of section 4 have counterexamples
and so no theorem.

## 6. Not modelled, and why

- The Next server proxy and its logout are the other deployment of the calls of
  `SessionBoundary`; what differs is the rewriting of headers and cookies, which is data.
- The discovery of the Next deployment (`discoverRuntime` and its memo): the export's
  ladder asks the same questions without a memo.
- The rest of the admin data client maps requests and responses and has no state; each of its
  calls is a read or a mutation of `SessionBoundary`.
- Service accounts, domains, roles and the creation of an application are single
  requests of a form that shows a secret once, like the rotation in `Applications`.
- Organization link and import: one request per page, whose result is shown; what may change between
  a dry run and its execution changes on the servers.
- Of the account settings, passkeys and the mailed verification; and two forms of one
  tab under way at once.
- E-mail verification is one request.  The agent governance console is one
  request per page.  Presentation, formatting and tooling have no state to check.
- Two tabs share the jar but not `refreshInFlight`; what the identity provider does with a
  refresh token presented twice is not in this repository.

## 7. Plan

Done, in order: session boundary and its contract, verdict engine, route shell,
sign-in, and the proofs above; then the first run of an appliance, the links, the applications and
the account settings.

Next to model: the one-time secrets of service accounts.

Proved: every safety and action property of the passing runs and the refinement of
`SessionContract`.  What is left to prove lies in modules that are still to be written; what is
left to TLC is the liveness named in section 5.
