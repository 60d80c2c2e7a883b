--------------------------- MODULE SessionBoundary ---------------------------
(***************************************************************************)
(* One browser tab of the exported console in front of the Go boundary:    *)
(* every call of bff() (export/src/bff.ts) that is under way at once, the  *)
(* renewal they share, the cookie jar they all send from, and the part of  *)
(* the boundary their answers depend on.                                   *)
(*                                                                         *)
(* A call is one invocation of bff().  It runs as JavaScript does: a step  *)
(* is what happens between two awaits, so anything may happen between the  *)
(* answer to a request and the body of that answer, and between the end of *)
(* a renewal and the moment a caller that waited for it resumes.           *)
(***************************************************************************)
EXTENDS Naturals, Sequences, FiniteSets

CONSTANTS
  Probes,      \* session probes: validate reads that opt in to a 200 "signed out"
  Reads,       \* the other reads of /api/v1
  Mutations,   \* writes of /api/v1 under the session cookie
  Ceremonies,  \* login-step and explicit-bearer calls: sent once, as they are
  Logouts,     \* signOutDestination() calls: POST /bff/session/logout
  MayTear,     \* may the network lose a body whose status has arrived?
  None         \* no call

Calls == Probes \cup Reads \cup Mutations \cup Ceremonies \cup Logouts

ASSUME KindsAssumption ==
  /\ Probes \cap (Reads \cup Mutations \cup Ceremonies \cup Logouts) = {}
  /\ Reads \cap (Mutations \cup Ceremonies \cup Logouts) = {}
  /\ Mutations \cap (Ceremonies \cup Logouts) = {}
  /\ Ceremonies \cap Logouts = {}
  /\ None \notin Calls
  /\ MayTear \in BOOLEAN

VARIABLES
  pc,          \* where each call stands
  confirming,  \* a mutation is still in the validate read it makes first
  aborted,     \* the call's AbortSignal has fired (its timer, or its caller)
  epochAt,     \* refreshEpoch when the call's request left
  joined,      \* the renewal the call waited for, named by the call that began it
  result,      \* what the call's promise settled with
  wire,        \* the call's request: in the network, at the server, on its way back
  refreshInFlight,  \* the renewal new callers join, or None
  refreshEpoch,     \* renewals this tab has seen succeed
  flight,      \* the renewals, each named by the call that began it
  jar,         \* the credential pair in the cookie jar, 0 when there is none
  family,      \* the pairs the server issued, in order, each with its session
  accessLive,  \* pairs whose access token the server accepts
  refreshLive, \* pairs whose refresh token the server accepts
  sends,       \* history: requests the call sent on its present leg
  applied      \* history: how often the server carried out the call's write

client == <<pc, confirming, aborted, epochAt, joined, result, sends>>
renewal == <<refreshInFlight, refreshEpoch, flight>>
server == <<family, accessLive, refreshLive, applied>>
vars == <<client, wire, renewal, jar, server>>

-----------------------------------------------------------------------------
(* What a call can be answered. "blank" is a 200 whose body was lost, and  *)
(* "bare" a 401 whose body was lost: the caller sees the status alone.     *)

Replies == {"ok", "signed_out", "unauthorized", "refused", "unavailable",
            "revoked", "local_only"}
Results == Replies \cup {"blank", "bare", "rejected", "aborted"}
RefreshOutcomes == {"none", "renewed", "signed_out", "refused", "unavailable", "rejected"}

Quiet == [st |-> "none", cred |-> 0, reply |-> "none", grant |-> 0]
Sent(cred) == [st |-> "out", cred |-> cred, reply |-> "none", grant |-> 0]
NoFlight == [client |-> "unused", st |-> "none", cred |-> 0, outcome |-> "none", grant |-> 0]

Phases == {"idle", "sent", "reading", "renewing", "judging", "resent", "settled"}
Requests == [st : {"none", "out", "back"}, cred : Nat, reply : Replies \cup {"none"}, grant : Nat]
Flights == [client : {"unused", "pending", "answered", "settled"}, st : {"none", "out", "back"},
            cred : Nat, outcome : RefreshOutcomes, grant : Nat]

issued == Len(family)

\* The leg under way is a read of /api/v1 that bff() renews for.
RenewableRead(c) == c \in Probes \cup Reads \/ (c \in Mutations /\ confirming[c])

OptedIn(c) == c \in Probes

\* The caller still waits for this fetch.
AwaitsFetch(c) == pc[c] \in {"sent", "resent"}

Init ==
  /\ pc = [c \in Calls |-> "idle"]
  /\ confirming = [c \in Calls |-> c \in Mutations]
  /\ aborted = [c \in Calls |-> FALSE]
  /\ epochAt = [c \in Calls |-> 0]
  /\ joined = [c \in Calls |-> None]
  /\ result = [c \in Calls |-> "none"]
  /\ sends = [c \in Calls |-> 0]
  /\ wire = [c \in Calls |-> Quiet]
  /\ refreshInFlight = None
  /\ refreshEpoch = 0
  /\ flight = [c \in Calls |-> NoFlight]
  /\ applied = [c \in Calls |-> 0]
  \* The tab opens with a session, or with no cookies at all.
  /\ \/ jar = 0 /\ family = <<>> /\ accessLive = {} /\ refreshLive = {}
     \/ jar = 1 /\ family = <<1>> /\ accessLive = {1} /\ refreshLive = {1}

-----------------------------------------------------------------------------
(* Pieces of a step.                                                       *)

\* fetch(): the browser attaches the cookies it holds when the request leaves.
Send(c) ==
  /\ wire' = [wire EXCEPT ![c] = Sent(jar)]
  /\ sends' = [sends EXCEPT ![c] = @ + 1]

\* A logout keeps the name of its session, and a 401 that is handed on unread
\* the pair it refused.
Served(c, r) ==
  [Quiet EXCEPT !.cred = IF c \in Logouts \/ r = "bare" THEN wire[c].cred ELSE 0]

\* The answer has a Set-Cookie: a sign-in, and both confirmed outcomes of a logout.
SetsCookies(answer) == answer.grant > 0 \/ answer.reply \in {"revoked", "local_only"}

\* What is left of a request when its call settles with r: one that is given
\* up, but for a read, may still be served and its cookies may still arrive.
Left(c, r) ==
  IF /\ r \in {"aborted", "rejected"} /\ ~RenewableRead(c)
     /\ wire[c].st = "out" \/ SetsCookies(wire[c])
  THEN wire[c] ELSE Served(c, r)

\* The promise of the leg settles with r.  For a mutation's validate read an
\* ok status sends the mutation itself, under the same signal; everything
\* else is what the caller of bff() gets.
Settle(c, r) ==
  IF confirming[c] /\ r \in {"ok", "blank"} /\ ~aborted[c]
  THEN /\ pc' = [pc EXCEPT ![c] = "sent"]
       /\ confirming' = [confirming EXCEPT ![c] = FALSE]
       /\ epochAt' = [epochAt EXCEPT ![c] = refreshEpoch]
       /\ wire' = [wire EXCEPT ![c] = Sent(jar)]
       /\ sends' = [sends EXCEPT ![c] = 1]
       /\ UNCHANGED result
  ELSE /\ pc' = [pc EXCEPT ![c] = "settled"]
       /\ result' = [result EXCEPT ![c] =
                       IF confirming[c] /\ r \in {"ok", "blank"} THEN "aborted" ELSE r]
       /\ wire' = [wire EXCEPT ![c] = Left(c, r)]
       /\ UNCHANGED <<confirming, epochAt, sends>>

\* Retry with the browser's current cookies.
Resend(c) ==
  /\ pc' = [pc EXCEPT ![c] = "resent"]
  /\ Send(c)
  /\ UNCHANGED <<confirming, epochAt, result>>

\* Fault: every refused call begins a renewal of its own.
JoinNothing(c) ==
  /\ pc' = [pc EXCEPT ![c] = "renewing"]
  /\ refreshInFlight' = c
  /\ joined' = [joined EXCEPT ![c] = c]
  /\ flight' = [flight EXCEPT ![c] = [client |-> "pending", st |-> "out", cred |-> jar,
                                      outcome |-> "none", grant |-> 0]]
  /\ UNCHANGED <<confirming, epochAt, result, wire, sends, refreshEpoch>>

\* refreshSession(): join the renewal in flight, or begin one.
JoinRenewal(c) ==
  /\ pc' = [pc EXCEPT ![c] = "renewing"]
  /\ IF refreshInFlight = None
     THEN /\ refreshInFlight' = c
          /\ joined' = [joined EXCEPT ![c] = c]
          /\ flight' = [flight EXCEPT ![c] =
                          [client |-> "pending", st |-> "out", cred |-> jar,
                           outcome |-> "none", grant |-> 0]]
     ELSE /\ joined' = [joined EXCEPT ![c] = refreshInFlight]
          /\ UNCHANGED <<refreshInFlight, flight>>
  /\ UNCHANGED <<confirming, epochAt, result, wire, sends, refreshEpoch>>

-----------------------------------------------------------------------------
(* bff() and refreshSession().                                             *)

Start(c) ==
  /\ pc[c] = "idle"
  /\ pc' = [pc EXCEPT ![c] = "sent"]
  /\ epochAt' = [epochAt EXCEPT ![c] = refreshEpoch]
  /\ Send(c)
  /\ UNCHANGED <<confirming, aborted, joined, result, renewal, jar, server>>

\* Fault: the answer to the retry is judged like the first one.
MustReadAnyBody(c, r) ==
  /\ RenewableRead(c)
  /\ r = "unauthorized" \/ (OptedIn(c) /\ r \in {"ok", "signed_out"})

\* A body has to be read before bff() can act on this answer.
MustReadBody(c, r) ==
  /\ pc[c] = "sent"
  /\ RenewableRead(c)
  /\ r = "unauthorized" \/ (OptedIn(c) /\ r \in {"ok", "signed_out"})

\* Fault: a cleared jar is left without a value.
SetCookieToNothing(answer) ==
  IF answer.grant > 0 THEN answer.grant
  ELSE IF answer.reply \in {"revoked", "local_only"} THEN None ELSE jar

\* What an answer's Set-Cookie does to the jar: a sign-in installs the pair
\* just issued, both confirmed outcomes of a logout clear it.
SetCookie(answer) ==
  IF answer.grant > 0 THEN answer.grant
  ELSE IF answer.reply \in {"revoked", "local_only"} THEN 0 ELSE jar

\* What signOutDestination() makes of an answer whose body it cannot read.
Told(c) ==
  {wire[c].reply} \cup (IF c \in Logouts /\ MayTear /\ wire[c].reply \in {"revoked", "local_only"}
                       THEN {"blank"} ELSE {})

\* The response to the call's fetch arrives.
Receive(c) ==
  /\ AwaitsFetch(c)
  /\ wire[c].st = "back"
  /\ jar' = SetCookie(wire[c])
  /\ IF MustReadBody(c, wire[c].reply)
     THEN /\ pc' = [pc EXCEPT ![c] = "reading"]
          /\ UNCHANGED <<confirming, epochAt, result, wire, sends>>
     ELSE \E r \in Told(c) : Settle(c, r)
  /\ UNCHANGED <<aborted, joined, renewal, server>>

\* The cookies of an answer whose call gave up arrive all the same.
CookiesArrive(c) ==
  /\ pc[c] = "settled" /\ wire[c].st = "back"
  /\ jar' = SetCookie(wire[c])
  /\ wire' = [wire EXCEPT ![c] = Served(c, result[c])]
  /\ UNCHANGED <<client, renewal, server>>

\* Fault: a refusal renews whatever was renewed since the request left.
ReadBodyAnyEpoch(c, readable) ==
  /\ pc[c] = "reading"
  /\ readable \/ MayTear \/ aborted[c]
  /\ LET r == wire[c].reply
         renew == readable /\ r \in {"signed_out", "unauthorized"} IN
     IF renew /\ ~aborted[c]
     THEN JoinRenewal(c)
     ELSE /\ Settle(c, IF renew THEN "aborted" ELSE IF readable THEN r ELSE "bare")
          /\ UNCHANGED <<joined, renewal>>
  /\ UNCHANGED <<aborted, jar, server>>

\* The body of a first answer is read, or is lost: readJson() swallows the
\* failure, and the answer is then judged by its status alone.
ReadBody(c, readable) ==
  /\ pc[c] = "reading"
  /\ readable \/ MayTear \/ aborted[c]
  /\ LET r == wire[c].reply
         renew == readable /\ r \in {"signed_out", "unauthorized"} IN
     IF ~renew
     THEN /\ Settle(c, IF readable THEN r ELSE IF r \in {"ok", "signed_out"} THEN "blank" ELSE "bare")
          /\ UNCHANGED <<joined, renewal>>
     ELSE IF aborted[c]
          THEN Settle(c, "aborted") /\ UNCHANGED <<joined, renewal>>
          ELSE IF epochAt[c] = refreshEpoch
               THEN JoinRenewal(c)
               ELSE Resend(c) /\ UNCHANGED <<joined, renewal>>
  /\ UNCHANGED <<aborted, jar, server>>

\* Fault: the mutation itself is sent without its signal.
AbortReadsOnly(c) ==
  /\ pc[c] \notin {"idle", "settled"}
  /\ ~aborted[c]
  /\ c \in Mutations => confirming[c]
  /\ aborted' = [aborted EXCEPT ![c] = TRUE]
  /\ IF pc[c] \in {"reading", "judging"}
     THEN UNCHANGED <<pc, confirming, epochAt, result, wire, sends>>
     ELSE Settle(c, "aborted")
  /\ UNCHANGED <<joined, renewal, jar, server>>

\* The call's AbortSignal fires: the caller cancelled, or the timer every
\* call runs under expired.  A pending fetch rejects, and so does the wait
\* for a shared renewal, which itself goes on.  Between an answer and its
\* body nothing is pending, and the signal is only read by the next step.
Abort(c) ==
  /\ pc[c] \notin {"idle", "settled"}
  /\ ~aborted[c]
  /\ aborted' = [aborted EXCEPT ![c] = TRUE]
  /\ IF pc[c] \in {"reading", "judging"}
     THEN UNCHANGED <<pc, confirming, epochAt, result, wire, sends>>
     ELSE Settle(c, "aborted")
  /\ UNCHANGED <<joined, renewal, jar, server>>

\* Fault: a lost request is sent again, whatever it was.
LoseAndResend(c) ==
  /\ AwaitsFetch(c)
  /\ IF pc[c] = "sent" THEN Resend(c) ELSE Settle(c, "rejected")
  /\ UNCHANGED <<aborted, joined, renewal, jar, server>>

\* Fault: a lost answer is reported as a refusal.
LoseAsRefusal(c) ==
  /\ AwaitsFetch(c)
  /\ Settle(c, "refused")
  /\ UNCHANGED <<aborted, joined, renewal, jar, server>>

\* The network loses the request or its answer: the fetch rejects.
Lose(c) ==
  /\ AwaitsFetch(c)
  /\ Settle(c, "rejected")
  /\ UNCHANGED <<aborted, joined, renewal, jar, server>>

\* Fault: a renewal that did not succeed means the session is over.
ResumeAsVerdict(c) ==
  /\ pc[c] = "renewing"
  /\ flight[joined[c]].client = "settled"
  /\ IF flight[joined[c]].outcome = "renewed" THEN Resend(c) ELSE Settle(c, "unauthorized")
  /\ UNCHANGED <<aborted, joined, renewal, jar, server>>

\* A caller that waited for a renewal resumes, once that renewal has settled.
Resume(c) ==
  /\ pc[c] = "renewing"
  /\ flight[joined[c]].client = "settled"
  /\ LET o == flight[joined[c]].outcome IN
     CASE o = "renewed" -> Resend(c)
       [] o = "signed_out" /\ ~OptedIn(c) ->
            pc' = [pc EXCEPT ![c] = "judging"] /\ UNCHANGED <<confirming, epochAt, result, wire, sends>>
       [] o = "refused" -> Settle(c, "unauthorized")
       [] OTHER -> Settle(c, o)
  /\ UNCHANGED <<aborted, joined, renewal, jar, server>>

\* A caller that did not opt in reads the body of the renewal's 200: a
\* "signed out" becomes the 401 it expects, an unreadable body stays a 200.
Judge(c, readable) ==
  /\ pc[c] = "judging"
  /\ readable \/ MayTear \/ aborted[c]
  /\ Settle(c, IF readable THEN "unauthorized" ELSE "blank")
  /\ UNCHANGED <<aborted, joined, renewal, jar, server>>

\* The renewal's response reaches the browser, which stores its cookies,
\* whether or not the tab still waits for it.
FlightReturns(i) ==
  /\ flight[i].st = "back"
  /\ flight' = [flight EXCEPT ![i].st = "none",
                             ![i].client = IF @ = "pending" THEN "answered" ELSE @]
  /\ jar' = IF flight[i].grant > 0 THEN flight[i].grant ELSE jar
  /\ UNCHANGED <<client, wire, refreshInFlight, refreshEpoch, server>>

\* Its promise settles: a 204 moves the epoch, and new callers no longer join.
FlightSettles(i) ==
  /\ flight[i].client = "answered"
  /\ flight' = [flight EXCEPT ![i].client = "settled"]
  /\ refreshEpoch' = IF flight[i].outcome = "renewed" THEN refreshEpoch + 1 ELSE refreshEpoch
  /\ refreshInFlight' = None
  /\ UNCHANGED <<client, wire, jar, server>>

\* Fault: the renewal runs under the signal of the call that began it.
FlightFailsWithStarter(i) ==
  /\ flight[i].client \in {"pending", "answered"}
  /\ flight' = [flight EXCEPT ![i].client = "settled",
                              ![i].outcome = IF aborted[i] THEN "aborted" ELSE "rejected"]
  /\ refreshInFlight' = None
  /\ UNCHANGED <<client, wire, refreshEpoch, jar, server>>

\* The renewal's own timer expires, or the network fails it: before its
\* cookies are stored, after, or before the server has heard of it.
FlightFails(i) ==
  /\ flight[i].client \in {"pending", "answered"}
  /\ flight' = [flight EXCEPT ![i].client = "settled", ![i].outcome = "rejected"]
  /\ refreshInFlight' = None
  /\ UNCHANGED <<client, wire, refreshEpoch, jar, server>>

-----------------------------------------------------------------------------
(* The boundary, as bff.ts relies on it. The server is not told that a     *)
(* caller gave up: it serves an abandoned request all the same.            *)

\* The answer goes back to whoever still waits for it, and its cookies to
\* the browser in any case.
Answer(c, reply, grant) ==
  LET answer == [st |-> "back", cred |-> wire[c].cred, reply |-> reply, grant |-> grant]
  IN wire' = [wire EXCEPT ![c] =
                IF AwaitsFetch(c) \/ SetsCookies(answer) THEN answer ELSE Served(c, result[c])]

Unavailable(c) ==
  /\ wire[c].st = "out"
  /\ Answer(c, "unavailable", 0)
  /\ UNCHANGED <<client, renewal, jar, server>>

\* A live access token is served, or refused for a reason of the handler's
\* own; no token at all is a "signed out" to those who opted in.
ServeRead(c) ==
  /\ wire[c].st = "out"
  /\ RenewableRead(c)
  /\ IF wire[c].cred \in accessLive
     THEN \E r \in {"ok", "refused"} : Answer(c, r, 0)
     ELSE Answer(c, IF wire[c].cred = 0 /\ OptedIn(c) THEN "signed_out" ELSE "unauthorized", 0)
  /\ UNCHANGED <<client, renewal, jar, server>>

ServeMutation(c) ==
  /\ wire[c].st = "out"
  /\ c \in Mutations /\ ~confirming[c]
  /\ IF wire[c].cred \in accessLive
     THEN \/ Answer(c, "ok", 0) /\ applied' = [applied EXCEPT ![c] = @ + 1]
          \/ Answer(c, "refused", 0) /\ UNCHANGED applied
     ELSE Answer(c, "unauthorized", 0) /\ UNCHANGED applied
  /\ UNCHANGED <<client, renewal, jar, family, accessLive, refreshLive>>

\* A ceremony that completes a sign-in opens a session of its own.
ServeCeremony(c) ==
  /\ wire[c].st = "out"
  /\ c \in Ceremonies
  /\ \/ /\ Answer(c, "ok", issued + 1)
        /\ family' = Append(family, issued + 1)
        /\ accessLive' = accessLive \cup {issued + 1}
        /\ refreshLive' = refreshLive \cup {issued + 1}
     \/ Answer(c, "refused", 0) /\ UNCHANGED <<family, accessLive, refreshLive>>
  /\ UNCHANGED <<client, renewal, jar, applied>>

SameSession(g) == {h \in 1..issued : g \in 1..issued /\ family[h] = family[g]}

ServeLogout(c) ==
  /\ wire[c].st = "out"
  /\ c \in Logouts
  /\ \/ /\ Answer(c, "revoked", 0)
        /\ accessLive' = accessLive \ SameSession(wire[c].cred)
        /\ refreshLive' = refreshLive \ SameSession(wire[c].cred)
     \/ Answer(c, "local_only", 0) /\ UNCHANGED <<accessLive, refreshLive>>
  /\ UNCHANGED <<client, renewal, jar, family, applied>>

\* A renewal the tab has seen fail has failed, whatever it is answered.
AnswerFlight(i, outcome, grant) ==
  flight' = [flight EXCEPT ![i].st = "back", ![i].grant = grant,
                           ![i].outcome = IF @ = "rejected" THEN @ ELSE outcome]

\* A live refresh token is rotated: the next pair of its session is issued,
\* and the token presented is spent.
ServeRefresh(i) ==
  /\ flight[i].st = "out"
  /\ IF flight[i].cred \in refreshLive
     THEN /\ AnswerFlight(i, "renewed", issued + 1)
          /\ family' = Append(family, family[flight[i].cred])
          /\ accessLive' = accessLive \cup {issued + 1}
          /\ refreshLive' = (refreshLive \ {flight[i].cred}) \cup {issued + 1}
     ELSE /\ AnswerFlight(i, IF flight[i].cred = 0 THEN "signed_out" ELSE "refused", 0)
          /\ UNCHANGED <<family, accessLive, refreshLive>>
  /\ UNCHANGED <<client, wire, refreshInFlight, refreshEpoch, jar, applied>>

RefreshUnavailable(i) ==
  /\ flight[i].st = "out"
  /\ AnswerFlight(i, "unavailable", 0)
  /\ UNCHANGED <<client, wire, refreshInFlight, refreshEpoch, jar, server>>

\* An access token outlives its lifetime.
AccessExpires(g) ==
  /\ g \in accessLive
  /\ accessLive' = accessLive \ {g}
  /\ UNCHANGED <<client, wire, renewal, jar, family, refreshLive, applied>>

\* A session ends at the server: it expires, or an administrator revokes it.
SessionEnds(g) ==
  /\ g \in accessLive \cup refreshLive
  /\ accessLive' = accessLive \ SameSession(g)
  /\ refreshLive' = refreshLive \ SameSession(g)
  /\ UNCHANGED <<client, wire, renewal, jar, family, applied>>

-----------------------------------------------------------------------------

CallStep(c) ==
  \/ Start(c) \/ Receive(c) \/ CookiesArrive(c) \/ Abort(c) \/ Lose(c) \/ Resume(c)
  \/ \E readable \in BOOLEAN : ReadBody(c, readable) \/ Judge(c, readable)

FlightStep(i) == FlightReturns(i) \/ FlightSettles(i) \/ FlightFails(i)

ServerStep(c) ==
  \/ Unavailable(c) \/ ServeRead(c) \/ ServeMutation(c) \/ ServeCeremony(c)
  \/ ServeLogout(c) \/ ServeRefresh(c) \/ RefreshUnavailable(c)

Next ==
  \/ \E c \in Calls : CallStep(c) \/ FlightStep(c) \/ ServerStep(c)
  \/ \E g \in accessLive \cup refreshLive : AccessExpires(g) \/ SessionEnds(g)

Spec == Init /\ [][Next]_vars

\* Every call runs under a timer and so does every renewal (bff.ts:44, 95);
\* the JavaScript event loop runs what it has ready.  Nothing is asked of
\* the network or of the server.
Fairness ==
  \A c \in Calls :
    /\ WF_vars(Abort(c)) /\ WF_vars(Resume(c))
    /\ WF_vars(\E readable \in BOOLEAN : ReadBody(c, readable) \/ Judge(c, readable))
    /\ WF_vars(FlightFails(c)) /\ WF_vars(FlightSettles(c))

FairSpec == Spec /\ Fairness

-----------------------------------------------------------------------------
(* What the tab promises.                                                  *)

Verdicts == {"signed_out", "unauthorized", "bare"}

\* Type invariant.
TypeOK ==
  /\ pc \in [Calls -> Phases]
  /\ confirming \in [Calls -> BOOLEAN]
  /\ aborted \in [Calls -> BOOLEAN]
  /\ epochAt \in [Calls -> Nat]
  /\ joined \in [Calls -> Calls \cup {None}]
  /\ result \in [Calls -> Results \cup {"none"}]
  /\ sends \in [Calls -> Nat]
  /\ wire \in [Calls -> Requests]
  /\ refreshInFlight \in Calls \cup {None}
  /\ refreshEpoch \in Nat
  /\ flight \in [Calls -> Flights]
  /\ jar \in Nat
  /\ family \in Seq(Nat)
  /\ accessLive \in SUBSET Nat /\ refreshLive \in SUBSET Nat
  /\ applied \in [Calls -> Nat]

\* The tab never has two renewals outstanding, whoever gave up on the first
\* and whenever its answer comes: callers share one (bff.ts refreshInFlight).
OneRenewal ==
  \A i, j \in Calls :
    {flight[i].client, flight[j].client} \subseteq {"pending", "answered"} => i = j

\* A renewal of the session of pair g was carried out and this tab saw it fail:
\* the timer of bff.ts:44 went before the answer, or the network lost it.
Strayed(g) ==
  \E i \in Calls : flight[i].outcome = "rejected" /\ flight[i].grant \in SameSession(g)

\* A refusal that describes the credentials from before a renewal does not
\* rotate the renewed ones again: a call that begins a renewal was itself
\* refused under the pair it now presents, never under an older pair of the
\* same session (bff.ts refreshEpoch). Only a renewal this tab has seen fail
\* may have stored newer cookies without its epoch.
NoStaleRotation ==
  \A c \in Calls :
    /\ pc[c] = "renewing" /\ joined[c] = c
    /\ wire[c].cred \in SameSession(flight[c].cred) /\ wire[c].cred < flight[c].cred
    => Strayed(flight[c].cred)

\* A call is told it is signed out, or unauthorized, only when the refresh
\* token it could renew with is really dead, or when the request was sent
\* again after a renewal and refused again. An outage of the renewal, a lost
\* answer or another caller's cancellation never becomes such a verdict. One
\* verdict is of the access token alone: a 401 whose body is lost is handed on
\* as it is, with no renewal (bff.ts:122-127).
VerdictIsReal ==
  \A c \in Probes \cup Reads :
    result[c] \in Verdicts
      => \/ sends[c] = 2
         \/ joined[c] # None /\ flight[joined[c]].cred \notin refreshLive
         \/ result[c] = "bare" /\ wire[c].cred \notin accessLive

\* Nobody is told that the session is over, its renewal refused, while the jar
\* holds a pair of that very session that can still be renewed: a refused
\* renewal is not one that lost a race to another of this tab (bff.ts
\* refreshInFlight). Only a renewal this tab has seen fail may have won it.
NotOverWhileRenewable ==
  [][\A c \in Probes \cup Reads :
       /\ result[c] = "none" /\ result'[c] \in {"signed_out", "unauthorized"}
       /\ sends[c] = 1 /\ joined[c] # None
       /\ jar \in SameSession(flight[joined[c]].cred) /\ jar \in refreshLive
       => Strayed(jar)]_vars

\* A call ends as cancelled only if its own signal fired: a caller that gives
\* up neither cancels the renewal others wait for nor their calls.
OwnCancellation ==
  \A c \in Calls : result[c] = "aborted" => aborted[c]

\* The server carries a write out at most once, whatever is lost on the way:
\* the body of a mutation is never sent again.
WrittenAtMostOnce ==
  \A c \in Mutations : applied[c] <= 1 /\ (~confirming[c] => sends[c] <= 1)

\* A read goes out at most twice however often it is refused.
ReadAtMostTwice ==
  \A c \in Calls : sends[c] <= 2

\* Fault: any 2xx to a logout reads as a confirmed one.
AnyAnswerSignsOut(r) ==
  IF r \in {"revoked", "local_only"} THEN "signed_out" ELSE "sign_out_unconfirmed"

\* signOutDestination(): what the sign-in page is told of a logout's outcome.
SignOutReason(r) ==
  CASE r = "revoked" -> "signed_out"
    [] r = "local_only" -> "signed_out_locally"
    [] OTHER -> "sign_out_unconfirmed"

\* The sign-in page says "signed out" only when the server has ended the whole
\* session the logout named: the pair it presented and every pair that pair
\* was or will be rotated into.
SignOutIsHonest ==
  \A c \in Logouts :
    pc[c] = "settled" /\ SignOutReason(result[c]) = "signed_out"
      => SameSession(wire[c].cred) \cap (accessLive \cup refreshLive) = {}

\* Every call that starts settles.
EveryCallSettles ==
  \A c \in Calls : pc[c] # "idle" ~> pc[c] = "settled"

\* After "you were signed out on this device only" (login-route.tsx) no
\* credential the server accepts comes back to the jar without a sign-in.
SignedOutOnThisDevice ==
  Ceremonies = {} =>
    \A c \in Logouts :
      pc[c] = "settled" /\ SignOutReason(result[c]) = "signed_out_locally"
        => jar \notin accessLive \cup refreshLive

-----------------------------------------------------------------------------
(* bff() implements SessionContract.                                       *)

Meaning(r) ==
  CASE r = "none" -> "none"
    [] r \in {"ok", "blank"} -> "done"
    [] r \in {"signed_out", "unauthorized", "bare", "refused"} -> "denied"
    [] OTHER -> "unknown"

Contract == INSTANCE SessionContract WITH
  Writes <- Mutations,
  phase <- [c \in Calls |-> CASE pc[c] = "idle" -> "idle" [] pc[c] = "settled" -> "closed"
                              [] OTHER -> "open"],
  outcome <- [c \in Calls |-> Meaning(result[c])],
  effects <- applied

\* Every behaviour of the tab is one the contract allows its callers.
ImplementsContract == Contract!CSpec
=============================================================================
