------------------------ MODULE SessionBoundaryProofs ------------------------
(***************************************************************************)
(* Theorems about SessionBoundary, for any number of calls of each kind.   *)
(*                                                                         *)
(* Typing comes first: it needs to know that a call that waits for a       *)
(* renewal names one, and that the server accepts only pairs it issued.    *)
(***************************************************************************)
EXTENDS SessionBoundary, TLAPS

\* The part of the typing each kind of step can disturb.
ClientTyped ==
  /\ pc \in [Calls -> Phases]
  /\ confirming \in [Calls -> BOOLEAN]
  /\ epochAt \in [Calls -> Nat]
  /\ result \in [Calls -> Results \cup {"none"}]
  /\ sends \in [Calls -> Nat]
  /\ wire \in [Calls -> Requests]

\* A waiting call names the renewal it waits for.
WaitsForOne == \A c \in Calls : pc[c] = "renewing" => joined[c] \in Calls

RenewalTyped ==
  /\ joined \in [Calls -> Calls \cup {None}]
  /\ refreshInFlight \in Calls \cup {None}
  /\ refreshEpoch \in Nat
  /\ flight \in [Calls -> Flights]
  /\ WaitsForOne

\* The server accepts only what it issued.
ServerTyped ==
  /\ family \in Seq(Nat)
  /\ accessLive \subseteq 1..issued
  /\ refreshLive \subseteq 1..issued
  /\ applied \in [Calls -> Nat]

TypeInv ==
  ClientTyped /\ RenewalTyped /\ ServerTyped /\ aborted \in [Calls -> BOOLEAN] /\ jar \in Nat

\* The invariant is the type invariant with those two facts.
LEMMA TypeInvIsTypeOK == TypeInv => TypeOK
<1> SUFFICES ASSUME TypeInv PROVE TypeOK
  OBVIOUS
<1>1. issued \in Nat
  BY DEF TypeInv, ServerTyped, issued
<1>2. accessLive \in SUBSET Nat /\ refreshLive \in SUBSET Nat
  BY <1>1 DEF TypeInv, ServerTyped
<1> QED
  BY <1>2 DEF TypeInv, ClientTyped, RenewalTyped, ServerTyped, TypeOK

\* The tab as it opens.
LEMMA InitTypeInv == Init => TypeInv
<1> SUFFICES ASSUME Init PROVE TypeInv
  OBVIOUS
<1>1. Quiet \in Requests /\ NoFlight \in Flights
  BY DEF Quiet, Requests, NoFlight, Flights, RefreshOutcomes, Replies
<1>2. ClientTyped
  BY <1>1 DEF Init, ClientTyped, Phases
<1>3. RenewalTyped
  BY <1>1 DEF Init, RenewalTyped, WaitsForOne
<1>4. ServerTyped /\ jar \in Nat
  <2>1 CASE family = <<>> /\ accessLive = {} /\ refreshLive = {} /\ jar = 0
    BY <2>1 DEF Init, ServerTyped, issued
  <2>2 CASE family = <<1>> /\ accessLive = {1} /\ refreshLive = {1} /\ jar = 1
    <3>1. family \in Seq(Nat) /\ issued = 1
      BY <2>2 DEF issued
    <3>2. 1..issued = {1}
      BY <3>1
    <3> QED
      BY <2>2, <3>1, <3>2 DEF Init, ServerTyped
  <2> QED
    BY <2>1, <2>2 DEF Init
<1> QED
  BY <1>2, <1>3, <1>4 DEF Init, TypeInv

\* Settling a leg with any result keeps the client's part typed.
LEMMA SettleTyped ==
  ASSUME ClientTyped, refreshEpoch \in Nat, jar \in Nat,
         NEW c \in Calls, NEW r \in Results \cup {"none"}, Settle(c, r)
  PROVE  ClientTyped' /\ pc'[c] \in {"sent", "settled"} /\ (\A d \in Calls \ {c} : pc'[d] = pc[d])
<1>1. Sent(jar) \in Requests /\ Left(c, r) \in Requests
  BY DEF Sent, Left, Served, Quiet, ClientTyped, Requests
<1>2. "aborted" \in Results
  BY DEF Results
<1>3 CASE confirming[c] /\ r \in {"ok", "blank"} /\ ~aborted[c]
  <2>1. confirming' \in [Calls -> BOOLEAN]
    BY <1>3, Zenon DEF Settle, ClientTyped
  <2>2. /\ pc' = [pc EXCEPT ![c] = "sent"] /\ epochAt' = [epochAt EXCEPT ![c] = refreshEpoch]
        /\ wire' = [wire EXCEPT ![c] = Sent(jar)] /\ sends' = [sends EXCEPT ![c] = 1]
        /\ result' = result
    BY <1>3, Zenon DEF Settle
  <2> QED
    BY <1>1, <2>1, <2>2 DEF ClientTyped, Phases
<1>4 CASE ~(confirming[c] /\ r \in {"ok", "blank"} /\ ~aborted[c])
  BY <1>1, <1>2, <1>4 DEF Settle, ClientTyped, Phases
<1> QED
  BY <1>3, <1>4

\* So does sending the request again.
LEMMA ResendTyped ==
  ASSUME ClientTyped, jar \in Nat, NEW c \in Calls, Resend(c)
  PROVE  ClientTyped' /\ pc'[c] = "resent" /\ (\A d \in Calls \ {c} : pc'[d] = pc[d])
<1>1. Sent(jar) \in Requests
  BY DEF Sent, Requests
<1> QED
  BY <1>1 DEF Resend, Send, ClientTyped, Phases

\* Joining the renewal in flight, or beginning one, keeps both parts typed.
LEMMA JoinTyped ==
  ASSUME ClientTyped, RenewalTyped, jar \in Nat, NEW c \in Calls, JoinRenewal(c)
  PROVE  ClientTyped' /\ RenewalTyped'
<1> DEFINE new == [client |-> "pending", st |-> "out", cred |-> jar, outcome |-> "none", grant |-> 0]
<1>1. ClientTyped'
  BY DEF JoinRenewal, ClientTyped, Phases
<1>2. new \in Flights
  BY DEF Flights, RefreshOutcomes
<1>3. /\ refreshInFlight' \in Calls /\ refreshEpoch' = refreshEpoch
      /\ joined' = [joined EXCEPT ![c] = refreshInFlight']
      /\ flight' \in [Calls -> Flights]
  <2>1 CASE refreshInFlight = None
    BY <1>2, <2>1 DEF JoinRenewal, RenewalTyped
  <2>2 CASE refreshInFlight # None
    BY <2>2 DEF JoinRenewal, RenewalTyped
  <2> QED
    BY <2>1, <2>2
<1>4. \A d \in Calls \ {c} : pc'[d] = pc[d]
  BY DEF JoinRenewal, ClientTyped
<1>5. WaitsForOne'
  BY <1>3, <1>4 DEF RenewalTyped, WaitsForOne
<1> QED
  BY <1>1, <1>3, <1>5 DEF RenewalTyped

\* A step that leaves the renewals alone, and lets no new call wait, keeps
\* their part typed.
LEMMA RenewalUntouched ==
  ASSUME RenewalTyped, UNCHANGED <<joined, renewal>>,
         NEW c \in Calls, pc'[c] # "renewing", \A d \in Calls \ {c} : pc'[d] = pc[d]
  PROVE  RenewalTyped'
BY DEF RenewalTyped, WaitsForOne, renewal

\* Issuing the next pair keeps what the server accepts among what it issued.
LEMMA IssueTyped ==
  ASSUME ServerTyped, NEW s \in Nat, UNCHANGED applied,
         family' = Append(family, s),
         accessLive' \subseteq accessLive \cup {issued + 1},
         refreshLive' \subseteq refreshLive \cup {issued + 1}
  PROVE  ServerTyped'
<1>1. issued \in Nat
  BY DEF ServerTyped, issued
<1>2. family' \in Seq(Nat) /\ issued' = issued + 1
  BY DEF ServerTyped, issued
<1>3. 1..issued' = (1..issued) \cup {issued + 1}
  BY <1>1, <1>2
<1> QED
  BY <1>2, <1>3 DEF ServerTyped

\* Answering a request keeps it typed.
LEMMA AnswerTyped ==
  ASSUME ClientTyped, NEW c \in Calls, NEW reply \in Replies, NEW grant \in Nat,
         Answer(c, reply, grant), UNCHANGED client
  PROVE  ClientTyped'
<1>1. Served(c, result[c]) \in Requests
  BY DEF Served, Quiet, ClientTyped, Requests
<1>2. [st |-> "back", cred |-> wire[c].cred, reply |-> reply, grant |-> grant] \in Requests
  BY DEF ClientTyped, Requests
<1>3. wire' \in [Calls -> Requests]
  BY <1>1, <1>2 DEF Answer, ClientTyped
<1> QED
  BY <1>3, Zenon DEF ClientTyped, client

\* Answering a renewal keeps it typed.
LEMMA AnswerFlightTyped ==
  ASSUME RenewalTyped, NEW i \in Calls, NEW o \in RefreshOutcomes, NEW grant \in Nat,
         AnswerFlight(i, o, grant), UNCHANGED <<pc, joined, refreshInFlight, refreshEpoch>>
  PROVE  RenewalTyped'
<1> DEFINE new == [flight[i] EXCEPT !.st = "back", !.grant = grant,
                                   !.outcome = IF @ = "rejected" THEN @ ELSE o]
<1>1. flight' \in [Calls -> Flights]
  <2>1. new \in Flights
    BY DEF RenewalTyped, Flights
  <2>2. flight' = [flight EXCEPT ![i] = new]
    BY Zenon DEF AnswerFlight
  <2> QED
    BY <2>1, <2>2 DEF RenewalTyped
<1> QED
  BY <1>1 DEF RenewalTyped, WaitsForOne

\* Every step keeps the typing.
LEMMA NextTypeInv == TypeInv /\ [Next]_vars => TypeInv'
<1> SUFFICES ASSUME TypeInv, [Next]_vars PROVE TypeInv'
  OBVIOUS
<1> USE DEF TypeInv
<1>a. issued \in Nat /\ refreshEpoch \in Nat
  BY DEF ServerTyped, RenewalTyped, issued
<1>b. ASSUME NEW c \in Calls PROVE wire[c].reply \in Results \cup {"none"}
  BY DEF ClientTyped, Requests, Results
<1>1. ASSUME UNCHANGED vars PROVE TypeInv'
  BY <1>1, Zenon DEF vars, client, renewal, server, ClientTyped, RenewalTyped, ServerTyped, WaitsForOne, issued
<1>2. ASSUME NEW c \in Calls, Start(c) PROVE TypeInv'
  <2>1. Sent(jar) \in Requests
    BY DEF Sent, Requests
  <2>2. ClientTyped'
    BY <1>2, <1>a, <2>1 DEF Start, Send, ClientTyped, Phases
  <2>3. RenewalTyped'
    BY <1>2, RenewalUntouched DEF Start, ClientTyped
  <2> QED
    BY <1>2, <2>2, <2>3, Zenon DEF Start, server, ServerTyped, issued
<1>3. ASSUME NEW c \in Calls, Receive(c) PROVE TypeInv'
  <2>1. jar' \in Nat
    BY <1>3 DEF Receive, SetCookie, ClientTyped, Requests
  <2>2. ClientTyped' /\ pc'[c] # "renewing" /\ \A d \in Calls \ {c} : pc'[d] = pc[d]
    <3>1 CASE MustReadBody(c, wire[c].reply)
      BY <1>3, <3>1 DEF Receive, ClientTyped, Phases
    <3>2 CASE ~MustReadBody(c, wire[c].reply)
      <4>1. PICK r \in Told(c) : Settle(c, r)
        BY <1>3, <3>2 DEF Receive
      <4>2. r \in Results \cup {"none"}
        BY <1>b DEF Told, Results
      <4> QED
        BY <1>a, <4>1, <4>2, SettleTyped
    <3> QED
      BY <3>1, <3>2
  <2> QED
    BY <1>3, <2>1, <2>2, RenewalUntouched, Zenon DEF Receive, server, ServerTyped, issued
<1>4. ASSUME NEW c \in Calls, Abort(c) PROVE TypeInv'
  <2>1. aborted' \in [Calls -> BOOLEAN]
    BY <1>4, Zenon DEF Abort
  <2>2. ClientTyped' /\ pc'[c] # "renewing" /\ \A d \in Calls \ {c} : pc'[d] = pc[d]
    <3>1 CASE pc[c] \in {"reading", "judging"}
      BY <1>4, <3>1, Zenon DEF Abort, ClientTyped
    <3>2 CASE pc[c] \notin {"reading", "judging"}
      BY <1>4, <1>a, <3>2, SettleTyped DEF Abort, Results
    <3> QED
      BY <3>1, <3>2
  <2> QED
    BY <1>4, <2>1, <2>2, RenewalUntouched, Zenon DEF Abort, server, ServerTyped, issued
<1>5. ASSUME NEW c \in Calls, Lose(c) PROVE TypeInv'
  <2>1. ClientTyped' /\ pc'[c] \in {"sent", "settled"} /\ \A d \in Calls \ {c} : pc'[d] = pc[d]
    BY <1>5, <1>a, SettleTyped DEF Lose, Results
  <2> QED
    BY <1>5, <2>1, RenewalUntouched, Zenon DEF Lose, server, ServerTyped, issued
<1>6. ASSUME NEW c \in Calls, Resume(c) PROVE TypeInv'
  <2> DEFINE o == flight[joined[c]].outcome
  <2>1. o \in RefreshOutcomes
    BY <1>6 DEF Resume, RenewalTyped, WaitsForOne, Flights
  <2>2. ClientTyped' /\ pc'[c] # "renewing" /\ \A d \in Calls \ {c} : pc'[d] = pc[d]
    <3>1 CASE o = "renewed"
      BY <1>6, <3>1, ResendTyped DEF Resume
    <3>2 CASE o = "signed_out" /\ ~OptedIn(c)
      BY <1>6, <3>2 DEF Resume, ClientTyped, Phases
    <3>3 CASE o = "refused"
      BY <1>6, <1>a, <3>3, SettleTyped DEF Resume, Results, Replies
    <3>4 CASE o # "renewed" /\ ~(o = "signed_out" /\ ~OptedIn(c)) /\ o # "refused"
      <4>1. Settle(c, o)
        BY <1>6, <3>4 DEF Resume
      <4>2. o \in Results \cup {"none"}
        BY <2>1, <3>4 DEF RefreshOutcomes, Results, Replies
      <4> QED
        BY <1>a, <4>1, <4>2, SettleTyped
    <3> QED
      BY <3>1, <3>2, <3>3, <3>4
  <2> QED
    BY <1>6, <2>2, RenewalUntouched, Zenon DEF Resume, server, ServerTyped, issued
<1>7. ASSUME NEW c \in Calls, NEW readable \in BOOLEAN, ReadBody(c, readable) PROVE TypeInv'
  <2> DEFINE r == wire[c].reply
             renew == readable /\ r \in {"signed_out", "unauthorized"}
  <2>1 CASE JoinRenewal(c)
    BY <1>7, <2>1, JoinTyped, Zenon DEF ReadBody, server, ServerTyped, issued
  <2>2 CASE (\E v \in Results \cup {"none"} : Settle(c, v)) /\ UNCHANGED <<joined, renewal>>
    <3>1. ClientTyped' /\ pc'[c] \in {"sent", "settled"} /\ \A d \in Calls \ {c} : pc'[d] = pc[d]
      BY <1>a, <2>2, SettleTyped
    <3> QED
      BY <1>7, <2>2, <3>1, RenewalUntouched, Zenon DEF ReadBody, server, ServerTyped, issued
  <2>3 CASE Resend(c) /\ UNCHANGED <<joined, renewal>>
    <3>1. ClientTyped' /\ pc'[c] # "renewing" /\ \A d \in Calls \ {c} : pc'[d] = pc[d]
      BY <2>3, ResendTyped
    <3> QED
      BY <1>7, <2>3, <3>1, RenewalUntouched, Zenon DEF ReadBody, server, ServerTyped, issued
  <2>4. \/ JoinRenewal(c)
        \/ (\E v \in Results \cup {"none"} : Settle(c, v)) /\ UNCHANGED <<joined, renewal>>
        \/ Resend(c) /\ UNCHANGED <<joined, renewal>>
    <3>1 CASE ~renew
      <4>1. /\ Settle(c, IF readable THEN r ELSE IF r \in {"ok", "signed_out"} THEN "blank" ELSE "bare")
            /\ UNCHANGED <<joined, renewal>>
        BY <1>7, <3>1 DEF ReadBody
      <4> QED
        BY <1>b, <4>1 DEF Results
    <3>2 CASE renew /\ aborted[c]
      BY <1>7, <3>2 DEF ReadBody, Results
    <3>3 CASE renew /\ ~aborted[c]
      BY <1>7, <3>3 DEF ReadBody
    <3> QED
      BY <3>1, <3>2, <3>3
  <2> QED
    BY <2>1, <2>2, <2>3, <2>4
<1>8. ASSUME NEW c \in Calls, NEW readable \in BOOLEAN, Judge(c, readable) PROVE TypeInv'
  <2>1. ClientTyped' /\ pc'[c] \in {"sent", "settled"} /\ \A d \in Calls \ {c} : pc'[d] = pc[d]
    BY <1>8, <1>a, SettleTyped DEF Judge, Results, Replies
  <2> QED
    BY <1>8, <2>1, RenewalUntouched, Zenon DEF Judge, server, ServerTyped, issued
<1>9. ASSUME NEW i \in Calls, FlightReturns(i) PROVE TypeInv'
  <2> DEFINE new == [flight[i] EXCEPT !.st = "none", !.client = IF @ = "pending" THEN "answered" ELSE @]
  <2>1. flight' \in [Calls -> Flights] /\ jar' \in Nat
    <3>1. new \in Flights /\ jar' \in Nat
      BY <1>9 DEF FlightReturns, RenewalTyped, Flights
    <3>2. flight' = [flight EXCEPT ![i] = new]
      BY <1>9, Zenon DEF FlightReturns
    <3> QED
      BY <3>1, <3>2 DEF RenewalTyped
  <2> QED
    BY <1>9, <2>1, Zenon DEF FlightReturns, client, server, ClientTyped, RenewalTyped, WaitsForOne,
                             ServerTyped, issued
<1>10. ASSUME NEW i \in Calls, FlightSettles(i) PROVE TypeInv'
  <2>1. flight' \in [Calls -> Flights] /\ refreshEpoch' \in Nat /\ refreshInFlight' = None
    BY <1>10 DEF FlightSettles, RenewalTyped, Flights
  <2> QED
    BY <1>10, <2>1, Zenon DEF FlightSettles, client, server, ClientTyped, RenewalTyped, WaitsForOne,
                              ServerTyped, issued
<1>11. ASSUME NEW i \in Calls, FlightFails(i) PROVE TypeInv'
  <2>1. flight' \in [Calls -> Flights]
    BY <1>11 DEF FlightFails, RenewalTyped, Flights, RefreshOutcomes
  <2>2. refreshInFlight' = None
    BY <1>11 DEF FlightFails
  <2> QED
    BY <1>11, <2>1, <2>2, Zenon DEF FlightFails, client, server, ClientTyped, RenewalTyped, WaitsForOne,
                              ServerTyped, issued
<1>12. ASSUME NEW c \in Calls, Unavailable(c) PROVE TypeInv'
  <2>1. ClientTyped'
    BY <1>12, AnswerTyped DEF Unavailable, Replies
  <2> QED
    BY <1>12, <2>1, Zenon DEF Unavailable, client, renewal, server, RenewalTyped, WaitsForOne,
                              ServerTyped, issued
<1>13. ASSUME NEW c \in Calls, ServeRead(c) PROVE TypeInv'
  <2>1. PICK reply \in Replies : Answer(c, reply, 0)
    BY <1>13 DEF ServeRead, Replies
  <2>2. ClientTyped'
    BY <1>13, <2>1, AnswerTyped DEF ServeRead
  <2> QED
    BY <1>13, <2>2, Zenon DEF ServeRead, client, renewal, server, RenewalTyped, WaitsForOne,
                              ServerTyped, issued
<1>14. ASSUME NEW c \in Calls, ServeMutation(c) PROVE TypeInv'
  <2>1. PICK reply \in Replies : Answer(c, reply, 0)
    BY <1>14 DEF ServeMutation, Replies
  <2>2. ClientTyped'
    BY <1>14, <2>1, AnswerTyped DEF ServeMutation
  <2>3. applied' \in [Calls -> Nat]
    BY <1>14 DEF ServeMutation, ServerTyped
  <2> QED
    BY <1>14, <2>2, <2>3, Zenon DEF ServeMutation, client, renewal, RenewalTyped, WaitsForOne,
                                    ServerTyped, issued
<1>15. ASSUME NEW c \in Calls, ServeCeremony(c) PROVE TypeInv'
  <2>1. PICK reply \in Replies, grant \in Nat : Answer(c, reply, grant)
    BY <1>15, <1>a DEF ServeCeremony, Replies
  <2>2. ClientTyped'
    BY <1>15, <2>1, AnswerTyped DEF ServeCeremony
  <2>3. ServerTyped'
    <3>1 CASE UNCHANGED <<family, accessLive, refreshLive>>
      BY <1>15, <3>1, Zenon DEF ServeCeremony, ServerTyped, issued
    <3>2 CASE /\ family' = Append(family, issued + 1)
              /\ accessLive' = accessLive \cup {issued + 1}
              /\ refreshLive' = refreshLive \cup {issued + 1}
      <4>1. issued + 1 \in Nat
        BY <1>a
      <4> QED
        BY <1>15, <3>2, <4>1, IssueTyped DEF ServeCeremony
    <3> QED
      BY <1>15, <3>1, <3>2 DEF ServeCeremony
  <2> QED
    BY <1>15, <2>2, <2>3, Zenon DEF ServeCeremony, client, renewal, RenewalTyped, WaitsForOne
<1>16. ASSUME NEW c \in Calls, ServeLogout(c) PROVE TypeInv'
  <2>1. PICK reply \in Replies : Answer(c, reply, 0)
    BY <1>16 DEF ServeLogout, Replies
  <2>2. ClientTyped'
    BY <1>16, <2>1, AnswerTyped DEF ServeLogout
  <2>3. accessLive' \subseteq accessLive /\ refreshLive' \subseteq refreshLive
    BY <1>16 DEF ServeLogout
  <2> QED
    BY <1>16, <2>2, <2>3 DEF ServeLogout, client, renewal, RenewalTyped, WaitsForOne,
                             ServerTyped, issued
<1>17. ASSUME NEW i \in Calls, ServeRefresh(i) PROVE TypeInv'
  <2>1. PICK o \in RefreshOutcomes, grant \in Nat : AnswerFlight(i, o, grant)
    BY <1>17, <1>a DEF ServeRefresh, RefreshOutcomes
  <2>2. RenewalTyped'
    BY <1>17, <2>1, AnswerFlightTyped DEF ServeRefresh, client
  <2>3. ServerTyped'
    <3>1 CASE flight[i].cred \in refreshLive
      <4>1. flight[i].cred \in 1..Len(family) /\ family \in Seq(Nat)
        BY <3>1 DEF ServerTyped, issued
      <4>2. family[flight[i].cred] \in Nat
        BY <4>1
      <4> QED
        BY <1>17, <3>1, <4>2, IssueTyped DEF ServeRefresh
    <3>2 CASE flight[i].cred \notin refreshLive
      BY <1>17, <3>2, Zenon DEF ServeRefresh, ServerTyped, issued
    <3> QED
      BY <3>1, <3>2
  <2> QED
    BY <1>17, <2>2, <2>3, Zenon DEF ServeRefresh, client, ClientTyped
<1>18. ASSUME NEW i \in Calls, RefreshUnavailable(i) PROVE TypeInv'
  <2>1. RenewalTyped'
    BY <1>18, AnswerFlightTyped DEF RefreshUnavailable, RefreshOutcomes, client
  <2> QED
    BY <1>18, <2>1, Zenon DEF RefreshUnavailable, client, server, ClientTyped, ServerTyped, issued
<1>19. ASSUME NEW g \in accessLive \cup refreshLive, AccessExpires(g) \/ SessionEnds(g) PROVE TypeInv'
  <2>1. accessLive' \subseteq accessLive /\ refreshLive' \subseteq refreshLive
    BY <1>19 DEF AccessExpires, SessionEnds
  <2>2. UNCHANGED <<client, wire, renewal, jar, family, applied>>
    BY <1>19, Zenon DEF AccessExpires, SessionEnds
  <2> QED
    BY <2>1, <2>2 DEF client, renewal, ClientTyped, RenewalTyped, WaitsForOne, ServerTyped, issued
<1>20. ASSUME NEW c \in Calls, CookiesArrive(c) PROVE TypeInv'
  <2>1. jar' \in Nat
    BY <1>20 DEF CookiesArrive, SetCookie, ClientTyped, Requests
  <2>2. Served(c, result[c]) \in Requests
    BY DEF Served, Quiet, ClientTyped, Requests
  <2>3. wire' \in [Calls -> Requests]
    BY <1>20, <2>2 DEF CookiesArrive, ClientTyped
  <2> QED
    BY <1>20, <2>1, <2>3, Zenon DEF CookiesArrive, client, renewal, server, ClientTyped, RenewalTyped,
                                    WaitsForOne, ServerTyped, issued
<1> QED
  BY <1>1, <1>2, <1>3, <1>4, <1>5, <1>6, <1>7, <1>8, <1>9, <1>10, <1>11, <1>12, <1>13, <1>14,
     <1>15, <1>16, <1>17, <1>18, <1>19, <1>20, Zenon
  DEF Next, CallStep, FlightStep, ServerStep

\* Every state the tab can reach is a state of the types it declares.
THEOREM TypeCorrect == Spec => []TypeOK
<1>1. Init => TypeInv
  BY InitTypeInv
<1>2. TypeInv /\ [Next]_vars => TypeInv'
  BY NextTypeInv
<1>3. TypeInv => TypeOK
  BY TypeInvIsTypeOK
<1> QED
  BY <1>1, <1>2, <1>3, PTL DEF Spec

-----------------------------------------------------------------------------
(* One renewal at a time.                                                  *)

\* The steps that change the renewals, whichever call they belong to.
LEMMA RenewalSteps ==
  ASSUME [Next]_vars
  PROVE  \/ UNCHANGED renewal
         \/ \E c \in Calls : pc[c] = "reading" /\ JoinRenewal(c)
         \/ \E i \in Calls : FlightStep(i) \/ ServeRefresh(i) \/ RefreshUnavailable(i)
<1>1. ASSUME NEW c \in Calls, CallStep(c)
      PROVE  UNCHANGED renewal \/ (pc[c] = "reading" /\ JoinRenewal(c))
  BY <1>1, Zenon DEF CallStep, Start, Receive, CookiesArrive, Abort, Lose, Resume, ReadBody, Judge
<1>2. ASSUME NEW c \in Calls, ServerStep(c)
      PROVE  UNCHANGED renewal \/ ServeRefresh(c) \/ RefreshUnavailable(c)
  BY <1>2, Zenon DEF ServerStep, Unavailable, ServeRead, ServeMutation, ServeCeremony, ServeLogout
<1>3. ASSUME NEW g \in accessLive \cup refreshLive, AccessExpires(g) \/ SessionEnds(g)
      PROVE  UNCHANGED renewal
  BY <1>3, Zenon DEF AccessExpires, SessionEnds
<1>4. UNCHANGED vars => UNCHANGED renewal
  BY Zenon DEF vars
<1> QED
  BY <1>1, <1>2, <1>3, <1>4, Zenon DEF Next

\* New callers join the only renewal that is outstanding.
SharedRenewal ==
  \A i \in Calls : flight[i].client \in {"pending", "answered"} => refreshInFlight = i

\* A renewal begins only when none is outstanding, and stays the one to join
\* until it settles.
LEMMA NextSharedRenewal ==
  ASSUME TypeInv, SharedRenewal, [Next]_vars
  PROVE  SharedRenewal'
<1> USE DEF SharedRenewal
<1>a. flight \in [Calls -> Flights] /\ None \notin Calls
  BY KindsAssumption DEF TypeInv, RenewalTyped
<1>1 CASE UNCHANGED renewal
  BY <1>1 DEF renewal
<1>2. ASSUME NEW c \in Calls, JoinRenewal(c) PROVE SharedRenewal'
  BY <1>2, <1>a DEF JoinRenewal
<1>3. ASSUME NEW i \in Calls, FlightReturns(i) PROVE SharedRenewal'
  BY <1>3, <1>a DEF FlightReturns, Flights
<1>4. ASSUME NEW i \in Calls, FlightSettles(i) PROVE SharedRenewal'
  BY <1>4, <1>a DEF FlightSettles, Flights
<1>5. ASSUME NEW i \in Calls, FlightFails(i) PROVE SharedRenewal'
  BY <1>5, <1>a DEF FlightFails, Flights
<1>6. ASSUME NEW i \in Calls, NEW o, NEW grant, AnswerFlight(i, o, grant),
             UNCHANGED refreshInFlight
      PROVE  SharedRenewal'
  BY <1>6, <1>a DEF AnswerFlight, Flights
<1> QED
  BY <1>1, <1>2, <1>3, <1>4, <1>5, <1>6, RenewalSteps
  DEF FlightStep, ServeRefresh, RefreshUnavailable

\* The tab never has two renewals outstanding: callers share the one that
\* refreshInFlight names (bff.ts).
THEOREM OneRenewalHolds == Spec => []OneRenewal
<1>1. Init => TypeInv /\ SharedRenewal
  BY InitTypeInv DEF Init, SharedRenewal, NoFlight
<1>2. TypeInv /\ SharedRenewal /\ [Next]_vars => TypeInv' /\ SharedRenewal'
  BY NextTypeInv, NextSharedRenewal
<1>3. SharedRenewal => OneRenewal
  BY DEF SharedRenewal, OneRenewal
<1> QED
  BY <1>1, <1>2, <1>3, PTL DEF Spec

-----------------------------------------------------------------------------
(* Each call's own steps.                                                  *)

\* A step of the tab or the server moves at most one call, and only by that
\* call's own step.
LEMMA ClientSteps ==
  ASSUME [Next]_vars
  PROVE  UNCHANGED client \/ \E c \in Calls : CallStep(c)
<1>1. ASSUME NEW c \in Calls, FlightStep(c) \/ ServerStep(c) PROVE UNCHANGED client
  BY <1>1, Zenon DEF FlightStep, FlightReturns, FlightSettles, FlightFails, ServerStep, Unavailable,
     ServeRead, ServeMutation, ServeCeremony, ServeLogout, ServeRefresh, RefreshUnavailable
<1>2. ASSUME NEW g \in accessLive \cup refreshLive, AccessExpires(g) \/ SessionEnds(g)
      PROVE  UNCHANGED client
  BY <1>2, Zenon DEF AccessExpires, SessionEnds
<1>3. UNCHANGED vars => UNCHANGED client
  BY Zenon DEF vars
<1> QED
  BY <1>1, <1>2, <1>3, Zenon DEF Next

\* How often a call has sent its request, by where it stands.
SendsByPhase ==
  \A c \in Calls :
    /\ pc[c] = "idle" => sends[c] = 0
    /\ pc[c] \in {"sent", "reading", "renewing", "judging"} => sends[c] = 1
    /\ pc[c] = "resent" => sends[c] = 2
    /\ sends[c] <= 2

\* Only a first answer leads to a second request, and a second answer to none.
LEMMA NextSendsByPhase ==
  ASSUME TypeInv, SendsByPhase, [Next]_vars
  PROVE  SendsByPhase'
<1> USE DEF SendsByPhase
<1>a. pc \in [Calls -> Phases] /\ sends \in [Calls -> Nat]
  BY DEF TypeInv, ClientTyped
<1>1 CASE UNCHANGED client
  BY <1>1 DEF client
<1>2. ASSUME NEW c \in Calls, NEW r, pc[c] # "idle", Settle(c, r) PROVE SendsByPhase'
  BY <1>2, <1>a DEF Settle
<1>3. ASSUME NEW c \in Calls, pc[c] \in {"reading", "renewing"}, Resend(c) PROVE SendsByPhase'
  BY <1>3, <1>a DEF Resend, Send
<1>4. ASSUME NEW c \in Calls, pc[c] = "reading", JoinRenewal(c) PROVE SendsByPhase'
  BY <1>4, <1>a DEF JoinRenewal
<1>5. ASSUME NEW c \in Calls, CallStep(c) PROVE SendsByPhase'
  <2>1 CASE Start(c)
    BY <2>1, <1>a DEF Start, Send
  <2>2 CASE Receive(c)
    BY <2>2, <1>2, <1>a DEF Receive, MustReadBody, AwaitsFetch
  <2>3 CASE Abort(c)
    BY <2>3, <1>2 DEF Abort
  <2>4 CASE Lose(c)
    BY <2>4, <1>2 DEF Lose, AwaitsFetch
  <2>5 CASE Resume(c)
    BY <2>5, <1>2, <1>3, <1>a DEF Resume
  <2>6. ASSUME NEW readable \in BOOLEAN, ReadBody(c, readable) PROVE SendsByPhase'
    BY <2>6, <1>2, <1>3, <1>4 DEF ReadBody
  <2>7. ASSUME NEW readable \in BOOLEAN, Judge(c, readable) PROVE SendsByPhase'
    BY <2>7, <1>2 DEF Judge
  <2>8 CASE CookiesArrive(c)
    BY <2>8, <1>1 DEF CookiesArrive
  <2> QED
    BY <1>5, <2>1, <2>2, <2>3, <2>4, <2>5, <2>6, <2>7, <2>8 DEF CallStep
<1> QED
  BY <1>1, <1>5, ClientSteps

\* A read goes out at most twice however often it is refused.
THEOREM ReadAtMostTwiceHolds == Spec => []ReadAtMostTwice
<1>1. Init => TypeInv /\ SendsByPhase
  BY InitTypeInv DEF Init, SendsByPhase
<1>2. TypeInv /\ SendsByPhase /\ [Next]_vars => TypeInv' /\ SendsByPhase'
  BY NextTypeInv, NextSendsByPhase
<1>3. SendsByPhase => ReadAtMostTwice
  BY DEF SendsByPhase, ReadAtMostTwice
<1> QED
  BY <1>1, <1>2, <1>3, PTL DEF Spec

-----------------------------------------------------------------------------
(* Cancellation stays with the call it belongs to.                         *)

\* No renewal, and no other call, hands a call the outcome "aborted".
LEMMA NextOwnCancellation ==
  ASSUME TypeInv, OwnCancellation, [Next]_vars
  PROVE  OwnCancellation'
<1> USE DEF OwnCancellation
<1>a. result \in [Calls -> Results \cup {"none"}] /\ aborted \in [Calls -> BOOLEAN]
  BY DEF TypeInv, ClientTyped
<1>b. ASSUME NEW c \in Calls PROVE wire[c].reply \in Replies \cup {"none"}
  BY DEF TypeInv, ClientTyped, Requests
<1>1 CASE UNCHANGED client
  BY <1>1 DEF client
<1>2. ASSUME NEW c \in Calls, NEW r, Settle(c, r), UNCHANGED aborted, r = "aborted" => aborted[c]
      PROVE  OwnCancellation'
  BY <1>2, <1>a DEF Settle
<1>3. ASSUME NEW c \in Calls, UNCHANGED <<aborted, result>> PROVE OwnCancellation'
  BY <1>3
<1>4. ASSUME NEW c \in Calls, CallStep(c) PROVE OwnCancellation'
  <2>1 CASE Start(c)
    BY <2>1, <1>3 DEF Start
  <2>2 CASE Receive(c)
    <3>1. ASSUME NEW r \in Told(c) PROVE r # "aborted"
      BY <1>b, <3>1 DEF Told, Replies
    <3> QED
      BY <2>2, <3>1, <1>2, <1>3 DEF Receive
  <2>3 CASE Abort(c)
    <3>1. aborted' = [aborted EXCEPT ![c] = TRUE]
      BY <2>3 DEF Abort
    <3>2. \A d \in Calls \ {c} : result'[d] = result[d]
      BY <2>3, <1>a DEF Abort, Settle
    <3> QED
      BY <3>1, <3>2, <1>a
  <2>4 CASE Lose(c)
    BY <2>4, <1>2 DEF Lose
  <2>5 CASE Resume(c)
    <3>1. flight[joined[c]].outcome \in RefreshOutcomes
      BY <2>5 DEF Resume, TypeInv, RenewalTyped, WaitsForOne, Flights
    <3>2. flight[joined[c]].outcome # "aborted"
      BY <3>1 DEF RefreshOutcomes
    <3> QED
      BY <2>5, <3>2, <1>2, <1>3 DEF Resume, Resend
  <2>6. ASSUME NEW readable \in BOOLEAN, ReadBody(c, readable) PROVE OwnCancellation'
    <3>1. wire[c].reply # "aborted"
      BY <1>b DEF Replies
    <3> QED
      BY <2>6, <3>1, <1>2, <1>3 DEF ReadBody, JoinRenewal, Resend
  <2>7. ASSUME NEW readable \in BOOLEAN, Judge(c, readable) PROVE OwnCancellation'
    BY <2>7, <1>2 DEF Judge
  <2>8 CASE CookiesArrive(c)
    BY <2>8, <1>1 DEF CookiesArrive
  <2> QED
    BY <1>4, <2>1, <2>2, <2>3, <2>4, <2>5, <2>6, <2>7, <2>8 DEF CallStep
<1> QED
  BY <1>1, <1>4, ClientSteps

\* A call ends as cancelled only if its own signal fired, whoever else gave up
\* on the renewal it shared.
THEOREM OwnCancellationHolds == Spec => []OwnCancellation
<1>1. Init => TypeInv /\ OwnCancellation
  BY InitTypeInv DEF Init, OwnCancellation
<1>2. TypeInv /\ OwnCancellation /\ [Next]_vars => TypeInv' /\ OwnCancellation'
  BY NextTypeInv, NextOwnCancellation
<1> QED
  BY <1>1, <1>2, PTL DEF Spec

-----------------------------------------------------------------------------
(* Writes.                                                                 *)

\* A write is carried out only in its second leg, which has one request; a
\* request the server has carried out is no longer in the network.
WriteByPhase ==
  \A c \in Mutations :
    /\ confirming[c] => applied[c] = 0
    /\ ~confirming[c] =>
         /\ pc[c] \in {"sent", "settled"} /\ sends[c] = 1
         /\ applied[c] = 0 \/ (applied[c] = 1 /\ wire[c].st # "out")

\* Giving a request up never puts it back into the network.
LEMMA LeftStays ==
  ASSUME ClientTyped, NEW c \in Calls, NEW r
  PROVE  Left(c, r).st = "out" => wire[c].st = "out"
BY DEF Left, Served, Quiet, ClientTyped, Requests

\* No step sends a write's body again, and the server carries it out as it
\* takes the request off the network.
LEMMA NextWriteByPhase ==
  ASSUME TypeInv, WriteByPhase, [Next]_vars
  PROVE  WriteByPhase'
<1> USE DEF WriteByPhase
<1>a. /\ pc \in [Calls -> Phases] /\ sends \in [Calls -> Nat] /\ confirming \in [Calls -> BOOLEAN]
      /\ wire \in [Calls -> Requests] /\ applied \in [Calls -> Nat] /\ ClientTyped
  BY DEF TypeInv, ClientTyped, ServerTyped
<1>b. Mutations \subseteq Calls
  BY DEF Calls
<1>1. ASSUME UNCHANGED <<client, wire, applied>> PROVE WriteByPhase'
  BY <1>1 DEF client
<1>2. ASSUME NEW c \in Calls, NEW r, pc[c] # "settled", Settle(c, r), UNCHANGED applied
      PROVE  WriteByPhase'
  <2>1. ASSUME NEW d \in Mutations \ {c}
        PROVE  /\ pc'[d] = pc[d] /\ confirming'[d] = confirming[d] /\ sends'[d] = sends[d]
               /\ wire'[d] = wire[d] /\ applied'[d] = applied[d]
    BY <1>2, <1>a, <1>b DEF Settle
  <2>2 CASE confirming[c] /\ r \in {"ok", "blank"} /\ ~aborted[c]
    <3>1. pc'[c] = "sent" /\ sends'[c] = 1
      BY <1>2, <2>2, <1>a DEF Settle
    <3> QED
      BY <1>2, <2>1, <2>2, <3>1
  <2>3 CASE ~(confirming[c] /\ r \in {"ok", "blank"} /\ ~aborted[c])
    <3>1. /\ pc'[c] = "settled" /\ confirming' = confirming /\ sends' = sends
          /\ wire'[c] = Left(c, r)
      BY <1>2, <2>3, <1>a DEF Settle
    <3> QED
      BY <1>2, <2>1, <3>1, <1>a, LeftStays
  <2> QED
    BY <2>2, <2>3
<1>3. ASSUME NEW c \in Calls, c \in Mutations => confirming[c], UNCHANGED <<confirming, applied>>,
             \A d \in Calls \ {c} : pc'[d] = pc[d] /\ sends'[d] = sends[d] /\ wire'[d] = wire[d]
      PROVE  WriteByPhase'
  BY <1>3, <1>b
<1>4. ASSUME NEW c \in Calls, pc[c] \in {"idle", "reading", "renewing"} PROVE c \in Mutations => confirming[c]
  BY <1>4
<1>5. ASSUME NEW c \in Calls, CallStep(c) PROVE WriteByPhase'
  <2>1 CASE Start(c)
    BY <2>1, <1>3, <1>a DEF Start, Send, server
  <2>2 CASE Receive(c)
    <3>1 CASE MustReadBody(c, wire[c].reply)
      <4>1. c \in Mutations => confirming[c]
        BY <3>1, KindsAssumption, Zenon DEF MustReadBody, RenewableRead
      <4> QED
        BY <2>2, <3>1, <4>1, <1>3, <1>a DEF Receive, server
    <3>2 CASE ~MustReadBody(c, wire[c].reply)
      BY <2>2, <3>2, <1>2 DEF Receive, AwaitsFetch, server
    <3> QED
      BY <3>1, <3>2
  <2>3 CASE Abort(c)
    <3>1 CASE pc[c] \in {"reading", "judging"}
      BY <2>3, <3>1 DEF Abort, server
    <3>2 CASE pc[c] \notin {"reading", "judging"}
      BY <2>3, <3>2, <1>2 DEF Abort, server
    <3> QED
      BY <3>1, <3>2
  <2>4 CASE Lose(c)
    BY <2>4, <1>2 DEF Lose, AwaitsFetch, server
  <2>5 CASE Resume(c)
    BY <2>5, <1>2, <1>3, <1>4, <1>a DEF Resume, Resend, Send, server
  <2>6. ASSUME NEW readable \in BOOLEAN, ReadBody(c, readable) PROVE WriteByPhase'
    BY <2>6, <1>2, <1>3, <1>4, <1>a DEF ReadBody, Resend, Send, JoinRenewal, server
  <2>7. ASSUME NEW readable \in BOOLEAN, Judge(c, readable) PROVE WriteByPhase'
    BY <2>7, <1>2 DEF Judge, server
  <2>8 CASE CookiesArrive(c)
    <3>1. wire'[c].st = "none" /\ \A d \in Calls \ {c} : wire'[d] = wire[d]
      BY <2>8, <1>a DEF CookiesArrive, Served, Quiet
    <3> QED
      BY <2>8, <3>1, <1>b DEF CookiesArrive, client, server
  <2> QED
    BY <1>5, <2>1, <2>2, <2>3, <2>4, <2>5, <2>6, <2>7, <2>8 DEF CallStep
<1>6. ASSUME NEW c \in Calls, NEW reply, NEW grant, Answer(c, reply, grant),
             UNCHANGED <<client, applied>>
      PROVE  WriteByPhase'
  <2>1. wire'[c].st # "out" /\ \A d \in Calls \ {c} : wire'[d] = wire[d]
    BY <1>6, <1>a DEF Answer, Served, Quiet
  <2> QED
    BY <1>6, <2>1, <1>b DEF client
<1>7. ASSUME NEW c \in Calls, ServeMutation(c) PROVE WriteByPhase'
  <2>1. /\ c \in Mutations /\ ~confirming[c] /\ wire[c].st = "out" /\ UNCHANGED client
        /\ \E reply : Answer(c, reply, 0)
    BY <1>7 DEF ServeMutation
  <2>2. wire'[c].st # "out" /\ \A d \in Calls \ {c} : wire'[d] = wire[d]
    BY <2>1, <1>a DEF Answer, Served, Quiet
  <2>3. applied' = applied \/ applied' = [applied EXCEPT ![c] = @ + 1]
    BY <1>7 DEF ServeMutation
  <2>4. applied[c] = 0
    BY <2>1
  <2> QED
    BY <2>1, <2>2, <2>3, <2>4, <1>a, <1>b DEF client
<1>8. ASSUME NEW c \in Calls, FlightStep(c) \/ ServeRefresh(c) \/ RefreshUnavailable(c)
      PROVE  WriteByPhase'
  BY <1>8, <1>1 DEF FlightStep, FlightReturns, FlightSettles, FlightFails, ServeRefresh,
                    RefreshUnavailable, server
<1>9. ASSUME NEW c \in Calls, Unavailable(c) \/ ServeRead(c) \/ ServeCeremony(c) \/ ServeLogout(c)
      PROVE  WriteByPhase'
  BY <1>9, <1>6 DEF Unavailable, ServeRead, ServeCeremony, ServeLogout, server
<1>10. ASSUME NEW g \in accessLive \cup refreshLive, AccessExpires(g) \/ SessionEnds(g)
       PROVE  WriteByPhase'
  BY <1>10, <1>1 DEF AccessExpires, SessionEnds
<1>11. UNCHANGED vars => WriteByPhase'
  BY <1>1 DEF vars, server
<1> QED
  BY <1>5, <1>7, <1>8, <1>9, <1>10, <1>11, Zenon DEF Next, ServerStep

\* The server carries a write out at most once, whatever is lost on the way,
\* and its body is sent at most once (bff.ts never renews for a mutation).
THEOREM WrittenAtMostOnceHolds == Spec => []WrittenAtMostOnce
<1>1. Init => TypeInv /\ WriteByPhase
  <2> SUFFICES ASSUME Init PROVE TypeInv /\ WriteByPhase
    OBVIOUS
  <2>1. \A c \in Mutations : confirming[c] /\ applied[c] = 0
    BY DEF Init, Calls
  <2> QED
    BY <2>1, InitTypeInv DEF WriteByPhase
<1>2. TypeInv /\ WriteByPhase /\ [Next]_vars => TypeInv' /\ WriteByPhase'
  BY NextTypeInv, NextWriteByPhase
<1>3. WriteByPhase => WrittenAtMostOnce
  BY DEF WriteByPhase, WrittenAtMostOnce
<1> QED
  BY <1>1, <1>2, <1>3, PTL DEF Spec
=============================================================================
