------------------------ MODULE SessionVerdictProofs -------------------------
(***************************************************************************)
(* Theorems about what a call of SessionBoundary is told, and about the    *)
(* credentials the tab presents: a verdict is backed by a dead token, a    *)
(* renewal rotates no credentials the refusal did not describe unless a    *)
(* renewal has strayed, nor does a refused one say that a session is over  *)
(* which could go on, a confirmed sign-out has ended its session, and      *)
(* bff() implements SessionContract.                                       *)
(*                                                                         *)
(* They rest on facts about every reachable state: a call begins at most   *)
(* one renewal and the others only join renewals that exist (JoinsOnce);   *)
(* every pair on its way was issued, and is the first of its session when  *)
(* a sign-in brings it (PairsIssued); a renewal that was refused had       *)
(* presented a dead token (DeadWhenRefused), and so had a request whose    *)
(* 401 is in hand or was handed on unread (AnswerInHand, RefusedIsDead);   *)
(* and cookies stored without their epoch are those of a renewal the tab   *)
(* saw fail (FlightShape, Strayed).                                        *)
(***************************************************************************)
EXTENDS SessionBoundaryProofs

-----------------------------------------------------------------------------
(* What a call's step leaves alone.                                        *)

\* Settling one call leaves every other call's state and request alone.
LEMMA SettleFrame ==
  ASSUME TypeInv, NEW c \in Calls, NEW r, Settle(c, r), NEW d \in Calls \ {c}
  PROVE  /\ pc'[d] = pc[d] /\ confirming'[d] = confirming[d] /\ epochAt'[d] = epochAt[d]
         /\ result'[d] = result[d] /\ sends'[d] = sends[d] /\ wire'[d] = wire[d]
BY DEF TypeInv, ClientTyped, Settle

\* Every step of a call does.
LEMMA OthersUntouched ==
  ASSUME TypeInv, NEW c \in Calls, CallStep(c), NEW d \in Calls \ {c}
  PROVE  /\ pc'[d] = pc[d] /\ confirming'[d] = confirming[d] /\ epochAt'[d] = epochAt[d]
         /\ joined'[d] = joined[d] /\ result'[d] = result[d] /\ sends'[d] = sends[d]
         /\ wire'[d] = wire[d]
<1> USE DEF TypeInv, ClientTyped, RenewalTyped
<1>1. ASSUME Resend(c)
      PROVE  /\ pc'[d] = pc[d] /\ confirming'[d] = confirming[d] /\ epochAt'[d] = epochAt[d]
             /\ result'[d] = result[d] /\ sends'[d] = sends[d] /\ wire'[d] = wire[d]
  BY <1>1 DEF Resend, Send
<1>2. ASSUME JoinRenewal(c)
      PROVE  /\ pc'[d] = pc[d] /\ confirming'[d] = confirming[d] /\ epochAt'[d] = epochAt[d]
             /\ joined'[d] = joined[d] /\ result'[d] = result[d] /\ sends'[d] = sends[d]
             /\ wire'[d] = wire[d]
  BY <1>2 DEF JoinRenewal
<1>3 CASE Start(c)
  BY <1>3 DEF Start, Send
<1>4 CASE Receive(c)
  BY <1>4, SettleFrame DEF Receive
<1>5 CASE Abort(c) \/ Lose(c)
  BY <1>5, SettleFrame DEF Abort, Lose
<1>6 CASE Resume(c)
  BY <1>6, <1>1, SettleFrame DEF Resume
<1>7. ASSUME NEW readable \in BOOLEAN, ReadBody(c, readable)
      PROVE  /\ pc'[d] = pc[d] /\ confirming'[d] = confirming[d] /\ epochAt'[d] = epochAt[d]
             /\ joined'[d] = joined[d] /\ result'[d] = result[d] /\ sends'[d] = sends[d]
             /\ wire'[d] = wire[d]
  BY <1>7, <1>1, <1>2, SettleFrame DEF ReadBody
<1>8. ASSUME NEW readable \in BOOLEAN, Judge(c, readable)
      PROVE  /\ pc'[d] = pc[d] /\ confirming'[d] = confirming[d] /\ epochAt'[d] = epochAt[d]
             /\ joined'[d] = joined[d] /\ result'[d] = result[d] /\ sends'[d] = sends[d]
             /\ wire'[d] = wire[d]
  BY <1>8, SettleFrame DEF Judge
<1>9 CASE CookiesArrive(c)
  BY <1>9 DEF CookiesArrive, client
<1> QED
  BY <1>3, <1>4, <1>5, <1>6, <1>7, <1>8, <1>9, Zenon DEF CallStep

-----------------------------------------------------------------------------
(* Which renewal a call waits for.                                         *)

\* Only a mutation makes a validate read first.  A call that has not been
\* refused yet has begun no renewal; whoever has joined one names one that
\* exists, and the one to join is outstanding.
JoinsOnce ==
  /\ \A c \in Calls : confirming[c] => c \in Mutations
  /\ \A c \in Calls :
       pc[c] \in {"idle", "reading"} \/ (pc[c] = "sent" /\ RenewableRead(c))
         => flight[c].client = "unused"
  /\ \A c \in Calls : joined[c] # None => flight[joined[c]].client # "unused"
  /\ refreshInFlight # None => flight[refreshInFlight].client \in {"pending", "answered"}

\* No step brings a call back to where it has not been refused.
LEMMA BeforeRefusal ==
  ASSUME TypeInv, JoinsOnce, [Next]_vars, NEW c \in Calls,
         pc'[c] \in {"idle", "reading"} \/ (pc'[c] = "sent" /\ RenewableRead(c)')
  PROVE  pc[c] \in {"idle", "reading"} \/ (pc[c] = "sent" /\ RenewableRead(c))
<1>a. pc \in [Calls -> Phases] /\ confirming \in [Calls -> BOOLEAN]
  BY DEF TypeInv, ClientTyped
<1>1 CASE UNCHANGED client
  BY <1>1, Zenon DEF client, RenewableRead
<1>2 CASE \E d \in Calls \ {c} : CallStep(d)
  BY <1>2, OthersUntouched, Zenon DEF RenewableRead
<1>3. ASSUME NEW r, Settle(c, r) PROVE FALSE
  BY <1>3, <1>a, KindsAssumption DEF Settle, RenewableRead, JoinsOnce
<1>4. ASSUME Resend(c) \/ JoinRenewal(c) PROVE FALSE
  BY <1>4, <1>a DEF Resend, JoinRenewal
<1>5 CASE CallStep(c)
  <2>1 CASE Start(c)
    BY <2>1 DEF Start
  <2>2 CASE Receive(c)
    BY <2>2, <1>3 DEF Receive, MustReadBody
  <2>3 CASE Abort(c)
    BY <2>3, <1>3, Zenon DEF Abort, RenewableRead
  <2>4 CASE Lose(c)
    BY <2>4, <1>3 DEF Lose
  <2>5 CASE Resume(c)
    BY <2>5, <1>3, <1>4, <1>a DEF Resume
  <2>6 CASE \E readable \in BOOLEAN : ReadBody(c, readable) \/ Judge(c, readable)
    BY <2>6, <1>3, <1>4 DEF ReadBody, Judge
  <2>7 CASE CookiesArrive(c)
    BY <2>7, <1>1 DEF CookiesArrive
  <2> QED
    BY <1>5, <2>1, <2>2, <2>3, <2>4, <2>5, <2>6, <2>7 DEF CallStep
<1> QED
  BY <1>1, <1>2, <1>5, ClientSteps

\* A renewal that exists is never undone.
LEMMA FlightsLast ==
  ASSUME TypeInv, JoinsOnce, [Next]_vars, NEW i \in Calls, flight[i].client # "unused"
  PROVE  /\ flight'[i].client # "unused"
         /\ flight'[i].cred = flight[i].cred
         /\ pc[i] # "reading"
<1>a. flight \in [Calls -> Flights]
  BY DEF TypeInv, RenewalTyped
<1>b. pc[i] # "reading"
  BY DEF JoinsOnce
<1>1 CASE UNCHANGED renewal
  BY <1>1, <1>b DEF renewal
<1>2. ASSUME NEW c \in Calls, pc[c] = "reading", JoinRenewal(c)
      PROVE  flight'[i] = flight[i]
  BY <1>2, <1>a, <1>b DEF JoinRenewal
<1>3. ASSUME NEW j \in Calls, FlightStep(j)
      PROVE  flight'[i].client # "unused" /\ flight'[i].cred = flight[i].cred
  BY <1>3, <1>a DEF FlightStep, FlightReturns, FlightSettles, FlightFails, Flights
<1>4. ASSUME NEW j \in Calls, NEW o, NEW grant, AnswerFlight(j, o, grant)
      PROVE  flight'[i].client # "unused" /\ flight'[i].cred = flight[i].cred
  BY <1>4, <1>a DEF AnswerFlight, Flights
<1> QED
  BY <1>1, <1>2, <1>3, <1>4, <1>b, RenewalSteps DEF ServeRefresh, RefreshUnavailable

\* A call begins at most one renewal, and joins only renewals that exist.
LEMMA NextJoinsOnce ==
  ASSUME TypeInv, JoinsOnce, [Next]_vars
  PROVE  JoinsOnce'
<1>a. /\ flight \in [Calls -> Flights] /\ joined \in [Calls -> Calls \cup {None}]
      /\ refreshInFlight \in Calls \cup {None} /\ pc \in [Calls -> Phases]
  BY DEF TypeInv, RenewalTyped, ClientTyped
<1>1. ASSUME NEW c \in Calls, confirming'[c] PROVE c \in Mutations
  <2>1 CASE confirming'[c] = confirming[c]
    BY <1>1, <2>1, Zenon DEF JoinsOnce
  <2>2 CASE CallStep(c)
    <3>1. \A r : Settle(c, r) => confirming' = [confirming EXCEPT ![c] = FALSE] \/ confirming' = confirming
      BY Zenon DEF Settle
    <3>2. confirming' = [confirming EXCEPT ![c] = FALSE] \/ confirming' = confirming
      BY <2>2, <3>1, Zenon DEF CallStep, Start, Receive, CookiesArrive, Abort, Lose, Resume, ReadBody, Judge, Resend,
                               JoinRenewal, client
    <3> QED
      BY <1>1, <3>2, Zenon DEF JoinsOnce, TypeInv, ClientTyped
  <2>3 CASE UNCHANGED client
    BY <1>1, <2>3, Zenon DEF client, JoinsOnce
  <2>4 CASE \E d \in Calls \ {c} : CallStep(d)
    BY <1>1, <2>4, OthersUntouched, Zenon DEF JoinsOnce
  <2> QED
    BY <2>2, <2>3, <2>4, ClientSteps
<1>2. ASSUME NEW c \in Calls, pc'[c] \in {"idle", "reading"} \/ (pc'[c] = "sent" /\ RenewableRead(c)')
      PROVE  flight'[c].client = "unused"
  <2>1. flight[c].client = "unused"
    BY <1>2, BeforeRefusal DEF JoinsOnce
  <2>2 CASE UNCHANGED renewal
    BY <2>1, <2>2 DEF renewal
  <2>3. ASSUME NEW d \in Calls, JoinRenewal(d) PROVE flight'[c] = flight[c]
    <3>1. d # c
      BY <1>2, <1>a, <2>3 DEF JoinRenewal
    <3> QED
      BY <2>3, <3>1, <1>a DEF JoinRenewal
  <2>4. ASSUME NEW j \in Calls, FlightStep(j) PROVE flight'[c].client = flight[c].client
    BY <2>1, <2>4, <1>a DEF FlightStep, FlightReturns, FlightSettles, FlightFails, Flights
  <2>5. ASSUME NEW j \in Calls, NEW o, NEW grant, AnswerFlight(j, o, grant)
        PROVE  flight'[c].client = flight[c].client
    BY <2>5, <1>a DEF AnswerFlight, Flights
  <2> QED
    BY <2>1, <2>2, <2>3, <2>4, <2>5, RenewalSteps DEF ServeRefresh, RefreshUnavailable
<1>3. refreshInFlight' # None => flight'[refreshInFlight'].client \in {"pending", "answered"}
  <2> USE DEF JoinsOnce
  <2>1 CASE UNCHANGED renewal
    BY <2>1 DEF renewal
  <2>2. ASSUME NEW d \in Calls, JoinRenewal(d)
        PROVE  refreshInFlight' # None => flight'[refreshInFlight'].client \in {"pending", "answered"}
    BY <2>2, <1>a DEF JoinRenewal
  <2>3. ASSUME NEW j \in Calls, FlightStep(j)
        PROVE  refreshInFlight' # None => flight'[refreshInFlight'].client \in {"pending", "answered"}
    BY <2>3, <1>a DEF FlightStep, FlightReturns, FlightSettles, FlightFails, Flights
  <2>4. ASSUME NEW j \in Calls, NEW o, NEW grant, AnswerFlight(j, o, grant), UNCHANGED refreshInFlight
        PROVE  refreshInFlight' # None => flight'[refreshInFlight'].client \in {"pending", "answered"}
    BY <2>4, <1>a DEF AnswerFlight, Flights
  <2> QED
    BY <2>1, <2>2, <2>3, <2>4, RenewalSteps DEF ServeRefresh, RefreshUnavailable
<1>4. ASSUME NEW c \in Calls, joined'[c] # None PROVE flight'[joined'[c]].client # "unused"
  <2>1 CASE joined'[c] = joined[c]
    BY <1>4, <1>a, <2>1, FlightsLast DEF JoinsOnce
  <2>2 CASE JoinRenewal(c)
    <3>1. joined'[c] = refreshInFlight'
      BY <1>a, <2>2 DEF JoinRenewal
    <3> QED
      BY <1>3, <1>4, <3>1
  <2>3. joined'[c] = joined[c] \/ JoinRenewal(c)
    <3>1 CASE CallStep(c)
      BY <3>1, Zenon DEF CallStep, Start, Receive, CookiesArrive, Abort, Lose, Resume, ReadBody, Judge, client
    <3>2 CASE UNCHANGED client
      BY <3>2, Zenon DEF client
    <3> QED
      BY <3>1, <3>2, OthersUntouched, ClientSteps
  <2> QED
    BY <2>1, <2>2, <2>3
<1> QED
  BY <1>1, <1>2, <1>3, <1>4 DEF JoinsOnce

\* The tab opens with no renewal.
LEMMA InitJoinsOnce == Init => JoinsOnce
<1>1. Init => \A c \in Calls : confirming[c] => c \in Mutations
  BY Zenon DEF Init
<1>2. Init => /\ \A c \in Calls : flight[c].client = "unused" /\ joined[c] = None
              /\ refreshInFlight = None
  BY DEF Init, NoFlight
<1> QED
  BY <1>1, <1>2, Zenon DEF JoinsOnce

-----------------------------------------------------------------------------
(* The pairs the server issued.                                            *)

\* How a step changes what the server issued and accepts: it forgets some of
\* it, opens a session, or rotates a live pair.
LEMMA FamilySteps ==
  ASSUME [Next]_vars
  PROVE  \/ family' = family /\ accessLive' \subseteq accessLive /\ refreshLive' \subseteq refreshLive
         \/ \E c \in Calls : /\ ServeCeremony(c)
                             /\ family' = Append(family, issued + 1)
                             /\ accessLive' = accessLive \cup {issued + 1}
                             /\ refreshLive' = refreshLive \cup {issued + 1}
         \/ \E i \in Calls : /\ flight[i].cred \in refreshLive /\ ServeRefresh(i)
                             /\ family' = Append(family, family[flight[i].cred])
                             /\ accessLive' = accessLive \cup {issued + 1}
                             /\ refreshLive' = (refreshLive \ {flight[i].cred}) \cup {issued + 1}
<1> DEFINE Forgets == /\ family' = family /\ accessLive' \subseteq accessLive
                      /\ refreshLive' \subseteq refreshLive
<1>1. UNCHANGED server => Forgets
  BY DEF server
<1>2. ASSUME NEW c \in Calls, CallStep(c) PROVE UNCHANGED server
  BY <1>2, Zenon DEF CallStep, Start, Receive, CookiesArrive, Abort, Lose, Resume, ReadBody, Judge
<1>3. ASSUME NEW c \in Calls, FlightStep(c) \/ Unavailable(c) \/ ServeRead(c) \/ RefreshUnavailable(c)
      PROVE  UNCHANGED server
  BY <1>3, Zenon DEF FlightStep, FlightReturns, FlightSettles, FlightFails, Unavailable, ServeRead,
                     RefreshUnavailable
<1>4. ASSUME NEW c \in Calls, ServeMutation(c) \/ ServeLogout(c) PROVE Forgets
  BY <1>4 DEF ServeMutation, ServeLogout
<1>5. ASSUME NEW g \in accessLive \cup refreshLive, AccessExpires(g) \/ SessionEnds(g) PROVE Forgets
  BY <1>5 DEF AccessExpires, SessionEnds
<1>6. ASSUME NEW c \in Calls, ServeCeremony(c)
      PROVE  \/ Forgets
             \/ /\ family' = Append(family, issued + 1)
                /\ accessLive' = accessLive \cup {issued + 1}
                /\ refreshLive' = refreshLive \cup {issued + 1}
  BY <1>6 DEF ServeCeremony
<1>7. ASSUME NEW i \in Calls, ServeRefresh(i)
      PROVE  \/ Forgets
             \/ /\ flight[i].cred \in refreshLive
                /\ family' = Append(family, family[flight[i].cred])
                /\ accessLive' = accessLive \cup {issued + 1}
                /\ refreshLive' = (refreshLive \ {flight[i].cred}) \cup {issued + 1}
  BY <1>7 DEF ServeRefresh
<1>8. UNCHANGED vars => UNCHANGED server
  BY Zenon DEF vars
<1> HIDE DEF Forgets
<1>9. \/ Forgets
      \/ \E c \in Calls : /\ ServeCeremony(c)
                          /\ family' = Append(family, issued + 1)
                          /\ accessLive' = accessLive \cup {issued + 1}
                          /\ refreshLive' = refreshLive \cup {issued + 1}
      \/ \E i \in Calls : /\ flight[i].cred \in refreshLive /\ ServeRefresh(i)
                          /\ family' = Append(family, family[flight[i].cred])
                          /\ accessLive' = accessLive \cup {issued + 1}
                          /\ refreshLive' = (refreshLive \ {flight[i].cred}) \cup {issued + 1}
  BY <1>1, <1>2, <1>3, <1>4, <1>5, <1>6, <1>7, <1>8, Zenon DEF Next, ServerStep
<1> QED
  BY <1>9, Zenon DEF Forgets

\* What was issued stays issued, to the same session.
LEMMA FamilyGrows ==
  ASSUME TypeInv, [Next]_vars
  PROVE  /\ issued \in Nat /\ issued' \in {issued, issued + 1}
         /\ \A h \in 1..issued : family'[h] = family[h] /\ h \in 1..issued'
<1>a. family \in Seq(Nat) /\ refreshLive \subseteq 1..issued
  BY DEF TypeInv, ServerTyped
<1>1. issued \in Nat /\ issued = Len(family)
  BY <1>a DEF issued
<1>2. ASSUME NEW s \in Nat, family' = Append(family, s)
      PROVE  issued' = issued + 1 /\ \A h \in 1..issued : family'[h] = family[h]
  BY <1>2, <1>a DEF issued
<1>3 CASE family' = family
  BY <1>1, <1>3 DEF issued
<1>4 CASE \E i \in Calls : /\ flight[i].cred \in refreshLive
                           /\ family' = Append(family, family[flight[i].cred])
  <2>1. PICK i \in Calls : /\ flight[i].cred \in refreshLive
                           /\ family' = Append(family, family[flight[i].cred])
    BY <1>4
  <2>2. flight[i].cred \in 1..Len(family)
    BY <1>a, <2>1 DEF issued
  <2>3. family[flight[i].cred] \in Nat
    BY <1>a, <2>2
  <2> QED
    BY <1>1, <1>2, <2>1, <2>3
<1>5 CASE family' = Append(family, issued + 1)
  BY <1>1, <1>2, <1>5
<1> QED
  BY <1>3, <1>4, <1>5, FamilySteps

\* A session is named by its first pair, so no pair comes before its session.
SessionsNamed == \A h \in 1..issued : family[h] \in 1..h

\* Issuing a pair names its session so.
LEMMA NextSessionsNamed ==
  ASSUME TypeInv, SessionsNamed, [Next]_vars
  PROVE  SessionsNamed'
<1>a. family \in Seq(Nat) /\ refreshLive \subseteq 1..issued /\ issued \in Nat /\ issued = Len(family)
  BY DEF TypeInv, ServerTyped, issued
<1>1. ASSUME NEW s \in 1..(issued + 1), family' = Append(family, s) PROVE SessionsNamed'
  <2>1. issued' = issued + 1 /\ family'[issued + 1] = s
    BY <1>1, <1>a DEF issued
  <2>2. ASSUME NEW h \in 1..issued' PROVE family'[h] \in 1..h
    BY <1>a, <2>1, FamilyGrows DEF SessionsNamed
  <2> QED
    BY <2>2 DEF SessionsNamed
<1>2 CASE family' = family
  BY <1>2 DEF SessionsNamed, issued
<1>3. ASSUME NEW g \in refreshLive PROVE family[g] \in 1..(issued + 1)
  BY <1>a DEF SessionsNamed
<1>4. issued + 1 \in 1..(issued + 1)
  BY <1>a
<1> QED
  BY <1>1, <1>2, <1>3, <1>4, FamilySteps

\* What a call's own step makes of its request: it is kept, sent anew with
\* the cookies of the moment, or done with.
LEMMA OwnRequest ==
  ASSUME TypeInv, NEW c \in Calls, CallStep(c)
  PROVE  wire'[c] \in {wire[c], Sent(jar)} \/ \E r : wire'[c] = Served(c, r)
<1>a. wire \in [Calls -> Requests]
  BY DEF TypeInv, ClientTyped
<1>1. ASSUME NEW r, Settle(c, r) PROVE wire'[c] \in {wire[c], Sent(jar)} \/ \E q : wire'[c] = Served(c, q)
  <2>1. wire'[c] \in {Sent(jar), Left(c, r)}
    BY <1>1, <1>a, Zenon DEF Settle
  <2>2. Left(c, r) \in {wire[c], Served(c, r)}
    BY Zenon DEF Left
  <2> QED
    BY <2>1, <2>2
<1>2. ASSUME Send(c) PROVE wire'[c] \in {wire[c], Sent(jar)}
  BY <1>2, <1>a, Zenon DEF Send
<1>3. ASSUME CookiesArrive(c) PROVE \E r : wire'[c] = Served(c, r)
  BY <1>3, <1>a, Zenon DEF CookiesArrive
<1> QED
  BY <1>1, <1>2, <1>3, Zenon DEF CallStep, Start, Receive, Abort, Lose, Resume, ReadBody, Judge, Resend, JoinRenewal

\* The server answered the request of c, which grants a pair only as it
\* issues one.
Answered(c) ==
  \/ wire'[c] = Served(c, result[c])
  \/ \E reply \in Replies, grant \in Nat :
       /\ AwaitsFetch(c) \/ grant > 0 \/ reply \in {"revoked", "local_only"}
       /\ wire'[c] = [st |-> "back", cred |-> wire[c].cred, reply |-> reply, grant |-> grant]
       /\ grant = 0 \/ (grant = issued + 1 /\ family' = Append(family, issued + 1) /\ c \in Ceremonies)

\* How a step changes a request: its call's own step, or an answer of the
\* server to a request in the network.
LEMMA WireSteps ==
  ASSUME TypeInv, [Next]_vars, NEW c \in Calls
  PROVE  \/ wire'[c] = wire[c]
         \/ CallStep(c) /\ (wire'[c] = Sent(jar) \/ \E r : wire'[c] = Served(c, r))
         \/ wire[c].st = "out" /\ UNCHANGED client /\ Answered(c)
<1>a. wire \in [Calls -> Requests] /\ issued \in Nat
  BY DEF TypeInv, ClientTyped, ServerTyped, issued
<1>1. ASSUME NEW d \in Calls, NEW reply \in Replies, NEW grant \in Nat, Answer(d, reply, grant),
             wire[d].st = "out", UNCHANGED client,
             grant = 0 \/ (grant = issued + 1 /\ family' = Append(family, issued + 1) /\ d \in Ceremonies)
      PROVE  wire'[c] = wire[c] \/ (wire[c].st = "out" /\ UNCHANGED client /\ Answered(c))
  <2>1 CASE c # d
    BY <1>1, <1>a, <2>1 DEF Answer
  <2>2 CASE c = d
    <3> DEFINE answer == [st |-> "back", cred |-> wire[c].cred, reply |-> reply, grant |-> grant]
    <3>1. wire'[c] = IF AwaitsFetch(c) \/ SetsCookies(answer) THEN answer ELSE Served(c, result[c])
      BY <1>1, <1>a, <2>2 DEF Answer
    <3>2. SetsCookies(answer) => grant > 0 \/ reply \in {"revoked", "local_only"}
      BY DEF SetsCookies
    <3> QED
      BY <1>1, <2>2, <3>1, <3>2 DEF Answered
  <2> QED
    BY <2>1, <2>2
<1>2 CASE UNCHANGED wire
  BY <1>2
<1>3. ASSUME NEW d \in Calls, CallStep(d)
      PROVE  \/ wire'[c] = wire[c]
             \/ CallStep(c) /\ (wire'[c] = Sent(jar) \/ \E r : wire'[c] = Served(c, r))
  <2>1 CASE c = d
    BY <1>3, <2>1, OwnRequest
  <2>2 CASE c # d
    BY <1>3, <2>2, OthersUntouched
  <2> QED
    BY <2>1, <2>2
<1>4. ASSUME NEW d \in Calls, ServerStep(d)
      PROVE  \/ UNCHANGED wire
             \/ \E reply \in Replies, grant \in Nat :
                  /\ Answer(d, reply, grant) /\ wire[d].st = "out" /\ UNCHANGED client
                  /\ grant = 0 \/ (grant = issued + 1 /\ family' = Append(family, issued + 1) /\ d \in Ceremonies)
  <2>1 CASE Unavailable(d) \/ ServeRead(d) \/ ServeMutation(d) \/ ServeLogout(d)
    BY <2>1 DEF Unavailable, ServeRead, ServeMutation, ServeLogout, Replies
  <2>2 CASE ServeCeremony(d)
    <3>1. issued + 1 \in Nat /\ "ok" \in Replies /\ "refused" \in Replies
      BY <1>a DEF Replies
    <3> QED
      BY <2>2, <3>1 DEF ServeCeremony
  <2>3 CASE ServeRefresh(d) \/ RefreshUnavailable(d)
    BY <2>3, Zenon DEF ServeRefresh, RefreshUnavailable
  <2> QED
    BY <1>4, <2>1, <2>2, <2>3, Zenon DEF ServerStep
<1>5. ASSUME NEW d \in Calls, FlightStep(d) PROVE UNCHANGED wire
  BY <1>5, Zenon DEF FlightStep, FlightReturns, FlightSettles, FlightFails
<1>6. ASSUME NEW g \in accessLive \cup refreshLive, AccessExpires(g) \/ SessionEnds(g)
      PROVE  UNCHANGED wire
  BY <1>6, Zenon DEF AccessExpires, SessionEnds
<1>7. UNCHANGED vars => UNCHANGED wire
  BY Zenon DEF vars
<1>8. ASSUME NEW d \in Calls, ServerStep(d)
      PROVE  wire'[c] = wire[c] \/ (wire[c].st = "out" /\ UNCHANGED client /\ Answered(c))
  BY <1>1, <1>4, <1>8, Zenon
<1> QED
  BY <1>2, <1>3, <1>5, <1>6, <1>7, <1>8, Zenon DEF Next

\* How a step changes a renewal: a call begins it, the browser takes its
\* cookies, it settles, or the server answers it.
LEMMA FlightChanges ==
  ASSUME TypeInv, [Next]_vars, NEW i \in Calls
  PROVE  /\ flight'[i].cred \in {flight[i].cred, jar}
         /\ \/ flight'[i].grant \in {flight[i].grant, 0}
            \/ flight'[i].grant = issued + 1 /\ issued' = issued + 1
<1>a. flight \in [Calls -> Flights] /\ family \in Seq(Nat)
  BY DEF TypeInv, RenewalTyped, ServerTyped
<1>1 CASE UNCHANGED renewal
  BY <1>1 DEF renewal
<1>2. ASSUME NEW c \in Calls, JoinRenewal(c)
      PROVE  flight'[i].cred \in {flight[i].cred, jar} /\ flight'[i].grant \in {flight[i].grant, 0}
  BY <1>2, <1>a DEF JoinRenewal, Flights
<1>3. ASSUME NEW j \in Calls, FlightStep(j)
      PROVE  flight'[i].cred = flight[i].cred /\ flight'[i].grant \in {flight[i].grant, 0}
  <2>1 CASE FlightReturns(j)
    BY <2>1, <1>a DEF FlightReturns, Flights
  <2>2 CASE FlightSettles(j)
    BY <2>2, <1>a DEF FlightSettles, Flights
  <2>3 CASE FlightFails(j)
    BY <2>3, <1>a DEF FlightFails, Flights
  <2> QED
    BY <1>3, <2>1, <2>2, <2>3 DEF FlightStep
<1>4. ASSUME NEW j \in Calls, NEW o, NEW grant, AnswerFlight(j, o, grant)
      PROVE  flight'[i].cred = flight[i].cred /\ flight'[i].grant \in {flight[i].grant, grant}
  BY <1>4, <1>a DEF AnswerFlight, Flights
<1>5. ASSUME NEW j \in Calls, ServeRefresh(j) \/ RefreshUnavailable(j)
      PROVE  \E o, grant : /\ AnswerFlight(j, o, grant)
                           /\ grant = 0 \/ (grant = issued + 1 /\ issued' = issued + 1)
  <2>1 CASE RefreshUnavailable(j)
    BY <2>1, Zenon DEF RefreshUnavailable
  <2>2 CASE ServeRefresh(j) /\ flight[j].cred \in refreshLive
    <3>1. AnswerFlight(j, "renewed", issued + 1) /\ family' = Append(family, family[flight[j].cred])
      BY <2>2, Zenon DEF ServeRefresh
    <3>2. flight[j].cred \in 1..Len(family)
      BY <2>2 DEF TypeInv, ServerTyped, issued
    <3>3. family[flight[j].cred] \in Nat
      BY <1>a, <3>2
    <3>4. issued' = issued + 1
      BY <1>a, <3>1, <3>3 DEF issued
    <3> QED
      BY <3>1, <3>4, Zenon
  <2>3 CASE ServeRefresh(j) /\ flight[j].cred \notin refreshLive
    BY <2>3, Zenon DEF ServeRefresh
  <2> QED
    BY <1>5, <2>1, <2>2, <2>3
<1> QED
  BY <1>1, <1>2, <1>3, <1>4, <1>5, RenewalSteps

\* How a step changes the jar: an answer that arrives sets or clears it.
LEMMA JarSteps ==
  ASSUME [Next]_vars
  PROVE  \/ jar' = jar
         \/ \E c \in Calls : (Receive(c) \/ CookiesArrive(c)) /\ jar' \in {wire[c].grant, 0}
         \/ \E i \in Calls : FlightReturns(i) /\ jar' = flight[i].grant /\ flight[i].grant > 0
<1>1. ASSUME NEW c \in Calls, CallStep(c)
      PROVE  jar' = jar \/ ((Receive(c) \/ CookiesArrive(c)) /\ jar' \in {wire[c].grant, 0})
  BY <1>1, Zenon DEF CallStep, Start, Receive, SetCookie, CookiesArrive, Abort, Lose, Resume, ReadBody, Judge
<1>2. ASSUME NEW c \in Calls, FlightStep(c)
      PROVE  jar' = jar \/ (FlightReturns(c) /\ jar' = flight[c].grant /\ flight[c].grant > 0)
  BY <1>2, Zenon DEF FlightStep, FlightReturns, FlightSettles, FlightFails
<1>3. ASSUME NEW c \in Calls, ServerStep(c) PROVE jar' = jar
  BY <1>3, Zenon DEF ServerStep, Unavailable, ServeRead, ServeMutation, ServeCeremony, ServeLogout,
                     ServeRefresh, RefreshUnavailable, server
<1>4. ASSUME NEW g \in accessLive \cup refreshLive, AccessExpires(g) \/ SessionEnds(g) PROVE jar' = jar
  BY <1>4, Zenon DEF AccessExpires, SessionEnds
<1>5. UNCHANGED vars => jar' = jar
  BY Zenon DEF vars
<1> QED
  BY <1>1, <1>2, <1>3, <1>4, <1>5, Zenon DEF Next

\* Every pair on its way, and the one in the jar, was issued; what a request
\* carries is the first pair of a session, since only a sign-in grants it.
PairsIssued ==
  /\ jar \in 0..issued
  /\ \A c \in Calls :
       /\ wire[c].cred \in 0..issued /\ wire[c].grant \in 0..issued
       /\ flight[c].cred \in 0..issued /\ flight[c].grant \in 0..issued
       /\ wire[c].grant > 0 => family[wire[c].grant] = wire[c].grant

\* Pairs travel only between the jar, the requests and the renewals.
LEMMA NextPairsIssued ==
  ASSUME TypeInv, PairsIssued, [Next]_vars
  PROVE  PairsIssued'
<1>a. /\ issued \in Nat /\ issued' \in {issued, issued + 1}
      /\ \A h \in 1..issued : family'[h] = family[h] /\ h \in 1..issued'
  BY FamilyGrows
<1>b. \A n \in 0..issued : n \in 0..issued'
  BY <1>a
<1>c. wire \in [Calls -> Requests]
  BY DEF TypeInv, ClientTyped
<1>1. jar' \in 0..issued'
  BY <1>b, <1>a, JarSteps DEF PairsIssued
<1>2. ASSUME NEW c \in Calls
      PROVE  flight'[c].cred \in 0..issued' /\ flight'[c].grant \in 0..issued'
  BY <1>b, <1>a, FlightChanges DEF PairsIssued
<1>3. ASSUME NEW c \in Calls
      PROVE  /\ wire'[c].cred \in 0..issued' /\ wire'[c].grant \in 0..issued'
             /\ wire'[c].grant > 0 => family'[wire'[c].grant] = wire'[c].grant
  <2>1 CASE wire'[c] = wire[c]
    BY <1>a, <1>b, <2>1 DEF PairsIssued
  <2>2 CASE wire'[c] = Sent(jar)
    BY <1>a, <1>b, <2>2 DEF PairsIssued, Sent
  <2>3 CASE \E r : wire'[c] = Served(c, r)
    BY <1>a, <1>b, <2>3 DEF PairsIssued, Served, Quiet
  <2>5. ASSUME NEW reply, NEW grant \in Nat,
               wire'[c] = [st |-> "back", cred |-> wire[c].cred, reply |-> reply, grant |-> grant],
               grant = 0 \/ (grant = issued + 1 /\ family' = Append(family, issued + 1))
        PROVE  /\ wire'[c].cred \in 0..issued' /\ wire'[c].grant \in 0..issued'
               /\ wire'[c].grant > 0 => family'[wire'[c].grant] = wire'[c].grant
    <3>1. wire'[c].cred = wire[c].cred /\ wire'[c].grant = grant
      BY <2>5
    <3>2 CASE grant = 0
      BY <1>a, <1>b, <3>1, <3>2 DEF PairsIssued
    <3>3 CASE grant = issued + 1 /\ family' = Append(family, issued + 1)
      <4>1. issued' = issued + 1 /\ family'[issued + 1] = issued + 1
        BY <1>a, <3>3 DEF TypeInv, ServerTyped, issued
      <4>2. wire'[c].grant = issued + 1 /\ issued + 1 \in 0..(issued + 1)
        BY <1>a, <3>1, <3>3
      <4>3. wire'[c].cred \in 0..issued'
        BY <1>b, <3>1 DEF PairsIssued
      <4> QED
        BY <4>1, <4>2, <4>3
    <3> QED
      BY <2>5, <3>2, <3>3
  <2>6. Answered(c) => \/ \E r : wire'[c] = Served(c, r)
                       \/ \E reply \in Replies, grant \in Nat :
                            /\ wire'[c] = [st |-> "back", cred |-> wire[c].cred, reply |-> reply, grant |-> grant]
                            /\ grant = 0 \/ (grant = issued + 1 /\ family' = Append(family, issued + 1))
    BY Zenon DEF Answered
  <2> QED
    BY <2>1, <2>2, <2>3, <2>5, <2>6, WireSteps
<1> QED
  BY <1>1, <1>2, <1>3 DEF PairsIssued

\* The tab opens with no pair on its way, and the first pair or none in the jar.
LEMMA InitPairs == Init => PairsIssued /\ SessionsNamed
<1> SUFFICES ASSUME Init PROVE PairsIssued /\ SessionsNamed
  OBVIOUS
<1>1. jar \in {0, 1} /\ issued = jar /\ (issued = 1 => family = <<1>>)
  <2>1 CASE jar = 0 /\ family = <<>>
    BY <2>1 DEF issued
  <2>2 CASE jar = 1 /\ family = <<1>>
    BY <2>2 DEF issued
  <2> QED
    BY <2>1, <2>2 DEF Init
<1>2. \A c \in Calls : wire[c] = Quiet /\ flight[c] = NoFlight
  BY DEF Init
<1>3. PairsIssued
  BY <1>1, <1>2 DEF PairsIssued, Quiet, NoFlight
<1>4. SessionsNamed
  BY <1>1 DEF SessionsNamed
<1> QED
  BY <1>3, <1>4

-----------------------------------------------------------------------------
(* Verdicts.                                                               *)

\* A token the server has stopped accepting is never accepted again.
LEMMA DeadStays ==
  ASSUME TypeInv, [Next]_vars, NEW g \in 0..issued
  PROVE  /\ g \notin refreshLive => g \notin refreshLive'
         /\ g \notin accessLive => g \notin accessLive'
<1>1. issued \in Nat
  BY FamilyGrows
<1> QED
  BY <1>1, FamilySteps

\* What the browser made of a settled renewal is final.
LEMMA SettledFlight ==
  ASSUME TypeInv, JoinsOnce, [Next]_vars, NEW i \in Calls, flight[i].client = "settled"
  PROVE  flight'[i].client = "settled" /\ flight'[i].outcome = flight[i].outcome
<1>a. flight \in [Calls -> Flights]
  BY DEF TypeInv, RenewalTyped
<1>b. pc[i] # "reading"
  BY DEF JoinsOnce
<1>1 CASE UNCHANGED renewal
  BY <1>1 DEF renewal
<1>2. ASSUME NEW c \in Calls, pc[c] = "reading", JoinRenewal(c) PROVE flight'[i] = flight[i]
  BY <1>2, <1>a, <1>b DEF JoinRenewal
<1>3. ASSUME NEW j \in Calls, FlightStep(j)
      PROVE  flight'[i].client = "settled" /\ flight'[i].outcome = flight[i].outcome
  BY <1>3, <1>a DEF FlightStep, FlightReturns, FlightSettles, FlightFails, Flights
<1>4. ASSUME NEW j \in Calls, NEW o, NEW grant, AnswerFlight(j, o, grant)
      PROVE  flight'[i].client = "settled" /\ flight'[i].outcome = flight[i].outcome
  BY <1>4, <1>a DEF AnswerFlight, Flights
<1> QED
  BY <1>1, <1>2, <1>3, <1>4, RenewalSteps DEF ServeRefresh, RefreshUnavailable

\* A renewal the server refused, or called signed out, had presented a token
\* it no longer accepts.
DeadWhenRefused ==
  \A i \in Calls : flight[i].outcome \in {"signed_out", "refused"} => flight[i].cred \notin refreshLive

\* Only the server's own refusal gives a renewal such an outcome.
LEMMA NextDeadWhenRefused ==
  ASSUME TypeInv, PairsIssued, DeadWhenRefused, [Next]_vars
  PROVE  DeadWhenRefused'
<1> SUFFICES ASSUME NEW i \in Calls, flight'[i].outcome \in {"signed_out", "refused"}
             PROVE  flight'[i].cred \notin refreshLive'
  BY DEF DeadWhenRefused
<1>a. flight \in [Calls -> Flights]
  BY DEF TypeInv, RenewalTyped
<1>b. ASSUME flight'[i].outcome = flight[i].outcome, flight'[i].cred = flight[i].cred
      PROVE  flight'[i].cred \notin refreshLive'
  BY <1>b, DeadStays DEF DeadWhenRefused, PairsIssued
<1>1 CASE UNCHANGED renewal
  BY <1>1, <1>b DEF renewal
<1>2. ASSUME NEW c \in Calls, JoinRenewal(c) PROVE flight'[i] = flight[i]
  BY <1>2, <1>a DEF JoinRenewal, Flights
<1>3. ASSUME NEW j \in Calls, FlightStep(j)
      PROVE  flight'[i].outcome = flight[i].outcome /\ flight'[i].cred = flight[i].cred
  BY <1>3, <1>a DEF FlightStep, FlightReturns, FlightSettles, FlightFails, Flights
<1>4. ASSUME NEW j \in Calls, NEW o, NEW grant, AnswerFlight(j, o, grant)
      PROVE  /\ flight'[i].cred = flight[i].cred
             /\ flight'[i].outcome = flight[i].outcome \/ (i = j /\ flight'[i].outcome = o)
  BY <1>4, <1>a DEF AnswerFlight, Flights
<1>5. ASSUME NEW j \in Calls, RefreshUnavailable(j) PROVE flight'[i].cred \notin refreshLive'
  BY <1>5, <1>4, <1>b DEF RefreshUnavailable
<1>6. ASSUME NEW j \in Calls, ServeRefresh(j) PROVE flight'[i].cred \notin refreshLive'
  <2>1 CASE flight[j].cred \in refreshLive
    BY <1>6, <2>1, <1>4, <1>b DEF ServeRefresh
  <2>2 CASE flight[j].cred \notin refreshLive
    <3>1. UNCHANGED refreshLive
      BY <1>6, <2>2, Zenon DEF ServeRefresh
    <3>2. \E o : AnswerFlight(j, o, 0)
      BY <1>6, <2>2, Zenon DEF ServeRefresh
    <3> QED
      BY <2>2, <3>1, <3>2, <1>4, <1>b
  <2> QED
    BY <2>1, <2>2
<1> QED
  BY <1>1, <1>2, <1>3, <1>5, <1>6, <1>b, RenewalSteps

\* The server says "signed out" only to a read that opted in to it.
OnlyTheOptedIn == \A c \in Calls : wire[c].reply = "signed_out" => OptedIn(c)

\* Only the answer to a read can say so.
LEMMA NextOnlyTheOptedIn ==
  ASSUME TypeInv, OnlyTheOptedIn, [Next]_vars
  PROVE  OnlyTheOptedIn'
<1>a. wire \in [Calls -> Requests]
  BY DEF TypeInv, ClientTyped
<1>1. ASSUME NEW d \in Calls, NEW reply, NEW grant, Answer(d, reply, grant),
             reply = "signed_out" => OptedIn(d)
      PROVE  OnlyTheOptedIn'
  BY <1>1, <1>a DEF Answer, Served, Quiet, OnlyTheOptedIn, OptedIn
<1>2. ASSUME NEW d \in Calls, ServerStep(d) PROVE OnlyTheOptedIn'
  <2>1 CASE UNCHANGED wire
    BY <2>1 DEF OnlyTheOptedIn, OptedIn
  <2>2. UNCHANGED wire \/ \E reply, grant : Answer(d, reply, grant) /\ (reply = "signed_out" => OptedIn(d))
    BY <1>2 DEF ServerStep, Unavailable, ServeRead, ServeMutation, ServeCeremony, ServeLogout, ServeRefresh,
                RefreshUnavailable
  <2> QED
    BY <2>1, <2>2, <1>1
<1>3. ASSUME NEW c \in Calls, CallStep(c) PROVE OnlyTheOptedIn'
  <2>1. ASSUME NEW d \in Calls PROVE wire'[d] \in {wire[d], Sent(jar)} \/ \E r : wire'[d] = Served(d, r)
    BY <1>3, OwnRequest, OthersUntouched
  <2>2. ASSUME NEW d \in Calls PROVE wire'[d].reply \in {wire[d].reply, "none"}
    <3>1. \A r : Served(d, r).reply = "none"
      BY DEF Served, Quiet
    <3> QED
      BY <2>1, <3>1 DEF Sent
  <2> QED
    BY <2>2 DEF OnlyTheOptedIn, OptedIn
<1>4. UNCHANGED wire => OnlyTheOptedIn'
  BY DEF OnlyTheOptedIn, OptedIn
<1>5. ASSUME NEW d \in Calls, FlightStep(d) PROVE UNCHANGED wire
  BY <1>5, Zenon DEF FlightStep, FlightReturns, FlightSettles, FlightFails
<1>6. ASSUME NEW g \in accessLive \cup refreshLive, AccessExpires(g) \/ SessionEnds(g)
      PROVE  UNCHANGED wire
  BY <1>6, Zenon DEF AccessExpires, SessionEnds
<1>7. UNCHANGED vars => UNCHANGED wire
  BY Zenon DEF vars
<1> QED
  BY <1>2, <1>3, <1>4, <1>5, <1>6, <1>7, Zenon DEF Next

\* A call has no result before it settles, and one that reads the body of a
\* renewal's 200 waited for a renewal that says "signed out".
ResultByPhase ==
  \A c \in Calls :
    /\ pc[c] # "settled" => result[c] = "none"
    /\ pc[c] = "judging" => /\ joined[c] \in Calls /\ flight[joined[c]].client = "settled"
                            /\ flight[joined[c]].outcome = "signed_out"

\* Settling a leg gives the call a result, or sends the mutation it confirms.
LEMMA SettleOutcome ==
  ASSUME TypeInv, JoinsOnce, NEW c \in Calls, NEW r, Settle(c, r)
  PROVE  \/ pc'[c] = "settled" /\ result'[c] \in {r, "aborted"} /\ sends' = sends
         \/ pc'[c] = "sent" /\ result' = result /\ c \in Mutations
BY DEF TypeInv, ClientTyped, Settle, JoinsOnce

\* The phases follow one another as ResultByPhase says.
LEMMA NextResultByPhase ==
  ASSUME TypeInv, JoinsOnce, ResultByPhase, [Next]_vars
  PROVE  ResultByPhase'
<1> SUFFICES ASSUME NEW c \in Calls
             PROVE  /\ pc'[c] # "settled" => result'[c] = "none"
                    /\ pc'[c] = "judging" => /\ joined'[c] \in Calls /\ flight'[joined'[c]].client = "settled"
                                             /\ flight'[joined'[c]].outcome = "signed_out"
  BY DEF ResultByPhase
<1>a. pc \in [Calls -> Phases] /\ joined \in [Calls -> Calls \cup {None}]
  BY DEF TypeInv, ClientTyped, RenewalTyped
<1>1 CASE pc'[c] = pc[c] /\ result'[c] = result[c] /\ joined'[c] = joined[c]
  BY <1>1, SettledFlight DEF ResultByPhase
<1>2 CASE UNCHANGED client
  BY <1>1, <1>2 DEF client
<1>3. ASSUME NEW d \in Calls \ {c}, CallStep(d)
      PROVE  pc'[c] = pc[c] /\ result'[c] = result[c] /\ joined'[c] = joined[c]
  BY <1>3, OthersUntouched
<1>4. ASSUME NEW r, Settle(c, r), pc[c] # "settled"
      PROVE  (pc'[c] # "settled" => result'[c] = "none") /\ pc'[c] # "judging"
  BY <1>4, SettleOutcome DEF ResultByPhase
<1>5 CASE CallStep(c)
  <2>1 CASE Start(c)
    BY <2>1, <1>a DEF Start, ResultByPhase
  <2>2 CASE Receive(c)
    <3>1. (pc'[c] = "reading" /\ result' = result) \/ \E r : Settle(c, r)
      BY <2>2, <1>a DEF Receive
    <3> QED
      BY <2>2, <3>1, <1>4 DEF Receive, AwaitsFetch, ResultByPhase
  <2>3 CASE Abort(c)
    <3>1 CASE pc[c] \in {"reading", "judging"}
      BY <2>3, <3>1, <1>1, Zenon DEF Abort
    <3>2 CASE pc[c] \notin {"reading", "judging"}
      BY <2>3, <3>2, <1>4 DEF Abort
    <3> QED
      BY <3>1, <3>2
  <2>4 CASE Lose(c)
    BY <2>4, <1>4 DEF Lose, AwaitsFetch
  <2>5 CASE Resume(c)
    <3>1 CASE (\E r : Settle(c, r)) \/ Resend(c)
      BY <2>5, <3>1, <1>4, <1>a DEF Resume, Resend, ResultByPhase
    <3>2 CASE /\ pc' = [pc EXCEPT ![c] = "judging"] /\ UNCHANGED result
              /\ flight[joined[c]].outcome = "signed_out"
      BY <2>5, <3>2, <1>a DEF Resume, ResultByPhase, renewal, TypeInv, RenewalTyped, WaitsForOne
    <3> QED
      BY <2>5, <3>1, <3>2, Zenon DEF Resume
  <2>6. ASSUME NEW readable \in BOOLEAN, ReadBody(c, readable)
        PROVE  /\ pc'[c] # "settled" => result'[c] = "none"
               /\ pc'[c] # "judging"
    <3>1. (\E r : Settle(c, r)) \/ Resend(c) \/ JoinRenewal(c)
      BY <2>6, Zenon DEF ReadBody
    <3> QED
      BY <2>6, <3>1, <1>4, <1>a DEF ReadBody, Resend, JoinRenewal, ResultByPhase
  <2>7. ASSUME NEW readable \in BOOLEAN, Judge(c, readable)
        PROVE  /\ pc'[c] # "settled" => result'[c] = "none"
               /\ pc'[c] # "judging"
    BY <2>7, <1>4 DEF Judge
  <2>8 CASE CookiesArrive(c)
    BY <2>8, <1>2 DEF CookiesArrive
  <2> QED
    BY <1>5, <2>1, <2>2, <2>3, <2>4, <2>5, <2>6, <2>7, <2>8, Zenon DEF CallStep
<1> QED
  BY <1>1, <1>2, <1>3, <1>5, ClientSteps

\* While a body is read, its answer is there, and one bff() reads the body of.
AnswerInHand ==
  \A c \in Calls :
    pc[c] = "reading" => /\ wire[c].st = "back"
                         /\ wire[c].reply \in {"ok", "signed_out", "unauthorized"}

\* A request stays where it is while its answer is read.
LEMMA NextAnswerInHand ==
  ASSUME TypeInv, AnswerInHand, [Next]_vars
  PROVE  AnswerInHand'
<1> USE DEF AnswerInHand
<1> SUFFICES ASSUME NEW c \in Calls, pc'[c] = "reading"
             PROVE  wire'[c].st = "back" /\ wire'[c].reply \in {"ok", "signed_out", "unauthorized"}
  OBVIOUS
<1>a. pc \in [Calls -> Phases]
  BY DEF TypeInv, ClientTyped
<1>1 CASE ~CallStep(c)
  <2>1. pc'[c] = pc[c]
    BY <1>1, ClientSteps, OthersUntouched DEF client
  <2> QED
    BY <1>1, <2>1, WireSteps
<1>2 CASE CallStep(c)
  <2>1. ASSUME NEW r, Settle(c, r) PROVE FALSE
    BY <2>1, <1>a DEF Settle
  <2>2. ~Resend(c) /\ ~JoinRenewal(c)
    BY <1>a DEF Resend, JoinRenewal
  <2>3 CASE Start(c) \/ Lose(c) \/ Resume(c)
    BY <2>1, <2>2, <2>3, <1>a DEF Start, Lose, Resume
  <2>4 CASE Receive(c)
    <3>1. wire[c].st = "back" /\ MustReadBody(c, wire[c].reply) /\ UNCHANGED wire
      BY <2>1, <2>4, Zenon DEF Receive
    <3> QED
      BY <3>1 DEF MustReadBody
  <2>5 CASE Abort(c)
    BY <2>1, <2>5, Zenon DEF Abort
  <2>6 CASE \E readable \in BOOLEAN : ReadBody(c, readable) \/ Judge(c, readable)
    BY <2>1, <2>2, <2>6, Zenon DEF ReadBody, Judge
  <2>7 CASE CookiesArrive(c)
    BY <2>7 DEF CookiesArrive, client
  <2> QED
    BY <1>2, <2>3, <2>4, <2>5, <2>6, <2>7 DEF CallStep
<1> QED
  BY <1>1, <1>2

\* A read that was refused as unauthorized, and one that ends with the refusal
\* as it came, had presented an access token the server no longer accepts.
RefusedIsDead ==
  \A c \in Probes \cup Reads :
    wire[c].reply = "unauthorized" \/ result[c] = "bare" => wire[c].cred \notin accessLive

\* What the server says of a read.
LEMMA ReadAnswers ==
  ASSUME TypeInv, [Next]_vars, NEW c \in Probes \cup Reads, ~CallStep(c)
  PROVE  \/ wire'[c] = wire[c]
         \/ wire'[c] = Served(c, result[c])
         \/ /\ wire'[c].cred = wire[c].cred
            /\ wire'[c].reply = "unauthorized" => wire[c].cred \notin accessLive
<1>a. c \in Calls /\ wire \in [Calls -> Requests]
  BY DEF TypeInv, ClientTyped, Calls
<1> DEFINE Says(d) == \/ wire'[d] = wire[d]
                      \/ wire'[d] = Served(d, result[d])
                      \/ /\ wire'[d].cred = wire[d].cred
                         /\ wire'[d].reply = "unauthorized" => wire[d].cred \notin accessLive
<1>1. ASSUME NEW d \in Calls \ {c}, CallStep(d) PROVE wire'[c] = wire[c]
  BY <1>1, <1>a, OthersUntouched
<1>2. ASSUME NEW d \in Calls \ {c}, ServerStep(d) PROVE wire'[c] = wire[c]
  <2>1. UNCHANGED wire \/ \E reply, grant : Answer(d, reply, grant)
    BY <1>2 DEF ServerStep, Unavailable, ServeRead, ServeMutation, ServeCeremony, ServeLogout, ServeRefresh,
                RefreshUnavailable
  <2> QED
    BY <1>a, <2>1 DEF Answer
<1>3. ASSUME NEW reply, NEW grant, Answer(c, reply, grant),
             reply = "unauthorized" => wire[c].cred \notin accessLive
      PROVE  Says(c)
  BY <1>3, <1>a DEF Answer
<1>4. ASSUME ServerStep(c) PROVE Says(c)
  <2>1. c \notin Mutations /\ c \notin Ceremonies /\ c \notin Logouts
    BY KindsAssumption
  <2>2. UNCHANGED wire \/ Unavailable(c) \/ ServeRead(c)
    BY <1>4, <2>1, Zenon DEF ServerStep, ServeMutation, ServeCeremony, ServeLogout, ServeRefresh,
                             RefreshUnavailable
  <2>3. Unavailable(c) => Answer(c, "unavailable", 0)
    BY DEF Unavailable
  <2>4. ServeRead(c) => \E reply : Answer(c, reply, 0)
                                   /\ (reply = "unauthorized" => wire[c].cred \notin accessLive)
    BY DEF ServeRead
  <2> QED
    BY <1>3, <2>2, <2>3, <2>4
<1>5. ASSUME NEW d \in Calls, FlightStep(d) PROVE UNCHANGED wire
  BY <1>5, Zenon DEF FlightStep, FlightReturns, FlightSettles, FlightFails
<1>6. ASSUME NEW g \in accessLive \cup refreshLive, AccessExpires(g) \/ SessionEnds(g) PROVE UNCHANGED wire
  BY <1>6, Zenon DEF AccessExpires, SessionEnds
<1>7. UNCHANGED vars => UNCHANGED wire
  BY Zenon DEF vars
<1>8. UNCHANGED wire => Says(c)
  OBVIOUS
<1> HIDE DEF Says
<1>9. Says(c) \/ wire'[c] = wire[c]
  BY <1>1, <1>2, <1>4, <1>5, <1>6, <1>7, <1>8, Zenon DEF Next
<1> QED
  BY <1>9, Zenon DEF Says

\* A read ends with a bare refusal only as it was refused.
LEMMA NextRefusedIsDead ==
  ASSUME TypeInv, PairsIssued, ResultByPhase, JoinsOnce, AnswerInHand, RefusedIsDead, [Next]_vars
  PROVE  RefusedIsDead'
<1> SUFFICES ASSUME NEW c \in Probes \cup Reads, wire'[c].reply = "unauthorized" \/ result'[c] = "bare"
             PROVE  wire'[c].cred \notin accessLive'
  BY DEF RefusedIsDead
<1>a. /\ c \in Calls /\ wire \in [Calls -> Requests] /\ result \in [Calls -> Results \cup {"none"}]
      /\ pc \in [Calls -> Phases] /\ ~confirming[c] /\ accessLive \subseteq 1..issued /\ issued \in Nat
  <2>1. c \in Calls /\ ~confirming[c]
    BY KindsAssumption DEF Calls, JoinsOnce
  <2> QED
    BY <2>1 DEF TypeInv, ClientTyped, ServerTyped, issued
<1>b. ASSUME wire'[c].cred \in {wire[c].cred, 0}, wire[c].cred \notin accessLive
      PROVE  wire'[c].cred \notin accessLive'
  <2>1. 0 \notin accessLive /\ 0 \in 0..issued
    BY <1>a
  <2> QED
    BY <1>a, <1>b, <2>1, DeadStays DEF PairsIssued
<1>c. ASSUME NEW r, wire'[c] = Served(c, r), wire'[c].cred = 0 PROVE wire'[c].cred \notin accessLive'
  <2>1. 0 \notin accessLive /\ 0 \in 0..issued
    BY <1>a
  <2> QED
    BY <1>c, <2>1, DeadStays
<1>d. \A r : Served(c, r).cred \in {wire[c].cred, 0} /\ Served(c, r).reply = "none"
  BY DEF Served, Quiet
<1>1 CASE ~CallStep(c)
  <2>1. result'[c] = result[c]
    BY <1>1, <1>a, ClientSteps, OthersUntouched DEF client
  <2>2 CASE wire'[c] = wire[c]
    BY <2>1, <2>2, <1>b DEF RefusedIsDead
  <2>3 CASE wire'[c] = Served(c, result[c])
    BY <2>1, <2>3, <1>b, <1>d DEF RefusedIsDead
  <2>4 CASE /\ wire'[c].cred = wire[c].cred
            /\ wire'[c].reply = "unauthorized" => wire[c].cred \notin accessLive
    BY <2>1, <2>4, <1>b DEF RefusedIsDead
  <2> QED
    BY <1>1, <2>2, <2>3, <2>4, ReadAnswers
<1>2 CASE CallStep(c)
  <2>1. ASSUME NEW r, Settle(c, r) PROVE result'[c] = r /\ wire'[c] \in {wire[c], Served(c, r)}
    <3>1. result'[c] = r /\ wire'[c] = Left(c, r)
      BY <2>1, <1>a DEF Settle
    <3> QED
      BY <3>1, Zenon DEF Left
  <2>2. ASSUME wire'[c] = wire[c], result'[c] = result[c] PROVE wire'[c].cred \notin accessLive'
    BY <2>2, <1>b DEF RefusedIsDead
  <2>3. ASSUME NEW r, Settle(c, r), r # "bare" PROVE wire'[c].cred \notin accessLive'
    BY <2>1, <2>3, <1>b, <1>d DEF RefusedIsDead
  <2>4. ASSUME Send(c), UNCHANGED result, pc[c] # "settled" PROVE FALSE
    <3>1. wire'[c].reply = "none" /\ result'[c] = "none"
      BY <2>4, <1>a DEF Send, Sent, ResultByPhase
    <3> QED
      BY <3>1
  <2>5 CASE Start(c)
    BY <2>4, <2>5 DEF Start
  <2>6 CASE Receive(c)
    <3>1. wire[c].reply # "bare"
      BY <1>a DEF Requests, Replies
    <3>2. UNCHANGED <<wire, result>> \/ \E r : r # "bare" /\ Settle(c, r)
      BY <2>6, <3>1 DEF Receive, Told
    <3> QED
      BY <3>2, <2>2, <2>3
  <2>7 CASE Abort(c) \/ Lose(c)
    BY <2>2, <2>3, <2>7 DEF Abort, Lose
  <2>8 CASE Resume(c)
    <3>1. flight[joined[c]].outcome # "bare"
      BY <2>8, <1>a DEF Resume, TypeInv, RenewalTyped, WaitsForOne, Flights, RefreshOutcomes
    <3>2. \/ \E r : r # "bare" /\ Settle(c, r)
          \/ UNCHANGED <<wire, result>>
          \/ Send(c) /\ UNCHANGED result
      BY <2>8, <3>1 DEF Resume, Resend
    <3> QED
      BY <2>8, <3>2, <2>2, <2>3, <2>4 DEF Resume
  <2>9. ASSUME NEW readable \in BOOLEAN, ReadBody(c, readable) PROVE wire'[c].cred \notin accessLive'
    <3> DEFINE told == IF readable THEN wire[c].reply
                       ELSE IF wire[c].reply \in {"ok", "signed_out"} THEN "blank" ELSE "bare"
    <3>1. /\ pc[c] = "reading"
          /\ \/ Settle(c, told)
             \/ Settle(c, "aborted")
             \/ UNCHANGED <<wire, result>>
             \/ Send(c) /\ UNCHANGED result
      BY <2>9, Zenon DEF ReadBody, Resend, JoinRenewal
    <3>2. told = "bare" => wire[c].reply = "unauthorized"
      BY <1>a, <3>1 DEF AnswerInHand
    <3> HIDE DEF told
    <3>3 CASE Settle(c, told) /\ told = "bare"
      BY <3>2, <3>3, <2>1, <1>b, <1>d DEF RefusedIsDead
    <3> QED
      BY <3>1, <3>3, <2>2, <2>3, <2>4
  <2>10. ASSUME NEW readable \in BOOLEAN, Judge(c, readable) PROVE wire'[c].cred \notin accessLive'
    BY <2>10, <2>3 DEF Judge
  <2>11 CASE CookiesArrive(c)
    <3>1. result' = result /\ wire'[c] = Served(c, result[c])
      BY <2>11, <1>a DEF CookiesArrive, client
    <3> QED
      BY <3>1, <1>b, <1>d DEF RefusedIsDead
  <2> QED
    BY <1>2, <2>5, <2>6, <2>7, <2>8, <2>9, <2>10, <2>11, Zenon DEF CallStep
<1> QED
  BY <1>1, <1>2

\* What makes a verdict real in every state the tab can reach.
VerdictInv ==
  /\ TypeInv /\ SendsByPhase /\ JoinsOnce /\ PairsIssued /\ DeadWhenRefused
  /\ OnlyTheOptedIn /\ ResultByPhase /\ AnswerInHand /\ RefusedIsDead

\* The verdicts that are not a bare refusal.
Judgements == {"signed_out", "unauthorized"}

\* The renewal a call waited for presented a token that is dead.
JoinedDead(c) == joined[c] # None /\ flight[joined[c]].cred \notin refreshLive

\* Dead tokens stay dead, so a verdict that was real stays so.
LEMMA JoinedDeadStays ==
  ASSUME VerdictInv, [Next]_vars, NEW c \in Calls, JoinedDead(c), joined'[c] = joined[c]
  PROVE  JoinedDead(c)'
<1>1. joined[c] \in Calls
  BY DEF VerdictInv, TypeInv, RenewalTyped, JoinedDead
<1>2. flight'[joined[c]].cred = flight[joined[c]].cred
  BY <1>1, FlightsLast DEF VerdictInv, JoinsOnce, JoinedDead
<1>3. flight[joined[c]].cred \notin refreshLive'
  BY <1>1, DeadStays DEF VerdictInv, PairsIssued, JoinedDead
<1> QED
  BY <1>2, <1>3 DEF JoinedDead

\* A step tells a read it is signed out or unauthorized only with cause.
LEMMA NextVerdictIsReal ==
  ASSUME VerdictInv, VerdictInv', VerdictIsReal, [Next]_vars
  PROVE  VerdictIsReal'
<1> SUFFICES ASSUME NEW c \in Probes \cup Reads, result'[c] \in Judgements
             PROVE  sends'[c] = 2 \/ JoinedDead(c)'
  BY DEF VerdictIsReal, JoinedDead, VerdictInv, RefusedIsDead, Verdicts, Judgements
<1>a. c \in Calls /\ c \notin Mutations
  BY KindsAssumption DEF Calls
<1>b. ASSUME NEW d \in Calls PROVE wire[d].reply \in Replies \cup {"none"}
  BY DEF VerdictInv, TypeInv, ClientTyped, Requests
<1>1 CASE result'[c] = result[c] /\ sends'[c] = sends[c] /\ joined'[c] = joined[c]
  BY <1>1, <1>a, JoinedDeadStays DEF VerdictIsReal, JoinedDead, Verdicts, Judgements
<1>2. ASSUME NEW d \in Calls \ {c}, CallStep(d)
      PROVE  result'[c] = result[c] /\ sends'[c] = sends[c] /\ joined'[c] = joined[c]
  BY <1>2, <1>a, OthersUntouched DEF VerdictInv
<1>3 CASE UNCHANGED client
  BY <1>1, <1>3 DEF client
\* A step of the call itself that settles it with r.
<1>4. ASSUME NEW r, Settle(c, r), r \in Judgements => sends[c] = 2 \/ JoinedDead(c),
             joined'[c] = joined[c]
      PROVE  sends'[c] = 2 \/ JoinedDead(c)'
  <2>1. result'[c] \in {r, "aborted"} /\ sends' = sends
    BY <1>4, <1>a, SettleOutcome DEF VerdictInv
  <2>2. r \in Judgements
    BY <2>1 DEF Judgements
  <2> QED
    BY <1>4, <1>a, <2>1, <2>2, JoinedDeadStays
<1>5. pc[c] # "settled" => result[c] \notin Judgements
  BY <1>a DEF VerdictInv, ResultByPhase, Judgements
<1>6 CASE CallStep(c)
  <2>1 CASE Start(c)
    BY <2>1, <1>5 DEF Start
  <2>2 CASE Receive(c)
    <3>1 CASE MustReadBody(c, wire[c].reply)
      BY <2>2, <3>1, <1>5 DEF Receive, AwaitsFetch
    <3>2 CASE ~MustReadBody(c, wire[c].reply)
      <4>1. PICK r \in Told(c) : Settle(c, r)
        BY <2>2, <3>2 DEF Receive
      <4>2. r \in Judgements => r = wire[c].reply
        BY <4>1 DEF Told, Judgements
      <4>3. r \in Judgements => pc[c] = "resent"
        BY <2>2, <3>2, <4>2, <1>a DEF Receive, AwaitsFetch, MustReadBody, RenewableRead, Judgements,
                                      VerdictInv, OnlyTheOptedIn
      <4>4. r \in Judgements => sends[c] = 2
        BY <4>3, <1>a DEF VerdictInv, SendsByPhase
      <4> QED
        BY <2>2, <4>1, <4>4, <1>4 DEF Receive
    <3> QED
      BY <3>1, <3>2
  <2>3 CASE Abort(c)
    <3>1 CASE pc[c] \in {"reading", "judging"}
      BY <2>3, <3>1, <1>5 DEF Abort
    <3>2 CASE pc[c] \notin {"reading", "judging"}
      BY <2>3, <3>2, <1>4 DEF Abort, Judgements
    <3> QED
      BY <3>1, <3>2
  <2>4 CASE Lose(c)
    BY <2>4, <1>4 DEF Lose, Judgements
  <2>5 CASE Resume(c)
    <3> DEFINE o == flight[joined[c]].outcome
    <3>1. joined[c] \in Calls /\ joined[c] # None /\ o \in RefreshOutcomes
      BY <2>5, <1>a, KindsAssumption DEF Resume, VerdictInv, TypeInv, RenewalTyped, WaitsForOne, Flights
    <3>2. o \in {"signed_out", "refused"} => JoinedDead(c)
      BY <3>1 DEF VerdictInv, DeadWhenRefused, JoinedDead
    <3>3. \/ UNCHANGED result
          \/ o = "refused" /\ Settle(c, "unauthorized")
          \/ o \notin {"refused", "renewed"} /\ Settle(c, o)
      BY <2>5, Zenon DEF Resume, Resend
    <3>4. o \in Judgements => o = "signed_out"
      BY <3>1 DEF RefreshOutcomes, Judgements
    <3>5. joined' = joined
      BY <2>5 DEF Resume
    <3> HIDE DEF o
    <3> QED
      BY <2>5, <3>2, <3>3, <3>4, <3>5, <1>4, <1>5 DEF Resume
  <2>6. ASSUME NEW readable \in BOOLEAN, ReadBody(c, readable) PROVE sends'[c] = 2 \/ JoinedDead(c)'
    <3> DEFINE r == wire[c].reply
               renew == readable /\ r \in {"signed_out", "unauthorized"}
    <3>1 CASE ~renew
      <4>1. PICK v \in {r, "blank", "bare"} : Settle(c, v) /\ (v \in Judgements => FALSE)
        BY <2>6, <3>1 DEF ReadBody, Judgements
      <4>2. joined' = joined
        BY <2>6, <3>1, Zenon DEF ReadBody
      <4> QED
        BY <4>1, <4>2, <1>4
    <3>2 CASE renew /\ aborted[c]
      BY <2>6, <3>2, <1>4 DEF ReadBody, Judgements
    <3>3 CASE renew /\ ~aborted[c]
      <4>1. UNCHANGED result
        BY <2>6, <3>3, Zenon DEF ReadBody, Resend, JoinRenewal
      <4> QED
        BY <2>6, <4>1, <1>5 DEF ReadBody
    <3> QED
      BY <3>1, <3>2, <3>3
  <2>7. ASSUME NEW readable \in BOOLEAN, Judge(c, readable) PROVE sends'[c] = 2 \/ JoinedDead(c)'
    <3>1. JoinedDead(c)
      BY <2>7, <1>a, KindsAssumption DEF Judge, VerdictInv, ResultByPhase, DeadWhenRefused, JoinedDead
    <3> QED
      BY <2>7, <3>1, <1>4 DEF Judge
  <2>8 CASE CookiesArrive(c)
    BY <2>8, <1>3 DEF CookiesArrive
  <2> QED
    BY <1>6, <2>1, <2>2, <2>3, <2>4, <2>5, <2>6, <2>7, <2>8, Zenon DEF CallStep
<1> QED
  BY <1>1, <1>2, <1>3, <1>6, <1>a, ClientSteps DEF VerdictInv

\* The verdict invariant holds as the tab opens and is kept by every step.
LEMMA InitVerdictInv == Init => VerdictInv
<1> SUFFICES ASSUME Init PROVE VerdictInv
  OBVIOUS
<1>1. \A c \in Calls : wire[c] = Quiet /\ flight[c] = NoFlight /\ pc[c] = "idle" /\ result[c] = "none"
                       /\ sends[c] = 0
  BY DEF Init
<1>2. SendsByPhase /\ DeadWhenRefused /\ OnlyTheOptedIn /\ ResultByPhase /\ AnswerInHand
  BY <1>1 DEF SendsByPhase, DeadWhenRefused, OnlyTheOptedIn, ResultByPhase, AnswerInHand, Quiet, NoFlight
<1>3. RefusedIsDead
  BY <1>1 DEF RefusedIsDead, Quiet, Calls
<1> QED
  BY <1>2, <1>3, InitTypeInv, InitJoinsOnce, InitPairs DEF VerdictInv

\* Each of its parts is kept, given the others.
LEMMA NextVerdictInv == VerdictInv /\ [Next]_vars => VerdictInv'
BY NextTypeInv, NextSendsByPhase, NextJoinsOnce, NextPairsIssued, NextDeadWhenRefused, NextOnlyTheOptedIn,
   NextResultByPhase, NextAnswerInHand, NextRefusedIsDead, Zenon DEF VerdictInv

\* A read is told it is signed out, or unauthorized, only when the token it
\* could renew with is dead, or when a second answer refused it again: no
\* outage, lost answer or cancellation becomes a verdict (bff.ts). A refusal
\* whose body was lost, handed on unread, is at least one of a dead access token.
THEOREM VerdictIsRealHolds == Spec => []VerdictIsReal
<1>1. Init => VerdictInv /\ VerdictIsReal
  <2>1. Init => VerdictIsReal
    BY DEF Init, VerdictIsReal, Verdicts, Calls
  <2> QED
    BY <2>1, InitVerdictInv
<1>2. VerdictInv /\ VerdictIsReal /\ [Next]_vars => VerdictInv' /\ VerdictIsReal'
  BY NextVerdictInv, NextVerdictIsReal
<1> QED
  BY <1>1, <1>2, PTL DEF Spec

-----------------------------------------------------------------------------
(* Signing out.                                                            *)

\* A session none of whose pairs is accepted stays so: neither a renewal nor
\* a sign-in adds to it.
LEMMA SessionStaysDead ==
  ASSUME TypeInv, SessionsNamed, [Next]_vars, NEW g \in 0..issued,
         SameSession(g) \cap (accessLive \cup refreshLive) = {}
  PROVE  SameSession(g)' \cap (accessLive \cup refreshLive)' = {}
<1>a. /\ family \in Seq(Nat) /\ refreshLive \subseteq 1..issued /\ accessLive \subseteq 1..issued
      /\ issued \in Nat /\ issued = Len(family)
  BY DEF TypeInv, ServerTyped, issued
<1> SUFFICES ASSUME NEW h \in 1..issued', g \in 1..issued', family'[h] = family'[g],
                    h \in accessLive' \cup refreshLive'
             PROVE  FALSE
  BY DEF SameSession
<1>b. /\ issued' \in {issued, issued + 1} /\ g \in 1..issued
      /\ \A n \in 1..issued : family'[n] = family[n]
  BY <1>a, FamilyGrows
<1>1 CASE h \in 1..issued /\ h \in accessLive \cup refreshLive
  BY <1>1, <1>b DEF SameSession
<1>2 CASE family' = family /\ accessLive' \subseteq accessLive /\ refreshLive' \subseteq refreshLive
  BY <1>2, <1>a, <1>1
<1>3. ASSUME accessLive' = accessLive \cup {issued + 1}, refreshLive' \subseteq refreshLive \cup {issued + 1},
             NEW s \in Nat, family' = Append(family, s), family[g] # s
      PROVE  FALSE
  <2>1. family'[issued + 1] = s
    BY <1>3, <1>a
  <2>2. h # issued + 1
    BY <2>1, <1>3, <1>b
  <2> QED
    BY <2>2, <1>1, <1>3, <1>a
<1>4 CASE /\ family' = Append(family, issued + 1) /\ accessLive' = accessLive \cup {issued + 1}
          /\ refreshLive' = refreshLive \cup {issued + 1}
  <2>1. family[g] # issued + 1 /\ issued + 1 \in Nat
    BY <1>a, <1>b DEF SessionsNamed
  <2> QED
    BY <2>1, <1>4, <1>3
<1>5. ASSUME NEW r \in refreshLive, family' = Append(family, family[r]),
             accessLive' = accessLive \cup {issued + 1}, refreshLive' = (refreshLive \ {r}) \cup {issued + 1}
      PROVE  FALSE
  <2>1. r \in 1..issued /\ family[r] \in Nat
    BY <1>a, <1>5
  <2>2. family[g] # family[r]
    BY <1>b, <1>5, <2>1 DEF SameSession
  <2> QED
    BY <2>1, <2>2, <1>5, <1>3
<1> QED
  BY <1>2, <1>4, <1>5, FamilySteps

\* A logout the server confirmed has ended its whole session.
RevokedIsDead ==
  \A c \in Logouts :
    "revoked" \in {wire[c].reply, result[c]}
      => SameSession(wire[c].cred) \cap (accessLive \cup refreshLive) = {}

\* A logout's request keeps the pair it named when it is given up.
LEMMA NamedPairKept ==
  ASSUME NEW c \in Logouts, NEW r
  PROVE  Served(c, r).cred = wire[c].cred /\ Left(c, r).cred = wire[c].cred
BY DEF Left, Served, Quiet

\* What a call settles with was on the wire, or is not a logout's answer.
LEMMA RevokedOnTheWire ==
  ASSUME TypeInv, JoinsOnce, ResultByPhase, NEW c \in Logouts, CallStep(c),
         "revoked" \in {wire'[c].reply, result'[c]}
  PROVE  "revoked" \in {wire[c].reply, result[c]} /\ wire'[c].cred = wire[c].cred
<1>a. c \in Calls /\ c \notin Mutations /\ ~confirming[c]
  BY KindsAssumption, Zenon DEF Calls, JoinsOnce
<1>b. /\ wire \in [Calls -> Requests] /\ pc \in [Calls -> Phases]
      /\ result \in [Calls -> Results \cup {"none"}] /\ c \notin Ceremonies
  BY KindsAssumption DEF TypeInv, ClientTyped
<1>1. ASSUME NEW r, Settle(c, r)
      PROVE  (result'[c] = r) /\ wire'[c] = Left(c, r)
  BY <1>1, <1>a, <1>b DEF Settle
<1>2. ASSUME NEW r, Settle(c, r), r # "revoked"
      PROVE  "revoked" \in {wire[c].reply, result[c]} /\ wire'[c].cred = wire[c].cred
  <2>1. wire'[c].cred = wire[c].cred /\ wire'[c].reply \in {wire[c].reply, "none"}
    BY <1>1, <1>2, NamedPairKept DEF Left, Served, Quiet
  <2> QED
    BY <2>1, <1>1, <1>2
<1>3. ASSUME Send(c), UNCHANGED result, pc[c] # "settled" PROVE FALSE
  BY <1>3, <1>a, <1>b DEF Send, Sent, ResultByPhase
<1>4. ASSUME wire'[c] = wire[c], result'[c] = result[c]
      PROVE  "revoked" \in {wire[c].reply, result[c]} /\ wire'[c].cred = wire[c].cred
  BY <1>4
<1>5. ASSUME NEW r, Settle(c, r), r = wire[c].reply
      PROVE  "revoked" \in {wire[c].reply, result[c]} /\ wire'[c].cred = wire[c].cred
  <2>1. wire'[c].cred = wire[c].cred /\ wire'[c].reply \in {wire[c].reply, "none"}
    BY <1>1, <1>5, NamedPairKept DEF Left, Served, Quiet
  <2> QED
    BY <2>1, <1>1, <1>5
<1>6 CASE Start(c)
  BY <1>6, <1>3 DEF Start
<1>7 CASE Receive(c)
  <2>1. (UNCHANGED <<wire, result>>) \/ \E r \in {wire[c].reply, "blank"} : Settle(c, r)
    BY <1>7 DEF Receive, Told
  <2> QED
    BY <2>1, <1>2, <1>4, <1>5
<1>8 CASE Abort(c) \/ Lose(c)
  BY <1>8, <1>2, <1>4 DEF Abort, Lose
<1>9 CASE Resume(c)
  <2>1. flight[joined[c]].outcome # "revoked"
    BY <1>a, <1>9 DEF Resume, TypeInv, RenewalTyped, WaitsForOne, Flights, RefreshOutcomes
  <2>2. \/ \E r : r # "revoked" /\ Settle(c, r)
        \/ UNCHANGED <<wire, result>>
        \/ Send(c) /\ UNCHANGED result
    BY <1>9, <2>1 DEF Resume, Resend
  <2> QED
    BY <1>9, <2>2, <1>2, <1>3, <1>4 DEF Resume
<1>10. ASSUME NEW readable \in BOOLEAN, ReadBody(c, readable) \/ Judge(c, readable)
       PROVE  "revoked" \in {wire[c].reply, result[c]} /\ wire'[c].cred = wire[c].cred
  <2>1. /\ pc[c] # "settled"
        /\ \/ \E r : (r # "revoked" \/ r = wire[c].reply) /\ Settle(c, r)
           \/ UNCHANGED <<wire, result>>
           \/ Send(c) /\ UNCHANGED result
    BY <1>10 DEF ReadBody, Judge, Resend, JoinRenewal
  <2> QED
    BY <2>1, <1>2, <1>3, <1>4, <1>5
<1>11 CASE CookiesArrive(c)
  <2>1. wire'[c] = Served(c, result[c]) /\ result'[c] = result[c]
    BY <1>11, <1>a, <1>b DEF CookiesArrive, client
  <2>2. Served(c, result[c]).cred = wire[c].cred
    BY NamedPairKept
  <2>3. Served(c, result[c]).reply = "none"
    BY DEF Served, Quiet
  <2>4. result[c] = "revoked"
    BY <2>1, <2>3
  <2>5. wire'[c].cred = wire[c].cred
    BY <2>1, <2>2
  <2> QED
    BY <2>4, <2>5
<1> QED
  BY <1>6, <1>7, <1>8, <1>9, <1>10, <1>11, Zenon DEF CallStep

\* The server says "revoked" as it ends the session the request names.
LEMMA NextRevokedIsDead ==
  ASSUME VerdictInv, SessionsNamed, RevokedIsDead, [Next]_vars
  PROVE  RevokedIsDead'
<1> USE DEF VerdictInv
<1> SUFFICES ASSUME NEW c \in Logouts, "revoked" \in {wire'[c].reply, result'[c]}
             PROVE  SameSession(wire[c].cred)' \cap (accessLive \cup refreshLive)' = {}
  BY DEF RevokedIsDead
<1>a. c \in Calls /\ wire \in [Calls -> Requests]
  BY DEF Calls, TypeInv, ClientTyped
<1>1. ASSUME "revoked" \in {wire[c].reply, result[c]}, wire'[c].cred = wire[c].cred
      PROVE  SameSession(wire[c].cred)' \cap (accessLive \cup refreshLive)' = {}
  <2>1. wire[c].cred \in 0..issued
    BY <1>a DEF PairsIssued
  <2> DEFINE g == wire[c].cred
  <2>2. SameSession(g) \cap (accessLive \cup refreshLive) = {}
    BY <1>1 DEF RevokedIsDead
  <2>3. {h \in 1..issued' : g \in 1..issued' /\ family'[h] = family'[g]} \cap (accessLive' \cup refreshLive') = {}
    <3> HIDE DEF g
    <3>1. g \in 0..issued
      BY <2>1 DEF g
    <3> QED
      BY <2>2, <3>1, SessionStaysDead DEF SameSession
  <2> QED
    BY <2>3, <1>1 DEF SameSession
<1>2 CASE CallStep(c)
  BY <1>2, <1>1, RevokedOnTheWire
<1>3. ASSUME NEW d \in Calls \ {c}, CallStep(d) PROVE wire'[c] = wire[c] /\ result'[c] = result[c]
  BY <1>3, <1>a, OthersUntouched
<1>4. ASSUME NEW d \in Calls, ServerStep(d)
      PROVE  wire'[c] = wire[c] \/ wire'[c] = Served(c, result[c]) \/ Unavailable(c) \/ ServeLogout(c)
  <2>1. ASSUME NEW reply, NEW grant, Answer(d, reply, grant), d # c PROVE wire'[c] = wire[c]
    BY <1>a, <2>1 DEF Answer
  <2>2. UNCHANGED wire \/ \E reply, grant : Answer(d, reply, grant)
    BY <1>4 DEF ServerStep, Unavailable, ServeRead, ServeMutation, ServeCeremony, ServeLogout, ServeRefresh,
                RefreshUnavailable
  <2>3 CASE d = c /\ ~UNCHANGED wire
    <3>1. c \notin Mutations /\ c \notin Ceremonies /\ ~RenewableRead(c)
      BY KindsAssumption, Zenon DEF RenewableRead
    <3>2. Unavailable(c) \/ ServeLogout(c) \/ UNCHANGED wire
      BY <1>4, <2>3, <3>1, Zenon DEF ServerStep, ServeRead, ServeMutation, ServeCeremony, ServeRefresh,
                                     RefreshUnavailable
    <3> QED
      BY <2>3, <3>2
  <2> QED
    BY <2>1, <2>2, <2>3
<1>5. ASSUME UNCHANGED client, wire'[c] = wire[c] \/ wire'[c] = Served(c, result[c]) \/ Unavailable(c)
      PROVE  SameSession(wire[c].cred)' \cap (accessLive \cup refreshLive)' = {}
  <2>1. wire'[c].cred = wire[c].cred /\ wire'[c].reply \in {wire[c].reply, "none", "unavailable"}
    BY <1>5, <1>a, NamedPairKept DEF Unavailable, Answer, Served, Quiet
  <2>2. result' = result
    BY <1>5 DEF client
  <2> QED
    BY <2>1, <2>2, <1>1
<1>6 CASE ServeLogout(c)
  <2> DEFINE g == wire[c].cred
  <2>1. wire'[c].cred = g /\ UNCHANGED family
    BY <1>6, <1>a, NamedPairKept DEF ServeLogout, Answer
  <2>2 CASE Answer(c, "local_only", 0)
    <3>1. wire'[c].reply # "revoked" /\ result' = result
      BY <1>6, <1>a, <2>2 DEF ServeLogout, Answer, Served, Quiet, client
    <3> QED
      BY <3>1, <2>1, <1>1
  <2>3 CASE accessLive' = accessLive \ SameSession(g) /\ refreshLive' = refreshLive \ SameSession(g)
    BY <2>1, <2>3 DEF SameSession, issued
  <2> QED
    BY <1>6, <2>2, <2>3 DEF ServeLogout
<1>7. ASSUME NEW d \in Calls, FlightStep(d) PROVE UNCHANGED <<client, wire>>
  BY <1>7, Zenon DEF FlightStep, FlightReturns, FlightSettles, FlightFails
<1>8. ASSUME NEW g \in accessLive \cup refreshLive, AccessExpires(g) \/ SessionEnds(g)
      PROVE  UNCHANGED <<client, wire>>
  BY <1>8, Zenon DEF AccessExpires, SessionEnds
<1>9. UNCHANGED vars => UNCHANGED <<client, wire>>
  BY Zenon DEF vars
<1>10. ASSUME NEW d \in Calls, ServerStep(d) PROVE UNCHANGED client
  BY <1>10, Zenon DEF ServerStep, Unavailable, ServeRead, ServeMutation, ServeCeremony, ServeLogout,
                      ServeRefresh, RefreshUnavailable
<1>11. ASSUME NEW d \in Calls \ {c}, CallStep(d)
       PROVE  SameSession(wire[c].cred)' \cap (accessLive \cup refreshLive)' = {}
  BY <1>11, <1>3, <1>1
<1>12. UNCHANGED <<client, wire>> => wire'[c] = wire[c] /\ UNCHANGED client
  OBVIOUS
<1>13. ASSUME NEW d \in Calls, ServerStep(d)
       PROVE  SameSession(wire[c].cred)' \cap (accessLive \cup refreshLive)' = {}
  BY <1>13, <1>4, <1>5, <1>6, <1>10
<1> QED
  BY <1>2, <1>5, <1>7, <1>8, <1>9, <1>11, <1>12, <1>13, <1>a, Zenon DEF Next

\* The sign-in page says "signed out" only when the server has ended the whole
\* session the logout named, renewed pairs included (bff.ts signOutDestination()).
THEOREM SignOutIsHonestHolds == Spec => []SignOutIsHonest
<1>1. Init => VerdictInv /\ SessionsNamed /\ RevokedIsDead
  <2>1. Init => RevokedIsDead
    BY DEF Init, RevokedIsDead, Quiet, Calls
  <2> QED
    BY <2>1, InitVerdictInv, InitPairs
<1>2. VerdictInv /\ SessionsNamed /\ RevokedIsDead /\ [Next]_vars
        => VerdictInv' /\ SessionsNamed' /\ RevokedIsDead'
  BY NextVerdictInv, NextSessionsNamed, NextRevokedIsDead DEF VerdictInv
<1>3. RevokedIsDead => SignOutIsHonest
  BY DEF RevokedIsDead, SignOutIsHonest, SignOutReason
<1> QED
  BY <1>1, <1>2, <1>3, PTL DEF Spec

-----------------------------------------------------------------------------
(* Renewals rotate what was refused.                                       *)

\* The call's request presented an older pair of the session g belongs to.
Outdated(c, g) == wire[c].cred \in SameSession(g) /\ wire[c].cred < g

\* A pair that opens its session, like no pair at all, outdates no request.
LEMMA FreshPair ==
  ASSUME SessionsNamed, issued \in Nat, PairsIssued, NEW c \in Calls, NEW g \in 0..issued,
         g > 0 => family[g] = g
  PROVE  ~Outdated(c, g)
BY DEF SessionsNamed, PairsIssued, Outdated, SameSession

\* No step outdates a request by itself: it changes neither which session a
\* pair belongs to nor what the request presented.
LEMMA OutdatedBefore ==
  ASSUME TypeInv, PairsIssued, [Next]_vars, NEW c \in Calls, NEW g \in 0..issued,
         wire'[c].cred \in {wire[c].cred, 0},
         wire'[c].cred \in {h \in 1..issued' : g \in 1..issued' /\ family'[h] = family'[g]},
         wire'[c].cred < g
  PROVE  Outdated(c, g)
<1>a. /\ issued \in Nat /\ issued' \in {issued, issued + 1}
      /\ \A h \in 1..issued : family'[h] = family[h]
  BY FamilyGrows
<1>1. wire'[c].cred = wire[c].cred /\ wire[c].cred \in 1..issued /\ g \in 1..issued
  BY <1>a DEF PairsIssued
<1> QED
  BY <1>a, <1>1 DEF Outdated, SameSession

\* How a renewal stands at the server and with its callers: one the tab has
\* given up may still be served, and one that goes to the server has no pair
\* yet. Only a renewal that renews grants one.
FlightShape ==
  \A i \in Calls :
    /\ flight[i].st = "out" => flight[i].grant = 0
    /\ flight[i].st # "none" => flight[i].client = "pending" \/ flight[i].outcome = "rejected"
    /\ flight[i].client = "pending" => flight[i].st # "none"
    /\ flight[i].outcome = "rejected" => flight[i].client = "settled"
    /\ flight[i].grant > 0 => flight[i].outcome \in {"renewed", "rejected"}

\* Every step keeps it so.
LEMMA NextFlightShape ==
  ASSUME TypeInv, FlightShape, JoinsOnce, [Next]_vars
  PROVE  FlightShape'
<1> USE DEF FlightShape
<1>a. flight \in [Calls -> Flights]
  BY DEF TypeInv, RenewalTyped
<1>1 CASE UNCHANGED renewal
  BY <1>1 DEF renewal
<1>2. ASSUME NEW c \in Calls, JoinRenewal(c) PROVE FlightShape'
  BY <1>2, <1>a DEF JoinRenewal, Flights
<1>3. ASSUME NEW j \in Calls, FlightReturns(j) PROVE FlightShape'
  BY <1>3, <1>a DEF FlightReturns, Flights
<1>4. ASSUME NEW j \in Calls, FlightSettles(j) PROVE FlightShape'
  BY <1>4, <1>a DEF FlightSettles, Flights
<1>5. ASSUME NEW j \in Calls, FlightFails(j) PROVE FlightShape'
  BY <1>5, <1>a DEF FlightFails, Flights
<1>6. ASSUME NEW j \in Calls, flight[j].st = "out", NEW o, o # "rejected", NEW grant,
             AnswerFlight(j, o, grant), grant = 0 \/ o = "renewed"
      PROVE  FlightShape'
  BY <1>6, <1>a DEF AnswerFlight, Flights
<1>7. ASSUME NEW j \in Calls, ServeRefresh(j) \/ RefreshUnavailable(j) PROVE FlightShape'
  <2>1. "renewed" # "rejected" /\ "signed_out" # "rejected" /\ "refused" # "rejected"
        /\ "unavailable" # "rejected"
    OBVIOUS
  <2>2. /\ flight[j].st = "out"
        /\ \E o, grant : o # "rejected" /\ AnswerFlight(j, o, grant) /\ (grant = 0 \/ o = "renewed")
    BY <1>7, <2>1, Zenon DEF ServeRefresh, RefreshUnavailable
  <2> QED
    BY <2>2, <1>6
<1> QED
  BY <1>1, <1>2, <1>3, <1>4, <1>5, <1>7, RenewalSteps DEF FlightStep

\* Pairs stay in the session they were issued to.
LEMMA SameSessionStays ==
  ASSUME TypeInv, [Next]_vars, NEW g, NEW h \in SameSession(g)
  PROVE  h \in {n \in 1..issued' : g \in 1..issued' /\ family'[n] = family'[g]}
<1>1. /\ issued \in Nat /\ \A n \in 1..issued : family'[n] = family[n] /\ n \in 1..issued'
  BY FamilyGrows
<1> QED
  BY <1>1 DEF SameSession

\* A pair of whose session the tab has seen a renewal fail, though it was
\* carried out, is one for good.
StrayedNow(g) ==
  \E i \in Calls :
    /\ flight'[i].outcome = "rejected"
    /\ flight'[i].grant \in {n \in 1..issued' : g \in 1..issued' /\ family'[n] = family'[g]}

\* What failed has failed, and its pair stays issued.
LEMMA StrayedStays ==
  ASSUME TypeInv, FlightShape, JoinsOnce, [Next]_vars, NEW g, Strayed(g)
  PROVE  StrayedNow(g)
<1>a. flight \in [Calls -> Flights] /\ issued \in Nat
  BY DEF TypeInv, RenewalTyped, ServerTyped, issued
<1>1. PICK i \in Calls : flight[i].outcome = "rejected" /\ flight[i].grant \in SameSession(g)
  BY DEF Strayed
<1>b. flight[i].client = "settled" /\ flight[i].st # "out" /\ pc[i] # "reading"
  <2>1. flight[i].grant > 0
    BY <1>a, <1>1 DEF SameSession
  <2> QED
    BY <1>1, <2>1, <1>a DEF FlightShape, JoinsOnce, Flights
<1>2. flight'[i].outcome = "rejected"
  BY <1>1, <1>b, SettledFlight
<1>3. flight'[i].grant = flight[i].grant
  <2>1 CASE UNCHANGED renewal
    BY <2>1 DEF renewal
  <2>2. ASSUME NEW c \in Calls, pc[c] = "reading", JoinRenewal(c) PROVE flight'[i] = flight[i]
    BY <2>2, <1>a, <1>b DEF JoinRenewal
  <2>3. ASSUME NEW j \in Calls, FlightStep(j) PROVE flight'[i].grant = flight[i].grant
    <3>1 CASE FlightReturns(j)
      BY <3>1, <1>a DEF FlightReturns, Flights
    <3>2 CASE FlightSettles(j)
      BY <3>2, <1>a DEF FlightSettles, Flights
    <3>3 CASE FlightFails(j)
      BY <3>3, <1>a DEF FlightFails, Flights
    <3> QED
      BY <2>3, <3>1, <3>2, <3>3 DEF FlightStep
  <2>4. ASSUME NEW j \in Calls, flight[j].st = "out", NEW o, NEW grant, AnswerFlight(j, o, grant)
        PROVE  flight'[i].grant = flight[i].grant
    BY <2>4, <1>a, <1>b DEF AnswerFlight
  <2> QED
    BY <2>1, <2>2, <2>3, <2>4, RenewalSteps DEF ServeRefresh, RefreshUnavailable
<1> QED
  BY <1>1, <1>2, <1>3, SameSessionStays DEF StrayedNow

\* The epoch never runs behind a call, and moves between a renewal's cookies
\* and the next renewal: a call whose request the jar outdates has an older
\* epoch, or the renewal that outdated it has yet to settle, or has failed.
EpochTells ==
  \A c \in Calls :
    /\ epochAt[c] <= refreshEpoch
    /\ pc[c] \in {"sent", "reading"} /\ epochAt[c] = refreshEpoch /\ Outdated(c, jar)
         => \/ Strayed(jar)
            \/ \E i \in Calls : flight[i].client = "answered" /\ flight[i].grant \in SameSession(jar)

RotationInv ==
  /\ TypeInv /\ SharedRenewal /\ JoinsOnce /\ PairsIssued /\ SessionsNamed /\ FlightShape /\ EpochTells

\* The epoch after a step.
LEMMA EpochSteps ==
  ASSUME RotationInv, [Next]_vars
  PROVE  /\ refreshEpoch \in Nat /\ refreshEpoch' \in {refreshEpoch, refreshEpoch + 1}
         /\ (\E c \in Calls : CallStep(c)) => refreshEpoch' = refreshEpoch
         /\ \A c \in Calls : epochAt'[c] \in {epochAt[c], refreshEpoch}
<1> USE DEF RotationInv
<1>a. refreshEpoch \in Nat /\ epochAt \in [Calls -> Nat]
  BY DEF TypeInv, ClientTyped, RenewalTyped
<1>1. ASSUME NEW c \in Calls, CallStep(c) PROVE refreshEpoch' = refreshEpoch
  BY <1>1, Zenon DEF CallStep, Start, Receive, CookiesArrive, Abort, Lose, Resume, ReadBody, Judge, JoinRenewal, renewal
<1>2. ASSUME NEW c \in Calls, FlightStep(c) \/ ServerStep(c)
      PROVE  refreshEpoch' \in {refreshEpoch, refreshEpoch + 1}
  BY <1>2, Zenon DEF FlightStep, FlightReturns, FlightSettles, FlightFails, ServerStep, Unavailable,
     ServeRead, ServeMutation, ServeCeremony, ServeLogout, ServeRefresh, RefreshUnavailable, renewal
<1>3. ASSUME NEW g \in accessLive \cup refreshLive, AccessExpires(g) \/ SessionEnds(g)
      PROVE  refreshEpoch' = refreshEpoch
  BY <1>3, Zenon DEF AccessExpires, SessionEnds, renewal
<1>4. UNCHANGED vars => refreshEpoch' = refreshEpoch
  BY Zenon DEF vars, renewal
<1>5. ASSUME NEW c \in Calls, CallStep(c) PROVE epochAt'[c] \in {epochAt[c], refreshEpoch}
  <2>1. ASSUME NEW r, Settle(c, r) PROVE epochAt'[c] \in {epochAt[c], refreshEpoch}
    BY <2>1, <1>a DEF Settle
  <2>2. (\E r : Settle(c, r)) \/ UNCHANGED epochAt \/ epochAt' = [epochAt EXCEPT ![c] = refreshEpoch]
    BY <1>5, Zenon DEF CallStep, Start, Receive, CookiesArrive, Abort, Lose, Resume, ReadBody, Judge, JoinRenewal, Resend, client
  <2> QED
    BY <1>a, <2>1, <2>2
<1>6. UNCHANGED client => UNCHANGED epochAt
  BY Zenon DEF client
<1>7. ASSUME NEW c \in Calls PROVE epochAt'[c] \in {epochAt[c], refreshEpoch}
  BY <1>5, <1>6, ClientSteps, OthersUntouched
<1>8. refreshEpoch' \in {refreshEpoch, refreshEpoch + 1}
  BY <1>1, <1>2, <1>3, <1>4, Zenon DEF Next
<1> QED
  BY <1>a, <1>1, <1>7, <1>8

\* What the server or the browser does outside a call changes no request of
\* a call, except that its pair may be forgotten with it.
LEMMA PresentedKept ==
  ASSUME TypeInv, [Next]_vars, NEW c \in Calls, ~CallStep(c)
  PROVE  wire'[c].cred \in {wire[c].cred, 0}
<1>1. \A r : Served(c, r).cred \in {wire[c].cred, 0}
  BY DEF Served, Quiet
<1>2. ASSUME NEW reply, NEW grant,
             wire'[c] = [st |-> "back", cred |-> wire[c].cred, reply |-> reply, grant |-> grant]
      PROVE  wire'[c].cred = wire[c].cred
  BY <1>2
<1> QED
  BY <1>1, <1>2, WireSteps DEF Answered

\* Some renewal has outdated the pairs of this session before g, or will have.
Overtaken(g) ==
  Strayed(g) \/ \E i \in Calls : flight[i].client = "answered" /\ flight[i].grant \in SameSession(g)

OvertakenNow(g) ==
  \/ StrayedNow(g)
  \/ \E i \in Calls :
       /\ flight'[i].client = "answered"
       /\ flight'[i].grant \in {n \in 1..issued' : g \in 1..issued' /\ family'[n] = family'[g]}

\* It stays so until the epoch moves.
LEMMA OvertakenStays ==
  ASSUME RotationInv, [Next]_vars, refreshEpoch' = refreshEpoch, NEW g, Overtaken(g)
  PROVE  OvertakenNow(g)
<1> USE DEF RotationInv
<1>a. /\ flight \in [Calls -> Flights] /\ None \notin Calls /\ issued \in Nat /\ refreshEpoch \in Nat
  BY KindsAssumption DEF TypeInv, RenewalTyped, ServerTyped, issued
<1>1 CASE Strayed(g)
  BY <1>1, StrayedStays DEF OvertakenNow
<1>2. ASSUME NEW i \in Calls, flight[i].client = "answered", flight[i].grant \in SameSession(g)
      PROVE  OvertakenNow(g)
  <2>1. refreshInFlight = i
    BY <1>2 DEF SharedRenewal
  <2>2. flight[i].grant > 0 /\ flight[i].outcome = "renewed"
    <3>1. flight[i].grant > 0
      BY <1>2, <1>a DEF SameSession
    <3> QED
      BY <1>2, <3>1 DEF FlightShape
  <2>3. flight[i].st = "none"
    BY <1>2, <2>2, <1>a DEF FlightShape, Flights
  <2>4. flight[i].grant \in {n \in 1..issued' : g \in 1..issued' /\ family'[n] = family'[g]}
    BY <1>2, SameSessionStays
  <2>5. ASSUME flight'[i] = flight[i] PROVE OvertakenNow(g)
    BY <1>2, <2>4, <2>5 DEF OvertakenNow
  <2>6 CASE UNCHANGED renewal
    BY <2>5, <2>6 DEF renewal
  <2>7. ASSUME NEW d \in Calls, JoinRenewal(d) PROVE OvertakenNow(g)
    BY <2>1, <2>5, <2>7, <1>a DEF JoinRenewal
  <2>8. ASSUME NEW j \in Calls, FlightReturns(j) PROVE OvertakenNow(g)
    BY <2>3, <2>5, <2>8, <1>a DEF FlightReturns
  <2>9. ASSUME NEW j \in Calls, FlightSettles(j) PROVE FALSE
    <3>1. j = i
      BY <2>1, <2>9 DEF FlightSettles, SharedRenewal
    <3>2. refreshEpoch' = refreshEpoch + 1
      BY <2>2, <2>9, <3>1 DEF FlightSettles
    <3> QED
      BY <3>2, <1>a
  <2>10. ASSUME NEW j \in Calls, FlightFails(j) PROVE OvertakenNow(g)
    <3>1. j = i
      BY <2>1, <2>10 DEF FlightFails, SharedRenewal
    <3>2. flight'[i].outcome = "rejected" /\ flight'[i].grant = flight[i].grant
      BY <2>10, <3>1, <1>a DEF FlightFails, Flights
    <3> QED
      BY <2>4, <3>2 DEF OvertakenNow, StrayedNow
  <2>11. ASSUME NEW j \in Calls, flight[j].st = "out", NEW o, NEW grant, AnswerFlight(j, o, grant)
         PROVE  OvertakenNow(g)
    BY <2>3, <2>5, <2>11, <1>a DEF AnswerFlight
  <2> QED
    BY <2>6, <2>7, <2>8, <2>9, <2>10, <2>11, RenewalSteps DEF FlightStep, ServeRefresh, RefreshUnavailable
<1> QED
  BY <1>1, <1>2 DEF Overtaken

\* What the invariant says after a step, in terms of the state before it.
LEMMA OvertakenSoon ==
  ASSUME NEW g, jar' = g, OvertakenNow(g)
  PROVE  Overtaken(jar)'
BY DEF OvertakenNow, StrayedNow, Overtaken, Strayed, SameSession

\* A step that is not the call's own leaves the call as EpochTells found it.
LEMMA EpochOfOthers ==
  ASSUME RotationInv, [Next]_vars, NEW c \in Calls, ~CallStep(c),
         pc'[c] \in {"sent", "reading"}, epochAt'[c] = refreshEpoch', Outdated(c, jar)'
  PROVE  Overtaken(jar)'
<1> USE DEF RotationInv
<1>a. /\ issued \in Nat /\ flight \in [Calls -> Flights] /\ None \notin Calls
      /\ family \in Seq(Nat)
  BY KindsAssumption DEF TypeInv, RenewalTyped, ServerTyped, issued
<1>b. pc'[c] = pc[c] /\ epochAt'[c] = epochAt[c]
  BY ClientSteps, OthersUntouched DEF client
<1>c. epochAt[c] = refreshEpoch /\ refreshEpoch' = refreshEpoch
  BY <1>b, EpochSteps DEF EpochTells
<1>d. ASSUME NEW g \in 0..issued, jar' = g PROVE Outdated(c, g)
  <2>1. /\ wire'[c].cred \in {h \in 1..issued' : g \in 1..issued' /\ family'[h] = family'[g]}
        /\ wire'[c].cred < g
    BY <1>d DEF Outdated, SameSession
  <2> QED
    BY <2>1, PresentedKept, OutdatedBefore
<1>1 CASE jar' = jar
  <2>1. Outdated(c, jar)
    BY <1>1, <1>d DEF PairsIssued
  <2>2. Overtaken(jar)
    BY <1>b, <1>c, <2>1 DEF EpochTells, Overtaken
  <2>3. OvertakenNow(jar)
    BY <1>c, <2>2, OvertakenStays
  <2> QED
    BY <1>1, <2>3, OvertakenSoon
<1>2. ASSUME NEW d \in Calls, jar' \in {wire[d].grant, 0} PROVE FALSE
  <2>1. jar' \in 0..issued /\ (jar' > 0 => family[jar'] = jar')
    BY <1>2, <1>a DEF PairsIssued
  <2>2. ~Outdated(c, jar')
    BY <2>1, <1>a, FreshPair
  <2> QED
    BY <2>1, <2>2, <1>d
<1>3. ASSUME NEW i \in Calls, FlightReturns(i), flight[i].grant > 0, jar' = flight[i].grant
      PROVE  Overtaken(jar)'
  <2>1. /\ flight'[i].grant = flight[i].grant /\ flight'[i].outcome = flight[i].outcome
        /\ flight'[i].client = IF flight[i].client = "pending" THEN "answered" ELSE flight[i].client
    BY <1>3, <1>a DEF FlightReturns, Flights
  <2>2. flight'[i].client = "answered" \/ flight'[i].outcome = "rejected"
    BY <1>3, <2>1 DEF FlightReturns, FlightShape
  <2>3. flight[i].grant \in 1..issued'
    <3>1. flight[i].grant \in 1..issued
      BY <1>3, <1>a DEF PairsIssued
    <3> QED
      BY <3>1, FamilyGrows
  <2>4. flight'[i].grant \in SameSession(jar)'
    BY <1>3, <2>1, <2>3 DEF SameSession
  <2> QED
    BY <2>2, <2>4 DEF Overtaken, Strayed
<1> QED
  BY <1>1, <1>2, <1>3, JarSteps

\* Nor does the call's own step break it: what it sends anew presents the jar.
LEMMA EpochOfOwn ==
  ASSUME RotationInv, NEW c \in Calls, CallStep(c), [Next]_vars,
         pc'[c] \in {"sent", "reading"}, epochAt'[c] = refreshEpoch', Outdated(c, jar)'
  PROVE  Overtaken(jar)'
<1> USE DEF RotationInv
<1>a. /\ issued \in Nat /\ pc \in [Calls -> Phases] /\ wire \in [Calls -> Requests]
      /\ epochAt \in [Calls -> Nat] /\ jar \in Nat
  BY DEF TypeInv, ClientTyped, ServerTyped, issued
<1>b. UNCHANGED server
  BY Zenon DEF CallStep, Start, Receive, CookiesArrive, Abort, Lose, Resume, ReadBody, Judge
<1>c. \A g : wire'[c] = wire[c] /\ jar' = g => Outdated(c, g)
  BY <1>b DEF Outdated, SameSession, server, issued
<1>1. jar' = jar \/ jar' \in {wire[c].grant, 0}
  BY Zenon DEF CallStep, Start, Receive, SetCookie, CookiesArrive, Abort, Lose, Resume, ReadBody, Judge
<1>2. jar' = jar
  <2> SUFFICES ASSUME jar' \in {wire[c].grant, 0} PROVE FALSE
    BY <1>1
  <2>1. jar' \in 0..issued /\ (jar' > 0 => family[jar'] = jar')
    BY <1>a DEF PairsIssued
  <2>2. family'=family /\ issued' = issued
    BY <1>b DEF server, issued
  <2>3. wire'[c].cred \in 1..issued /\ jar' \in 1..issued /\ family[wire'[c].cred] = family[jar'] /\ wire'[c].cred < jar'
    BY <2>2 DEF Outdated, SameSession
  <2> QED
    BY <2>1, <2>3, <1>a DEF SessionsNamed
<1>3. wire'[c] # Sent(jar)
  <2>1. Outdated(c, jar)' => wire'[c].cred < jar'
    BY DEF Outdated
  <2> QED
    BY <2>1, <1>2, <1>a DEF Sent
<1>4. ASSUME NEW r, Settle(c, r) PROVE FALSE
  BY <1>3, <1>4, <1>a DEF Settle
<1>5. ASSUME Send(c) PROVE FALSE
  BY <1>3, <1>5, <1>a DEF Send
<1>6. ASSUME JoinRenewal(c) PROVE FALSE
  BY <1>6, <1>a DEF JoinRenewal
<1>7. /\ pc[c] \in {"sent", "reading"} /\ wire'[c] = wire[c] /\ epochAt'[c] = epochAt[c]
      /\ UNCHANGED renewal
  <2>1 CASE Start(c) \/ Lose(c) \/ Resume(c)
    BY <2>1, <1>4, <1>5, <1>a DEF Start, Lose, Resume, Resend
  <2>2 CASE Receive(c)
    <3>1. /\ MustReadBody(c, wire[c].reply)
          /\ UNCHANGED <<epochAt, wire>> /\ UNCHANGED renewal
      BY <2>2, <1>4, Zenon DEF Receive
    <3> QED
      BY <3>1 DEF MustReadBody
  <2>3 CASE Abort(c)
    BY <2>3, <1>4 DEF Abort
  <2>4 CASE \E readable \in BOOLEAN : ReadBody(c, readable) \/ Judge(c, readable)
    BY <2>4, <1>4, <1>5, <1>6 DEF ReadBody, Judge, Resend
  <2>5. ~CookiesArrive(c)
    BY DEF CookiesArrive, client
  <2> QED
    BY <2>1, <2>2, <2>3, <2>4, <2>5 DEF CallStep
<1>8. Outdated(c, jar)
  BY <1>2, <1>7, <1>c
<1>9. refreshEpoch' = refreshEpoch /\ Overtaken(jar)
  BY <1>7, <1>8 DEF EpochTells, Overtaken, renewal
<1> QED
  BY <1>2, <1>9, OvertakenStays, OvertakenSoon

\* Together: the epoch goes on telling.
LEMMA NextEpochTells ==
  ASSUME RotationInv, [Next]_vars
  PROVE  EpochTells'
<1>1. ASSUME NEW c \in Calls PROVE epochAt'[c] <= refreshEpoch'
  <2>1. epochAt[c] \in Nat /\ epochAt[c] <= refreshEpoch
    BY DEF RotationInv, EpochTells, TypeInv, ClientTyped
  <2> QED
    BY <2>1, EpochSteps
<1> QED
  BY <1>1, EpochOfOthers, EpochOfOwn DEF EpochTells, Overtaken

\* A call begins a renewal only from an answer the jar does not outdate, or
\* once a renewal that outdated it has failed.
LEMMA NextNoStaleRotation ==
  ASSUME RotationInv, NoStaleRotation, [Next]_vars
  PROVE  NoStaleRotation'
<1> USE DEF RotationInv
<1> SUFFICES ASSUME NEW c \in Calls, pc'[c] = "renewing", joined'[c] = c,
                    Outdated(c, flight[c].cred)'
             PROVE  Strayed(flight[c].cred)'
  BY DEF NoStaleRotation, Outdated
<1>s. ASSUME NEW g, flight'[c].cred = g, StrayedNow(g) PROVE Strayed(flight[c].cred)'
  BY <1>s DEF StrayedNow, Strayed, SameSession
<1>a. /\ flight \in [Calls -> Flights] /\ pc \in [Calls -> Phases] /\ None \notin Calls
      /\ joined \in [Calls -> Calls \cup {None}] /\ refreshInFlight \in Calls \cup {None}
  BY KindsAssumption DEF TypeInv, ClientTyped, RenewalTyped
<1>1 CASE ~CallStep(c)
  <2>1. pc[c] = "renewing" /\ joined[c] = c
    BY <1>1, ClientSteps, OthersUntouched DEF client
  <2>2. flight'[c].cred = flight[c].cred
    BY <2>1, <1>a, FlightsLast DEF JoinsOnce
  <2>3. flight[c].cred \in 0..issued
    BY DEF PairsIssued
  <2> DEFINE g == flight[c].cred
  <2>4. /\ wire'[c].cred \in {h \in 1..issued' : g \in 1..issued' /\ family'[h] = family'[g]}
        /\ wire'[c].cred < g
    BY <2>2 DEF Outdated, SameSession
  <2>5. Outdated(c, g)
    <3> HIDE DEF g
    <3>1. g \in 0..issued
      BY <2>3 DEF g
    <3> QED
      BY <1>1, <2>4, <3>1, PresentedKept, OutdatedBefore
  <2>6. Strayed(flight[c].cred)
    BY <2>1, <2>5 DEF NoStaleRotation, Outdated
  <2> QED
    BY <2>2, <2>6, <1>s, StrayedStays
<1>2 CASE CallStep(c)
  <2>1. ASSUME NEW r, Settle(c, r) PROVE FALSE
    BY <2>1, <1>a DEF Settle
  <2>2. ASSUME Resend(c) PROVE FALSE
    BY <2>2, <1>a DEF Resend
  <2>3. pc[c] = "reading" /\ epochAt[c] = refreshEpoch /\ JoinRenewal(c) /\ UNCHANGED server
    <3>1 CASE Start(c) \/ Lose(c) \/ Resume(c) \/ Abort(c)
      BY <3>1, <2>1, <2>2, <1>a DEF Start, Lose, Resume, Abort
    <3>2 CASE Receive(c)
      BY <3>2, <2>1, <1>a DEF Receive
    <3>3. ASSUME NEW readable \in BOOLEAN, ReadBody(c, readable)
          PROVE  pc[c] = "reading" /\ epochAt[c] = refreshEpoch /\ JoinRenewal(c) /\ UNCHANGED server
      BY <3>3, <2>1, <2>2, Zenon DEF ReadBody
    <3>4. ASSUME NEW readable \in BOOLEAN, Judge(c, readable) PROVE FALSE
      BY <3>4, <2>1 DEF Judge
    <3>5 CASE CookiesArrive(c)
      BY <3>5 DEF CookiesArrive, client
    <3> QED
      BY <1>2, <3>1, <3>2, <3>3, <3>4, <3>5 DEF CallStep
  <2>4. refreshInFlight = None
    <3>1. refreshInFlight # c
      BY <2>3, <1>a DEF JoinsOnce
    <3> QED
      BY <2>3, <3>1, <1>a DEF JoinRenewal
  <2>5. flight'[c].cred = jar /\ wire' = wire
    BY <2>3, <2>4, <1>a DEF JoinRenewal
  <2>6. Outdated(c, jar)
    BY <2>3, <2>5 DEF Outdated, SameSession, server, issued
  <2>7. \A i \in Calls : flight[i].client # "answered"
    BY <2>4, <1>a DEF SharedRenewal
  <2>8. Strayed(jar)
    BY <2>3, <2>6, <2>7 DEF EpochTells
  <2> QED
    BY <2>5, <2>8, <1>s, StrayedStays
<1> QED
  BY <1>1, <1>2

\* The tab opens with nothing outstanding and nothing outdated.
LEMMA InitRotationInv == Init => RotationInv /\ NoStaleRotation
<1> SUFFICES ASSUME Init PROVE RotationInv /\ NoStaleRotation
  OBVIOUS
<1>1. \A c \in Calls : /\ wire[c] = Quiet /\ flight[c] = NoFlight /\ pc[c] = "idle"
                       /\ epochAt[c] = 0
  BY DEF Init
<1>2. refreshEpoch = 0
  BY DEF Init
<1>3. SharedRenewal /\ FlightShape /\ EpochTells /\ NoStaleRotation
  BY <1>1, <1>2 DEF SharedRenewal, FlightShape, EpochTells, NoStaleRotation, NoFlight
<1> QED
  BY <1>3, InitTypeInv, InitJoinsOnce, InitPairs DEF RotationInv

\* A refusal that describes the credentials from before a renewal rotates the
\* renewed ones again only if that renewal failed in this tab, its cookies
\* stored all the same (bff.ts refreshEpoch).
THEOREM NoStaleRotationHolds == Spec => []NoStaleRotation
<1>1. Init => RotationInv /\ NoStaleRotation
  BY InitRotationInv
<1>2. RotationInv /\ NoStaleRotation /\ [Next]_vars => RotationInv' /\ NoStaleRotation'
  BY NextTypeInv, NextSharedRenewal, NextJoinsOnce, NextPairsIssued, NextSessionsNamed, NextFlightShape,
     NextEpochTells, NextNoStaleRotation DEF RotationInv
<1> QED
  BY <1>1, <1>2, PTL DEF Spec

-----------------------------------------------------------------------------
(* A renewal that is refused has not lost a race.                          *)

\* No pair of its session is newer than g.
Newest(g) == \A h \in SameSession(g) : h <= g

\* Whatever is newer than g was granted to a renewal that strayed.
Followed(g) == Newest(g) \/ Strayed(g)

\* The same of the state after a step, for a pair of the state before it.
SessionNow(g) == {n \in 1..issued' : g \in 1..issued' /\ family'[n] = family'[g]}
NewestNow(g) == \A h \in SessionNow(g) : h <= g
FollowedNow(g) == NewestNow(g) \/ StrayedNow(g)


\* A renewal of the session of g is carried out.
Rotates(i, g) == ServeRefresh(i) /\ flight[i].cred \in refreshLive /\ flight[i].cred \in SameSession(g)

\* Only a renewal of its own session makes a pair older.
LEMMA NewestStays ==
  ASSUME TypeInv, SessionsNamed, [Next]_vars, NEW g \in 0..issued, Newest(g)
  PROVE  NewestNow(g) \/ \E i \in Calls : Rotates(i, g)
<1>a. /\ family \in Seq(Nat) /\ refreshLive \subseteq 1..issued /\ issued \in Nat /\ issued = Len(family)
      /\ \A h \in 1..issued : family[h] \in 1..h
  BY DEF TypeInv, ServerTyped, SessionsNamed, issued
<1>b. issued' \in {issued, issued + 1} /\ \A h \in 1..issued : family'[h] = family[h]
  BY FamilyGrows
<1>1. ASSUME NEW s, family' = Append(family, s), g \in 1..issued => family[g] # s
      PROVE  NewestNow(g)
  <2>1. issued' = issued + 1 /\ family'[issued + 1] = s
    BY <1>1, <1>a DEF issued
  <2>2. ASSUME NEW h \in SessionNow(g) PROVE h <= g
    <3>1 CASE g \in 1..issued
      BY <1>1, <1>a, <1>b, <2>1, <2>2, <3>1 DEF SessionNow, Newest, SameSession
    <3>2 CASE g = 0
      BY <1>b, <2>2, <3>2 DEF SessionNow
    <3> QED
      BY <1>a, <3>1, <3>2
  <2> QED
    BY <2>2 DEF NewestNow
<1>2 CASE family' = family
  BY <1>2 DEF NewestNow, SessionNow, Newest, SameSession, issued
<1>3 CASE family' = Append(family, issued + 1)
  <2>1. g \in 1..issued => family[g] # issued + 1
    BY <1>a
  <2> QED
    BY <1>1, <1>3, <2>1
<1>4. ASSUME NEW i \in Calls, flight[i].cred \in refreshLive, ServeRefresh(i),
             family' = Append(family, family[flight[i].cred])
      PROVE  NewestNow(g) \/ Rotates(i, g)
  <2>1 CASE g \in 1..issued => family[g] # family[flight[i].cred]
    BY <1>1, <1>4, <2>1
  <2>2 CASE g \in 1..issued /\ family[g] = family[flight[i].cred]
    <3>1. flight[i].cred \in 1..issued
      BY <1>4, <1>a
    <3> QED
      BY <1>4, <2>2, <3>1 DEF Rotates, SameSession
  <2> QED
    BY <2>1, <2>2
<1> QED
  BY <1>2, <1>3, <1>4, FamilySteps

\* What a renewal of the session of g brings: a pair newer than all others.
LEMMA RotationBrings ==
  ASSUME TypeInv, FlightShape, [Next]_vars, NEW g \in 0..issued, NEW i \in Calls, Rotates(i, g)
  PROVE  /\ flight'[i].grant = issued + 1 /\ flight'[i].st = "back"
         /\ flight'[i].client = flight[i].client
         /\ issued' = issued + 1 /\ issued + 1 \in SessionNow(g) /\ NewestNow(issued + 1)
         /\ flight[i].client = "pending" \/ StrayedNow(g)
<1>a. /\ family \in Seq(Nat) /\ refreshLive \subseteq 1..issued /\ issued \in Nat /\ issued = Len(family)
      /\ flight \in [Calls -> Flights]
  BY DEF TypeInv, ServerTyped, RenewalTyped, issued
<1>1. /\ flight[i].st = "out" /\ flight[i].cred \in 1..issued
      /\ g \in 1..issued /\ family[flight[i].cred] = family[g] /\ family[g] \in Nat
      /\ family' = Append(family, family[flight[i].cred]) /\ AnswerFlight(i, "renewed", issued + 1)
  BY <1>a DEF Rotates, ServeRefresh, SameSession
<1>2. issued' = issued + 1 /\ family'[issued + 1] = family[g] /\ family'[g] = family[g]
  BY <1>a, <1>1 DEF issued
<1>3. /\ flight'[i].grant = issued + 1 /\ flight'[i].st = "back" /\ flight'[i].client = flight[i].client
      /\ flight[i].outcome = "rejected" => flight'[i].outcome = "rejected"
  BY <1>a, <1>1 DEF AnswerFlight, Flights
<1>4. issued + 1 \in SessionNow(g)
  BY <1>a, <1>1, <1>2 DEF SessionNow
<1>5. NewestNow(issued + 1)
  BY <1>a, <1>2 DEF NewestNow, SessionNow
<1>6. flight[i].client = "pending" \/ flight[i].outcome = "rejected"
  BY <1>1 DEF FlightShape
<1> QED
  BY <1>2, <1>3, <1>4, <1>5, <1>6 DEF StrayedNow, SessionNow

\* What is followed stays so, but for a renewal the tab still waits for.
LEMMA FollowedStays ==
  ASSUME TypeInv, SessionsNamed, FlightShape, JoinsOnce, [Next]_vars, NEW g \in 0..issued, Followed(g)
  PROVE  FollowedNow(g) \/ \E i \in Calls : Rotates(i, g) /\ flight[i].client = "pending"
<1>1 CASE Strayed(g)
  BY <1>1, StrayedStays DEF FollowedNow
<1>2 CASE Newest(g)
  <2>1. NewestNow(g) \/ \E i \in Calls : Rotates(i, g)
    BY <1>2, NewestStays
  <2> QED
    BY <2>1, RotationBrings DEF FollowedNow
<1> QED
  BY <1>1, <1>2 DEF Followed

\* A pair that can be renewed is the newest of its session.
LiveIsNewest == \A g \in refreshLive : Newest(g)

\* A renewal spends the pair it presents, and no other pair of that session is live.
LEMMA NextLiveIsNewest ==
  ASSUME TypeInv, SessionsNamed, FlightShape, LiveIsNewest, [Next]_vars
  PROVE  LiveIsNewest'
<1>a. /\ family \in Seq(Nat) /\ refreshLive \subseteq 1..issued /\ issued \in Nat /\ issued = Len(family)
  BY DEF TypeInv, ServerTyped, issued
<1> SUFFICES ASSUME NEW g \in refreshLive' PROVE NewestNow(g)
  BY DEF LiveIsNewest, Newest, NewestNow, SessionNow, SameSession
<1>1. ASSUME g \in refreshLive, NEW i \in Calls, Rotates(i, g) PROVE FALSE
  <2>1. refreshLive' = (refreshLive \ {flight[i].cred}) \cup {issued + 1} /\ g # issued + 1
    BY <1>1, <1>a DEF Rotates, ServeRefresh
  <2>2. g # flight[i].cred
    BY <2>1
  <2>3. flight[i].cred <= g /\ g <= flight[i].cred
    BY <1>1, <1>a DEF Rotates, LiveIsNewest, Newest, SameSession
  <2>4. flight[i].cred \in Nat /\ g \in Nat
    <3>1. flight[i].cred \in 1..issued /\ g \in 1..issued
      BY <1>1, <1>a DEF Rotates
    <3> QED
      BY <3>1, <1>a
  <2> QED
    BY <2>2, <2>3, <2>4
<1>2 CASE g \in refreshLive
  BY <1>1, <1>2, <1>a, NewestStays DEF LiveIsNewest
<1>3 CASE g \notin refreshLive
  <2>1. g = issued + 1 /\ issued' \in {issued, issued + 1}
    BY <1>3, FamilySteps, FamilyGrows
  <2> QED
    BY <2>1, <1>a DEF NewestNow, SessionNow
<1> QED
  BY <1>2, <1>3

\* The pair of a sign-in whose answer is on its way is known to nobody yet: no
\* other answer brings it, and it has been neither stored, presented nor renewed.
GrantsUnseen ==
  \A c \in Calls :
    LET g == wire[c].grant IN
    g > 0 => /\ c \in Ceremonies /\ Newest(g) /\ jar # g
             /\ \A d \in Calls : /\ flight[d].cred # g /\ flight[d].grant # g
                                 /\ d # c => wire[d].grant # g

\* A step changes the requests, or the renewals, or neither.
LEMMA WireOrFlight ==
  ASSUME [Next]_vars
  PROVE  UNCHANGED wire \/ UNCHANGED renewal
<1>1. ASSUME NEW c \in Calls, JoinRenewal(c) PROVE UNCHANGED wire
  BY <1>1, Zenon DEF JoinRenewal
<1>2. ASSUME NEW i \in Calls, FlightStep(i) \/ ServeRefresh(i) \/ RefreshUnavailable(i)
      PROVE  UNCHANGED wire
  BY <1>2, Zenon DEF FlightStep, FlightReturns, FlightSettles, FlightFails, ServeRefresh, RefreshUnavailable
<1> QED
  BY <1>1, <1>2, RenewalSteps

\* It changes at most one request.
LEMMA OneRequest ==
  ASSUME TypeInv, [Next]_vars
  PROVE  UNCHANGED wire \/ \E c \in Calls : \A d \in Calls \ {c} : wire'[d] = wire[d]
<1>a. wire \in [Calls -> Requests]
  BY DEF TypeInv, ClientTyped
<1>1. ASSUME NEW c \in Calls, CallStep(c), NEW d \in Calls \ {c} PROVE wire'[d] = wire[d]
  BY <1>1, OthersUntouched
<1>2. ASSUME NEW c \in Calls, NEW r, NEW g, Answer(c, r, g), NEW d \in Calls \ {c} PROVE wire'[d] = wire[d]
  BY <1>2, <1>a DEF Answer
<1>3. ASSUME NEW c \in Calls, ServerStep(c) PROVE UNCHANGED wire \/ \E r, g : Answer(c, r, g)
  BY <1>3, Zenon DEF ServerStep, Unavailable, ServeRead, ServeMutation, ServeCeremony, ServeLogout,
                     ServeRefresh, RefreshUnavailable
<1>4. ASSUME NEW i \in Calls, FlightStep(i) PROVE UNCHANGED wire
  BY <1>4, Zenon DEF FlightStep, FlightReturns, FlightSettles, FlightFails
<1>5. ASSUME NEW g \in accessLive \cup refreshLive, AccessExpires(g) \/ SessionEnds(g)
      PROVE  UNCHANGED wire
  BY <1>5, Zenon DEF AccessExpires, SessionEnds
<1>6. UNCHANGED vars => UNCHANGED wire
  BY Zenon DEF vars
<1> QED
  BY <1>1, <1>2, <1>3, <1>4, <1>5, <1>6, Zenon DEF Next

\* A pair is taken from its answer as the cookies are stored.
LEMMA GrantIsTaken ==
  ASSUME TypeInv, JoinsOnce, NEW c \in Ceremonies, Receive(c) \/ CookiesArrive(c)
  PROVE  wire'[c].grant = 0
<1>a. c \in Calls /\ wire \in [Calls -> Requests] /\ ~confirming[c] /\ ~RenewableRead(c) /\ c \notin Logouts
  BY KindsAssumption DEF TypeInv, ClientTyped, JoinsOnce, RenewableRead, Calls
<1>1. \A r : Served(c, r).grant = 0
  BY DEF Served, Quiet
<1>2 CASE CookiesArrive(c)
  BY <1>2, <1>a, <1>1 DEF CookiesArrive
<1>3 CASE Receive(c)
  <2>1. PICK r \in Told(c) : Settle(c, r)
    BY <1>3, <1>a DEF Receive, MustReadBody
  <2>2. r = wire[c].reply
    BY <2>1, <1>a DEF Told
  <2>3. r \in Replies \cup {"none"}
    BY <2>2, <1>a DEF Requests
  <2>4. Left(c, r) = Served(c, r)
    BY <2>3 DEF Left, Replies
  <2>5. wire' = [wire EXCEPT ![c] = Left(c, r)]
    BY <2>1, <1>a DEF Settle
  <2> QED
    BY <2>4, <2>5, <1>1, <1>a
<1> QED
  BY <1>2, <1>3

\* Nothing reaches for such a pair before its cookies are stored.
LEMMA NextGrantsUnseen ==
  ASSUME RotationInv, GrantsUnseen, [Next]_vars
  PROVE  GrantsUnseen'
<1> USE DEF RotationInv
<1>a. /\ issued \in Nat /\ issued' \in {issued, issued + 1} /\ family \in Seq(Nat) /\ refreshLive \subseteq 1..issued
      /\ \A c \in Calls : /\ wire[c].cred \in 0..issued /\ wire[c].grant \in 0..issued
                          /\ flight[c].cred \in 0..issued /\ flight[c].grant \in 0..issued
      /\ jar \in 0..issued
  BY FamilyGrows DEF PairsIssued, TypeInv, ServerTyped
<1>b. ASSUME NEW c \in Calls
      PROVE  wire'[c] = wire[c] \/ wire'[c].grant = 0
             \/ (wire'[c].grant = issued + 1 /\ c \in Ceremonies /\ wire'[c] # wire[c])
  <2>1. \A r : Served(c, r).grant = 0
    BY DEF Served, Quiet
  <2>2. Sent(jar).grant = 0
    BY DEF Sent
  <2>3. Answered(c) => wire'[c].grant = 0 \/ (wire'[c].grant = issued + 1 /\ c \in Ceremonies)
    <3>1. ASSUME NEW reply \in Replies, NEW g \in Nat,
                 wire'[c] = [st |-> "back", cred |-> wire[c].cred, reply |-> reply, grant |-> g]
          PROVE  wire'[c].grant = g
      BY <3>1
    <3> QED
      BY <2>1, <3>1, Zenon DEF Answered
  <2>4. wire[c].grant # issued + 1
    BY <1>a
  <2> QED
    BY <2>1, <2>2, <2>3, <2>4, WireSteps
<1> SUFFICES ASSUME NEW c \in Calls, NEW g, g = wire'[c].grant, g > 0
             PROVE  /\ c \in Ceremonies /\ NewestNow(g) /\ jar' # g
                    /\ \A d \in Calls : /\ flight'[d].cred # g /\ flight'[d].grant # g
                                        /\ d # c => wire'[d].grant # g
  <2> DEFINE Unseen(c, g) ==
        /\ c \in Ceremonies /\ NewestNow(g) /\ jar' # g
        /\ \A d \in Calls : /\ flight'[d].cred # g /\ flight'[d].grant # g
                            /\ d # c => wire'[d].grant # g
  <2>1. \A c \in Calls : wire'[c].grant > 0 => Unseen(c, wire'[c].grant)
    OBVIOUS
  <2>2. \A c \in Calls : NewestNow(wire'[c].grant) => Newest(wire[c].grant)'
    BY DEF Newest, NewestNow, SessionNow, SameSession
  <2> QED
    BY <2>1, <2>2, Zenon DEF GrantsUnseen
<1>c. jar' = jar \/ jar' = 0 \/ (\E d \in Calls : (Receive(d) \/ CookiesArrive(d)) /\ jar' = wire[d].grant)
      \/ \E i \in Calls : jar' = flight[i].grant
  BY JarSteps
<1>1 CASE wire'[c] = wire[c]
  <2>1. /\ c \in Ceremonies /\ Newest(g) /\ jar # g /\ g \in 1..issued /\ family[g] = g
        /\ \A d \in Calls : /\ flight[d].cred # g /\ flight[d].grant # g
                            /\ d # c => wire[d].grant # g
    BY <1>1, <1>a DEF GrantsUnseen, PairsIssued
  <2>2. ASSUME NEW i \in Calls, Rotates(i, g) PROVE FALSE
    <3>1. flight[i].cred \in 1..issued /\ family[flight[i].cred] = g /\ flight[i].cred <= g
      BY <2>1, <2>2 DEF Rotates, SameSession, Newest
    <3>2. g <= flight[i].cred
      BY <3>1 DEF SessionsNamed
    <3> QED
      BY <2>1, <3>1, <3>2
  <2>3. NewestNow(g)
    <3>1. g \in 0..issued
      BY <2>1
    <3> QED
      BY <2>1, <2>2, <3>1, NewestStays
  <2>4. jar' # g
    <3>1. ASSUME Receive(c) \/ CookiesArrive(c) PROVE FALSE
      BY <1>1, <2>1, <3>1, GrantIsTaken
    <3> QED
      BY <1>c, <2>1, <3>1
  <2>5. ASSUME NEW d \in Calls
        PROVE  flight'[d].cred # g /\ flight'[d].grant # g /\ (d # c => wire'[d].grant # g)
    <3>1. flight'[d].cred \in {flight[d].cred, jar} /\ flight'[d].grant \in {flight[d].grant, 0, issued + 1}
      BY FlightChanges
    <3>2. wire'[d].grant \in {wire[d].grant, 0, issued + 1}
      BY <1>b
    <3>3. g # 0 /\ g # issued + 1
      BY <1>a, <2>1
    <3> QED
      BY <2>1, <3>1, <3>2, <3>3
  <2> QED
    BY <2>1, <2>3, <2>4, <2>5
<1>2 CASE wire'[c] # wire[c]
  <2>1. g = issued + 1 /\ c \in Ceremonies
    BY <1>b, <1>2
  <2>2. UNCHANGED renewal /\ \A d \in Calls \ {c} : wire'[d] = wire[d]
    BY <1>2, WireOrFlight, OneRequest
  <2>3. NewestNow(g) /\ jar' # g
    BY <1>a, <1>c, <2>1 DEF NewestNow, SessionNow
  <2>4. ASSUME NEW d \in Calls
        PROVE  flight'[d].cred # g /\ flight'[d].grant # g /\ (d # c => wire'[d].grant # g)
    BY <1>a, <2>1, <2>2 DEF renewal
  <2> QED
    BY <2>1, <2>3, <2>4
<1> QED
  BY <1>1, <1>2

\* The pair a renewal presents, and then the one it brings.
Brought(i) == IF flight[i].st = "out" THEN flight[i].cred ELSE flight[i].grant

\* A renewal the tab waits for presents, or brings, a pair nothing is newer
\* than but for a renewal that strayed; so is the pair in the jar, or a
\* renewal the tab waits for brings the pair that follows it.
PairsFollowed ==
  /\ \A i \in Calls : flight[i].client = "pending" => Followed(Brought(i))
  /\ \/ Followed(jar)
     \/ \E i \in Calls : flight[i].client = "pending" /\ flight[i].grant \in SameSession(jar)

FollowInv == RotationInv /\ LiveIsNewest /\ GrantsUnseen /\ PairsFollowed

\* While nothing is issued a pair stays followed.
LEMMA FollowedKept ==
  ASSUME FollowInv, [Next]_vars, family' = family, NEW g, Followed(g)
  PROVE  FollowedNow(g)
<1>1. Newest(g) => NewestNow(g)
  BY DEF Newest, NewestNow, SameSession, SessionNow, issued
<1>2. Strayed(g) => StrayedNow(g)
  BY StrayedStays DEF FollowInv, RotationInv
<1> QED
  BY <1>1, <1>2 DEF Followed, FollowedNow

\* The renewal the tab waits for stays followed, and begins with the jar.
LEMMA NextFlightsFollowed ==
  ASSUME FollowInv, [Next]_vars, NEW i \in Calls, flight'[i].client = "pending"
  PROVE  Followed(Brought(i))'
<1> USE DEF FollowInv, RotationInv
<1>a. /\ flight \in [Calls -> Flights] /\ None \notin Calls /\ issued \in Nat
      /\ jar \in 0..issued
      /\ \A j \in Calls : flight[j].cred \in 0..issued /\ flight[j].grant \in 0..issued
  BY KindsAssumption DEF TypeInv, RenewalTyped, ServerTyped, PairsIssued, issued
<1>b. ASSUME NEW g, Brought(i)' = g, FollowedNow(g) PROVE Followed(Brought(i))'
  BY <1>b DEF FollowedNow, NewestNow, SessionNow, StrayedNow, Followed, Newest, SameSession, Strayed
<1>1. ASSUME flight'[i] = flight[i] PROVE Followed(Brought(i))'
  <2>1. PICK g : g = Brought(i)
    OBVIOUS
  <2>2. Followed(g) /\ g \in 0..issued /\ Brought(i)' = g
    BY <1>1, <1>a, <2>1 DEF PairsFollowed, Brought
  <2>3. ASSUME NEW j \in Calls, Rotates(j, g), flight[j].client = "pending" PROVE FALSE
    <3>1. i = j
      BY <1>1, <2>3 DEF SharedRenewal
    <3>2. flight[j].st = "out" /\ flight'[j].st = "back"
      BY <2>2, <2>3, RotationBrings DEF Rotates, ServeRefresh
    <3> QED
      BY <1>1, <3>1, <3>2
  <2>4. FollowedNow(g)
    BY <2>2, <2>3, FollowedStays
  <2> QED
    BY <1>b, <2>2, <2>4
<1>2. ASSUME NEW c \in Calls, pc[c] = "reading", JoinRenewal(c) PROVE Followed(Brought(i))'
  <2>1 CASE flight'[i] = flight[i]
    BY <1>1, <2>1
  <2>2 CASE flight'[i] # flight[i]
    <3>1. refreshInFlight = None /\ flight'[i].st = "out" /\ flight'[i].cred = jar
      BY <1>2, <1>a, <2>2 DEF JoinRenewal
    <3>2. \A j \in Calls : flight[j].client # "pending"
      BY <1>a, <3>1 DEF SharedRenewal
    <3>3. PICK g : g = jar
      OBVIOUS
    <3>4. Followed(g) /\ Brought(i)' = g /\ g \in 0..issued
      BY <1>a, <3>1, <3>2, <3>3 DEF PairsFollowed, Brought
    <3>5. FollowedNow(g)
      BY <3>2, <3>4, FollowedStays
    <3> QED
      BY <1>b, <3>4, <3>5
  <2> QED
    BY <2>1, <2>2
<1>3. ASSUME NEW j \in Calls, FlightStep(j) PROVE flight'[i] = flight[i]
  BY <1>3, <1>a DEF FlightStep, FlightReturns, FlightSettles, FlightFails, Flights
<1>4. ASSUME NEW j \in Calls, NEW o, AnswerFlight(j, o, 0) PROVE Followed(Brought(i))'
  <2>1 CASE i = j
    <3>1. Brought(i)' = 0
      BY <1>4, <1>a, <2>1 DEF AnswerFlight, Flights, Brought
    <3>2. FollowedNow(0)
      BY DEF FollowedNow, NewestNow, SessionNow
    <3> QED
      BY <1>b, <3>1, <3>2
  <2>2 CASE i # j
    BY <1>4, <1>1, <1>a, <2>2 DEF AnswerFlight
  <2> QED
    BY <2>1, <2>2
<1>5. ASSUME NEW j \in Calls, ServeRefresh(j), flight[j].cred \in refreshLive PROVE Followed(Brought(i))'
  <2>1 CASE i = j
    <3>1. PICK g : g = flight[j].cred
      OBVIOUS
    <3>2. Rotates(j, g) /\ g \in 0..issued
      BY <1>5, <1>a, <3>1 DEF Rotates, SameSession, TypeInv, ServerTyped
    <3>3. Brought(i)' = issued + 1 /\ NewestNow(issued + 1)
      BY <2>1, <3>2, RotationBrings DEF Brought
    <3>4. PICK n : n = issued + 1
      OBVIOUS
    <3> QED
      BY <1>b, <3>3, <3>4 DEF FollowedNow
  <2>2 CASE i # j
    <3>1. flight'[i] = flight[i]
      BY <1>5, <1>a, <2>2 DEF ServeRefresh, AnswerFlight
    <3> QED
      BY <1>1, <3>1
  <2> QED
    BY <2>1, <2>2
<1>6. ASSUME NEW j \in Calls, (ServeRefresh(j) /\ flight[j].cred \notin refreshLive) \/ RefreshUnavailable(j)
      PROVE  \E o : AnswerFlight(j, o, 0)
  BY <1>6, Zenon DEF ServeRefresh, RefreshUnavailable
<1> QED
  BY <1>1, <1>2, <1>3, <1>4, <1>5, <1>6, RenewalSteps DEF renewal

\* So does the pair in the jar, wherever it comes from.
LEMMA NextJarFollowed ==
  ASSUME FollowInv, [Next]_vars
  PROVE  \/ Followed(jar)'
         \/ \E i \in Calls : (flight[i].client = "pending" /\ flight[i].grant \in SameSession(jar))'
<1> USE DEF FollowInv, RotationInv
<1>a. /\ flight \in [Calls -> Flights] /\ None \notin Calls /\ issued \in Nat
      /\ jar \in 0..issued
      /\ \A j \in Calls : /\ flight[j].cred \in 0..issued /\ flight[j].grant \in 0..issued
                          /\ wire[j].grant \in 0..issued
  BY KindsAssumption DEF TypeInv, RenewalTyped, ServerTyped, PairsIssued, issued
<1>b. ASSUME NEW g, jar' = g, FollowedNow(g) PROVE Followed(jar)'
  BY <1>b DEF FollowedNow, NewestNow, SessionNow, StrayedNow, Followed, Newest, SameSession, Strayed
<1>c. ASSUME NEW g, jar' = g, NEW i \in Calls, flight'[i].client = "pending", flight'[i].grant \in SessionNow(g)
      PROVE  \E j \in Calls : (flight[j].client = "pending" /\ flight[j].grant \in SameSession(jar))'
  BY <1>c DEF SessionNow, SameSession
<1> DEFINE Kept == \/ Followed(jar)'
                   \/ \E i \in Calls : (flight[i].client = "pending" /\ flight[i].grant \in SameSession(jar))'
<1>1. ASSUME NEW c \in Calls, Receive(c) \/ CookiesArrive(c), jar' \in {wire[c].grant, 0}
      PROVE  Followed(jar)'
  <2>1. PICK g : g = jar'
    OBVIOUS
  <2>2. Newest(g)
    <3>1. Newest(0)
      BY DEF Newest, SameSession
    <3>2. wire[c].grant > 0 => Newest(wire[c].grant)
      BY DEF GrantsUnseen
    <3> QED
      BY <1>1, <1>a, <2>1, <3>1, <3>2
  <2>3. family' = family
    BY <1>1, Zenon DEF Receive, CookiesArrive, server
  <2> QED
    BY <1>b, <2>1, <2>2, <2>3, FollowedKept DEF Followed
<1>2. ASSUME NEW i \in Calls, FlightReturns(i), jar' = flight[i].grant, flight[i].grant > 0
      PROVE  Followed(jar)'
  <2>1. PICK g : g = flight[i].grant
    OBVIOUS
  <2>2. flight[i].st = "back"
    BY <1>2 DEF FlightReturns
  <2>3. flight[i].client = "pending" => Followed(g)
    BY <2>1, <2>2 DEF PairsFollowed, Brought
  <2>4. flight[i].outcome = "rejected" => Followed(g)
    BY <1>2, <1>a, <2>1 DEF Followed, Strayed, SameSession
  <2>5. Followed(g)
    BY <2>2, <2>3, <2>4 DEF FlightShape
  <2>6. family' = family
    BY <1>2, Zenon DEF FlightReturns, server
  <2> QED
    BY <1>2, <1>b, <2>1, <2>5, <2>6, FollowedKept
<1>3. ASSUME jar' = jar, Followed(jar) PROVE Kept
  <2>1. PICK g : g = jar
    OBVIOUS
  <2>2. g \in 0..issued /\ Followed(g) /\ jar' = g
    BY <1>3, <1>a, <2>1
  <2>3. ASSUME NEW j \in Calls, Rotates(j, g), flight[j].client = "pending" PROVE Kept
    <3>1. flight'[j].client = "pending" /\ flight'[j].grant \in SessionNow(g)
      BY <2>2, <2>3, RotationBrings
    <3> QED
      BY <1>c, <2>2, <3>1
  <2>4. FollowedNow(g) => Kept
    BY <1>b, <2>2
  <2> QED
    BY <2>2, <2>3, <2>4, FollowedStays
<1>4. ASSUME jar' = jar, NEW i \in Calls, flight[i].client = "pending", flight[i].grant \in SameSession(jar)
      PROVE  Kept
  <2>1. PICK g : g = jar
    OBVIOUS
  <2>2. flight[i].st = "back" /\ flight[i].grant > 0 /\ refreshInFlight = i
    <3>1. flight[i].grant > 0
      BY <1>4, <1>a DEF SameSession
    <3> QED
      BY <1>4, <3>1, <1>a DEF FlightShape, Flights, SharedRenewal
  <2>3. flight[i].grant \in SessionNow(g)
    BY <1>4, <2>1, SameSessionStays DEF SessionNow
  <2>4. ASSUME flight'[i] = flight[i] PROVE Kept
    BY <1>4, <1>c, <2>1, <2>3, <2>4
  <2>5 CASE UNCHANGED renewal
    BY <2>4, <2>5 DEF renewal
  <2>6. ASSUME NEW c \in Calls, JoinRenewal(c) PROVE Kept
    BY <2>2, <2>4, <2>6, <1>a DEF JoinRenewal
  <2>7. ASSUME NEW j \in Calls, FlightReturns(j) PROVE Kept
    <3>1 CASE j = i
      BY <1>2, <2>2, <2>7, <3>1 DEF FlightReturns
    <3>2 CASE j # i
      BY <2>4, <2>7, <3>2, <1>a DEF FlightReturns
    <3> QED
      BY <3>1, <3>2
  <2>8. ASSUME NEW j \in Calls, FlightSettles(j) PROVE Kept
    BY <1>4, <2>4, <2>8, <1>a DEF FlightSettles
  <2>9. ASSUME NEW j \in Calls, FlightFails(j) PROVE Kept
    <3>1 CASE j = i
      <4>1. flight'[i].outcome = "rejected" /\ flight'[i].grant = flight[i].grant
        BY <2>9, <3>1, <1>a DEF FlightFails, Flights
      <4>2. StrayedNow(g)
        BY <2>3, <4>1 DEF StrayedNow, SessionNow
      <4> QED
        BY <1>4, <1>b, <2>1, <4>2 DEF FollowedNow
    <3>2 CASE j # i
      BY <2>4, <2>9, <3>2, <1>a DEF FlightFails
    <3> QED
      BY <3>1, <3>2
  <2>10. ASSUME NEW j \in Calls, flight[j].st = "out", NEW o, NEW n, AnswerFlight(j, o, n) PROVE Kept
    BY <2>2, <2>4, <2>10, <1>a DEF AnswerFlight
  <2> HIDE DEF Kept
  <2> QED
    BY <2>5, <2>6, <2>7, <2>8, <2>9, <2>10, RenewalSteps DEF FlightStep, ServeRefresh, RefreshUnavailable
<1> HIDE DEF Kept
<1>5. jar' = jar => Kept
  BY <1>3, <1>4 DEF PairsFollowed
<1>6. Followed(jar)' => Kept
  BY DEF Kept
<1>7. Kept
  BY <1>1, <1>2, <1>5, <1>6, JarSteps
<1> QED
  BY <1>7 DEF Kept

\* A renewal is refused only once its session is over, unless another of that
\* session strayed; and it is "signed out" only of an empty jar.
OverWhenRefused ==
  \A i \in Calls :
    LET g == flight[i].cred IN
    /\ flight[i].outcome = "refused" => SameSession(g) \cap refreshLive = {} \/ Strayed(g)
    /\ flight[i].outcome = "signed_out" => g = 0

\* A session with no pair to renew never has one again.
LEMMA SpentStays ==
  ASSUME TypeInv, SessionsNamed, [Next]_vars, NEW g \in 0..issued, SameSession(g) \cap refreshLive = {}
  PROVE  SessionNow(g) \cap refreshLive' = {}
<1>a. /\ refreshLive \subseteq 1..issued /\ issued \in Nat
      /\ family \in Seq(Nat) /\ issued = Len(family)
  BY DEF TypeInv, ServerTyped, issued
<1>b. issued' \in {issued, issued + 1} /\ \A h \in 1..issued : family'[h] = family[h]
  BY FamilyGrows
<1> SUFFICES ASSUME NEW h \in SessionNow(g), h \in refreshLive' PROVE FALSE
  OBVIOUS
<1>1. g \in 1..issued
  <2>1 CASE g = 0
    BY <1>b, <2>1 DEF SessionNow
  <2> QED
    BY <1>a, <2>1
<1>2. h \notin refreshLive
  BY <1>a, <1>b, <1>1 DEF SessionNow, SameSession
<1>3. h = issued + 1
  BY <1>2, FamilySteps
<1>4. \/ family' = Append(family, issued + 1)
      \/ \E i \in Calls : flight[i].cred \in refreshLive /\ family' = Append(family, family[flight[i].cred])
  BY <1>2, FamilySteps
<1>5. family'[h] = family[g]
  BY <1>b, <1>1 DEF SessionNow
<1>6 CASE family' = Append(family, issued + 1)
  BY <1>a, <1>1, <1>3, <1>5, <1>6 DEF SessionsNamed
<1>7. ASSUME NEW r \in refreshLive, family' = Append(family, family[r]) PROVE FALSE
  <2>1. family'[issued + 1] = family[r] /\ r \in 1..issued
    BY <1>a, <1>7
  <2> QED
    BY <1>1, <1>3, <1>5, <1>7, <2>1 DEF SameSession
<1> QED
  BY <1>4, <1>6, <1>7

\* The server refuses a renewal the tab waits for only if nothing newer than
\* its pair can be renewed.
LEMMA NextOverWhenRefused ==
  ASSUME FollowInv, OverWhenRefused, [Next]_vars
  PROVE  OverWhenRefused'
<1> USE DEF FollowInv, RotationInv
<1>a. /\ flight \in [Calls -> Flights] /\ issued \in Nat /\ refreshLive \subseteq 1..issued
      /\ \A j \in Calls : flight[j].cred \in 0..issued
  BY DEF TypeInv, RenewalTyped, ServerTyped, PairsIssued, issued
<1> DEFINE OverNow(i, g) == /\ flight'[i].outcome = "refused" =>
                                 SessionNow(g) \cap refreshLive' = {} \/ StrayedNow(g)
                            /\ flight'[i].outcome = "signed_out" => g = 0
<1> SUFFICES ASSUME NEW i \in Calls, NEW g, g = flight'[i].cred
             PROVE  OverNow(i, g)
  <2>1. \A i \in Calls : OverNow(i, flight'[i].cred)
    OBVIOUS
  <2>2. \A i \in Calls :
          /\ SessionNow(flight'[i].cred) \cap refreshLive' = {} => (SameSession(flight[i].cred) \cap refreshLive = {})'
          /\ StrayedNow(flight'[i].cred) => Strayed(flight[i].cred)'
    BY DEF SessionNow, StrayedNow, SameSession, Strayed
  <2> QED
    BY <2>1, <2>2 DEF OverWhenRefused
<1>1. ASSUME flight'[i].outcome = flight[i].outcome, flight'[i].cred = flight[i].cred PROVE OverNow(i, g)
  <2>1. g = flight[i].cred /\ g \in 0..issued
    BY <1>1, <1>a
  <2>2. SameSession(g) \cap refreshLive = {} => SessionNow(g) \cap refreshLive' = {}
    BY <2>1, SpentStays
  <2>3. Strayed(g) => StrayedNow(g)
    BY StrayedStays
  <2> QED
    BY <1>1, <2>1, <2>2, <2>3 DEF OverWhenRefused
<1>2. ASSUME NEW c \in Calls, JoinRenewal(c) PROVE OverNow(i, g)
  <2>1. flight'[i] = flight[i] \/ flight'[i].outcome = "none"
    BY <1>2, <1>a DEF JoinRenewal
  <2> QED
    BY <1>1, <2>1
<1>3. ASSUME NEW j \in Calls, FlightStep(j) PROVE OverNow(i, g)
  <2>1. flight'[i].cred = flight[i].cred /\ flight'[i].outcome \in {flight[i].outcome, "rejected"}
    BY <1>3, <1>a DEF FlightStep, FlightReturns, FlightSettles, FlightFails, Flights
  <2> QED
    BY <1>1, <2>1
<1>4. ASSUME NEW j \in Calls, NEW o, NEW n, AnswerFlight(j, o, n)
      PROVE  /\ flight'[i].cred = flight[i].cred
             /\ flight'[i].outcome = flight[i].outcome
                \/ (i = j /\ flight'[i].outcome = o /\ flight[i].outcome # "rejected")
  BY <1>4, <1>a DEF AnswerFlight, Flights
<1>5. ASSUME NEW j \in Calls, NEW o, NEW n, AnswerFlight(j, o, n), o \notin {"refused", "signed_out"}
      PROVE  OverNow(i, g)
  BY <1>1, <1>4, <1>5
<1>6. ASSUME NEW j \in Calls, ServeRefresh(j), flight[j].cred \notin refreshLive PROVE OverNow(i, g)
  <2>1. /\ flight[j].st = "out" /\ UNCHANGED <<family, refreshLive>>
        /\ AnswerFlight(j, IF flight[j].cred = 0 THEN "signed_out" ELSE "refused", 0)
    BY <1>6 DEF ServeRefresh
  <2>2. flight'[i].cred = flight[i].cred
    BY <1>4, <2>1
  <2>3 CASE i = j /\ flight[i].outcome # "rejected"
    <3>1. g = flight[j].cred /\ Followed(g)
      BY <2>1, <2>2, <2>3 DEF FlightShape, PairsFollowed, Brought
    <3>2. Strayed(g) => StrayedNow(g)
      BY StrayedStays
    <3>3. Newest(g) => SameSession(g) \cap refreshLive = {}
      <4> SUFFICES ASSUME Newest(g), NEW h \in SameSession(g), h \in refreshLive PROVE FALSE
        OBVIOUS
      <4>1. h <= g /\ g <= h /\ h \in Nat /\ g \in Nat
        BY <1>a, <3>1 DEF LiveIsNewest, Newest, SameSession
      <4> QED
        BY <1>6, <3>1, <4>1
    <3>4. SameSession(g) \cap refreshLive = {} => SessionNow(g) \cap refreshLive' = {}
      BY <2>1 DEF SameSession, SessionNow, issued
    <3>5. flight'[i].outcome = "signed_out" => g = 0
      <4>1. flight[i].outcome = "signed_out" => g = 0
        BY <2>3, <3>1 DEF OverWhenRefused
      <4>2. flight[j].cred # 0 => AnswerFlight(j, "refused", 0)
        BY <2>1
      <4> QED
        BY <1>4, <3>1, <4>1, <4>2
    <3> QED
      BY <3>1, <3>2, <3>3, <3>4, <3>5 DEF Followed
  <2>4 CASE ~(i = j /\ flight[i].outcome # "rejected")
    BY <1>1, <1>4, <2>1, <2>2, <2>4
  <2> QED
    BY <2>3, <2>4
<1>7. ASSUME NEW j \in Calls, (ServeRefresh(j) /\ flight[j].cred \in refreshLive) \/ RefreshUnavailable(j)
      PROVE  \E o, n : AnswerFlight(j, o, n) /\ o \notin {"refused", "signed_out"}
  <2>1. "renewed" \notin {"refused", "signed_out"} /\ "unavailable" \notin {"refused", "signed_out"}
    OBVIOUS
  <2> QED
    BY <1>7, <2>1, Zenon DEF ServeRefresh, RefreshUnavailable
<1>8. UNCHANGED renewal => OverNow(i, g)
  BY <1>1 DEF renewal
<1> HIDE DEF OverNow
<1> QED
  BY <1>2, <1>3, <1>5, <1>6, <1>7, <1>8, RenewalSteps

OverInv == FollowInv /\ OverWhenRefused /\ SendsByPhase /\ OnlyTheOptedIn /\ ResultByPhase

\* The invariant holds as the tab opens, and every step keeps it.
LEMMA InitOverInv == Init => OverInv
<1> SUFFICES ASSUME Init PROVE OverInv
  OBVIOUS
<1>1. \A c \in Calls : wire[c] = Quiet /\ flight[c] = NoFlight
  BY DEF Init
<1>2. jar \in {0, 1} /\ issued \in {0, 1} /\ refreshLive \subseteq {1}
  BY DEF Init, issued
<1>3. Newest(jar) /\ LiveIsNewest
  BY <1>2 DEF LiveIsNewest, Newest, SameSession
<1>4. GrantsUnseen /\ PairsFollowed /\ OverWhenRefused
  BY <1>1, <1>3 DEF GrantsUnseen, PairsFollowed, Followed, OverWhenRefused, Quiet, NoFlight
<1> QED
  BY <1>3, <1>4, InitRotationInv, InitVerdictInv DEF OverInv, FollowInv, VerdictInv

\* Each of its parts is kept, given the others.
LEMMA NextOverInv == OverInv /\ [Next]_vars => OverInv'
<1> SUFFICES ASSUME OverInv, [Next]_vars PROVE OverInv'
  OBVIOUS
<1>1. RotationInv'
  BY NextTypeInv, NextSharedRenewal, NextJoinsOnce, NextPairsIssued, NextSessionsNamed, NextFlightShape,
     NextEpochTells DEF RotationInv, OverInv, FollowInv
<1>2. PairsFollowed'
  BY NextFlightsFollowed, NextJarFollowed DEF OverInv, PairsFollowed
<1>3. LiveIsNewest' /\ GrantsUnseen' /\ OverWhenRefused'
  BY NextLiveIsNewest, NextGrantsUnseen, NextOverWhenRefused DEF OverInv, FollowInv, RotationInv
<1>4. SendsByPhase' /\ OnlyTheOptedIn' /\ ResultByPhase'
  BY NextSendsByPhase, NextOnlyTheOptedIn, NextResultByPhase DEF OverInv, FollowInv, RotationInv
<1> QED
  BY <1>1, <1>2, <1>3, <1>4 DEF OverInv, FollowInv

\* A read that was sent once is told that the session is over, its renewal
\* refused, only when the jar holds no pair that could still renew it, or a
\* renewal has strayed (bff.ts refreshInFlight).
THEOREM NotOverWhileRenewableHolds == Spec => NotOverWhileRenewable
<1> DEFINE Hears(c) == result[c] = "none" /\ result'[c] \in Judgements /\ sends[c] = 1 /\ joined[c] # None
<1>1. ASSUME OverInv, [Next]_vars, NEW c \in Probes \cup Reads, Hears(c)
      PROVE  jar \in SameSession(flight[joined[c]].cred) /\ jar \in refreshLive => Strayed(jar)
  <2> USE <1>1 DEF OverInv, FollowInv, RotationInv
  <2>a. /\ c \in Calls /\ c \notin Mutations /\ joined[c] \in Calls /\ pc[c] # "resent"
        /\ wire[c].reply \in Replies \cup {"none"} /\ flight[joined[c]].outcome \in RefreshOutcomes
    BY KindsAssumption DEF Calls, TypeInv, RenewalTyped, ClientTyped, Requests, Flights, SendsByPhase
  <2>1. ASSUME NEW r, Settle(c, r) PROVE r \in Judgements
    BY <2>a, <2>1, SettleOutcome DEF Judgements
  <2>2. ~UNCHANGED result /\ ~UNCHANGED client
    BY DEF Judgements, client
  <2>3. CallStep(c)
    BY <2>a, <2>2, ClientSteps, OthersUntouched DEF Judgements
  <2>4. ASSUME Receive(c) PROVE FALSE
    <3>1. PICK r \in Told(c) : Settle(c, r) /\ ~MustReadBody(c, wire[c].reply)
      BY <2>2, <2>4, Zenon DEF Receive
    <3>2. r \in Judgements /\ pc[c] = "sent"
      BY <2>1, <2>4, <2>a, <3>1 DEF Receive, AwaitsFetch
    <3>3. r = wire[c].reply
      BY <3>1, <3>2 DEF Told, Judgements
    <3> QED
      BY <2>a, <3>1, <3>2, <3>3 DEF MustReadBody, RenewableRead, OnlyTheOptedIn, Judgements
  <2>5. ~(Start(c) \/ CookiesArrive(c))
    BY <2>2, Zenon DEF Start, CookiesArrive
  <2>6. ~(Abort(c) \/ Lose(c))
    <3>1. Abort(c) \/ Lose(c) => \E r \in {"aborted", "rejected"} : Settle(c, r)
      BY <2>2 DEF Abort, Lose
    <3> QED
      BY <2>1, <3>1 DEF Judgements
  <2>7. ASSUME NEW readable \in BOOLEAN, ReadBody(c, readable) PROVE FALSE
    <3>1. \A x : ~Resend(x) /\ ~JoinRenewal(x)
      BY <2>2, Zenon DEF Resend, JoinRenewal
    <3>2. \E r \in Results \cup {"none"} : Settle(c, r) /\ r \notin Judgements
      BY <2>7, <2>a, <3>1 DEF ReadBody, Judgements, Results, Replies
    <3> QED
      BY <2>1, <3>2
  <2>8. Resume(c) => flight[joined[c]].outcome \in {"refused", "signed_out"}
    <3>1. ASSUME Resume(c), flight[joined[c]].outcome # "refused"
          PROVE  Settle(c, flight[joined[c]].outcome)
      BY <2>2, <3>1, Zenon DEF Resume, Resend
    <3> QED
      BY <2>1, <2>a, <3>1 DEF Judgements, RefreshOutcomes
  <2>9. ASSUME NEW readable \in BOOLEAN, Judge(c, readable)
        PROVE  flight[joined[c]].outcome = "signed_out"
    BY <2>9, <2>a DEF Judge, ResultByPhase
  <2>10. flight[joined[c]].outcome \in {"refused", "signed_out"}
    BY <2>3, <2>4, <2>5, <2>6, <2>7, <2>8, <2>9, Zenon DEF CallStep
  <2> QED
    BY <2>a, <2>10 DEF OverWhenRefused, Strayed, SameSession
<1>2. OverInv /\ [Next]_vars => \A c \in Probes \cup Reads :
        Hears(c) /\ jar \in SameSession(flight[joined[c]].cred) /\ jar \in refreshLive => Strayed(jar)
  BY <1>1
<1>3. OverInv /\ [Next]_vars => [\A c \in Probes \cup Reads :
       /\ result[c] = "none" /\ result'[c] \in {"signed_out", "unauthorized"}
       /\ sends[c] = 1 /\ joined[c] # None
       /\ jar \in SameSession(flight[joined[c]].cred) /\ jar \in refreshLive
       => Strayed(jar)]_vars
  BY <1>2 DEF Judgements
<1> QED
  BY <1>3, InitOverInv, NextOverInv, PTL DEF Spec, NotOverWhileRenewable

-----------------------------------------------------------------------------
(* The contract of SessionContract.                                        *)

\* What each result means to the caller.
LEMMA Meanings ==
  /\ Meaning("none") = "none"
  /\ \A r \in Results : /\ Meaning(r) \in {"done", "denied", "unknown"}
                        /\ Meaning(r) = "done" <=> r \in {"ok", "blank"}
                        /\ Meaning(r) = "denied" <=> r \in {"signed_out", "unauthorized", "bare", "refused"}
<1>1. Meaning("none") = "none"
  BY DEF Meaning
<1>2. ASSUME NEW r \in Results
      PROVE  /\ Meaning(r) \in {"done", "denied", "unknown"}
             /\ Meaning(r) = "done" <=> r \in {"ok", "blank"}
             /\ Meaning(r) = "denied" <=> r \in {"signed_out", "unauthorized", "bare", "refused"}
  <2>1. r # "none"
    BY DEF Results, Replies
  <2>2 CASE r \in {"ok", "blank"}
    BY <2>1, <2>2 DEF Meaning
  <2>3 CASE r \in {"signed_out", "unauthorized", "bare", "refused"}
    BY <2>1, <2>3 DEF Meaning
  <2>4 CASE r \notin {"ok", "blank", "signed_out", "unauthorized", "bare", "refused"}
    BY <2>1, <2>4 DEF Meaning
  <2> QED
    BY <2>2, <2>3, <2>4
<1> QED
  BY <1>1, <1>2

\* What has come back names an answer, and a renewal that has settled an outcome.
Replied ==
  \A c \in Calls :
    /\ wire[c].st = "back" => wire[c].reply # "none"
    /\ flight[c].st = "back" \/ flight[c].client \in {"answered", "settled"} => flight[c].outcome # "none"

\* Nothing comes back without an answer.
LEMMA NextReplied ==
  ASSUME VerdictInv, Replied, [Next]_vars
  PROVE  Replied'
<1> USE DEF VerdictInv, Replied
<1>a. /\ wire \in [Calls -> Requests] /\ pc \in [Calls -> Phases] /\ flight \in [Calls -> Flights]
  BY DEF TypeInv, ClientTyped, RenewalTyped
<1>1. ASSUME NEW c \in Calls, wire'[c].st = "back" PROVE wire'[c].reply # "none"
  <2>1. \A r : Served(c, r).st # "back" /\ Sent(jar).st # "back"
    BY DEF Served, Quiet, Sent
  <2>3. "none" \notin Replies
    BY DEF Replies
  <2>4. ASSUME NEW reply \in Replies, NEW grant,
               wire'[c] = [st |-> "back", cred |-> wire[c].cred, reply |-> reply, grant |-> grant]
        PROVE  wire'[c].reply # "none"
    BY <2>3, <2>4
  <2> QED
    BY <1>1, <2>1, <2>4, WireSteps DEF Answered
<1>3. ASSUME NEW c \in Calls, (flight[c].st = "back" \/ flight[c].client \in {"answered", "settled"})'
      PROVE  (flight[c].outcome # "none")'
  <2>1 CASE UNCHANGED renewal
    BY <1>3, <2>1 DEF renewal
  <2>2. ASSUME NEW d \in Calls, JoinRenewal(d) PROVE flight'[c].outcome # "none"
    BY <1>3, <2>2, <1>a DEF JoinRenewal
  <2>3. ASSUME NEW j \in Calls, FlightStep(j) PROVE flight'[c].outcome # "none"
    <3>1 CASE FlightReturns(j)
      BY <1>3, <1>a, <3>1 DEF FlightReturns, Flights
    <3>2 CASE FlightSettles(j)
      BY <1>3, <1>a, <3>2 DEF FlightSettles, Flights
    <3>3 CASE FlightFails(j)
      BY <1>3, <1>a, <3>3 DEF FlightFails, Flights
    <3> QED
      BY <2>3, <3>1, <3>2, <3>3 DEF FlightStep
  <2>4. ASSUME NEW j \in Calls, NEW o, NEW grant, o # "none", AnswerFlight(j, o, grant)
        PROVE  flight'[c].outcome # "none"
    BY <1>3, <2>4, <1>a DEF AnswerFlight, Flights
  <2>5. ASSUME NEW j \in Calls, ServeRefresh(j) \/ RefreshUnavailable(j)
        PROVE  \E o, grant : o # "none" /\ AnswerFlight(j, o, grant)
    <3>1. "signed_out" # "none" /\ "refused" # "none" /\ "renewed" # "none" /\ "unavailable" # "none"
      OBVIOUS
    <3> QED
      BY <2>5, <3>1, Zenon DEF ServeRefresh, RefreshUnavailable
  <2> QED
    BY <2>1, <2>2, <2>3, <2>4, <2>5, RenewalSteps
<1> QED
  BY <1>1, <1>3, Zenon DEF Replied

\* What a call's own step does: the call opens, goes on, its leg settles, or
\* the cookies of an answer nobody waits for arrive.
LEMMA CallMoves ==
  ASSUME VerdictInv, Replied, NEW c \in Calls, CallStep(c)
  PROVE  \/ pc[c] = "idle" /\ pc'[c] = "sent" /\ UNCHANGED <<confirming, result>>
         \/ {pc[c], pc'[c]} \cap {"idle", "settled"} = {} /\ UNCHANGED <<confirming, result>>
         \/ pc[c] \notin {"idle", "settled"} /\ \E r \in Results : Settle(c, r)
         \/ CookiesArrive(c)
<1> USE DEF VerdictInv
<1>a. pc \in [Calls -> Phases] /\ wire \in [Calls -> Requests]
  BY DEF TypeInv, ClientTyped
<1>1. {"rejected", "aborted", "unauthorized", "blank", "bare"} \subseteq Results
  BY DEF Results, Replies
<1>2. ASSUME wire[c].st = "back" PROVE wire[c].reply \in Results
  BY <1>2, <1>a DEF Replied, Requests, Results
<1>3 CASE Start(c)
  BY <1>3, <1>a DEF Start
<1>4 CASE Receive(c)
  <2>1. pc[c] \notin {"idle", "settled"}
    BY <1>4 DEF Receive, AwaitsFetch
  <2>2 CASE MustReadBody(c, wire[c].reply)
    BY <1>4, <1>a, <2>1, <2>2 DEF Receive
  <2>3. ASSUME NEW r \in Told(c) PROVE r \in Results
    BY <1>4, <1>1, <1>2, <2>3 DEF Receive, Told
  <2>4 CASE \E r \in Told(c) : Settle(c, r)
    BY <2>1, <2>3, <2>4
  <2> QED
    BY <1>4, <2>2, <2>4, Zenon DEF Receive
<1>5 CASE Abort(c)
  <2>1. pc[c] \notin {"idle", "settled"}
    BY <1>5 DEF Abort
  <2>2. Settle(c, "aborted") \/ UNCHANGED <<pc, confirming, result>>
    BY <1>5, Zenon DEF Abort
  <2> QED
    BY <1>1, <2>1, <2>2
<1>6 CASE Lose(c)
  BY <1>1, <1>6 DEF Lose, AwaitsFetch
<1>7 CASE Resume(c)
  <2> DEFINE o == flight[joined[c]].outcome
  <2>1. pc[c] = "renewing" /\ o \in RefreshOutcomes /\ o # "none"
    BY <1>7 DEF Resume, Replied, TypeInv, RenewalTyped, WaitsForOne, Flights
  <2>2 CASE Resend(c)
    BY <1>a, <2>1, <2>2 DEF Resend
  <2>3 CASE pc' = [pc EXCEPT ![c] = "judging"] /\ UNCHANGED <<confirming, result>>
    BY <1>a, <2>1, <2>3
  <2>4 CASE Settle(c, "unauthorized") \/ (o # "renewed" /\ Settle(c, o))
    <3>1. o # "renewed" => o \in Results
      BY <2>1 DEF RefreshOutcomes, Results, Replies
    <3>2. pc[c] \notin {"idle", "settled"}
      BY <2>1
    <3> HIDE DEF o
    <3> QED
      BY <1>1, <2>4, <3>1, <3>2
  <2> QED
    BY <1>7, <2>2, <2>3, <2>4 DEF Resume
<1>8. ASSUME NEW readable \in BOOLEAN, ReadBody(c, readable)
      PROVE  \/ {pc[c], pc'[c]} \cap {"idle", "settled"} = {} /\ UNCHANGED <<confirming, result>>
             \/ pc[c] \notin {"idle", "settled"} /\ \E r \in Results : Settle(c, r)
  <2>1. pc[c] = "reading" /\ wire[c].reply \in Results
    BY <1>2, <1>8 DEF ReadBody, AnswerInHand
  <2> DEFINE r == wire[c].reply
             told == IF readable THEN r ELSE IF r \in {"ok", "signed_out"} THEN "blank" ELSE "bare"
  <2>2. told \in Results
    BY <1>1, <2>1
  <2>3. Settle(c, told) \/ Settle(c, "aborted") \/ Resend(c) \/ JoinRenewal(c)
    BY <1>8, Zenon DEF ReadBody
  <2> HIDE DEF told
  <2>4 CASE Settle(c, told) \/ Settle(c, "aborted")
    BY <1>1, <2>1, <2>2, <2>4
  <2>5 CASE Resend(c) \/ JoinRenewal(c)
    BY <1>a, <2>1, <2>5 DEF Resend, JoinRenewal
  <2> QED
    BY <2>3, <2>4, <2>5
<1>9. ASSUME NEW readable \in BOOLEAN, Judge(c, readable)
      PROVE  pc[c] \notin {"idle", "settled"} /\ \E r \in Results : Settle(c, r)
  BY <1>1, <1>9 DEF Judge
<1> QED
  BY <1>3, <1>4, <1>5, <1>6, <1>7, <1>8, <1>9 DEF CallStep

\* A call is given a result exactly as it closes.
LEMMA CallProgress ==
  ASSUME VerdictInv, Replied, NEW c \in Calls, CallStep(c)
  PROVE  \/ pc[c] = "idle" /\ pc'[c] = "sent" /\ result'[c] = result[c]
         \/ {pc[c], pc'[c]} \cap {"idle", "settled"} = {} /\ result'[c] = result[c]
         \/ pc[c] \notin {"idle", "settled"} /\ pc'[c] = "settled" /\ result'[c] \in Results
         \/ pc'[c] = pc[c] /\ result'[c] = result[c]
<1>1. ASSUME NEW r \in Results, pc[c] \notin {"idle", "settled"}, Settle(c, r)
      PROVE  \/ {pc[c], pc'[c]} \cap {"idle", "settled"} = {} /\ result'[c] = result[c]
             \/ pc'[c] = "settled" /\ result'[c] \in Results
  <2>1. "aborted" \in Results
    BY DEF Results
  <2> QED
    BY <1>1, <2>1, SettleOutcome DEF VerdictInv
<1>2. CookiesArrive(c) => pc'[c] = pc[c] /\ result'[c] = result[c]
  BY DEF CookiesArrive, client
<1> QED
  BY <1>1, <1>2, CallMoves

\* What the server made of a write, as its answer and its result tell it: a
\* result that closes the question leaves no request in the network.
WriteIsTold ==
  /\ \A c \in Calls \ Mutations : applied[c] = 0
  /\ \A c \in Mutations :
       /\ confirming[c] => Meaning(result[c]) # "done"
       /\ ~confirming[c] =>
            /\ wire[c].st = "back" =>
                 /\ wire[c].reply = "ok" => applied[c] = 1
                 /\ wire[c].reply \in {"refused", "unauthorized"} => applied[c] = 0
                 /\ wire[c].reply # "signed_out"
            /\ Meaning(result[c]) = "done" => applied[c] = 1
            /\ Meaning(result[c]) = "denied" => applied[c] = 0 /\ wire[c].st # "out"

ContractInv == VerdictInv /\ WriteByPhase /\ Replied /\ WriteIsTold

\* What a step makes of the writes the server has carried out.
LEMMA EffectSteps ==
  ASSUME [Next]_vars
  PROVE  \/ UNCHANGED applied
         \/ \E c \in Mutations : /\ ~confirming[c] /\ wire[c].st = "out" /\ UNCHANGED client
                                 /\ applied' = [applied EXCEPT ![c] = @ + 1]
                                 /\ Answer(c, "ok", 0)
<1>1. ASSUME NEW c \in Calls, CallStep(c) PROVE UNCHANGED applied
  BY <1>1, Zenon DEF CallStep, Start, Receive, CookiesArrive, Abort, Lose, Resume, ReadBody, Judge, server
<1>2. ASSUME NEW c \in Calls, FlightStep(c) PROVE UNCHANGED applied
  BY <1>2, Zenon DEF FlightStep, FlightReturns, FlightSettles, FlightFails, server
<1>3. ASSUME NEW c \in Calls, ServerStep(c)
      PROVE  \/ UNCHANGED applied
             \/ /\ c \in Mutations /\ ~confirming[c] /\ wire[c].st = "out" /\ UNCHANGED client
                /\ applied' = [applied EXCEPT ![c] = @ + 1]
                /\ Answer(c, "ok", 0)
  BY <1>3, Zenon DEF ServerStep, Unavailable, ServeRead, ServeMutation, ServeCeremony, ServeLogout,
                     ServeRefresh, RefreshUnavailable, server
<1>4. ASSUME NEW g \in accessLive \cup refreshLive, AccessExpires(g) \/ SessionEnds(g) PROVE UNCHANGED applied
  BY <1>4, Zenon DEF AccessExpires, SessionEnds
<1>5. UNCHANGED vars => UNCHANGED applied
  BY Zenon DEF vars, server
<1> QED
  BY <1>1, <1>2, <1>3, <1>4, <1>5, Zenon DEF Next

\* What the server says of a write it has not been asked for before.
LEMMA WriteAnswers ==
  ASSUME TypeInv, NEW c \in Mutations, ~confirming[c], [Next]_vars, ~CallStep(c)
  PROVE  \/ wire'[c] = wire[c] /\ applied'[c] = applied[c]
         \/ /\ wire[c].st = "out" /\ wire'[c].st = "none"
            /\ applied'[c] \in {applied[c], applied[c] + 1}
         \/ /\ wire[c].st = "out" /\ AwaitsFetch(c)
            /\ \/ wire'[c].reply = "ok" /\ applied'[c] = applied[c] + 1
               \/ wire'[c].reply \in {"refused", "unauthorized", "unavailable"} /\ applied'[c] = applied[c]
<1>a. /\ wire \in [Calls -> Requests] /\ applied \in [Calls -> Nat] /\ c \in Calls
  BY DEF TypeInv, ClientTyped, ServerTyped, Calls
<1>b. c \notin Probes \cup Reads \cup Ceremonies \cup Logouts /\ ~RenewableRead(c)
  BY KindsAssumption, Zenon DEF RenewableRead
<1>c. c \notin Ceremonies /\ c \notin Logouts
  BY <1>b
<1> DEFINE Kept == wire'[c] = wire[c] /\ applied'[c] = applied[c]
<1>1. ASSUME NEW d \in Calls \ {c}, NEW reply, NEW grant, Answer(d, reply, grant) PROVE wire'[c] = wire[c]
  BY <1>1, <1>a DEF Answer
<1>2. ASSUME NEW reply, reply \notin {"revoked", "local_only"}, Answer(c, reply, 0)
      PROVE  \/ AwaitsFetch(c) /\ wire'[c].reply = reply
             \/ wire'[c].st = "none"
  BY <1>2, <1>a DEF Answer, SetsCookies, Served, Quiet
<1>3. ASSUME NEW d \in Calls \ {c}, CallStep(d) \/ ServerStep(d) PROVE Kept
  <2>1 CASE CallStep(d)
    BY <2>1, OthersUntouched, <1>a DEF CallStep, Start, Receive, CookiesArrive, Abort, Lose, Resume, ReadBody, Judge, server
  <2>2 CASE UNCHANGED <<wire, applied>>
    BY <2>2
  <2>3 CASE \E reply, grant : Answer(d, reply, grant) /\ (UNCHANGED applied \/ applied' = [applied EXCEPT ![d] = @ + 1])
    BY <2>3, <1>1, <1>a
  <2> QED
    BY <1>3, <2>1, <2>2, <2>3, Zenon DEF ServerStep, Unavailable, ServeRead, ServeMutation, ServeCeremony,
       ServeLogout, ServeRefresh, RefreshUnavailable, server
<1>4. ASSUME Unavailable(c) \/ ServeMutation(c)
      PROVE  /\ wire[c].st = "out"
             /\ \/ Answer(c, "ok", 0) /\ applied'[c] = applied[c] + 1
                \/ \E reply \in {"refused", "unauthorized", "unavailable"} :
                     Answer(c, reply, 0) /\ applied'[c] = applied[c]
  <2>1 CASE Unavailable(c)
    BY <2>1 DEF Unavailable, server
  <2>2. ASSUME ServeMutation(c)
        PROVE  \/ Answer(c, "ok", 0) /\ applied' = [applied EXCEPT ![c] = @ + 1]
               \/ \E reply \in {"refused", "unauthorized"} : Answer(c, reply, 0) /\ UNCHANGED applied
    BY <2>2 DEF ServeMutation
  <2>3. ServeMutation(c) => wire[c].st = "out"
    BY DEF ServeMutation
  <2> QED
    BY <1>4, <1>a, <2>1, <2>2, <2>3
<1>5. ASSUME ServerStep(c)
      PROVE  UNCHANGED <<wire, applied>> \/ Unavailable(c) \/ ServeMutation(c)
  BY <1>5, <1>b, <1>c, Zenon DEF ServerStep, ServeRead, ServeCeremony, ServeLogout, ServeRefresh, RefreshUnavailable,
                                 server
<1>6. ASSUME NEW d \in Calls, FlightStep(d) PROVE UNCHANGED <<wire, applied>>
  BY <1>6, Zenon DEF FlightStep, FlightReturns, FlightSettles, FlightFails, server
<1>7. ASSUME NEW g \in accessLive \cup refreshLive, AccessExpires(g) \/ SessionEnds(g)
      PROVE  UNCHANGED <<wire, applied>>
  BY <1>7, Zenon DEF AccessExpires, SessionEnds
<1>8. UNCHANGED vars => UNCHANGED <<wire, applied>>
  BY Zenon DEF vars, server
<1>9. UNCHANGED <<wire, applied>> => Kept
  OBVIOUS
<1> HIDE DEF Kept
<1>10. Kept \/ Unavailable(c) \/ ServeMutation(c)
  BY <1>3, <1>5, <1>6, <1>7, <1>8, <1>9, Zenon DEF Next
<1>11. ASSUME Unavailable(c) \/ ServeMutation(c)
       PROVE  \/ /\ wire[c].st = "out" /\ wire'[c].st = "none"
                 /\ applied'[c] \in {applied[c], applied[c] + 1}
              \/ /\ wire[c].st = "out" /\ AwaitsFetch(c)
                 /\ \/ wire'[c].reply = "ok" /\ applied'[c] = applied[c] + 1
                    \/ wire'[c].reply \in {"refused", "unauthorized", "unavailable"} /\ applied'[c] = applied[c]
  BY <1>4, <1>2, <1>11
<1> QED
  BY <1>10, <1>11, Zenon DEF Kept

\* A write's own step tells what its answer says.
LEMMA WriteTells ==
  ASSUME ContractInv, NEW c \in Mutations, CallStep(c)
  PROVE  /\ confirming'[c] => Meaning(result'[c]) # "done"
         /\ ~confirming'[c] =>
              /\ wire'[c].st = "back" => wire'[c] = wire[c] /\ ~confirming[c]
              /\ Meaning(result'[c]) = "done" => applied[c] = 1
              /\ Meaning(result'[c]) = "denied" => applied[c] = 0 /\ wire'[c].st # "out"
<1> USE DEF ContractInv, VerdictInv
<1>a. /\ wire \in [Calls -> Requests] /\ pc \in [Calls -> Phases] /\ c \in Calls
      /\ confirming \in [Calls -> BOOLEAN] /\ result \in [Calls -> Results \cup {"none"}]
  BY DEF TypeInv, ClientTyped, Calls
<1>b. c \notin Probes \cup Reads \cup Ceremonies \cup Logouts
  BY KindsAssumption, Zenon
<1>c. pc[c] # "settled" => result[c] = "none"
  BY <1>a DEF ResultByPhase
<1>1. ASSUME ~confirming[c], NEW r, Settle(c, r),
             r \in {"aborted", "rejected"} \/ (r = wire[c].reply /\ wire[c].st = "back")
      PROVE  /\ ~confirming'[c]
             /\ wire'[c].st = "back" => wire'[c] = wire[c]
             /\ Meaning(result'[c]) = "done" => applied[c] = 1
             /\ Meaning(result'[c]) = "denied" => applied[c] = 0 /\ wire'[c].st # "out"
  <2>1. confirming' = confirming /\ result'[c] = r /\ wire'[c] = Left(c, r)
    BY <1>1, <1>a DEF Settle
  <2>2. wire'[c].st = "back" => wire'[c] = wire[c]
    BY <2>1 DEF Left, Served, Quiet
  <2>3 CASE r \in {"aborted", "rejected"}
    <3>1. Meaning(r) # "done" /\ Meaning(r) # "denied"
      BY <2>3 DEF Meaning
    <3> QED
      BY <1>1, <2>1, <2>2, <3>1
  <2>4 CASE r = wire[c].reply /\ wire[c].st = "back"
    <3>1. r \in Replies /\ r \in Results
      BY <1>a, <2>4 DEF Replied, Requests, Results
    <3>2. /\ Meaning(r) = "done" => r = "ok"
          /\ Meaning(r) = "denied" => r \in {"signed_out", "unauthorized", "refused"}
      <4>1. r # "blank" /\ r # "bare"
        BY <3>1 DEF Replies
      <4> QED
        BY <3>1, <4>1, Meanings
    <3>3. wire'[c].st # "out"
      BY <2>1, <2>4 DEF Left, Served, Quiet
    <3> QED
      BY <1>1, <2>1, <2>2, <2>4, <3>2, <3>3 DEF WriteIsTold
  <2> QED
    BY <1>1, <2>3, <2>4
<1>3 CASE ~confirming[c]
  <2>1. pc[c] \in {"sent", "settled"} /\ ~RenewableRead(c) /\ ~MustReadBody(c, wire[c].reply)
    BY <1>3, <1>b DEF WriteByPhase, RenewableRead, MustReadBody
  <2>2. Receive(c) \/ Abort(c) \/ Lose(c) \/ CookiesArrive(c)
    BY <2>1 DEF CallStep, Start, Resume, ReadBody, Judge
  <2>3 CASE CookiesArrive(c)
    <3>1. UNCHANGED <<confirming, result>> /\ wire[c].st = "back" /\ wire'[c] = Served(c, result[c])
      BY <2>3, <1>a DEF CookiesArrive, client
    <3>2. wire'[c].st = "none"
      BY <3>1 DEF Served, Quiet
    <3> QED
      BY <1>3, <3>1, <3>2 DEF WriteIsTold
  <2>4 CASE Receive(c) \/ Abort(c) \/ Lose(c)
    <3>1. \/ \E r \in {"aborted", "rejected"} : Settle(c, r)
          \/ wire[c].st = "back" /\ Settle(c, wire[c].reply)
      BY <2>1, <2>4, <1>b DEF Receive, Told, Abort, Lose
    <3> QED
      BY <1>1, <1>3, <3>1
  <2> QED
    BY <2>2, <2>3, <2>4
<1>2 CASE confirming[c]
  <2>1. ASSUME NEW r \in Results, Settle(c, r), pc[c] # "settled"
        PROVE  \/ ~confirming'[c] /\ wire'[c] = Sent(jar) /\ result'[c] = "none"
               \/ confirming'[c] /\ Meaning(result'[c]) # "done"
    <3>1 CASE r \in {"ok", "blank"} /\ ~aborted[c]
      BY <1>2, <1>a, <1>c, <2>1, <3>1 DEF Settle
    <3>2 CASE ~(r \in {"ok", "blank"} /\ ~aborted[c])
      <4>1. /\ confirming'[c]
            /\ result'[c] = IF r \in {"ok", "blank"} THEN "aborted" ELSE r
        BY <1>2, <1>a, <2>1, <3>2 DEF Settle
      <4>2. result'[c] \in Results /\ result'[c] \notin {"ok", "blank"}
        BY <4>1 DEF Results
      <4> QED
        BY <4>1, <4>2, Meanings
    <3> QED
      BY <3>1, <3>2
  <2>2. ASSUME ~confirming'[c], wire'[c] = Sent(jar), result'[c] = "none"
        PROVE  wire'[c].st # "back" /\ Meaning(result'[c]) \notin {"done", "denied"}
    BY <2>2, Meanings DEF Sent
  <2>3. ASSUME UNCHANGED <<confirming, result>>, pc[c] # "settled"
        PROVE  confirming'[c] /\ Meaning(result'[c]) # "done"
    BY <1>2, <1>c, <2>3, Meanings
  <2>4 CASE \E r \in Results : Settle(c, r) /\ pc[c] # "settled"
    BY <2>1, <2>2, <2>4, Zenon
  <2>5 CASE UNCHANGED <<confirming, result>> /\ pc[c] # "settled"
    BY <2>3, <2>5, Zenon
  <2>6 CASE CookiesArrive(c)
    <3>1. UNCHANGED <<confirming, result>>
      BY <2>6 DEF CookiesArrive, client
    <3> QED
      BY <1>2, <3>1, Zenon DEF WriteIsTold
  <2>7. \/ (\E r \in Results : Settle(c, r)) /\ pc[c] # "settled"
        \/ UNCHANGED <<confirming, result>> /\ pc[c] # "settled"
        \/ CookiesArrive(c)
    BY <1>a, CallMoves
  <2> QED
    BY <2>4, <2>5, <2>6, <2>7, Zenon
<1> QED
  BY <1>2, <1>3

\* Every step leaves the answers telling what was done.
LEMMA NextWriteIsTold ==
  ASSUME ContractInv, [Next]_vars
  PROVE  WriteIsTold'
<1> USE DEF ContractInv, VerdictInv
<1>a. /\ applied \in [Calls -> Nat] /\ pc \in [Calls -> Phases] /\ confirming \in [Calls -> BOOLEAN]
      /\ wire \in [Calls -> Requests] /\ Mutations \subseteq Calls
  BY DEF TypeInv, ClientTyped, ServerTyped, Calls
<1>1. ASSUME NEW c \in Calls \ Mutations PROVE applied'[c] = 0
  BY <1>1, <1>a, EffectSteps DEF WriteIsTold
<1> DEFINE Tells(c) ==
      /\ confirming[c] => Meaning(result[c]) # "done"
      /\ ~confirming[c] =>
           /\ wire[c].st = "back" =>
                /\ wire[c].reply = "ok" => applied[c] = 1
                /\ wire[c].reply \in {"refused", "unauthorized"} => applied[c] = 0
                /\ wire[c].reply # "signed_out"
           /\ Meaning(result[c]) = "done" => applied[c] = 1
           /\ Meaning(result[c]) = "denied" => applied[c] = 0 /\ wire[c].st # "out"
<1>2. ASSUME NEW c \in Mutations, CallStep(c) PROVE Tells(c)'
  <2>1. UNCHANGED applied
    BY <1>2, Zenon DEF CallStep, Start, Receive, CookiesArrive, Abort, Lose, Resume, ReadBody, Judge, server
  <2> QED
    BY <1>2, <2>1, WriteTells, Zenon DEF WriteIsTold
<1>3. ASSUME NEW c \in Mutations, ~CallStep(c) PROVE Tells(c)'
  <2>1. pc'[c] = pc[c] /\ confirming'[c] = confirming[c] /\ result'[c] = result[c]
    BY <1>3, <1>a, ClientSteps, OthersUntouched DEF client
  <2>2 CASE confirming[c]
    BY <2>1, <2>2, Zenon DEF WriteIsTold
  <2>3 CASE ~confirming[c]
    <3>1. applied[c] = 0 \/ (applied[c] = 1 /\ wire[c].st # "out")
      BY <2>3 DEF WriteByPhase
    <3>2 CASE wire'[c] = wire[c] /\ applied'[c] = applied[c]
      BY <2>1, <2>3, <3>2, Zenon DEF WriteIsTold
    <3>3 CASE wire[c].st = "out" /\ wire'[c].st = "none"
      <4>1. Meaning(result[c]) \notin {"done", "denied"}
        BY <2>3, <3>1, <3>3 DEF WriteIsTold
      <4> QED
        BY <2>1, <2>3, <3>3, <4>1
    <3>4 CASE /\ wire[c].st = "out" /\ AwaitsFetch(c)
              /\ \/ wire'[c].reply = "ok" /\ applied'[c] = applied[c] + 1
                 \/ /\ wire'[c].reply \in {"refused", "unauthorized", "unavailable"}
                    /\ applied'[c] = applied[c]
      <4>1. Meaning(result[c]) = "none"
        BY <1>a, <3>4, Meanings DEF ResultByPhase, AwaitsFetch
      <4> QED
        BY <2>1, <2>3, <3>1, <3>4, <4>1
    <3> QED
      BY <1>3, <2>3, <3>2, <3>3, <3>4, WriteAnswers
  <2> QED
    BY <2>2, <2>3
<1> HIDE DEF Tells
<1>4. \A c \in Mutations : Tells(c)'
  BY <1>2, <1>3
<1> QED
  BY <1>1, <1>4 DEF WriteIsTold, Tells

\* The tab opens with every write to be made and nothing answered.
LEMMA InitContractInv == Init => ContractInv
<1> SUFFICES ASSUME Init PROVE ContractInv
  OBVIOUS
<1>1. \A c \in Calls : /\ wire[c] = Quiet /\ flight[c] = NoFlight /\ pc[c] = "idle"
                       /\ result[c] = "none" /\ applied[c] = 0
  BY DEF Init
<1>2. \A c \in Mutations : c \in Calls /\ confirming[c]
  BY DEF Init, Calls
<1>3. WriteByPhase /\ Replied /\ WriteIsTold
  BY <1>1, <1>2, Meanings DEF WriteByPhase, Replied, WriteIsTold, Quiet, NoFlight
<1> QED
  BY <1>3, InitVerdictInv DEF ContractInv

\* What the contract sees of the tab.
PhaseOf(c) ==
  CASE pc[c] = "idle" -> "idle" [] pc[c] = "settled" -> "closed" [] OTHER -> "open"

PhaseSeen == [c \in Calls |-> PhaseOf(c)]
OutcomeSeen == [c \in Calls |-> Meaning(result[c])]

\* A call whose place and result stay is seen where it was.
LEMMA SeenAlone ==
  ASSUME NEW c \in Calls, \A d \in Calls \ {c} : pc'[d] = pc[d] /\ result'[d] = result[d]
  PROVE  /\ PhaseSeen' = [PhaseSeen EXCEPT ![c] = PhaseOf(c)']
         /\ OutcomeSeen' = [OutcomeSeen EXCEPT ![c] = Meaning(result'[c])]
<1>1. \A d \in Calls \ {c} : PhaseOf(d)' = PhaseOf(d) /\ Meaning(result'[d]) = Meaning(result[d])
  BY Zenon DEF PhaseOf
<1> QED
  BY <1>1 DEF PhaseSeen, OutcomeSeen

\* A step of a call is one the contract allows it.
LEMMA CallImplements ==
  ASSUME ContractInv, ContractInv', NEW c \in Calls, CallStep(c)
  PROVE  [Contract!CNext]_(Contract!cvars)
<1> USE DEF ContractInv, VerdictInv
<1>1. UNCHANGED applied
  BY Zenon DEF CallStep, Start, Receive, CookiesArrive, Abort, Lose, Resume, ReadBody, Judge, server
<1>2. /\ PhaseSeen' = [PhaseSeen EXCEPT ![c] = PhaseOf(c)']
      /\ OutcomeSeen' = [OutcomeSeen EXCEPT ![c] = Meaning(result'[c])]
  BY OthersUntouched, SeenAlone
<1>3 CASE result'[c] = result[c] /\ pc[c] = "idle" /\ pc'[c] = "sent"
  <2>1. PhaseSeen[c] = "idle" /\ PhaseOf(c)' = "open"
    BY <1>3 DEF PhaseSeen, PhaseOf
  <2>2. OutcomeSeen' = OutcomeSeen
    BY <1>2, <1>3 DEF OutcomeSeen
  <2>3. Contract!Open(c)
    BY <1>1, <1>2, <2>1, <2>2 DEF Contract!Open, PhaseSeen, OutcomeSeen, PhaseOf
  <2> QED
    BY <2>3 DEF Contract!CNext
<1>4 CASE result'[c] = result[c] /\ {pc[c], pc'[c]} \cap {"idle", "settled"} = {}
  <2>1. PhaseOf(c)' = PhaseOf(c)
    BY <1>4 DEF PhaseOf
  <2>2. PhaseSeen' = PhaseSeen /\ OutcomeSeen' = OutcomeSeen
    BY <1>2, <1>4, <2>1 DEF PhaseSeen, OutcomeSeen
  <2> QED
    BY <1>1, <2>2 DEF Contract!cvars, PhaseSeen, OutcomeSeen, PhaseOf
<1>5 CASE pc[c] \notin {"idle", "settled"} /\ pc'[c] = "settled" /\ result'[c] \in Results
  <2>1. PhaseSeen[c] = "open" /\ PhaseOf(c)' = "closed"
    BY <1>5 DEF PhaseSeen, PhaseOf
  <2>2. PICK o \in Contract!Outcomes : o = Meaning(result'[c])
    BY <1>5, Meanings DEF Contract!Outcomes
  <2>3. o = "done" /\ c \in Mutations => applied[c] = 1
    BY <1>1, <2>2, Zenon DEF WriteIsTold
  <2>4. o = "denied" => applied[c] = 0
    BY <1>1, <2>2, Zenon DEF WriteIsTold, WriteByPhase
  <2>5. PhaseSeen' = [PhaseSeen EXCEPT ![c] = "closed"] /\ OutcomeSeen' = [OutcomeSeen EXCEPT ![c] = o]
    BY <1>2, <2>1, <2>2
  <2>6. Contract!Close(c, o)
    BY <1>1, <2>1, <2>3, <2>4, <2>5 DEF Contract!Close, PhaseSeen, OutcomeSeen, PhaseOf
  <2> QED
    BY <2>6 DEF Contract!CNext
<1>6 CASE pc'[c] = pc[c] /\ result'[c] = result[c]
  <2>1. PhaseOf(c)' = PhaseOf(c)
    BY <1>6 DEF PhaseOf
  <2>2. PhaseSeen' = PhaseSeen /\ OutcomeSeen' = OutcomeSeen
    BY <1>2, <1>6, <2>1 DEF PhaseSeen, OutcomeSeen
  <2> QED
    BY <1>1, <2>2 DEF Contract!cvars, PhaseSeen, OutcomeSeen, PhaseOf
<1> QED
  BY <1>3, <1>4, <1>5, <1>6, CallProgress

\* So is a step of the server, which may carry out a write whose call is open
\* or closed without an answer.
LEMMA EffectImplements ==
  ASSUME ContractInv, [Next]_vars, UNCHANGED client
  PROVE  [Contract!CNext]_(Contract!cvars)
<1>1. PhaseSeen' = PhaseSeen /\ OutcomeSeen' = OutcomeSeen
  BY Zenon DEF client, PhaseSeen, OutcomeSeen, PhaseOf
<1>2 CASE UNCHANGED applied
  BY <1>1, <1>2 DEF Contract!cvars, PhaseSeen, OutcomeSeen, PhaseOf
<1>3. ASSUME NEW c \in Mutations, ~confirming[c], wire[c].st = "out",
             applied' = [applied EXCEPT ![c] = @ + 1]
      PROVE  Contract!CNext
  <2>1. c \in Calls /\ applied \in [Calls -> Nat] /\ result \in [Calls -> Results \cup {"none"}]
    BY DEF ContractInv, VerdictInv, TypeInv, ClientTyped, ServerTyped, Calls
  <2>2. applied[c] = 0 /\ pc[c] \in {"sent", "settled"}
    BY <1>3 DEF ContractInv, WriteByPhase
  <2>3. applied' = [applied EXCEPT ![c] = 1]
    BY <1>3, <2>1, <2>2
  <2>4. PhaseSeen[c] # "idle"
    BY <2>1, <2>2 DEF PhaseSeen, PhaseOf
  <2>5. OutcomeSeen[c] \in {"none", "unknown"}
    <3>1. Meaning(result[c]) \in {"none", "done", "denied", "unknown"}
      BY <2>1, Meanings
    <3>2. Meaning(result[c]) \notin {"done", "denied"}
      BY <1>3, <2>2 DEF ContractInv, WriteIsTold
    <3> QED
      BY <2>1, <3>1, <3>2 DEF OutcomeSeen
  <2>6. Contract!Effect(c)
    BY <1>1, <1>3, <2>2, <2>3, <2>4, <2>5 DEF Contract!Effect, PhaseSeen, OutcomeSeen, PhaseOf
  <2> QED
    BY <2>1, <2>6 DEF Contract!CNext
<1> QED
  BY <1>2, <1>3, EffectSteps

\* bff() implements SessionContract: a caller that is told a write was done,
\* or was refused, is told what the server did and will do, for any number
\* of calls, renewals, lost answers and cancellations.
THEOREM ContractImplemented == Spec => ImplementsContract
<1>1. Init => ContractInv
  BY InitContractInv
<1>2. ContractInv /\ [Next]_vars => ContractInv'
  BY NextVerdictInv, NextWriteByPhase, NextReplied, NextWriteIsTold DEF ContractInv, VerdictInv
<1>3. Init => Contract!CInit
  <2> SUFFICES ASSUME Init PROVE Contract!CInit
    OBVIOUS
  <2>1. PhaseSeen = [c \in Calls |-> "idle"] /\ OutcomeSeen = [c \in Calls |-> "none"]
    BY Meanings DEF Init, PhaseSeen, PhaseOf, OutcomeSeen
  <2>2. applied = [c \in Calls |-> 0]
    BY DEF Init
  <2> QED
    BY <2>1, <2>2 DEF Contract!CInit, PhaseSeen, PhaseOf, OutcomeSeen
<1>4. ContractInv /\ ContractInv' /\ [Next]_vars => [Contract!CNext]_(Contract!cvars)
  BY CallImplements, EffectImplements, ClientSteps
<1> QED
  BY <1>1, <1>2, <1>3, <1>4, PTL DEF Spec, ImplementsContract, Contract!CSpec
=============================================================================
