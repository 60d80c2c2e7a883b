---------------------------- MODULE AccountProofs ----------------------------
(***************************************************************************)
(* Theorems about Account, for any other sessions and any number of        *)
(* secrets and of sets of codes.                                           *)
(***************************************************************************)
EXTENDS Account, TLAPS

\* What the form on screen has in hand: the enrolment's phases and requests
\* are those of the enrolment, the request for new codes that of a form not
\* done, and codes are shown by a form that is.
FormsMatch ==
  /\ action.op = "none" => action.at = "idle"
  /\ held.phase # "password" => section.shows = "enrol"
  /\ held.phase \in {"display", "success"} => held.secret # Nil
  /\ held.codes # Nil => (section.shows = "enrolled" /\ held.done) \/ held.phase = "success"
  /\ action.op = "initiate" => section.shows = "enrol" /\ held.phase = "password"
  /\ action.op = "complete" =>
       section.shows = "enrol" /\ held.phase = "display" /\ action.secret = held.secret
  /\ action.op = "regenerate" => section.shows = "enrolled" /\ ~held.done

\* Request r has codes only once it is answered.
Pending(r) == r.codes # Nil => r.at = "back"

\* The sessions a bulk revocation has been through are gone, unless a call failed.
LoopHolds(a, r) ==
  r.op \in Revocations =>
    /\ r.at = "looping" /\ ~r.failed => (r.ends \ r.todo) \cap a.live = {}
    /\ r.at = "back" /\ r.says = "ok" => r.ends \cap a.live = {}

IsArmed(a, secret) == secret = a.armed \/ a.live = {}
IsNewest(a, codes) == codes # Nil => codes <= a.codes /\ (codes = a.codes \/ a.apart > codes)

\* The answer to request r, once there is one, is still so.
AnswerHolds(a, r) ==
  /\ Pending(r) /\ LoopHolds(a, r) /\ IsNewest(a, r.codes)
  /\ r.at = "back" /\ r.says = "ok" =>
       /\ r.op = "complete" => IsArmed(a, r.secret)
       /\ r.op = "initiate" => r.secret # Nil

\* What the form on screen says is still so.
ScreenHolds ==
  /\ held.revoked \cap account.live = {}
  /\ held.phase = "success" => IsArmed(account, held.secret)
  /\ IsNewest(account, held.codes)

\* What is left of a request whose form is gone names no session and no codes.
OrphanHolds ==
  orphan.codes = Nil /\ orphan.ends = {} /\ (orphan.op = "none" => orphan.at = "idle")

AccountInv ==
  AccountTypeOK /\ FormsMatch /\ OrphanHolds /\ AnswerHolds(account, action) /\ ScreenHolds

-----------------------------------------------------------------------------
(* What a step of the IdP may do to the account *)

\* From a to b, sessions only end, and what is armed stays, or all end.
Lasts(a, b) == b.live \subseteq a.live /\ (a.armed # Nil => b.armed = a.armed \/ b.live = {})

\* New codes are made apart from this document's forms.
MadeApart(a, b) ==
  \/ b.codes = a.codes /\ b.apart = a.apart
  \/ b.codes = a.codes + 1 /\ b.apart = b.codes

\* What was so before such a step is so after it.
LEMMA StaysArmed ==
  ASSUME NEW a \in Accounts, NEW b \in Accounts, Lasts(a, b),
         NEW secret \in Secrets, IsArmed(a, secret)
  PROVE  IsArmed(b, secret)
<1>1. secret # Nil
  BY AccountAssumption DEF Secrets, Nil
<1>2. CASE a.live = {}
  BY <1>2 DEF Lasts, IsArmed
<1>3. CASE secret = a.armed
  BY <1>1, <1>3 DEF Lasts, IsArmed
<1> QED
  BY <1>2, <1>3 DEF IsArmed

LEMMA StaysNewest ==
  ASSUME NEW a \in Accounts, NEW b \in Accounts, MadeApart(a, b),
         NEW codes \in Codes \cup {Nil}, IsNewest(a, codes)
  PROVE  IsNewest(b, codes)
<1>1. /\ a.codes \in Nat /\ b.codes \in Nat /\ a.apart \in Nat /\ b.apart \in Nat
      /\ codes \in Nat
  BY AccountAssumption DEF Accounts, Codes, Nil
<1> QED
  BY <1>1 DEF MadeApart, IsNewest

LEMMA StaysGone ==
  ASSUME NEW a, NEW b, Lasts(a, b), NEW r, LoopHolds(a, r)
  PROVE  LoopHolds(b, r)
  BY DEF Lasts, LoopHolds

-----------------------------------------------------------------------------
(* What the IdP does for a request *)

\* The account becomes b, and request r becomes q.
Brings(r, b, q) ==
  /\ b \in Accounts /\ q \in Requests
  /\ Lasts(account, b) /\ b.apart = account.apart
  /\ \/ b.codes = account.codes /\ q.codes = Nil
     \/ /\ b.codes = account.codes + 1 /\ q.codes = b.codes
        /\ r.op \in {"complete", "regenerate"} /\ q.at = "back"
  /\ q.op = r.op /\ q.at \in {"looping", "back"}
  /\ r.op = "complete" => q.secret = r.secret
  /\ q.at = "back" /\ q.says = "ok" =>
       /\ r.op = "complete" => b.armed = r.secret
       /\ r.op = "initiate" => q.secret # Nil
  /\ LoopHolds(b, q)

LEMMA AnsweredSo ==
  ASSUME account \in Accounts, NEW r \in Requests, r.codes = Nil,
         NEW says \in {"ok", "enrolled", "refused", "failed"}
  PROVE  LET q == Answered(r, says) IN
         /\ q \in Requests /\ q.at = "back" /\ q.says = says /\ q.op = r.op
         /\ q.codes = Nil /\ q.secret = r.secret /\ q.ends = r.ends
  BY DEF Answered, Requests

LEMMA EndedSo ==
  ASSUME account \in Accounts, NEW gone
  PROVE  LET b == Ended(gone) IN
         /\ b \in Accounts /\ Lasts(account, b) /\ b.live = account.live \ gone
         /\ b.codes = account.codes /\ b.apart = account.apart
  BY DEF Ended, Accounts, Lasts

LEMMA SecretIssuedSo ==
  ASSUME account \in Accounts, account.issued < MaxSecrets
  PROVE  /\ SecretIssued \in Accounts /\ Lasts(account, SecretIssued)
         /\ SecretIssued.codes = account.codes /\ SecretIssued.apart = account.apart
         /\ account.issued + 1 \in Secrets
<1>1. account.issued \in 0..MaxSecrets /\ account.issued + 1 \in Secrets
  BY AccountAssumption DEF Accounts, Secrets
<1>2. account.issued + 1 \in 0..MaxSecrets
  BY <1>1, AccountAssumption DEF Secrets
<1> QED
  BY <1>1, <1>2 DEF SecretIssued, Accounts, Lasts

LEMMA CodesMadeSo ==
  ASSUME account \in Accounts, account.codes # MaxCodes
  PROVE  /\ NewCodes \in Accounts /\ Lasts(account, NewCodes)
         /\ NewCodes.codes = account.codes + 1 /\ NewCodes.apart = account.apart
         /\ account.codes + 1 \in Codes
         /\ \A secret \in Secrets \cup {Nil} : account.armed = Nil =>
              /\ Armed(secret) \in Accounts /\ Lasts(account, Armed(secret))
              /\ Armed(secret).armed = secret
              /\ Armed(secret).codes = account.codes + 1
              /\ Armed(secret).apart = account.apart
<1>1. account.codes \in 0..MaxCodes /\ account.codes + 1 \in Codes
  BY AccountAssumption DEF Accounts, Codes
<1>2. account.codes + 1 \in 0..MaxCodes
  BY <1>1, AccountAssumption DEF Codes
<1>3. /\ NewCodes \in Accounts /\ Lasts(account, NewCodes)
      /\ NewCodes.codes = account.codes + 1 /\ NewCodes.apart = account.apart
  BY <1>2 DEF NewCodes, Accounts, Lasts
<1>4. ASSUME NEW secret \in Secrets \cup {Nil}, account.armed = Nil
      PROVE  /\ Armed(secret) \in Accounts /\ Lasts(account, Armed(secret))
             /\ Armed(secret).armed = secret
             /\ Armed(secret).codes = account.codes + 1
             /\ Armed(secret).apart = account.apart
  BY <1>2, <1>4 DEF Armed, Accounts, Lasts
<1> QED
  BY <1>1, <1>3, <1>4

LEMMA DisarmedSo ==
  ASSUME account \in Accounts
  PROVE  /\ Disarmed \in Accounts /\ Lasts(account, Disarmed)
         /\ Disarmed.codes = account.codes /\ Disarmed.apart = account.apart
  BY DEF Disarmed, Accounts, Lasts

\* One step of a bulk revocation.
LEMMA RevokesSo ==
  ASSUME account \in Accounts, NEW r \in Requests, r.op \in Revocations,
         r.at \in {"out", "looping"}, r.codes = Nil, LoopHolds(account, r),
         NEW out \in Revokes(r)
  PROVE  Brings(r, out[1], out[2])
<1>1. /\ account.live \subseteq Sessions /\ Lasts(account, account)
      /\ r.op \notin {"complete", "initiate", "regenerate"}
  BY DEF Accounts, Lasts, Revocations
<1>2. ASSUME r.at = "out", out = <<account, Answered(r, "failed")>>
      PROVE  Brings(r, out[1], out[2])
  BY <1>1, <1>2, AnsweredSo DEF Brings, LoopHolds
<1>3. ASSUME r.at = "out",
             out = <<account, [r EXCEPT !.at = "looping", !.todo = Targets(r.op),
                                        !.ends = Targets(r.op)]>>
      PROVE  Brings(r, out[1], out[2])
  <2>1. Targets(r.op) \in SUBSET Sessions
    BY <1>1 DEF Targets
  <2> DEFINE q == [r EXCEPT !.at = "looping", !.todo = Targets(r.op), !.ends = Targets(r.op)]
  <2>2. /\ q \in Requests /\ q.op = r.op /\ q.at = "looping" /\ q.codes = Nil
        /\ q.todo = q.ends
    BY <2>1 DEF Requests
  <2> HIDE DEF q
  <2>3. out[1] = account /\ out[2] = q
    BY <1>3 DEF q
  <2>4. LoopHolds(account, q)
    BY <2>2 DEF LoopHolds
  <2> QED
    BY <1>1, <2>2, <2>3, <2>4 DEF Brings
<1>4. ASSUME r.at = "looping", r.todo = {},
             out = <<account, Answered(r, IF r.failed THEN "failed" ELSE "ok")>>
      PROVE  Brings(r, out[1], out[2])
  <2> DEFINE says == IF r.failed THEN "failed" ELSE "ok"
             q == Answered(r, says)
  <2>1. /\ q \in Requests /\ q.op = r.op /\ q.at = "back" /\ q.codes = Nil
        /\ q.ends = r.ends /\ q.says = says
    BY AnsweredSo
  <2>2. ~r.failed => r.ends \cap account.live = {}
    BY <1>4 DEF LoopHolds
  <2>3. LoopHolds(account, q)
    BY <2>1, <2>2 DEF LoopHolds
  <2>4. out[1] = account /\ out[2] = q
    BY <1>4
  <2> HIDE DEF q
  <2> QED
    BY <1>1, <2>1, <2>3, <2>4 DEF Brings
<1>5. ASSUME r.at = "looping", NEW s \in r.todo, NEW ok \in BOOLEAN, NEW b \in Accounts,
             Lasts(account, b), b.codes = account.codes, b.apart = account.apart,
             ok => s \notin b.live, out = <<b, Revoked(r, s, ok)>>
      PROVE  Brings(r, out[1], out[2])
  <2> DEFINE q == Revoked(r, s, ok)
  <2>1. /\ q \in Requests /\ q.op = r.op /\ q.at = "looping" /\ q.codes = Nil
        /\ q.ends = r.ends /\ q.todo = r.todo \ {s} /\ q.failed = (r.failed \/ ~ok)
    BY <1>5 DEF Revoked, Requests
  <2>2. LoopHolds(b, r)
    BY <1>5, StaysGone
  <2>3. LoopHolds(b, q)
    BY <1>5, <2>1, <2>2 DEF LoopHolds
  <2>4. out[1] = b /\ out[2] = q
    BY <1>5
  <2> HIDE DEF q
  <2> QED
    BY <1>1, <1>5, <2>1, <2>3, <2>4 DEF Brings
<1>6. ASSUME NEW s \in r.todo, r.at = "looping",
             \/ out = <<account, Revoked(r, s, FALSE)>>
             \/ \E ok \in BOOLEAN : out = <<Ended({s}), Revoked(r, s, ok)>>
      PROVE  Brings(r, out[1], out[2])
  <2>1. CASE out = <<account, Revoked(r, s, FALSE)>>
    BY <1>1, <1>5, <1>6, <2>1
  <2>2. ASSUME NEW ok \in BOOLEAN, out = <<Ended({s}), Revoked(r, s, ok)>>
        PROVE  Brings(r, out[1], out[2])
    <3>1. /\ Ended({s}) \in Accounts /\ Lasts(account, Ended({s})) /\ s \notin Ended({s}).live
          /\ Ended({s}).codes = account.codes /\ Ended({s}).apart = account.apart
      BY EndedSo
    <3> QED
      BY <1>5, <1>6, <2>2, <3>1
  <2> QED
    BY <1>6, <2>1, <2>2
<1>7. CASE r.at = "out"
  BY <1>2, <1>3, <1>7 DEF Revokes
<1>8. CASE r.at = "looping" /\ r.todo = {}
  BY <1>4, <1>8 DEF Revokes
<1>9. CASE r.at = "looping" /\ r.todo # {}
  <2>1. PICK s \in r.todo :
          out \in {<<account, Revoked(r, s, FALSE)>>} \cup
                 IF SignedIn THEN {<<Ended({s}), Revoked(r, s, ok)>> : ok \in BOOLEAN} ELSE {}
    BY <1>9, Zenon DEF Revokes
  <2> QED
    BY <1>6, <1>9, <2>1, Zenon
<1> QED
  BY <1>7, <1>8, <1>9

\* What every request but those of a bulk revocation leads to.
LEMMA ActsSo ==
  ASSUME account \in Accounts, NEW r \in Requests, r.op \in Ops \ Revocations,
         r.codes = Nil, NEW out \in Outcomes(r)
  PROVE  Brings(r, out[1], out[2])
<1> DEFINE says(word) == Answered(r, word)
<1>1. \A q : q.op = r.op => \A b : LoopHolds(b, q)
  BY DEF LoopHolds
<1>2. ASSUME NEW word \in {"ok", "enrolled", "refused"}, NEW b \in Accounts, Lasts(account, b),
             b.codes = account.codes, b.apart = account.apart,
             word = "ok" => r.op \in {"save", "password", "disable"},
             out = <<b, says(word)>>
      PROVE  Brings(r, out[1], out[2])
  <2>1. LET q == says(word) IN
        /\ q \in Requests /\ q.at = "back" /\ q.says = word /\ q.op = r.op
        /\ q.codes = Nil /\ q.secret = r.secret
    BY AnsweredSo
  <2>2. out[1] = b /\ out[2] = says(word)
    BY <1>2
  <2> HIDE DEF says
  <2> QED
    BY <1>1, <1>2, <2>1, <2>2 DEF Brings
<1>3. account \in Accounts /\ Lasts(account, account)
  BY DEF Lasts
<1>4. ASSUME r.op = "initiate", account.issued < MaxSecrets,
             out = <<SecretIssued, [says("ok") EXCEPT !.secret = account.issued + 1]>>
      PROVE  Brings(r, out[1], out[2])
  <2> DEFINE q == [says("ok") EXCEPT !.secret = account.issued + 1]
  <2>1. /\ SecretIssued \in Accounts /\ Lasts(account, SecretIssued)
        /\ SecretIssued.codes = account.codes /\ SecretIssued.apart = account.apart
        /\ account.issued + 1 \in Secrets
    BY <1>4, SecretIssuedSo
  <2>2. /\ says("ok") \in Requests /\ says("ok").at = "back" /\ says("ok").op = r.op
        /\ says("ok").codes = Nil
    BY AnsweredSo
  <2>3. account.issued + 1 # Nil
    BY <2>1, AccountAssumption DEF Secrets, Nil
  <2> HIDE DEF says
  <2>4. /\ q \in Requests /\ q.at = "back" /\ q.op = r.op /\ q.codes = Nil /\ q.secret # Nil
    BY <2>1, <2>2, <2>3 DEF Requests
  <2>5. out[1] = SecretIssued /\ out[2] = q
    BY <1>4
  <2> HIDE DEF q
  <2> QED
    BY <1>1, <1>4, <2>1, <2>4, <2>5 DEF Brings
<1>5. ASSUME NEW b \in Accounts, Lasts(account, b), b.apart = account.apart,
             b.codes = account.codes + 1, account.codes + 1 \in Codes,
             r.op \in {"complete", "regenerate"}, r.op = "complete" => b.armed = r.secret,
             out = <<b, [says("ok") EXCEPT !.codes = account.codes + 1]>>
      PROVE  Brings(r, out[1], out[2])
  <2> DEFINE q == [says("ok") EXCEPT !.codes = account.codes + 1]
  <2>1. /\ says("ok") \in Requests /\ says("ok").at = "back" /\ says("ok").op = r.op
        /\ says("ok").secret = r.secret
    BY AnsweredSo
  <2> HIDE DEF says
  <2>2. /\ q \in Requests /\ q.at = "back" /\ q.op = r.op /\ q.secret = r.secret
        /\ q.codes = b.codes
    BY <1>5, <2>1 DEF Requests
  <2>3. out[1] = b /\ out[2] = q
    BY <1>5
  <2> HIDE DEF q
  <2> QED
    BY <1>1, <1>5, <2>2, <2>3 DEF Brings
<1> HIDE DEF says
<1>6. CASE out = <<account, says("refused")>>
  BY <1>2, <1>3, <1>6
<1>7. ASSUME r.op = "save", out = <<account, says("ok")>>
      PROVE  Brings(r, out[1], out[2])
  BY <1>2, <1>3, <1>7
<1>8. ASSUME out = <<account, says("enrolled")>>
      PROVE  Brings(r, out[1], out[2])
  BY <1>2, <1>3, <1>8
<1>9. ASSUME r.op = "password", out = <<Ended(Others), says("ok")>>
      PROVE  Brings(r, out[1], out[2])
  <2>1. /\ Ended(Others) \in Accounts /\ Lasts(account, Ended(Others))
        /\ Ended(Others).codes = account.codes /\ Ended(Others).apart = account.apart
    BY EndedSo
  <2> QED
    BY <1>2, <1>9, <2>1
<1>10. ASSUME r.op = "disable", out = <<Disarmed, says("ok")>>
       PROVE  Brings(r, out[1], out[2])
  BY <1>2, <1>10, DisarmedSo
<1>11. ASSUME r.op = "complete", account.codes # MaxCodes, account.armed = Nil,
              out = <<Armed(r.secret), [says("ok") EXCEPT !.codes = account.codes + 1]>>
       PROVE  Brings(r, out[1], out[2])
  <2>1. r.secret \in Secrets \cup {Nil}
    BY DEF Requests
  <2>2. /\ account.codes + 1 \in Codes
        /\ Armed(r.secret) \in Accounts /\ Lasts(account, Armed(r.secret))
        /\ Armed(r.secret).armed = r.secret
        /\ Armed(r.secret).codes = account.codes + 1
        /\ Armed(r.secret).apart = account.apart
    BY <1>11, <2>1, CodesMadeSo
  <2> QED
    BY <1>5, <1>11, <2>2
<1>12. ASSUME r.op = "regenerate", account.codes # MaxCodes,
              out = <<NewCodes, [says("ok") EXCEPT !.codes = account.codes + 1]>>
       PROVE  Brings(r, out[1], out[2])
  BY <1>5, <1>12, CodesMadeSo
<1>13. r.op \notin Revocations
  OBVIOUS
<1>14. ASSUME SignedIn, out \in Granted(r) PROVE Brings(r, out[1], out[2])
  <2>1. CASE r.op = "save"
    BY <1>7, <1>14, <2>1, Zenon DEF Granted, says
  <2>2. CASE r.op = "password"
    BY <1>9, <1>14, <2>2, Zenon DEF Granted, says
  <2>3. CASE r.op \in {"initiate", "complete"} /\ account.armed # Nil
    BY <1>8, <1>14, <2>3, Zenon DEF Granted, says
  <2>4. CASE r.op = "initiate" /\ account.armed = Nil
    BY <1>4, <1>14, <2>4 DEF Granted, says
  <2>5. CASE r.op = "complete" /\ account.armed = Nil
    BY <1>11, <1>14, <2>5, AccountAssumption DEF Granted, says
  <2>6. CASE r.op = "regenerate"
    BY <1>12, <1>14, <2>6, AccountAssumption DEF Granted, says
  <2>7. CASE r.op = "disable"
    BY <1>10, <1>14, <2>7 DEF Granted, says
  <2> QED
    BY <2>1, <2>2, <2>3, <2>4, <2>5, <2>6, <2>7 DEF Ops
<1> QED
  BY <1>6, <1>13, <1>14 DEF Outcomes, says

LEMMA BringsSo ==
  ASSUME account \in Accounts, NEW r \in Requests, r.op # "none", r.codes = Nil,
         r.at \in {"out", "looping"}, LoopHolds(account, r), NEW out \in Outcomes(r)
  PROVE  Brings(r, out[1], out[2])
<1>1. CASE r.op \in Revocations
  BY <1>1, RevokesSo DEF Outcomes
<1>2. CASE r.op \in Ops \ Revocations
  BY <1>2, ActsSo
<1> QED
  BY <1>1, <1>2 DEF Requests

LEMMA ApartSo ==
  ASSUME account \in Accounts, NEW b \in Accounts, b.apart = account.apart,
         b.codes = account.codes \/ b.codes = account.codes + 1
  PROVE  /\ Apart(b) \in Accounts /\ MadeApart(account, Apart(b))
         /\ Lasts(account, b) => Lasts(account, Apart(b))
<1>1. account.codes \in Nat /\ b.codes \in 0..MaxCodes /\ b.apart \in 0..MaxCodes
  BY AccountAssumption DEF Accounts
<1>2. CASE b.codes = account.codes
  <2>1. Apart(b) = b
    BY <1>2 DEF Apart, Accounts
  <2> QED
    BY <1>2, <2>1 DEF MadeApart
<1>3. CASE b.codes = account.codes + 1
  <2>1. b.codes # account.codes
    BY <1>1, <1>3
  <2>2. Apart(b) = [b EXCEPT !.apart = b.codes]
    BY <2>1 DEF Apart
  <2>3. /\ Apart(b) \in Accounts /\ Apart(b).codes = b.codes /\ Apart(b).apart = b.codes
        /\ Apart(b).live = b.live /\ Apart(b).armed = b.armed
    BY <1>1, <2>2 DEF Accounts
  <2> QED
    BY <1>3, <2>3 DEF MadeApart, Lasts
<1> QED
  BY <1>2, <1>3

LEMMA ElsewhereSo ==
  ASSUME account \in Accounts, WorkElsewhere
  PROVE  account' \in Accounts /\ Lasts(account, account') /\ MadeApart(account, account')
<1>1. CASE account.issued < MaxSecrets /\ account' = SecretIssued
  BY <1>1, SecretIssuedSo DEF MadeApart
<1>2. CASE /\ account.armed = Nil /\ account.codes < MaxCodes
           /\ account' = Apart(Armed(account.awaited))
  <2>1. account.codes # MaxCodes /\ account.awaited \in Secrets \cup {Nil}
    BY <1>2, AccountAssumption DEF Accounts
  <2>2. LET b == Armed(account.awaited) IN
        /\ b \in Accounts /\ Lasts(account, b)
        /\ b.codes = account.codes + 1 /\ b.apart = account.apart
    BY <1>2, <2>1, CodesMadeSo
  <2> QED
    BY <1>2, <2>2, ApartSo
<1>3. CASE account.codes < MaxCodes /\ account' = Apart(NewCodes)
  <2>1. account.codes # MaxCodes
    BY <1>3, AccountAssumption DEF Accounts
  <2> QED
    BY <1>3, <2>1, CodesMadeSo, ApartSo
<1>4. CASE account' = Disarmed
  BY <1>4, DisarmedSo DEF MadeApart
<1>5. ASSUME NEW s \in account.live, account' = Ended({s})
      PROVE  account' \in Accounts /\ Lasts(account, account') /\ MadeApart(account, account')
  BY <1>5, EndedSo DEF MadeApart
<1> QED
  BY <1>1, <1>2, <1>3, <1>4, <1>5 DEF WorkElsewhere

LEMMA LeftSo ==
  ASSUME NEW r \in Requests
  PROVE  /\ Left(r) \in Requests /\ Left(r).codes = Nil /\ Left(r).ends = {}
         /\ Left(r).op = r.op /\ Left(r).at = r.at
  BY DEF Left, Requests

LEMMA NothingSo ==
  /\ NoRequest \in Requests /\ NothingHeld \in Helds
  /\ \A a : AnswerHolds(a, NoRequest)
<1>1. NoRequest \in Requests
  BY DEF NoRequest, Requests
<1>2. NothingHeld \in Helds
  BY DEF NothingHeld, Helds
<1>3. \A a : AnswerHolds(a, NoRequest)
  BY DEF AnswerHolds, NoRequest, Pending, LoopHolds, IsNewest, Revocations
<1> QED
  BY <1>1, <1>2, <1>3

-----------------------------------------------------------------------------
(* Steps of the IdP *)

\* What is said on screen, of a step that makes new codes only apart.
LEMMA ScreenStays ==
  ASSUME AccountInv, account' \in Accounts, Lasts(account, account'), held' = held,
         \/ MadeApart(account, account')
         \/ held.codes = Nil
  PROVE  ScreenHolds'
<1>1. held.revoked \cap account'.live = {}
  BY DEF AccountInv, ScreenHolds, Lasts
<1>2. held.phase = "success" => IsArmed(account', held.secret)
  <2>1. held.phase = "success" => held.secret \in Secrets /\ IsArmed(account, held.secret)
    BY DEF AccountInv, AccountTypeOK, Helds, FormsMatch, ScreenHolds
  <2> QED
    BY <2>1, StaysArmed DEF AccountInv, AccountTypeOK
<1>3. IsNewest(account', held.codes)
  <2>1. held.codes \in Codes \cup {Nil} /\ IsNewest(account, held.codes)
    BY DEF AccountInv, AccountTypeOK, Helds, ScreenHolds
  <2>2. CASE held.codes = Nil
    BY <2>2 DEF IsNewest
  <2>3. CASE MadeApart(account, account')
    BY <2>1, <2>3, StaysNewest DEF AccountInv, AccountTypeOK
  <2> QED
    BY <2>2, <2>3
<1> QED
  BY <1>1, <1>2, <1>3 DEF ScreenHolds, IsArmed, IsNewest

\* The answer to the request of a form shown, of a step apart from it.
LEMMA AnswerStays ==
  ASSUME AccountInv, account' \in Accounts, Lasts(account, account'),
         MadeApart(account, account')
  PROVE  AnswerHolds(account', action)
<1>1. action \in Requests /\ account \in Accounts /\ AnswerHolds(account, action)
  BY DEF AccountInv, AccountTypeOK
<1>2. LoopHolds(account', action)
  BY <1>1, StaysGone DEF AnswerHolds
<1>3. IsNewest(account', action.codes)
  BY <1>1, StaysNewest DEF AnswerHolds, Requests
<1>4. ASSUME action.op = "complete", action.at = "back", action.says = "ok"
      PROVE  IsArmed(account', action.secret)
  <2>1. action.secret \in Secrets
    BY <1>1, <1>4 DEF AccountInv, FormsMatch, Requests
  <2> QED
    BY <1>1, <1>4, <2>1, StaysArmed DEF AnswerHolds
<1> QED
  BY <1>1, <1>2, <1>3, <1>4 DEF AnswerHolds

LEMMA WorkElsewhereKeeps ==
  ASSUME AccountInv, WorkElsewhere
  PROVE  AccountInv'
<1>1. UNCHANGED <<section, held, action, orphan>>
  BY DEF WorkElsewhere, screen
<1>2. account' \in Accounts /\ Lasts(account, account') /\ MadeApart(account, account')
  BY ElsewhereSo DEF AccountInv, AccountTypeOK
<1>3. AnswerHolds(account', action)
  BY <1>2, AnswerStays
<1>4. ScreenHolds'
  BY <1>1, <1>2, ScreenStays
<1> QED
  BY <1>1, <1>2, <1>3, <1>4 DEF AccountInv, AccountTypeOK, FormsMatch, OrphanHolds

LEMMA ServeOrphanKeeps ==
  ASSUME AccountInv, ServeOrphan
  PROVE  AccountInv'
<1>1. UNCHANGED <<section, held, action>>
  BY DEF ServeOrphan
<1>2. /\ account \in Accounts /\ orphan \in Requests /\ orphan.codes = Nil
      /\ orphan.at \in {"out", "looping"} /\ orphan.op # "none" /\ orphan.ends = {}
  BY DEF AccountInv, AccountTypeOK, OrphanHolds, ServeOrphan
<1>3. LoopHolds(account, orphan)
  BY <1>2 DEF LoopHolds
<1>4. PICK out \in Outcomes(orphan) : account' = Apart(out[1]) /\ orphan' = Left(out[2])
  BY DEF ServeOrphan
<1>5. Brings(orphan, out[1], out[2])
  BY <1>2, <1>3, BringsSo
<1>6. account' \in Accounts /\ Lasts(account, account') /\ MadeApart(account, account')
  BY <1>2, <1>4, <1>5, ApartSo DEF Brings
<1>7. orphan' \in Requests /\ OrphanHolds'
  BY <1>2, <1>4, <1>5, LeftSo DEF Brings, OrphanHolds
<1>8. AnswerHolds(account', action)
  BY <1>6, AnswerStays
<1>9. ScreenHolds'
  BY <1>1, <1>6, ScreenStays
<1> QED
  BY <1>1, <1>6, <1>7, <1>8, <1>9 DEF AccountInv, AccountTypeOK, FormsMatch

LEMMA ServeActionKeeps ==
  ASSUME AccountInv, ServeAction
  PROVE  AccountInv'
<1>1. UNCHANGED <<section, held, orphan>>
  BY DEF ServeAction
<1>2. /\ account \in Accounts /\ action \in Requests /\ held \in Helds
      /\ action.at \in {"out", "looping"} /\ action.op # "none" /\ action.codes = Nil
      /\ LoopHolds(account, action)
  BY DEF AccountInv, AccountTypeOK, FormsMatch, AnswerHolds, Pending, ServeAction
<1>3. PICK out \in Outcomes(action) : account' = out[1] /\ action' = out[2]
  BY DEF ServeAction
<1>4. Brings(action, account', action')
  BY <1>2, <1>3, BringsSo
<1>5. AccountTypeOK' /\ OrphanHolds'
  BY <1>1, <1>4 DEF Brings, AccountInv, AccountTypeOK, OrphanHolds
<1>6. FormsMatch'
  BY <1>1, <1>2, <1>4 DEF Brings, AccountInv, FormsMatch
<1>7. AnswerHolds(account', action')
  <2>1. Pending(action') /\ LoopHolds(account', action')
    BY <1>4 DEF Brings, Pending
  <2>2. IsNewest(account', action'.codes)
    BY <1>2, <1>4, AccountAssumption DEF Brings, IsNewest, Accounts
  <2>3. action'.at = "back" /\ action'.says = "ok" =>
          /\ action'.op = "complete" => IsArmed(account', action'.secret)
          /\ action'.op = "initiate" => action'.secret # Nil
    BY <1>4 DEF Brings, IsArmed
  <2> QED
    BY <2>1, <2>2, <2>3 DEF AnswerHolds
<1>8. ScreenHolds'
  <2>1. CASE account'.codes = account.codes
    BY <1>1, <1>4, <2>1, ScreenStays DEF Brings, MadeApart
  <2>2. CASE action.op \in {"complete", "regenerate"}
    <3>1. held.codes = Nil
      BY <2>2 DEF AccountInv, FormsMatch
    <3> QED
      BY <1>1, <1>4, <3>1, ScreenStays DEF Brings
  <2> QED
    BY <1>4, <2>1, <2>2 DEF Brings
<1> QED
  BY <1>5, <1>6, <1>7, <1>8 DEF AccountInv

-----------------------------------------------------------------------------
(* Steps of the tabs *)

SectionsShown == [at : Sections, shows : Views, stale : BOOLEAN]

LEMMA OpenedSo ==
  /\ Away \in SectionsShown
  /\ \A t \in Sections : Opened(t) \in SectionsShown
  BY DEF Away, Opened, Sections, Views, SectionsShown

\* With no form on screen there is nothing to keep.
LEMMA NothingLeft ==
  ASSUME AccountInv, account' = account, section' \in SectionsShown,
         held' = NothingHeld, action' = NoRequest,
         orphan' \in Requests, OrphanHolds'
  PROVE  AccountInv'
<1>1. AccountTypeOK'
  BY NothingSo DEF AccountInv, AccountTypeOK, SectionsShown
<1>2. FormsMatch'
  BY DEF FormsMatch, NothingHeld, NoRequest
<1>3. AnswerHolds(account', action')
  BY NothingSo
<1>4. ScreenHolds'
  BY DEF ScreenHolds, NothingHeld, IsNewest
<1> QED
  BY <1>1, <1>2, <1>3, <1>4 DEF AccountInv

LEMMA FormsGoneSo ==
  ASSUME AccountInv, FormsGone
  PROVE  /\ held' = NothingHeld /\ action' = NoRequest
         /\ orphan' \in Requests /\ OrphanHolds'
<1>1. action \in Requests /\ orphan \in Requests /\ (action.op = "none" => action.at = "idle")
  BY DEF AccountInv, AccountTypeOK, FormsMatch
<1>2. CASE orphan' = orphan
  BY <1>1, <1>2 DEF FormsGone, AccountInv, OrphanHolds
<1>3. CASE orphan' = Left(action)
  BY <1>1, <1>3, LeftSo DEF FormsGone, OrphanHolds
<1> QED
  BY <1>2, <1>3 DEF FormsGone

LEMMA OpenSectionKeeps ==
  ASSUME AccountInv, NEW t \in Sections, OpenSection(t)
  PROVE  AccountInv'
  BY FormsGoneSo, OpenedSo, NothingLeft DEF OpenSection

LEMMA LoadsKeeps ==
  ASSUME AccountInv, NEW t \in Sections, Loads(t), UNCHANGED account
  PROVE  AccountInv'
<1>1. orphan' \in Requests /\ OrphanHolds'
  BY NothingSo DEF Loads, OrphanHolds, NoRequest
<1> QED
  BY <1>1, OpenedSo, NothingLeft DEF Loads

LEMMA LoadAgainKeeps ==
  ASSUME AccountInv, LoadAgain
  PROVE  AccountInv'
<1>1. section.at \in Sections
  BY DEF AccountInv, AccountTypeOK
<1> QED
  BY <1>1, LoadsKeeps DEF LoadAgain

LEMMA RunSectionKeeps ==
  ASSUME AccountInv, RunSection
  PROVE  AccountInv'
<1>1. account' = account
  BY DEF RunSection
<1>2. ASSUME SignedIn, NEW view \in Found(section.at),
             section' = [section EXCEPT !.shows = view, !.stale = FALSE],
             IF view = section.shows THEN UNCHANGED <<held, action, orphan>> ELSE FormsGone
      PROVE  AccountInv'
  <2>1. view \in Views
    BY <1>2 DEF Found, Views
  <2>2. section' \in SectionsShown /\ section'.shows = view /\ section'.at = section.at
    BY <1>2, <2>1 DEF AccountInv, AccountTypeOK, SectionsShown
  <2>3. CASE view = section.shows
    <3>1. UNCHANGED <<held, action, orphan>>
      BY <1>2, <2>3
    <3> QED
      BY <1>1, <2>2, <2>3, <3>1
      DEF AccountInv, AccountTypeOK, SectionsShown, FormsMatch, OrphanHolds, ScreenHolds,
          IsArmed, IsNewest, AnswerHolds, LoopHolds, Pending
  <2>4. CASE view # section.shows
    BY <1>1, <1>2, <2>2, <2>4, FormsGoneSo, NothingLeft
  <2> QED
    BY <2>3, <2>4
<1>3. CASE section' = Away /\ FormsGone
  BY <1>1, <1>3, FormsGoneSo, OpenedSo, NothingLeft
<1> QED
  BY <1>2, <1>3 DEF RunSection

LEMMA SubmitFormKeeps ==
  ASSUME AccountInv, NEW op \in Ops, SubmitForm(op)
  PROVE  AccountInv'
<1>1. account' = account
  BY DEF SubmitForm
<1>2. CASE section' = Away /\ FormsGone
  BY <1>1, <1>2, FormsGoneSo, OpenedSo, NothingLeft
<1>3. CASE /\ action' = [NoRequest EXCEPT !.op = op, !.at = "out",
                            !.secret = IF op = "complete" THEN held.secret ELSE Nil]
           /\ UNCHANGED <<section, held, orphan>>
  <2>1. held \in Helds /\ section.shows \in Views
    BY DEF AccountInv, AccountTypeOK
  <2>2. /\ action' \in Requests /\ action'.op = op /\ action'.at = "out" /\ action'.codes = Nil
        /\ op = "complete" => action'.secret = held.secret
    BY <1>3, <2>1 DEF NoRequest, Requests, Helds
  <2>3. /\ op = "initiate" => section.shows = "enrol" /\ held.phase = "password"
        /\ op = "complete" => section.shows = "enrol" /\ held.phase = "display"
        /\ op = "regenerate" => section.shows = "enrolled" /\ ~held.done
        /\ op # "none"
    BY DEF SubmitForm, Offers, Ops, Revocations
  <2>4. FormsMatch'
    BY <1>3, <2>2, <2>3 DEF AccountInv, FormsMatch
  <2>5. AnswerHolds(account', action')
    BY <2>2 DEF AnswerHolds, Pending, LoopHolds, IsNewest
  <2> QED
    BY <1>1, <1>3, <2>2, <2>4, <2>5
    DEF AccountInv, AccountTypeOK, OrphanHolds, ScreenHolds, IsArmed, IsNewest
<1> QED
  BY <1>2, <1>3 DEF SubmitForm

\* The tab is run again, or not; its forms are the same.
LEMMA RunsAgainSo ==
  ASSUME AccountInv, RunsAgain
  PROVE  section' \in SectionsShown /\ section'.shows = section.shows
  BY DEF AccountInv, AccountTypeOK, SectionsShown, RunsAgain

\* A form goes on with its request answered, if what it says then is so.
LEMMA FormGoesOn ==
  ASSUME AccountInv, account' = account, action' = NoRequest,
         section' \in SectionsShown, section'.shows = section.shows,
         held' \in Helds, orphan' \in Requests, OrphanHolds',
         held'.phase # "password" => section.shows = "enrol",
         held'.phase \in {"display", "success"} => held'.secret # Nil,
         held'.codes # Nil =>
           (section.shows = "enrolled" /\ held'.done) \/ held'.phase = "success",
         ScreenHolds'
  PROVE  AccountInv'
<1>1. AccountTypeOK'
  BY NothingSo DEF AccountInv, AccountTypeOK, SectionsShown
<1>2. FormsMatch'
  BY DEF FormsMatch, NoRequest
<1> QED
  BY <1>1, <1>2, NothingSo DEF AccountInv

LEMMA GotAnswerKeeps ==
  ASSUME AccountInv, GotAnswer
  PROVE  AccountInv'
<1>1. PICK whole \in BOOLEAN :
       LET says == Heard(action, whole) IN
       CASE action.op = "initiate" -> GotInitiate(says)
         [] action.op = "complete" -> GotComplete(says)
         [] says = "ok" /\ action.op \in {"current", "all", "disable"} -> Loads("elsewhere")
         [] says = "ok" /\ action.op = "password" ->
              section' = Away /\ held' = NothingHeld /\ action' = NoRequest /\ UNCHANGED orphan
         [] says = "ok" /\ action.op \in {"others", "save", "regenerate"} ->
              RunsAgain /\ held' = SaysDone /\ action' = NoRequest /\ UNCHANGED orphan
         [] OTHER -> action' = NoRequest /\ UNCHANGED <<section, held, orphan>>
  BY Zenon DEF GotAnswer
<1> DEFINE says == Heard(action, whole)
<1>2. says = "ok" => action.at = "back" /\ action.says = "ok"
  BY DEF Heard
<1>3. /\ account' = account /\ action \in Requests /\ held \in Helds
      /\ section \in SectionsShown /\ orphan \in Requests /\ OrphanHolds
  BY DEF GotAnswer, AccountInv, AccountTypeOK, SectionsShown
<1>4. /\ FormsMatch /\ AnswerHolds(account, action) /\ ScreenHolds
  BY DEF AccountInv
<1> HIDE DEF says
\* What was on screen stays, at least but for a phase with nothing to say.
<1>5. ASSUME UNCHANGED <<section, held, orphan>>, action' = NoRequest
      PROVE  AccountInv'
  BY <1>3, <1>4, <1>5, FormGoesOn
  DEF FormsMatch, OrphanHolds, ScreenHolds, IsArmed, IsNewest
<1>6. CASE action.op = "initiate"
  <2>1. GotInitiate(says)
    BY <1>1, <1>6, Zenon DEF says
  <2>2. /\ UNCHANGED <<section, orphan>> /\ action' = NoRequest
        /\ section.shows = "enrol" /\ held.phase = "password" /\ held.codes = Nil
    BY <1>4, <1>6, <2>1 DEF GotInitiate, FormsMatch
  <2>3. CASE says = "ok"
    <3>1. held' = [held EXCEPT !.phase = "display", !.secret = action.secret]
      BY <2>1, <2>3 DEF GotInitiate
    <3>2. action.secret # Nil /\ action.secret \in Secrets \cup {Nil}
      BY <1>2, <1>3, <1>4, <1>6, <2>3 DEF AnswerHolds, Requests
    <3>3. /\ held' \in Helds /\ held'.phase = "display" /\ held'.secret = action.secret
          /\ held'.codes = Nil /\ held'.revoked = held.revoked
      BY <1>3, <2>2, <3>1, <3>2 DEF Helds
    <3>4. ScreenHolds'
      BY <1>3, <1>4, <3>3 DEF ScreenHolds, IsNewest
    <3> QED
      BY <1>3, <2>2, <3>2, <3>3, <3>4, FormGoesOn DEF OrphanHolds
  <2>4. ASSUME NEW phase \in {"already", "error"}, held' = [held EXCEPT !.phase = phase]
        PROVE  AccountInv'
    <3>1. /\ held' \in Helds /\ held'.phase = phase /\ held'.codes = Nil
          /\ held'.revoked = held.revoked
      BY <1>3, <2>2, <2>4 DEF Helds
    <3>2. ScreenHolds'
      BY <1>3, <1>4, <3>1 DEF ScreenHolds, IsNewest
    <3> QED
      BY <1>3, <2>2, <3>1, <3>2, FormGoesOn DEF OrphanHolds
  <2>5. CASE says # "ok" /\ held' # held
    BY <2>1, <2>4, <2>5 DEF GotInitiate
  <2>6. CASE held' = held
    BY <1>5, <2>2, <2>6
  <2> QED
    BY <2>3, <2>5, <2>6
<1>7. CASE action.op = "complete"
  <2>1. GotComplete(says)
    BY <1>1, <1>7, Zenon DEF says
  <2>2. /\ UNCHANGED <<section, orphan>> /\ action' = NoRequest
        /\ section.shows = "enrol" /\ held.phase = "display" /\ held.codes = Nil
        /\ held.secret # Nil /\ action.secret = held.secret
    BY <1>4, <1>7, <2>1 DEF GotComplete, FormsMatch
  <2>3. CASE says = "ok"
    <3>1. held' = [held EXCEPT !.phase = "success", !.codes = action.codes]
      BY <2>1, <2>3 DEF GotComplete
    <3>2. /\ held' \in Helds /\ held'.phase = "success" /\ held'.secret = held.secret
          /\ held'.codes = action.codes /\ held'.revoked = held.revoked
      BY <1>3, <3>1 DEF Helds, Requests
    <3>3. IsArmed(account, held.secret) /\ IsNewest(account, action.codes)
      BY <1>2, <1>4, <1>7, <2>2, <2>3 DEF AnswerHolds
    <3>4. ScreenHolds'
      BY <1>3, <1>4, <3>2, <3>3 DEF ScreenHolds, IsArmed, IsNewest
    <3> QED
      BY <1>3, <2>2, <3>2, <3>4, FormGoesOn DEF OrphanHolds
  <2>4. CASE says # "ok" /\ held' # held
    <3>1. held' = [held EXCEPT !.phase = "already"]
      BY <2>1, <2>4 DEF GotComplete
    <3>2. /\ held' \in Helds /\ held'.phase = "already" /\ held'.codes = Nil
          /\ held'.revoked = held.revoked
      BY <1>3, <2>2, <3>1 DEF Helds
    <3>3. ScreenHolds'
      BY <1>3, <1>4, <3>2 DEF ScreenHolds, IsNewest
    <3> QED
      BY <1>3, <2>2, <3>2, <3>3, FormGoesOn DEF OrphanHolds
  <2>5. CASE held' = held
    BY <1>5, <2>2, <2>5
  <2> QED
    BY <2>3, <2>4, <2>5
<1>8. CASE says = "ok" /\ action.op \in {"current", "all", "disable"}
  <2>1. Loads("elsewhere")
    BY <1>1, <1>8, Zenon DEF says
  <2> QED
    BY <1>3, <2>1, LoadsKeeps DEF Sections
<1>9. CASE says = "ok" /\ action.op = "password"
  <2>1. section' = Away /\ held' = NothingHeld /\ action' = NoRequest /\ UNCHANGED orphan
    BY <1>1, <1>9, Zenon DEF says
  <2> QED
    BY <1>3, <2>1, OpenedSo, NothingLeft DEF OrphanHolds
<1>10. CASE says = "ok" /\ action.op \in {"others", "save", "regenerate"}
  <2>1. RunsAgain /\ held' = SaysDone /\ action' = NoRequest /\ UNCHANGED orphan
    BY <1>1, <1>10, Zenon DEF says
  <2>2. section' \in SectionsShown /\ section'.shows = section.shows
    BY <2>1, RunsAgainSo
  <2>3. CASE action.op = "others"
    <3>1. held' = [held EXCEPT !.revoked = action.ends, !.done = TRUE]
      BY <2>1, <2>3 DEF SaysDone
    <3>2. /\ held' \in Helds /\ held'.revoked = action.ends /\ held'.done = TRUE
          /\ held'.phase = held.phase /\ held'.secret = held.secret /\ held'.codes = held.codes
      BY <1>3, <3>1 DEF Helds, Requests
    <3>3. action.ends \cap account.live = {}
      BY <1>2, <1>4, <1>10, <2>3 DEF AnswerHolds, LoopHolds, Revocations
    <3>4. ScreenHolds'
      BY <1>3, <1>4, <3>2, <3>3 DEF ScreenHolds, IsArmed, IsNewest
    <3> QED
      BY <1>3, <1>4, <2>1, <2>2, <3>2, <3>4, FormGoesOn DEF FormsMatch, OrphanHolds
  <2>4. CASE action.op = "regenerate"
    <3>1. held' = [held EXCEPT !.codes = action.codes, !.done = TRUE]
      BY <2>1, <2>4 DEF SaysDone
    <3>2. /\ held' \in Helds /\ held'.revoked = held.revoked /\ held'.done = TRUE
          /\ held'.phase = held.phase /\ held'.secret = held.secret
          /\ held'.codes = action.codes
      BY <1>3, <3>1 DEF Helds, Requests
    <3>3. ScreenHolds'
      BY <1>3, <1>4, <3>2 DEF ScreenHolds, AnswerHolds, IsArmed, IsNewest
    <3> QED
      BY <1>3, <1>4, <2>1, <2>2, <2>4, <3>2, <3>3, FormGoesOn DEF FormsMatch, OrphanHolds
  <2>5. CASE action.op = "save"
    <3>1. held' = held
      BY <2>1, <2>5 DEF SaysDone
    <3> QED
      BY <1>3, <1>4, <2>1, <2>2, <3>1, FormGoesOn
      DEF FormsMatch, OrphanHolds, ScreenHolds, IsArmed, IsNewest
  <2> QED
    BY <1>10, <2>3, <2>4, <2>5
<1>11. CASE /\ action.op # "initiate" /\ action.op # "complete"
            /\ says = "ok" => action.op \notin {"current", "all", "disable", "password",
                                                "others", "save", "regenerate"}
  <2>1. action' = NoRequest /\ UNCHANGED <<section, held, orphan>>
    BY <1>1, <1>11 DEF says
  <2> QED
    BY <1>5, <2>1
<1> QED
  BY <1>6, <1>7, <1>8, <1>9, <1>10, <1>11

LEMMA GotOrphanKeeps ==
  ASSUME AccountInv, GotOrphan
  PROVE  AccountInv'
<1>1. UNCHANGED <<account, held, action>> /\ orphan' = NoRequest
  BY DEF GotOrphan
<1>2. section' \in SectionsShown /\ section'.shows = section.shows
  BY RunsAgainSo DEF GotOrphan, AccountInv, AccountTypeOK, SectionsShown
<1>3. orphan' \in Requests /\ OrphanHolds'
  BY <1>1, NothingSo DEF OrphanHolds, NoRequest
<1> QED
  BY <1>1, <1>2, <1>3
  DEF AccountInv, AccountTypeOK, SectionsShown, FormsMatch, ScreenHolds,
      IsArmed, IsNewest, AnswerHolds, LoopHolds, Pending

LEMMA HideCodesKeeps ==
  ASSUME AccountInv, HideCodes
  PROVE  AccountInv'
<1>1. UNCHANGED <<account, action, orphan>> /\ held' = [held EXCEPT !.codes = Nil]
  BY DEF HideCodes
<1>2. section' \in SectionsShown /\ section'.shows = section.shows
  BY RunsAgainSo DEF HideCodes
<1>3. /\ held' \in Helds /\ held'.phase = held.phase /\ held'.secret = held.secret
      /\ held'.codes = Nil /\ held'.revoked = held.revoked /\ held'.done = held.done
  BY <1>1 DEF AccountInv, AccountTypeOK, Helds
<1>4. ScreenHolds'
  BY <1>1, <1>3 DEF AccountInv, ScreenHolds, IsArmed, IsNewest
<1>5. FormsMatch'
  BY <1>1, <1>2, <1>3 DEF AccountInv, FormsMatch
<1> QED
  BY <1>1, <1>2, <1>3, <1>4, <1>5
  DEF AccountInv, AccountTypeOK, SectionsShown, OrphanHolds,
      IsArmed, IsNewest, AnswerHolds, LoopHolds, Pending

-----------------------------------------------------------------------------
(* The theorems *)

LEMMA AccountInvInit ==
  AccountInit => AccountInv
<1> SUFFICES ASSUME AccountInit PROVE AccountInv
  OBVIOUS
<1>1. account \in Accounts
  BY AccountAssumption DEF AccountInit, Accounts, Secrets, Nil
<1>2. AccountTypeOK
  BY <1>1, NothingSo, OpenedSo DEF AccountInit, AccountTypeOK, SectionsShown
<1>3. FormsMatch /\ OrphanHolds /\ ScreenHolds
  BY DEF AccountInit, FormsMatch, OrphanHolds, ScreenHolds, NothingHeld, NoRequest, IsNewest
<1>4. AnswerHolds(account, action)
  BY NothingSo DEF AccountInit
<1> QED
  BY <1>2, <1>3, <1>4 DEF AccountInv

LEMMA AccountInvNext ==
  AccountInv /\ [AccountNext]_settings => AccountInv'
<1> SUFFICES ASSUME AccountInv, [AccountNext]_settings PROVE AccountInv'
  OBVIOUS
<1>1. CASE WorkElsewhere
  BY <1>1, WorkElsewhereKeeps
<1>2. CASE ServeAction
  BY <1>2, ServeActionKeeps
<1>3. CASE ServeOrphan
  BY <1>3, ServeOrphanKeeps
<1>4. CASE \E t \in Sections : OpenSection(t)
  BY <1>4, OpenSectionKeeps
<1>5. CASE LoadAgain
  BY <1>5, LoadAgainKeeps
<1>6. CASE RunSection
  BY <1>6, RunSectionKeeps
<1>7. CASE HideCodes
  BY <1>7, HideCodesKeeps
<1>8. CASE GotAnswer
  BY <1>8, GotAnswerKeeps
<1>9. CASE GotOrphan
  BY <1>9, GotOrphanKeeps
<1>10. CASE \E op \in Ops : SubmitForm(op)
  BY <1>10, SubmitFormKeeps
<1>11. CASE UNCHANGED settings
  BY <1>11
  DEF settings, screen, AccountInv, AccountTypeOK, FormsMatch, OrphanHolds, ScreenHolds,
      IsArmed, IsNewest, AnswerHolds, LoopHolds, Pending
<1> QED
  BY <1>1, <1>2, <1>3, <1>4, <1>5, <1>6, <1>7, <1>8, <1>9, <1>10, <1>11 DEF AccountNext

LEMMA AccountKeeps ==
  AccountSpec => []AccountInv
BY AccountInvInit, AccountInvNext, PTL DEF AccountSpec

\* The types of the account settings, whatever the numbers of sessions,
\* secrets and sets of codes.
THEOREM AccountTypesHold ==
  AccountSpec => []AccountTypeOK
<1>1. AccountInv => AccountTypeOK
  BY DEF AccountInv
<1> QED
  BY <1>1, AccountKeeps, PTL

\* What the forms of /account/settings say is done is so.
THEOREM WhatIsSaidIsDone ==
  AccountSpec => []DoneIsDone
<1>1. AccountInv => DoneIsDone
  BY DEF AccountInv, ScreenHolds, IsArmed, DoneIsDone
<1> QED
  BY <1>1, AccountKeeps, PTL

\* The recovery codes on screen are the newest, but for those made apart.
THEOREM CodesShownAreTheNewest ==
  AccountSpec => []CodesAreTheNewest
<1>1. AccountInv => CodesAreTheNewest
  BY DEF AccountInv, ScreenHolds, IsNewest, CodesAreTheNewest
<1> QED
  BY <1>1, AccountKeeps, PTL
=============================================================================
