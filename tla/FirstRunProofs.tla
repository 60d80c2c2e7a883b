--------------------------- MODULE FirstRunProofs ----------------------------
(***************************************************************************)
(* What holds of a first run for any number of backups and of requests     *)
(* under way.                                                              *)
(*                                                                         *)
(* FirstRunInv is the inductive invariant.  Three of its parts are more    *)
(* than the properties say.  Told: an answer that is on its way back says  *)
(* nothing untrue of the schema, and as the schema of a machine is never   *)
(* taken back, it still does not when it is taken over, however late.      *)
(* FreshRun: the run of the preflight effect that is under way, not only   *)
(* the preview on screen, is for the box as it is.  LicenceFirst: the      *)
(* licence is valid before anyone can have begun the enrolment the         *)
(* completion needs, and everything that leads to it is behind the form.   *)
(***************************************************************************)
EXTENDS FirstRun, TLAPS

-----------------------------------------------------------------------------
(* The upgrade wizard.                                                     *)

\* What a request that is back says: a status of the schema, "complete" only
\* of one that was upgraded, and an apply that went through upgraded it.
Told(a, r) ==
  r.at = "back" =>
    /\ a \in StatusReads \cup {"apply"} => r.says \in States \cup {"failed"}
    /\ a \in StatusReads /\ r.says = "upgrade_complete" => schema = "ce"
    /\ a = "apply" /\ r.says # "failed" => schema = "ce"

\* What the page was told so far.
ToldComplete == status = "upgrade_complete" \/ applied => schema = "ce"

\* The preview, and the run of the effect that is under way, are for the box
\* as it is, as long as the effects run at all.
FreshRun ==
  Watches(status) =>
    /\ asked["preflight"].at # "idle" => asked["preflight"].box = confirmed
    /\ preflight # "none" => preflight = PreviewFor(confirmed)

UpgradeInv ==
  /\ UpgradeTypeOK
  /\ \A a \in Asks : Told(a, asked[a])
  /\ ToldComplete /\ FreshRun

\* The schema of a machine is never taken back.
Keeps == schema = "ce" => schema' = "ce"

\* The types of the requests.
LEMMA RequestsAre ==
  /\ Idle \in Requests /\ Idle.at = "idle"
  /\ Out \in Requests /\ Out.at = "out"
  /\ \A box \in BOOLEAN : LET r == [Out EXCEPT !.box = box]
                          IN  r \in Requests /\ r.at = "out" /\ r.box = box
  /\ \A file \in Files \cup {NoFile} : LET r == [Out EXCEPT !.file = file]
                                       IN  r \in Requests /\ r.at = "out"
<1>1. Idle \in Requests /\ Idle.at = "idle"
  BY DEF Idle, Requests
<1>2. Out \in Requests /\ Out.at = "out"
  BY <1>1 DEF Out, Requests
<1>3. ASSUME NEW box \in BOOLEAN
      PROVE  [Out EXCEPT !.box = box] \in Requests /\ [Out EXCEPT !.box = box].at = "out"
             /\ [Out EXCEPT !.box = box].box = box
  BY <1>2 DEF Requests
<1>4. ASSUME NEW file \in Files \cup {NoFile}
      PROVE  [Out EXCEPT !.file = file] \in Requests /\ [Out EXCEPT !.file = file].at = "out"
  BY <1>2 DEF Requests
<1> QED
  BY <1>1, <1>2, <1>3, <1>4

\* One request moves.
LEMMA OneAskMoves ==
  ASSUME NEW asks \in [Asks -> Requests], NEW a \in Asks, NEW r \in Requests, NEW now,
         now = [asks EXCEPT ![a] = r]
  PROVE  /\ now \in [Asks -> Requests] /\ now[a] = r
         /\ \A b \in Asks \ {a} : now[b] = asks[b]
<1>1. now \in [Asks -> Requests] /\ now[a] = r
  OBVIOUS
<1>2. \A b \in Asks \ {a} : now[b] = asks[b]
  OBVIOUS
<1> QED
  BY <1>1, <1>2

\* What the requests say stays true when none is answered but with the truth.
LEMMA AsksStayTold ==
  ASSUME \A a \in Asks : Told(a, asked[a]), Keeps,
         \A a \in Asks : asked'[a] = asked[a] \/ asked'[a].at # "back" \/ Told(a, asked[a])'
  PROVE  (\A a \in Asks : Told(a, asked[a]))'
<1> SUFFICES ASSUME NEW a \in Asks PROVE Told(a, asked[a])'
  OBVIOUS
<1>1 CASE asked'[a] = asked[a]
  <2>1. PICK r : r = asked[a]
    OBVIOUS
  <2>2. Told(a, r)
    BY <2>1
  <2>3. Told(a, r)'
    BY <2>2 DEF Told, Keeps
  <2> QED
    BY <1>1, <2>1, <2>3 DEF Told
<1>2 CASE asked'[a].at # "back"
  BY <1>2 DEF Told
<1> QED
  BY <1>1, <1>2

\* The preflight effect runs.
LEMMA PreflightRunsIs ==
  ASSUME NEW asks \in [Asks -> Requests], NEW s, NEW box \in BOOLEAN,
         NEW now, now = PreflightRuns(asks, s, box)
  PROVE  /\ now \in [Asks -> Requests]
         /\ now["preflight"].at # "back"
         /\ Watches(s) => now["preflight"].box = box
         /\ \A a \in Asks \ {"preflight"} : now[a] = asks[a]
<1>1. PICK r : r = (IF Watches(s) THEN [Out EXCEPT !.box = box] ELSE Idle)
  OBVIOUS
<1>2. r \in Requests /\ r.at # "back" /\ (Watches(s) => r.box = box)
  BY <1>1, RequestsAre
<1>3. now = [asks EXCEPT !["preflight"] = r] /\ "preflight" \in Asks
  BY <1>1 DEF PreflightRuns, Asks
<1> QED
  BY <1>2, <1>3

\* A new status.
LEMMA SetStatusIs ==
  ASSUME UpgradeInv, Keeps, NEW s \in States \cup {"none"}, NEW asks \in [Asks -> Requests],
         SetStatus(s, asks), UNCHANGED confirmed,
         \A a \in Asks : asks[a] = asked[a] \/ asks[a].at # "back"
  PROVE  /\ asked' \in [Asks -> Requests] /\ status' = s
         /\ preflight' \in {"none", preflight} /\ backup' \in BOOLEAN
         /\ \A a \in Asks : asked'[a] = asked[a] \/ asked'[a].at # "back"
         /\ FreshRun'
<1>1. confirmed \in BOOLEAN /\ preflight \in {"none", "unticked", "ticked"}
  BY DEF UpgradeInv, UpgradeTypeOK
<1>2. PICK runs : runs = PreflightRuns(asks, s, confirmed)
  OBVIOUS
<1>3. PICK r \in Requests : r = (IF Watches(s) THEN Out ELSE Idle) /\ r.at # "back"
  BY RequestsAre
<1>4. asked' = [runs EXCEPT !["probe"] = r] /\ "probe" \in Asks /\ "preflight" \in Asks \ {"probe"}
  BY <1>2, <1>3 DEF SetStatus, Asks
<1>5. /\ runs \in [Asks -> Requests] /\ runs["preflight"].at # "back"
      /\ Watches(s) => runs["preflight"].box = confirmed
      /\ \A a \in Asks \ {"preflight"} : runs[a] = asks[a]
  BY <1>1, <1>2, PreflightRunsIs
<1>6. /\ asked' \in [Asks -> Requests] /\ asked'["probe"] = r
      /\ \A a \in Asks \ {"probe"} : asked'[a] = runs[a]
  BY <1>4, <1>5
<1>7. ASSUME NEW a \in Asks PROVE asked'[a] = asked[a] \/ asked'[a].at # "back"
  <2>1 CASE a = "probe"
    BY <1>3, <1>6, <2>1
  <2>2 CASE a = "preflight"
    BY <1>4, <1>5, <1>6, <2>2
  <2>3 CASE a \notin {"probe", "preflight"}
    BY <1>5, <1>6, <2>3
  <2> QED
    BY <2>1, <2>2, <2>3
<1>8. status' = s /\ backup' \in BOOLEAN /\ (Watches(s) => preflight' = "none")
      /\ preflight' \in {"none", preflight}
  BY DEF SetStatus, PreviewGoes
<1>9. FreshRun'
  <2>1. Watches(s) => asked'["preflight"].box = confirmed /\ preflight' = "none"
    BY <1>4, <1>5, <1>6, <1>8
  <2> QED
    BY <1>8, <2>1 DEF FreshRun, Watches
<1> QED
  BY <1>6, <1>7, <1>8, <1>9

\* What a status read says.
LEMMA StatusAnswersAre ==
  ASSUME ApplianceTypeOK, NEW answer \in StatusAnswers
  PROVE  answer \in States \cup {"failed"} /\ (answer = "upgrade_complete" => schema = "ce")
<1>1. UpgradeState \in States \cup {"absent"} /\ (UpgradeState = "upgrade_complete" => schema = "ce")
  BY DEF ApplianceTypeOK, UpgradeState, States
<1>2. CeOnly(UpgradeState) \in {UpgradeState, "absent"}
  BY DEF CeOnly
<1> QED
  BY <1>1, <1>2 DEF StatusAnswers
-----------------------------------------------------------------------------
(* The setup wizard.                                                       *)

\* Nobody enrols, and the form is not open, on CE before the licence is valid.
LicenceFirst ==
  \/ enrolment # "none"
  \/ lic = "valid"
  \/ call.kind = "initiate"
  \/ call.kind = "upload" /\ call.at = "back" /\ call.says = "ok"
  => licence = "valid"

FirstRunInv == ApplianceTypeOK /\ LadderTypeOK /\ UpgradeInv /\ SetupTypeOK /\ LicenceFirst

-----------------------------------------------------------------------------
(* The upgrade wizard, step by step.                                       *)

\* The wizard's variables by their kind: those no property reads, and those
\* the effects answer to.
StoreTyped ==
  /\ stored \subseteq Files /\ made \in 0..MaxBackups
  /\ late \subseteq (Writes \X (Files \cup {NoFile}))
ScreenTyped ==
  /\ view \in BOOLEAN /\ status \in States \cup {"none"}
  /\ confirmed \in BOOLEAN /\ preflight \in {"none", "unticked", "ticked"}
  /\ applied \in BOOLEAN /\ backup \in BOOLEAN
  /\ listed \subseteq Files /\ pending \in Files \cup {NoFile}

\* What the invariant says of them.
LEMMA UpgradeTyped ==
  ASSUME UpgradeInv
  PROVE  StoreTyped /\ ScreenTyped /\ asked \in [Asks -> Requests] /\ ToldComplete /\ FreshRun
BY DEF UpgradeInv, UpgradeTypeOK, StoreTyped, ScreenTyped

\* A step that answers nothing but with the truth.
LEMMA UpgradeMoves ==
  ASSUME UpgradeInv, Keeps, StoreTyped', ScreenTyped', asked' \in [Asks -> Requests],
         \A a \in Asks : asked'[a] = asked[a] \/ asked'[a].at # "back" \/ Told(a, asked[a])',
         ToldComplete', FreshRun'
  PROVE  UpgradeInv'
<1>1. \A a \in Asks : Told(a, asked[a])
  BY DEF UpgradeInv
<1>2. (\A a \in Asks : Told(a, asked[a]))'
  BY <1>1, AsksStayTold
<1> QED
  BY <1>2 DEF UpgradeInv, UpgradeTypeOK, StoreTyped, ScreenTyped

\* Nothing of the wizard changes.
LEMMA UpgradeStays ==
  ASSUME UpgradeInv, Keeps, UNCHANGED upgrade
  PROVE  UpgradeInv'
<1>1. StoreTyped' /\ ScreenTyped' /\ asked' \in [Asks -> Requests] /\ ToldComplete' /\ FreshRun'
  BY UpgradeTyped DEF upgrade, store, wizard, backups, StoreTyped, ScreenTyped, ToldComplete, FreshRun, Keeps
<1>2. asked' = asked
  BY DEF upgrade, wizard
<1> QED
  BY <1>1, <1>2, UpgradeMoves

\* The effects have nothing to answer to.
LEMMA FreshStays ==
  ASSUME FreshRun, UNCHANGED <<status, confirmed, preflight>>,
         asked'["preflight"] = asked["preflight"]
  PROVE  FreshRun'
BY DEF FreshRun, Watches

\* No status is taken over.
LEMMA CompleteStays ==
  ASSUME ToldComplete, Keeps, UNCHANGED status, applied' => applied
  PROVE  ToldComplete'
BY DEF ToldComplete, Keeps

\* One request of a handler is sent, or taken back.
LEMMA OneAsked ==
  ASSUME UpgradeInv, Keeps, NEW a \in Asks \ {"preflight"}, NEW r \in Requests, r.at # "back",
         asked' = [asked EXCEPT ![a] = r], StoreTyped', ScreenTyped',
         UNCHANGED <<status, confirmed, preflight>>, applied' => applied
  PROVE  UpgradeInv'
<1>1. asked \in [Asks -> Requests] /\ ToldComplete /\ FreshRun
  BY UpgradeTyped
<1>2. /\ asked' \in [Asks -> Requests] /\ asked'[a] = r
      /\ \A b \in Asks \ {a} : asked'[b] = asked[b]
  BY <1>1
<1>3. FreshRun' /\ ToldComplete'
  <2>1. asked'["preflight"] = asked["preflight"]
    BY <1>2 DEF Asks
  <2> QED
    BY <1>1, <2>1, FreshStays, CompleteStays
<1>4. \A b \in Asks : asked'[b] = asked[b] \/ asked'[b].at # "back"
  BY <1>2
<1> QED
  BY <1>2, <1>3, <1>4, UpgradeMoves

\* A status is taken over.
LEMMA StatusTaken ==
  ASSUME UpgradeInv, Keeps, NEW s \in States \cup {"none"}, NEW asks \in [Asks -> Requests],
         SetStatus(s, asks), UNCHANGED <<confirmed, listed, pending>>, StoreTyped',
         view' \in BOOLEAN, applied' \in BOOLEAN,
         \A a \in Asks : asks[a] = asked[a] \/ asks[a].at # "back",
         s = "upgrade_complete" \/ applied' => schema' = "ce"
  PROVE  UpgradeInv'
<1>1. /\ asked' \in [Asks -> Requests] /\ status' = s
      /\ preflight' \in {"none", preflight} /\ backup' \in BOOLEAN
      /\ \A a \in Asks : asked'[a] = asked[a] \/ asked'[a].at # "back"
      /\ FreshRun'
  BY SetStatusIs
<1>2. ScreenTyped
  BY UpgradeTyped
<1>3. ScreenTyped' /\ ToldComplete'
  BY <1>1, <1>2 DEF ScreenTyped, ToldComplete
<1> QED
  BY <1>1, <1>3, UpgradeMoves

\* What the machine makes of a write.
LEMMA WorksIs ==
  ASSUME ApplianceTypeOK, StoreTyped, NEW w \in Writes, NEW file \in Files \cup {NoFile},
         NEW answer, Works(w, file, answer)
  PROVE  /\ stored' \subseteq Files /\ made' \in 0..MaxBackups
         /\ schema' \in {schema, "ce"}
         /\ w = "apply" => answer = "failed" \/ (answer \in States /\ schema' = "ce")
<1>1 CASE answer = "failed" /\ UNCHANGED <<made, stored, schema>>
  BY <1>1 DEF StoreTyped
<1>2 CASE /\ w = "create" /\ made < MaxBackups
          /\ made' = made + 1 /\ stored' = stored \cup {made + 1} /\ UNCHANGED schema
  <2>1. made + 1 \in Files /\ made + 1 \in 0..MaxBackups
    BY <1>2, UpgradeAssumption DEF StoreTyped, Files
  <2> QED
    BY <1>2, <2>1 DEF StoreTyped
<1>3 CASE w = "prune" /\ stored' = stored \ {file} /\ UNCHANGED <<made, schema>>
  BY <1>3 DEF StoreTyped
<1>4 CASE /\ w = "apply" /\ schema' = "ce" /\ UNCHANGED <<made, stored>>
          /\ answer \in {"ce_migrations_current", "upgrade_complete"}
  BY <1>4 DEF StoreTyped, States
<1> QED
  BY <1>1, <1>2, <1>3, <1>4 DEF Works

\* Every step of the wizard keeps what it promises.
LEMMA UpgradeNextKeeps ==
  ASSUME ApplianceTypeOK, UpgradeInv, UpgradeNext
  PROVE  UpgradeInv' /\ schema' \in {schema, "ce"}
<1>a. StoreTyped /\ ScreenTyped /\ asked \in [Asks -> Requests] /\ ToldComplete /\ FreshRun
      /\ (\A a \in Asks : Told(a, asked[a]))
  BY UpgradeTyped DEF UpgradeInv
<1>b. \A a \in Asks : asked[a] \in Requests
  BY <1>a
<1>c. Writes \subseteq Asks \ {"preflight"} /\ StatusReads \subseteq Asks \ {"preflight"}
      /\ Relists \subseteq Asks \ {"preflight"}
      /\ {"create", "prune", "apply", "refresh", "mount", "probe", "relistCreated", "relistPruned"}
           \subseteq Asks \ {"preflight"}
      /\ "preflight" \in Asks
  BY DEF Writes, StatusReads, Asks, Handlers, Relists
<1>d. UNCHANGED schema => Keeps
  BY DEF Keeps
<1>e. Idle \in Requests /\ Out \in Requests /\ Idle.at = "idle" /\ Out.at = "out"
  BY RequestsAre
<1>f. ASSUME NEW a \in Asks
      PROVE  /\ Done(a) \in [Asks -> Requests] /\ Done(a)[a] = Idle
             /\ \A b \in Asks \ {a} : Done(a)[b] = asked[b]
             /\ \A b \in Asks : Done(a)[b] = asked[b] \/ Done(a)[b].at # "back"
  <2>1. PICK now : now = Done(a)
    OBVIOUS
  <2>2. now \in [Asks -> Requests] /\ now[a] = Idle /\ (\A b \in Asks \ {a} : now[b] = asked[b])
    BY <1>a, <1>e, <2>1, OneAskMoves DEF Done
  <2>3. \A b \in Asks : now[b] = asked[b] \/ now[b].at # "back"
    BY <1>e, <2>2
  <2> QED
    BY <2>1, <2>2, <2>3
<1>1 CASE OpenWizard
  <2>1. PICK answer \in StatusAnswers :
          IF answer = "ce_migrations_current"
          THEN UNCHANGED <<machine, upgrade>>
          ELSE /\ view' = TRUE
               /\ SetStatus(IF answer = "failed" THEN "none" ELSE answer, [asked EXCEPT !["mount"] = Out])
               /\ UNCHANGED <<appliance, store, confirmed, applied, listed, pending>>
    BY <1>1, Zenon DEF OpenWizard
  <2>2. UNCHANGED schema
    BY <2>1 DEF machine, appliance
  <2>3 CASE UNCHANGED upgrade
    BY <1>d, <2>2, <2>3, UpgradeStays
  <2>4 CASE answer # "ce_migrations_current"
    <3>1. PICK s : s = (IF answer = "failed" THEN "none" ELSE answer)
      OBVIOUS
    <3>2. s \in States \cup {"none"} /\ (s = "upgrade_complete" => schema = "ce")
      BY <3>1, StatusAnswersAre
    <3>3. PICK asks : asks = [asked EXCEPT !["mount"] = Out]
      OBVIOUS
    <3>4. asks \in [Asks -> Requests] /\ (\A a \in Asks : asks[a] = asked[a] \/ asks[a].at # "back")
      <4>1. /\ asks \in [Asks -> Requests] /\ asks["mount"] = Out
            /\ \A a \in Asks \ {"mount"} : asks[a] = asked[a]
        BY <1>a, <1>c, <1>e, <3>3, OneAskMoves
      <4> QED
        BY <1>e, <4>1
    <3>5. SetStatus(s, asks) /\ view' = TRUE /\ UNCHANGED <<store, confirmed, applied, listed, pending>>
      BY <2>1, <2>4, <3>1, <3>3
    <3>6. StoreTyped' /\ applied' \in BOOLEAN
      BY <1>a, <3>5 DEF StoreTyped, ScreenTyped, store
    <3>7. s = "upgrade_complete" \/ applied' => schema' = "ce"
      BY <1>a, <2>2, <3>2, <3>5 DEF ToldComplete
    <3> QED
      BY <1>d, <2>2, <3>2, <3>4, <3>5, <3>6, <3>7, StatusTaken
  <2> QED
    BY <2>1, <2>2, <2>3, <2>4
<1>2. ASSUME NEW w \in Writes, ServeWrite(w) PROVE UpgradeInv' /\ schema' \in {schema, "ce"}
  <2>1. PICK answer \in {"ok", "ce_migrations_current", "upgrade_complete", "failed"} :
          /\ Works(w, asked[w].file, answer)
          /\ \E says \in {answer, "failed"} :
               asked' = [asked EXCEPT ![w].at = "back", ![w].says = says]
    BY <1>2 DEF ServeWrite
  <2>2. PICK says \in {answer, "failed"} :
          asked' = [asked EXCEPT ![w].at = "back", ![w].says = says]
    BY <2>1
  <2>3. PICK r : r = [[asked[w] EXCEPT !.at = "back"] EXCEPT !.says = says]
    OBVIOUS
  <2>4. says \in States \cup {"failed", "ok"} /\ w \in Asks \ {"preflight"} /\ asked[w] \in Requests
    BY <1>b, <1>c DEF States
  <2>5. r \in Requests /\ r.says = says
    BY <2>3, <2>4 DEF Requests
  <2>6. asked' = [asked EXCEPT ![w] = r]
    BY <2>2, <2>3
  <2>7. asked[w].file \in Files \cup {NoFile}
    BY <2>4 DEF Requests
  <2>8. /\ stored' \subseteq Files /\ made' \in 0..MaxBackups /\ schema' \in {schema, "ce"}
        /\ w = "apply" => answer = "failed" \/ (answer \in States /\ schema' = "ce")
    BY <1>a, <2>1, <2>7, WorksIs
  <2>9. /\ UNCHANGED <<late, view, status, confirmed, preflight, applied, backups>>
    BY <1>2 DEF ServeWrite
  <2>10. StoreTyped' /\ ScreenTyped' /\ Keeps
    BY <1>a, <2>8, <2>9 DEF StoreTyped, ScreenTyped, backups, Keeps
  <2>11. /\ asked' \in [Asks -> Requests] /\ asked'[w] = r
         /\ \A b \in Asks \ {w} : asked'[b] = asked[b]
    BY <1>a, <2>4, <2>5, <2>6, OneAskMoves
  <2>12. Told(w, asked[w])'
    <3>1. w \notin StatusReads
      BY DEF Writes, StatusReads
    <3> QED
      BY <2>5, <2>8, <2>11, <3>1 DEF Told
  <2>13. FreshRun' /\ ToldComplete'
    BY <1>a, <1>c, <2>4, <2>9, <2>10, <2>11, FreshStays, CompleteStays
  <2>14. \A b \in Asks : asked'[b] = asked[b] \/ Told(b, asked[b])'
    BY <2>11, <2>12
  <2> QED
    BY <2>8, <2>10, <2>11, <2>13, <2>14, UpgradeMoves
<1>3. ASSUME NEW r \in StatusReads, ServeStatus(r) PROVE UpgradeInv' /\ schema' \in {schema, "ce"}
  <2>1. PICK answer \in StatusAnswers : asked' = [asked EXCEPT ![r].at = "back", ![r].says = answer]
    BY <1>3 DEF ServeStatus
  <2>2. answer \in States \cup {"failed"} /\ (answer = "upgrade_complete" => schema = "ce")
    BY StatusAnswersAre
  <2>3. PICK q : q = [[asked[r] EXCEPT !.at = "back"] EXCEPT !.says = answer]
    OBVIOUS
  <2>4. q \in Requests /\ q.says = answer /\ r \in Asks \ {"preflight"}
    <3>1. answer \in States \cup {"failed", "ok"} /\ asked[r] \in Requests /\ r \in Asks \ {"preflight"}
      BY <1>b, <1>c, <2>2
    <3> QED
      BY <2>3, <3>1 DEF Requests
  <2>5. asked' = [asked EXCEPT ![r] = q]
    BY <2>1, <2>3
  <2>6. UNCHANGED <<schema, stored, made, late, view, status, confirmed, preflight, applied, backup, listed, pending>>
    BY <1>3 DEF ServeStatus, appliance, machine, store, backups
  <2>7. StoreTyped' /\ ScreenTyped' /\ Keeps
    BY <1>a, <2>6 DEF StoreTyped, ScreenTyped, Keeps
  <2>8. /\ asked' \in [Asks -> Requests] /\ asked'[r] = q
        /\ \A b \in Asks \ {r} : asked'[b] = asked[b]
    BY <1>a, <2>4, <2>5, OneAskMoves
  <2>9. Told(r, asked[r])'
    <3>1. r # "apply"
      BY DEF StatusReads
    <3> QED
      BY <2>2, <2>4, <2>6, <2>8, <3>1 DEF Told
  <2>10. FreshRun' /\ ToldComplete'
    BY <1>a, <1>c, <2>4, <2>6, <2>7, <2>8, FreshStays, CompleteStays
  <2>11. \A b \in Asks : asked'[b] = asked[b] \/ Told(b, asked[b])'
    BY <2>8, <2>9
  <2> QED
    BY <2>6, <2>7, <2>8, <2>10, <2>11, UpgradeMoves
<1>4 CASE ServeLate
  <2>1. PICK l \in late : late' = late \ {l} /\ \E answer : Works(l[1], l[2], answer)
    BY <1>4 DEF ServeLate
  <2>2. l[1] \in Writes /\ l[2] \in Files \cup {NoFile}
    BY <1>a DEF StoreTyped
  <2>3. stored' \subseteq Files /\ made' \in 0..MaxBackups /\ schema' \in {schema, "ce"}
    BY <1>a, <2>1, <2>2, WorksIs
  <2>4. UNCHANGED <<view, status, confirmed, preflight, applied, backup, listed, pending, asked>>
    BY <1>4 DEF ServeLate, wizard, backups
  <2>5. StoreTyped' /\ ScreenTyped' /\ Keeps
    BY <1>a, <2>1, <2>3, <2>4 DEF StoreTyped, ScreenTyped, Keeps
  <2>6. FreshRun' /\ ToldComplete'
    BY <1>a, <2>4, <2>5, FreshStays, CompleteStays
  <2> QED
    BY <1>a, <2>3, <2>4, <2>5, <2>6, UpgradeMoves
<1>5. ASSUME NEW a \in StatusReads, GotStatus(a) PROVE UpgradeInv' /\ schema' \in {schema, "ce"}
  <2>1. UNCHANGED <<schema, stored, made, late, view, confirmed, applied, listed, pending>> /\ a \in Asks \ {"preflight"}
    BY <1>5, <1>c DEF GotStatus, appliance, machine, store
  <2>2. StoreTyped' /\ Keeps
    BY <1>a, <2>1 DEF StoreTyped, Keeps
  <2>3 CASE asked' = Done(a) /\ UNCHANGED <<status, preflight, backup>>
    <3>1. ScreenTyped'
      BY <1>a, <2>1, <2>3 DEF ScreenTyped
    <3> QED
      BY <1>e, <2>1, <2>2, <2>3, <3>1, OneAsked DEF Done
  <2>4 CASE asked[a].says # "failed" /\ SetStatus(asked[a].says, Done(a))
    <3>1. PICK s : s = asked[a].says
      OBVIOUS
    <3>2. s \in States /\ (s = "upgrade_complete" => schema = "ce")
      BY <1>a, <1>5, <2>1, <2>4, <3>1 DEF Told, GotStatus, Back
    <3>3. PICK asks : asks = Done(a)
      OBVIOUS
    <3>4. SetStatus(s, asks) /\ asks \in [Asks -> Requests] /\ (\A b \in Asks : asks[b] = asked[b] \/ asks[b].at # "back")
      BY <1>f, <2>1, <2>4, <3>1, <3>3
    <3>5. s = "upgrade_complete" \/ applied' => schema' = "ce"
      BY <1>a, <2>1, <3>2 DEF ToldComplete
    <3>6. view' \in BOOLEAN /\ applied' \in BOOLEAN
      BY <1>a, <2>1 DEF ScreenTyped
    <3> QED
      BY <2>1, <2>2, <3>2, <3>4, <3>5, <3>6, StatusTaken
  <2> QED
    BY <1>5, <2>3, <2>4, Zenon DEF GotStatus
<1>6. ASSUME NEW a \in Relists, GotRelist(a) PROVE UpgradeInv' /\ schema' \in {schema, "ce"}
  <2>1. /\ UNCHANGED <<schema, stored, made, late, view, status, confirmed, preflight, applied, pending>>
        /\ asked' = [asked EXCEPT ![a] = Idle] /\ a \in Asks \ {"preflight"}
        /\ backup' \in {TRUE, backup} /\ listed' \in {stored, listed}
    BY <1>6, <1>c DEF GotRelist, appliance, machine, store, Done
  <2>2. StoreTyped' /\ ScreenTyped' /\ Keeps
    BY <1>a, <2>1 DEF StoreTyped, ScreenTyped, Keeps
  <2> QED
    BY <1>e, <2>1, <2>2, OneAsked
<1>7 CASE GotProbe
  <2>1. /\ UNCHANGED <<schema, stored, made, late, view, status, confirmed, preflight, applied, pending>>
        /\ asked' = [asked EXCEPT !["probe"] = Idle]
        /\ backup' \in BOOLEAN /\ listed' \in {stored, {}}
    BY <1>7 DEF GotProbe, appliance, machine, store, Done
  <2>2. StoreTyped' /\ ScreenTyped' /\ Keeps
    BY <1>a, <2>1 DEF StoreTyped, ScreenTyped, Keeps
  <2> QED
    BY <1>c, <1>e, <2>1, <2>2, OneAsked
<1>8 CASE GotPreflight
  <2>1. /\ UNCHANGED <<schema, stored, made, late, view, status, confirmed, applied, backup, listed, pending>>
        /\ asked' = Done("preflight") /\ preflight' \in {"none", PreviewFor(asked["preflight"].box)}
        /\ asked["preflight"].at # "idle"
    BY <1>8 DEF GotPreflight, appliance, machine, store, backups, Free
  <2>2. StoreTyped' /\ ScreenTyped' /\ Keeps
    BY <1>a, <2>1 DEF StoreTyped, ScreenTyped, Keeps, PreviewFor
  <2>3. /\ asked' \in [Asks -> Requests] /\ asked'["preflight"].at = "idle"
        /\ \A b \in Asks : asked'[b] = asked[b] \/ asked'[b].at # "back"
    BY <1>c, <1>e, <1>f, <2>1
  <2>4. FreshRun'
    BY <1>a, <2>1, <2>3 DEF FreshRun, Watches
  <2>5. ToldComplete'
    BY <1>a, <2>1, <2>2, CompleteStays
  <2> QED
    BY <2>1, <2>2, <2>3, <2>4, <2>5, UpgradeMoves
<1>9 CASE GotCreate
  <2>1. /\ UNCHANGED <<schema, stored, made, late, view, status, applied, listed, pending>>
    BY <1>9 DEF GotCreate, appliance, machine, store
  <2>2. StoreTyped' /\ Keeps
    BY <1>a, <2>1 DEF StoreTyped, Keeps
  <2>3. ToldComplete'
    BY <1>a, <2>1, <2>2, CompleteStays
  <2>4 CASE asked' = Done("create") /\ UNCHANGED <<confirmed, preflight, backup>>
    <3>1. ScreenTyped'
      BY <1>a, <2>1, <2>4 DEF ScreenTyped
    <3> QED
      BY <1>c, <1>e, <2>1, <2>2, <2>4, <3>1, OneAsked DEF Done
  <2>5. PICK relisting : relisting = [Done("create") EXCEPT !["relistCreated"] = Out]
    OBVIOUS
  <2>6. /\ relisting \in [Asks -> Requests] /\ relisting["preflight"] = asked["preflight"]
        /\ \A b \in Asks : relisting[b] = asked[b] \/ relisting[b].at # "back"
    <3>1. PICK done : done = Done("create")
      OBVIOUS
    <3>2. /\ done \in [Asks -> Requests] /\ done["preflight"] = asked["preflight"]
          /\ \A b \in Asks : done[b] = asked[b] \/ done[b].at # "back"
      BY <1>c, <1>f, <3>1
    <3>3. relisting = [done EXCEPT !["relistCreated"] = Out] /\ "relistCreated" \in Asks \ {"preflight"}
      BY <1>c, <2>5, <3>1
    <3>4. /\ relisting \in [Asks -> Requests] /\ relisting["relistCreated"] = Out
          /\ \A b \in Asks \ {"relistCreated"} : relisting[b] = done[b]
      BY <1>e, <3>2, <3>3, OneAskMoves
    <3> QED
      BY <1>c, <1>e, <3>2, <3>3, <3>4
  <2>7 CASE confirmed' = TRUE /\ backup' = FALSE /\ confirmed /\ asked' = relisting /\ UNCHANGED preflight
    <3>1. confirmed' = confirmed
      BY <1>a, <2>7 DEF ScreenTyped
    <3>2. ScreenTyped' /\ FreshRun'
      BY <1>a, <2>1, <2>6, <2>7, <3>1, FreshStays DEF ScreenTyped
    <3> QED
      BY <2>1, <2>2, <2>3, <2>6, <2>7, <3>2, UpgradeMoves
  <2>8 CASE /\ confirmed' = TRUE /\ backup' = FALSE
            /\ asked' = PreflightRuns(relisting, status, TRUE) /\ PreviewGoes(status)
    <3>1. /\ asked' \in [Asks -> Requests] /\ asked'["preflight"].at # "back"
          /\ Watches(status) => asked'["preflight"].box = TRUE
          /\ \A a \in Asks \ {"preflight"} : asked'[a] = relisting[a]
      <4>0. PICK box \in BOOLEAN : box = TRUE
        OBVIOUS
      <4>1. PICK now, s : now = asked' /\ s = status
        OBVIOUS
      <4>a. now = PreflightRuns(relisting, s, box) /\ relisting \in [Asks -> Requests]
        BY <2>6, <2>8, <4>0, <4>1
      <4>2. /\ now \in [Asks -> Requests] /\ now["preflight"].at # "back"
            /\ Watches(s) => now["preflight"].box = box
            /\ \A a \in Asks \ {"preflight"} : now[a] = relisting[a]
        BY <4>a, PreflightRunsIs
      <4> QED
        BY <4>0, <4>1, <4>2 DEF Watches
    <3>2. \A b \in Asks : asked'[b] = asked[b] \/ asked'[b].at # "back"
      BY <2>6, <3>1
    <3>3. preflight' \in {"none", preflight} /\ (Watches(status) => preflight' = "none")
      BY <2>8 DEF PreviewGoes
    <3>4. ScreenTyped' /\ FreshRun'
      BY <1>a, <2>1, <2>8, <3>1, <3>3 DEF ScreenTyped, FreshRun, Watches
    <3> QED
      BY <2>1, <2>2, <2>3, <3>1, <3>2, <3>4, UpgradeMoves
  <2> QED
    BY <1>9, <2>4, <2>5, <2>7, <2>8, Zenon DEF GotCreate
<1>10 CASE GotPrune
  <2>1. /\ UNCHANGED <<schema, stored, made, late, view, status, confirmed, preflight, applied, listed, pending>>
    BY <1>10 DEF GotPrune, appliance, machine, store
  <2>2. StoreTyped' /\ Keeps
    BY <1>a, <2>1 DEF StoreTyped, Keeps
  <2>3. PICK done : done = Done("prune")
    OBVIOUS
  <2>4. /\ done \in [Asks -> Requests] /\ done["preflight"] = asked["preflight"]
        /\ \A b \in Asks : done[b] = asked[b] \/ done[b].at # "back"
    BY <1>c, <1>f, <2>3
  <2>5. /\ backup' \in {FALSE, backup}
        /\ asked' = done \/ asked' = [done EXCEPT !["relistPruned"] = Out]
    BY <1>10, <2>3, Zenon DEF GotPrune
  <2>6. /\ asked' \in [Asks -> Requests] /\ asked'["preflight"] = asked["preflight"]
        /\ \A b \in Asks : asked'[b] = asked[b] \/ asked'[b].at # "back"
    <3>1 CASE asked' = done
      BY <2>4, <3>1
    <3>2 CASE asked' = [done EXCEPT !["relistPruned"] = Out]
      <4>1. /\ asked' \in [Asks -> Requests] /\ asked'["relistPruned"] = Out
            /\ \A b \in Asks \ {"relistPruned"} : asked'[b] = done[b]
        BY <1>c, <1>e, <2>4, <3>2, OneAskMoves
      <4> QED
        BY <1>c, <1>e, <2>4, <4>1
    <3> QED
      BY <2>5, <3>1, <3>2
  <2>7. ScreenTyped' /\ FreshRun' /\ ToldComplete'
    BY <1>a, <2>1, <2>2, <2>5, <2>6, FreshStays, CompleteStays DEF ScreenTyped
  <2> QED
    BY <2>1, <2>2, <2>6, <2>7, UpgradeMoves
<1>11 CASE GotApply
  <2>1. UNCHANGED <<schema, stored, made, late, view, confirmed, listed, pending>>
    BY <1>11 DEF GotApply, appliance, machine, store
  <2>2. StoreTyped' /\ Keeps
    BY <1>a, <2>1 DEF StoreTyped, Keeps
  <2>3 CASE applied' = FALSE /\ asked' = Done("apply") /\ UNCHANGED <<status, preflight, backup>>
    <3>1. ScreenTyped'
      BY <1>a, <2>1, <2>3 DEF ScreenTyped
    <3> QED
      BY <1>c, <1>e, <2>1, <2>2, <2>3, <3>1, OneAsked DEF Done
  <2>4 CASE asked["apply"].says # "failed" /\ applied' = TRUE /\ SetStatus(asked["apply"].says, Done("apply"))
    <3>1. PICK s : s = asked["apply"].says
      OBVIOUS
    <3>2. s \in States /\ schema = "ce"
      BY <1>a, <1>c, <1>11, <2>4, <3>1 DEF Told, GotApply, Back
    <3>3. PICK asks : asks = Done("apply")
      OBVIOUS
    <3>4. SetStatus(s, asks) /\ asks \in [Asks -> Requests] /\ (\A b \in Asks : asks[b] = asked[b] \/ asks[b].at # "back")
      BY <1>c, <1>f, <2>4, <3>1, <3>3
    <3>5. view' \in BOOLEAN /\ applied' \in BOOLEAN
      BY <1>a, <2>1, <2>4 DEF ScreenTyped
    <3> QED
      BY <2>1, <2>2, <3>2, <3>4, <3>5, StatusTaken
  <2> QED
    BY <1>11, <2>3, <2>4, Zenon DEF GotApply
<1>12 CASE RefreshStatus \/ CreateBackup
  <2>1. /\ UNCHANGED <<schema, stored, made, late, view, status, confirmed, preflight, applied, backup, listed, pending>>
        /\ asked' = [asked EXCEPT !["refresh"] = Out] \/ asked' = [asked EXCEPT !["create"] = Out]
    BY <1>12, Zenon DEF RefreshStatus, CreateBackup, appliance, machine, store, backups
  <2>2. StoreTyped' /\ ScreenTyped' /\ Keeps
    BY <1>a, <2>1 DEF StoreTyped, ScreenTyped, Keeps
  <2> QED
    BY <1>c, <1>e, <2>1, <2>2, OneAsked
<1>13 CASE ToggleConfirm
  <2>1. /\ UNCHANGED <<schema, stored, made, late, view, status, applied, backup, listed, pending>>
        /\ confirmed' = ~confirmed /\ asked' = PreflightRuns(asked, status, ~confirmed) /\ PreviewGoes(status)
    BY <1>13 DEF ToggleConfirm, appliance, machine, store, backups
  <2>2. PICK box \in BOOLEAN : box = ~confirmed
    BY <1>a DEF ScreenTyped
  <2>3. /\ asked' \in [Asks -> Requests] /\ asked'["preflight"].at # "back"
        /\ Watches(status) => asked'["preflight"].box = box
        /\ \A a \in Asks \ {"preflight"} : asked'[a] = asked[a]
    <3>1. PICK now, asks, s : now = asked' /\ asks = asked /\ s = status
      OBVIOUS
    <3>a. now = PreflightRuns(asks, s, box) /\ asks \in [Asks -> Requests]
      BY <1>a, <2>1, <2>2, <3>1
    <3>2. /\ now \in [Asks -> Requests] /\ now["preflight"].at # "back"
          /\ Watches(s) => now["preflight"].box = box
          /\ \A a \in Asks \ {"preflight"} : now[a] = asks[a]
      BY <3>a, PreflightRunsIs
    <3> QED
      BY <3>1, <3>2 DEF Watches
  <2>4. preflight' \in {"none", preflight} /\ (Watches(status) => preflight' = "none")
    BY <2>1 DEF PreviewGoes
  <2>5. StoreTyped' /\ ScreenTyped' /\ Keeps
    BY <1>a, <2>1, <2>2, <2>4 DEF StoreTyped, ScreenTyped, Keeps
  <2>6. FreshRun' /\ ToldComplete'
    BY <1>a, <2>1, <2>2, <2>3, <2>4, <2>5, CompleteStays DEF FreshRun, Watches
  <2>7. \A b \in Asks : asked'[b] = asked[b] \/ asked'[b].at # "back"
    BY <2>3
  <2> QED
    BY <2>1, <2>3, <2>5, <2>6, <2>7, UpgradeMoves
<1>14 CASE RequestPrune
  <2>1. /\ UNCHANGED <<schema, stored, made, late, view, status, confirmed, preflight, applied, backup, listed, asked>>
        /\ pending' \in listed \cup {NoFile}
    BY <1>14 DEF RequestPrune, appliance, machine, store
  <2>2. StoreTyped' /\ ScreenTyped' /\ Keeps
    BY <1>a, <2>1 DEF StoreTyped, ScreenTyped, Keeps
  <2>3. FreshRun' /\ ToldComplete'
    BY <1>a, <2>1, <2>2, FreshStays, CompleteStays
  <2> QED
    BY <1>a, <2>1, <2>2, <2>3, UpgradeMoves
<1>15 CASE ConfirmPrune
  <2>1. /\ UNCHANGED <<schema, stored, made, late, view, status, confirmed, preflight, applied, backup, listed>>
        /\ asked' = [asked EXCEPT !["prune"] = [Out EXCEPT !.file = pending]] /\ pending' = NoFile
    BY <1>15 DEF ConfirmPrune, appliance, machine, store
  <2>2. PICK r : r = [Out EXCEPT !.file = pending]
    OBVIOUS
  <2>3. r \in Requests /\ r.at # "back"
    BY <1>a, <2>2, RequestsAre DEF ScreenTyped
  <2>4. StoreTyped' /\ ScreenTyped' /\ Keeps
    BY <1>a, <2>1 DEF StoreTyped, ScreenTyped, Keeps
  <2> QED
    BY <1>c, <2>1, <2>2, <2>3, <2>4, OneAsked
<1>16 CASE Apply
  <2>1. /\ UNCHANGED <<schema, stored, made, late, view, status, confirmed, preflight, backup, listed, pending>>
        /\ asked' = [asked EXCEPT !["apply"] = Out] /\ applied' = FALSE
    BY <1>16 DEF Apply, appliance, machine, store, backups
  <2>2. StoreTyped' /\ ScreenTyped' /\ Keeps
    BY <1>a, <2>1 DEF StoreTyped, ScreenTyped, Keeps
  <2> QED
    BY <1>c, <1>e, <2>1, <2>2, OneAsked
<1> QED
  BY <1>1, <1>2, <1>3, <1>4, <1>5, <1>6, <1>7, <1>8, <1>9, <1>10, <1>11, <1>12, <1>13, <1>14, <1>15, <1>16
  DEF UpgradeNext

-----------------------------------------------------------------------------
(* The setup wizard, step by step.                                         *)

\* What a step leaves of the machine, for the setup wizard.
LicenceKept == licence = "valid" => licence' = "valid"

\* The types of the calls.
LEMMA CallsAre ==
  /\ NoCall \in Calls /\ NoCall.kind = "none" /\ NoCall.at = "idle"
  /\ \A kind \in Kinds : LET c == [NoCall EXCEPT !.kind = kind, !.at = "out"]
                         IN  c \in Calls /\ c.kind = kind /\ c.at = "out"
<1>1. NoCall \in Calls /\ NoCall.kind = "none" /\ NoCall.at = "idle"
  BY DEF NoCall, Calls
<1>2. ASSUME NEW kind \in Kinds
      PROVE  /\ [NoCall EXCEPT !.kind = kind, !.at = "out"] \in Calls
             /\ [NoCall EXCEPT !.kind = kind, !.at = "out"].kind = kind
             /\ [NoCall EXCEPT !.kind = kind, !.at = "out"].at = "out"
  BY DEF NoCall, Calls
<1> QED
  BY <1>1, <1>2

\* The wizard's panel.
PanelTyped ==
  /\ shown \in BOOLEAN
  /\ dist \in {"ce", "oss", "none"} /\ lic \in {"null", "missing", "valid"}
  /\ code \in {"idle", "verifying", "ok", "error"}
  /\ submit \in {"idle", "initiating_mfa", "mfa_pending", "verifying_mfa", "submitting", "ok", "error"}

InstalledTyped == enrolment \in {"none", "begun", "verified"} /\ afloat \in BOOLEAN

\* What the invariant says of it.
LEMMA SetupTyped ==
  ASSUME SetupTypeOK
  PROVE  PanelTyped /\ InstalledTyped /\ call \in Calls
BY DEF SetupTypeOK, PanelTyped, InstalledTyped

SetupInv == SetupTypeOK /\ LicenceFirst

\* A step that keeps every part.
LEMMA SetupMoves ==
  ASSUME PanelTyped', InstalledTyped', call' \in Calls, LicenceFirst'
  PROVE  SetupInv'
BY DEF SetupInv, SetupTypeOK, PanelTyped, InstalledTyped

\* Nothing of the wizard changes.
LEMMA SetupStays ==
  ASSUME SetupInv, LicenceKept, UNCHANGED setupWizard
  PROVE  SetupInv'
<1>1. PanelTyped' /\ InstalledTyped' /\ call' \in Calls
  BY SetupTyped DEF SetupInv, setupWizard, installed, panel, PanelTyped, InstalledTyped
<1>2. LicenceFirst'
  BY DEF SetupInv, LicenceFirst, LicenceKept, setupWizard, installed, panel
<1> QED
  BY <1>1, <1>2, SetupMoves

\* The wizard goes.
LEMMA UnmountIs ==
  ASSUME SetupInv, LicenceKept, Unmount, InstalledTyped', UNCHANGED enrolment
  PROVE  SetupInv'
<1>1. PanelTyped' /\ call' = NoCall /\ lic' = "null"
  BY DEF Unmount, PanelTyped
<1>2. LicenceFirst'
  BY <1>1, CallsAre DEF SetupInv, LicenceFirst, LicenceKept
<1> QED
  BY <1>1, <1>2, CallsAre, SetupMoves

\* An answer is taken in, or a request is sent, and nothing is enrolled.
LEMMA PanelMoves ==
  ASSUME SetupInv, LicenceKept, UNCHANGED installed, PanelTyped', call' \in Calls,
         lic' = "valid" => lic = "valid",
         call'.at # "back", call'.kind = "initiate" => licence = "valid"
  PROVE  SetupInv'
<1>1. InstalledTyped' /\ enrolment' = enrolment
  BY SetupTyped DEF SetupInv, InstalledTyped, installed
<1>2. LicenceFirst'
  BY <1>1 DEF SetupInv, LicenceFirst, LicenceKept
<1> QED
  BY <1>1, <1>2, SetupMoves

\* What a step of the setup wizard leaves of the appliance.
SetupLeaves ==
  /\ UNCHANGED <<serving, schema, edition>>
  /\ setup' \in {"required", "complete"} /\ licence' \in {licence, "valid"}
  /\ page' \in {page, "/login"}

\* Every step of the wizard keeps what it promises.
LEMMA SetupNextKeeps ==
  ASSUME ApplianceTypeOK, SetupInv, SetupNext
  PROVE  SetupInv' /\ SetupLeaves
<1>a. PanelTyped /\ InstalledTyped /\ call \in Calls /\ LicenceFirst
  BY SetupTyped DEF SetupInv
<1>b. setup \in {"required", "complete"} /\ licence \in {"missing", "valid"} /\ serving \in {"oss", "upgrade", "ce"}
  BY DEF ApplianceTypeOK
<1>c. NoCall \in Calls /\ NoCall.kind = "none" /\ NoCall.at = "idle"
  BY CallsAre
<1>d. UNCHANGED licence => LicenceKept
  BY DEF LicenceKept
<1>e. UNCHANGED appliance => SetupLeaves /\ UNCHANGED licence
  BY <1>b DEF appliance, machine, tab, SetupLeaves
<1>f. ASSUME GoToLogin PROVE SetupInv' /\ SetupLeaves
  <2>1. Unmount /\ UNCHANGED <<serving, schema, setup, licence, edition, enrolment, afloat>> /\ page' = "/login"
    BY <1>f DEF GoToLogin, machine, installed
  <2>2. InstalledTyped'
    BY <1>a, <2>1 DEF InstalledTyped
  <2> QED
    BY <1>b, <1>d, <2>1, <2>2, UnmountIs DEF SetupLeaves
<1>g. ASSUME NEW kind \in Kinds, Ask(kind)
      PROVE  call' \in Calls /\ call'.at = "out" /\ call'.kind = kind
  BY <1>g, CallsAre DEF Ask
<1>1 CASE OpenSetup
  <2>1. PICK seen \in {Mounted, FALSE} :
          IF seen /\ setup = "complete"
          THEN page' = "/login" /\ UNCHANGED panel
          ELSE /\ shown' = TRUE
               /\ dist' = IF seen THEN serving ELSE "none"
               /\ lic' \in {"null"} \cup IF dist' = "ce" THEN {CeOnly(licence)} \ {"absent"} ELSE {}
               /\ UNCHANGED <<page, code, submit>>
    BY <1>1 DEF OpenSetup
  <2>2. UNCHANGED <<serving, schema, setup, licence, edition, installed, call>> /\ page' \in {page, "/login"}
    BY <1>1, <2>1 DEF OpenSetup, machine
  <2>3 CASE UNCHANGED panel
    BY <1>b, <1>d, <2>2, <2>3, SetupStays DEF setupWizard, SetupLeaves
  <2>4 CASE /\ shown' = TRUE /\ dist' = (IF seen THEN serving ELSE "none")
            /\ lic' \in {"null"} \cup (IF dist' = "ce" THEN {CeOnly(licence)} \ {"absent"} ELSE {})
            /\ UNCHANGED <<page, code, submit>>
    <3>1. dist' \in {"ce", "oss", "none"}
      BY <1>b, <2>4 DEF Mounted
    <3>2. lic' \in {"null", licence}
      BY <2>4 DEF CeOnly
    <3>3. PanelTyped'
      BY <1>a, <1>b, <2>4, <3>1, <3>2 DEF PanelTyped
    <3>4. InstalledTyped' /\ LicenceFirst'
      BY <1>a, <2>2, <3>2 DEF InstalledTyped, installed, LicenceFirst
    <3> QED
      BY <1>a, <1>b, <2>2, <3>3, <3>4, SetupMoves DEF SetupLeaves
  <2> QED
    BY <2>1, <2>3, <2>4
<1>2 CASE ServeSetup
  <2>1. PICK says \in {"ok", "bad_token", "already_complete", "failed"} :
          /\ (says \in {"ok", "failed"} /\ Accepts(call)) \/ Refuses(says) \/ (says = "failed" /\ Loses)
          /\ call' = [call EXCEPT !.at = "back", !.says = says]
    BY <1>2 DEF ServeSetup
  <2>2. UNCHANGED <<serving, schema, edition, page, afloat, panel>>
    BY <1>2 DEF ServeSetup, tab
  <2>3. call' \in Calls /\ call'.kind = call.kind /\ call'.says = says
    BY <1>a, <2>1 DEF Calls
  <2>4. PanelTyped' /\ lic' = lic
    BY <1>a, <2>2 DEF PanelTyped, panel
  <2>5 CASE UNCHANGED <<setup, licence, enrolment>> /\ ~(call.kind = "upload" /\ says = "ok")
    <3>1. InstalledTyped' /\ LicenceFirst'
      BY <1>a, <2>2, <2>3, <2>4, <2>5 DEF InstalledTyped, LicenceFirst
    <3> QED
      BY <1>b, <2>2, <2>3, <2>4, <2>5, <3>1, SetupMoves DEF SetupLeaves
  <2>6 CASE Accepts(call)
    <3>1. /\ setup' \in {"required", "complete"} /\ licence' \in {licence, "valid"}
          /\ enrolment' \in {"none", "begun", "verified"}
          /\ call.kind = "upload" => licence' = "valid"
          /\ enrolment' # "none" => enrolment # "none" \/ call.kind = "initiate"
      BY <1>a, <1>b, <2>6 DEF Accepts, Completes, InstalledTyped
    <3>2. InstalledTyped' /\ LicenceFirst'
      BY <1>a, <2>2, <2>3, <2>4, <3>1 DEF InstalledTyped, LicenceFirst
    <3> QED
      BY <2>2, <2>3, <2>4, <3>1, <3>2, SetupMoves DEF SetupLeaves
  <2>7. Refuses(says) => UNCHANGED <<setup, licence, enrolment>> /\ says # "ok"
    BY DEF Refuses
  <2> QED
    BY <2>1, <2>5, <2>6, <2>7 DEF Loses
<1>3 CASE ServeAfloat
  <2>1. UNCHANGED <<serving, schema, edition, page, panel, call, licence, enrolment>> /\ afloat' = FALSE
        /\ setup' \in {setup, "complete"}
    BY <1>3 DEF ServeAfloat, tab, Completes, Loses
  <2>2. PanelTyped' /\ InstalledTyped' /\ LicenceFirst'
    BY <1>a, <2>1 DEF PanelTyped, panel, InstalledTyped, LicenceFirst
  <2> QED
    BY <1>a, <1>b, <2>1, <2>2, SetupMoves DEF SetupLeaves
<1>4 CASE VerifyCode
  <2>1. /\ UNCHANGED <<appliance, installed, shown, dist, lic, submit>> /\ code' = "verifying" /\ Ask("verify")
    BY <1>4 DEF VerifyCode
  <2>2. PanelTyped' /\ "verify" \in Kinds
    BY <1>a, <2>1 DEF PanelTyped, Kinds
  <2> QED
    BY <1>d, <1>e, <1>g, <2>1, <2>2, PanelMoves
<1>5 CASE GotVerify
  <2>1 CASE GoToLogin
    BY <1>f, <2>1
  <2>2 CASE /\ code' \in {"ok", "error"} /\ call' = NoCall
            /\ UNCHANGED <<appliance, installed, shown, dist, lic, submit>>
    <3>1. PanelTyped'
      BY <1>a, <2>2 DEF PanelTyped
    <3> QED
      BY <1>c, <1>d, <1>e, <2>2, <3>1, PanelMoves
  <2> QED
    BY <1>5, <2>1, <2>2 DEF GotVerify
<1>6 CASE UploadLicence
  <2>1. UNCHANGED <<appliance, installed, panel>> /\ Ask("upload") /\ "upload" \in Kinds
    BY <1>6 DEF UploadLicence, Kinds
  <2>2. PanelTyped' /\ lic' = lic
    BY <1>a, <2>1 DEF PanelTyped, panel
  <2> QED
    BY <1>d, <1>e, <1>g, <2>1, <2>2, PanelMoves
<1>7 CASE GotUpload
  <2>1. /\ Answered("upload") /\ call' = NoCall
        /\ lic' = (IF call.says = "ok" THEN "valid" ELSE lic)
        /\ UNCHANGED <<appliance, installed, shown, dist, code, submit>>
    BY <1>7 DEF GotUpload
  <2>2. PanelTyped' /\ InstalledTyped'
    BY <1>a, <2>1 DEF PanelTyped, InstalledTyped, installed
  <2>3. LicenceFirst'
    BY <1>a, <1>c, <1>e, <2>1 DEF LicenceFirst, Answered, installed
  <2> QED
    BY <1>c, <1>e, <2>1, <2>2, <2>3, SetupMoves
<1>8 CASE Complete
  <2>1. /\ UNCHANGED <<appliance, installed, shown, dist, lic, code>>
        /\ \/ dist = "ce" /\ submit' = "initiating_mfa" /\ Ask("initiate")
           \/ submit' = "submitting" /\ Ask("complete")
        /\ dist = "ce" => lic = "valid"
    BY <1>8 DEF Complete, SetupTimeMFA, FormOpen, LicenceAccepted
  <2>2. PanelTyped' /\ "initiate" \in Kinds /\ "complete" \in Kinds
    BY <1>a, <2>1 DEF PanelTyped, Kinds
  <2>3. call' \in Calls /\ call'.at = "out" /\ (call'.kind = "initiate" => licence = "valid")
    BY <1>a, <1>g, <2>1, <2>2 DEF LicenceFirst
  <2> QED
    BY <1>d, <1>e, <2>1, <2>2, <2>3, PanelMoves
<1>9 CASE GotInitiate
  <2>1. /\ submit' \in {"mfa_pending", "error"} /\ call' = NoCall
        /\ UNCHANGED <<appliance, installed, shown, dist, lic, code>>
    BY <1>9 DEF GotInitiate
  <2>2. PanelTyped'
    BY <1>a, <2>1 DEF PanelTyped
  <2> QED
    BY <1>c, <1>d, <1>e, <2>1, <2>2, PanelMoves
<1>10 CASE VerifyAndFinish
  <2>1. /\ submit' = "verifying_mfa" /\ Ask("mfa") /\ "mfa" \in Kinds
        /\ UNCHANGED <<appliance, installed, shown, dist, lic, code>>
    BY <1>10 DEF VerifyAndFinish, Kinds
  <2>2. PanelTyped'
    BY <1>a, <2>1 DEF PanelTyped
  <2> QED
    BY <1>d, <1>e, <1>g, <2>1, <2>2, PanelMoves
<1>11 CASE GotMfa
  <2>1. /\ submit' \in {"submitting", "mfa_pending"} /\ (Ask("complete") \/ call' = NoCall)
        /\ UNCHANGED <<appliance, installed, shown, dist, lic, code>>
    BY <1>11 DEF GotMfa
  <2>2. PanelTyped' /\ "complete" \in Kinds
    BY <1>a, <2>1 DEF PanelTyped, Kinds
  <2>3. call' \in Calls /\ call'.at # "back" /\ call'.kind # "initiate"
    BY <1>c, <1>g, <2>1, <2>2
  <2> QED
    BY <1>d, <1>e, <2>1, <2>2, <2>3, PanelMoves
<1>12 CASE GotComplete
  <2>1 CASE GoToLogin
    BY <1>f, <2>1
  <2>2 CASE /\ submit' \in {"ok", "idle", "error"} /\ code' \in {"error", code} /\ call' = NoCall
            /\ UNCHANGED <<appliance, installed, shown, dist, lic>>
    <3>1. PanelTyped'
      BY <1>a, <2>2 DEF PanelTyped
    <3> QED
      BY <1>c, <1>d, <1>e, <2>2, <3>1, PanelMoves
  <2> QED
    BY <1>12, <2>1, <2>2 DEF GotComplete
<1>13 CASE Continue
  BY <1>13, <1>f DEF Continue
<1> QED
  BY <1>1, <1>2, <1>3, <1>4, <1>5, <1>6, <1>7, <1>8, <1>9, <1>10, <1>11, <1>12, <1>13, Zenon DEF SetupNext

-----------------------------------------------------------------------------
(* The document.                                                           *)

\* What a step of the upgrade wizard leaves of the appliance.
UpgradeLeaves ==
  /\ UNCHANGED <<serving, setup, licence, edition>>
  /\ page' # page => page = "/upgrade" /\ page' = "/login"

\* Only the page that finds the schema current moves the document.
LEMMA UpgradeNextLeaves ==
  ASSUME UpgradeNext
  PROVE  UpgradeLeaves
<1>a. UNCHANGED appliance => UpgradeLeaves
  BY DEF appliance, machine, tab, UpgradeLeaves
<1>1 CASE OpenWizard
  <2>1 CASE UNCHANGED appliance
    BY <1>a, <2>1
  <2>2 CASE page' = "/login" /\ UNCHANGED <<machine, edition>>
    BY <1>1, <2>2 DEF OpenWizard, machine, UpgradeLeaves
  <2> QED
    BY <1>1, <2>1, <2>2 DEF OpenWizard
<1>2. ASSUME NEW w \in Writes, ServeWrite(w) PROVE UpgradeLeaves
  BY <1>2 DEF ServeWrite, tab, UpgradeLeaves
<1>3 CASE ServeLate
  BY <1>3 DEF ServeLate, tab, UpgradeLeaves
<1>4. ASSUME NEW a, ServeStatus(a) \/ GotStatus(a) \/ GotRelist(a) PROVE UpgradeLeaves
  BY <1>a, <1>4 DEF ServeStatus, GotStatus, GotRelist
<1>5 CASE GotProbe \/ GotPreflight \/ GotCreate \/ GotPrune \/ GotApply
  BY <1>a, <1>5 DEF GotProbe, GotPreflight, GotCreate, GotPrune, GotApply
<1>6 CASE RefreshStatus \/ ToggleConfirm \/ CreateBackup \/ RequestPrune \/ ConfirmPrune \/ Apply
  BY <1>a, <1>6 DEF RefreshStatus, ToggleConfirm, CreateBackup, RequestPrune, ConfirmPrune, Apply
<1> QED
  BY <1>1, <1>2, <1>3, <1>4, <1>5, <1>6, Zenon DEF UpgradeNext

\* Away from the document's own steps, the appliance keeps its types.
LEMMA ApplianceMoves ==
  ASSUME ApplianceTypeOK,
         serving' \in {"oss", "upgrade", "ce"}, schema' \in {schema, "ce"},
         setup' \in {setup, "complete"}, licence' \in {licence, "valid"},
         edition' \in {edition, "reading", "oss", "ce", "unknown"}, page' \in {page} \cup Pages
  PROVE  ApplianceTypeOK'
BY DEF ApplianceTypeOK

\* What the ladder does to the appliance: it moves the document.
LEMMA LadderNextIs ==
  ASSUME LadderNext
  PROVE  /\ UNCHANGED <<machine, edition>> /\ page' \in {page} \cup Pages
         /\ LadderTypeOK'
<1>1. ASSUME NEW probe \in Probes, Climb(probe)
      PROVE  UNCHANGED <<machine, edition>> /\ page' = page /\ LadderTypeOK'
  BY <1>1 DEF Climb, appliance, tab, LadderTypeOK
<1>2. ASSUME NEW address \in Pages, Land(address)
      PROVE  UNCHANGED <<machine, edition>> /\ page' \in Pages /\ LadderTypeOK'
  BY <1>2 DEF Land, LadderTypeOK
<1>3. {"setup", "upgrade", "session"} \subseteq Probes
      /\ {"/unavailable", "/upgrade", "/setup", "/login", "home"} \subseteq Pages
  BY DEF Probes, Pages
<1>4 CASE AskComponent
  BY <1>1, <1>2, <1>3, <1>4 DEF AskComponent
<1>5 CASE AskUpgrade
  <2>1. PICK address \in {"/upgrade", "/unavailable"} : Land(address)
    BY <1>5 DEF AskUpgrade
  <2> QED
    BY <1>2, <1>3, <2>1
<1>6 CASE AskSetup
  BY <1>1, <1>2, <1>3, <1>6 DEF AskSetup
<1>7 CASE AskSession
  BY <1>2, <1>3, <1>7 DEF AskSession
<1> QED
  BY <1>4, <1>5, <1>6, <1>7 DEF LadderNext

\* The wizards are closed.
LEMMA LeaveUpgradeKeeps ==
  ASSUME UpgradeInv, Keeps, LeaveUpgrade
  PROVE  UpgradeInv'
<1>1. StoreTyped /\ asked \in [Asks -> Requests]
  BY UpgradeTyped
<1>2. PICK sent : sent = {<<w, asked[w].file>> : w \in {v \in Writes : asked[v].at = "out"}}
  OBVIOUS
<1>3. sent \subseteq (Writes \X (Files \cup {NoFile}))
  <2>1. ASSUME NEW w \in Writes PROVE <<w, asked[w].file>> \in Writes \X (Files \cup {NoFile})
    <3>1. asked[w] \in Requests
      BY <1>1 DEF Asks, Handlers
    <3>2. asked[w].file \in Files \cup {NoFile}
      BY <3>1 DEF Requests
    <3> QED
      BY <3>2
  <2> QED
    BY <1>2, <2>1
<1>4. /\ late' \in {late, sent} /\ UNCHANGED <<stored, made>>
      /\ view' = FALSE /\ status' = "none" /\ confirmed' = FALSE /\ preflight' = "none"
      /\ applied' = FALSE /\ backup' = FALSE /\ listed' = {} /\ pending' = NoFile
      /\ asked' = NothingAsked
  BY <1>2, Zenon DEF LeaveUpgrade
<1>5. asked' \in [Asks -> Requests] /\ (\A a \in Asks : asked'[a].at # "back")
  BY <1>4, RequestsAre DEF NothingAsked
<1>6. StoreTyped'
  BY <1>1, <1>3, <1>4 DEF StoreTyped
<1>7. ScreenTyped'
  BY <1>4 DEF ScreenTyped
<1>8. ToldComplete' /\ FreshRun'
  BY <1>4 DEF ToldComplete, FreshRun, Watches
<1> QED
  BY <1>5, <1>6, <1>7, <1>8, UpgradeMoves

\* The setup wizard goes, with or without a completion left to carry out.
LEMMA LeaveSetupKeeps ==
  ASSUME SetupInv, LicenceKept, LeaveSetup
  PROVE  SetupInv'
<1>1. InstalledTyped'
  BY SetupTyped DEF SetupInv, LeaveSetup, InstalledTyped
<1> QED
  BY <1>1, UnmountIs DEF LeaveSetup

\* The invariant holds at first.
LEMMA FirstRunStarts ==
  ASSUME Init
  PROVE  FirstRunInv
<1>1. ApplianceTypeOK
  BY DEF Init, ApplianceInit, ApplianceTypeOK, Pages
<1>2. LadderTypeOK
  BY DEF Init, LadderInit, LadderTypeOK, Probes
<1>3. UpgradeInv
  <2>1. /\ stored = {} /\ made = 0 /\ late = {} /\ view = FALSE /\ status = "none" /\ confirmed = FALSE
        /\ preflight = "none" /\ applied = FALSE /\ backup = FALSE /\ listed = {} /\ pending = NoFile
        /\ asked = NothingAsked
    BY DEF Init, UpgradeInit
  <2>2. asked \in [Asks -> Requests] /\ (\A a \in Asks : asked[a].at # "back")
    BY <2>1, RequestsAre DEF NothingAsked
  <2>3. \A a \in Asks : Told(a, asked[a])
    BY <2>2 DEF Told
  <2>4. ToldComplete /\ FreshRun
    BY <2>1 DEF ToldComplete, FreshRun, Watches
  <2>5. UpgradeTypeOK
    <3>1. made \in 0..MaxBackups
      BY <2>1, UpgradeAssumption
    <3>2. StoreTyped /\ ScreenTyped
      BY <2>1, <3>1, Zenon DEF StoreTyped, ScreenTyped
    <3> QED
      BY <2>2, <3>2 DEF UpgradeTypeOK, StoreTyped, ScreenTyped
  <2> QED
    BY <2>3, <2>4, <2>5 DEF UpgradeInv
<1>4. SetupTypeOK /\ LicenceFirst
  BY CallsAre DEF Init, SetupInit, SetupTypeOK, LicenceFirst
<1> QED
  BY <1>1, <1>2, <1>3, <1>4 DEF FirstRunInv

\* Every step keeps the invariant.
LEMMA FirstRunKeeps ==
  ASSUME FirstRunInv, [Next]_vars
  PROVE  FirstRunInv'
<1>a. ApplianceTypeOK /\ LadderTypeOK /\ UpgradeInv /\ SetupInv
  BY DEF FirstRunInv, SetupInv
<1>b. ASSUME ApplianceTypeOK', LadderTypeOK', UpgradeInv', SetupInv'
      PROVE  FirstRunInv'
  BY <1>b DEF FirstRunInv, SetupInv
<1>c. UNCHANGED ladder => LadderTypeOK'
  BY <1>a DEF LadderTypeOK
<1>d. UNCHANGED machine => /\ Keeps /\ LicenceKept
                           /\ UNCHANGED <<serving, schema, setup, licence>>
  BY DEF machine, Keeps, LicenceKept
<1>e. serving \in {"oss", "upgrade", "ce"}
  BY <1>a DEF ApplianceTypeOK
<1>1 CASE Climbs
  <2>1. UNCHANGED <<machine, edition>> /\ page' \in {page} \cup Pages /\ LadderTypeOK'
    BY <1>1, LadderNextIs DEF Climbs
  <2>2. UNCHANGED <<upgrade, setupWizard>>
    BY <1>1 DEF Climbs
  <2> QED
    BY <1>a, <1>b, <1>d, <1>e, <2>1, <2>2, ApplianceMoves, UpgradeStays, SetupStays
<1>2 CASE LoadsEdition
  <2>1. UNCHANGED <<machine, page, ladder, upgrade, setupWizard>> /\ edition' \in {"unknown", "oss", "ce"}
    BY <1>2 DEF LoadsEdition, ReadEdition
  <2> QED
    BY <1>a, <1>b, <1>c, <1>d, <1>e, <2>1, ApplianceMoves, UpgradeStays, SetupStays
<1>3 CASE UpgradeNext /\ UNCHANGED <<ladder, setupWizard>>
  <2>1. UpgradeInv' /\ schema' \in {schema, "ce"}
    BY <1>3, <1>a, UpgradeNextKeeps
  <2>2. UNCHANGED <<serving, setup, licence, edition>> /\ page' \in {page} \cup Pages
    BY <1>3, UpgradeNextLeaves DEF UpgradeLeaves, Pages
  <2>3. LicenceKept
    BY <2>2 DEF LicenceKept
  <2> QED
    BY <1>3, <1>a, <1>b, <1>c, <1>e, <2>1, <2>2, <2>3, ApplianceMoves, SetupStays
<1>4 CASE SetupNext /\ UNCHANGED <<ladder, upgrade>>
  <2>1. SetupInv' /\ SetupLeaves
    BY <1>4, <1>a, SetupNextKeeps
  <2>2. ApplianceTypeOK'
    BY <1>a, <2>1 DEF SetupLeaves, ApplianceTypeOK, Pages
  <2>3. Keeps
    BY <2>1 DEF SetupLeaves, Keeps
  <2> QED
    BY <1>4, <1>a, <1>b, <1>c, <2>1, <2>2, <2>3, UpgradeStays
<1>5 CASE SetupElsewhere /\ UNCHANGED <<ladder, upgrade, setupWizard>>
  <2>1. UNCHANGED <<serving, schema, licence, edition, page>> /\ setup' = "complete"
    BY <1>5 DEF SetupElsewhere, tab
  <2>2. Keeps /\ LicenceKept
    BY <2>1 DEF Keeps, LicenceKept
  <2> QED
    BY <1>5, <1>a, <1>b, <1>c, <1>e, <2>1, <2>2, ApplianceMoves, UpgradeStays, SetupStays
<1>6 CASE Restart
  <2>1. UNCHANGED <<schema, setup, licence, edition, page>> /\ serving' \in {"upgrade", "ce"}
    BY <1>6 DEF Restart, Restarts, SwapBinary, RestartService, tab
  <2>2. Keeps /\ LicenceKept
    BY <2>1 DEF Keeps, LicenceKept
  <2>3. late' = {} /\ afloat' = FALSE /\ UNCHANGED <<ladder, stored, made, wizard, enrolment, panel, call>>
    BY <1>6 DEF Restart
  <2>4. UpgradeInv'
    <3>1. StoreTyped /\ ScreenTyped /\ asked \in [Asks -> Requests] /\ ToldComplete /\ FreshRun
      BY <1>a, UpgradeTyped
    <3>2. StoreTyped' /\ ScreenTyped' /\ asked' = asked
      BY <2>3, <3>1 DEF StoreTyped, ScreenTyped, wizard, backups
    <3>3. ToldComplete' /\ FreshRun'
      BY <2>2, <2>3, <3>1, FreshStays, CompleteStays DEF wizard
    <3> QED
      BY <1>a, <2>2, <3>1, <3>2, <3>3, UpgradeMoves
  <2>5. SetupInv'
    <3>1. PanelTyped /\ InstalledTyped /\ call \in Calls /\ LicenceFirst
      BY <1>a, SetupTyped DEF SetupInv
    <3>2. PanelTyped' /\ InstalledTyped' /\ LicenceFirst'
      BY <2>1, <2>3, <3>1 DEF PanelTyped, InstalledTyped, LicenceFirst, panel
    <3> QED
      BY <2>3, <3>1, <3>2, SetupMoves
  <2> QED
    BY <1>a, <1>b, <1>c, <2>1, <2>3, <2>4, <2>5, ApplianceMoves
<1>7. ASSUME NEW address \in {"/", "/upgrade", "/setup"}, Load(address)
      PROVE  FirstRunInv'
  <2>1. /\ UNCHANGED machine /\ edition' = "reading" /\ page' = address
        /\ LadderAt(address) /\ LeaveUpgrade /\ LeaveSetup
    BY <1>7 DEF Load
  <2>2. LadderTypeOK' /\ address \in Pages
    BY <2>1 DEF LadderAt, LadderTypeOK, Probes, Pages
  <2> QED
    BY <1>a, <1>b, <1>d, <1>e, <2>1, <2>2, ApplianceMoves, LeaveUpgradeKeeps, LeaveSetupKeeps
<1>8 CASE UNCHANGED vars
  <2>1. UNCHANGED <<machine, edition, page, ladder, upgrade, setupWizard>>
    BY <1>8 DEF vars, appliance, tab
  <2> QED
    BY <1>a, <1>b, <1>c, <1>d, <1>e, <2>1, ApplianceMoves, UpgradeStays, SetupStays
<1> QED
  BY <1>1, <1>2, <1>3, <1>4, <1>5, <1>6, <1>7, <1>8, Zenon DEF Next

\* The inductive invariant.
LEMMA FirstRunHolds == Spec => []FirstRunInv
<1>1. Init => FirstRunInv
  BY FirstRunStarts
<1>2. FirstRunInv /\ [Next]_vars => FirstRunInv'
  BY FirstRunKeeps
<1> QED
  BY <1>1, <1>2, PTL DEF Spec
-----------------------------------------------------------------------------
(* The theorems.                                                           *)

\* The document, its wizards and the machine keep to the values the code
\* gives them (session.ts, upgrade-wizard.tsx, setup-wizard.tsx).
THEOREM FirstRunTypesHold == Spec => []TypeOK
<1>1. FirstRunInv => TypeOK
  BY DEF FirstRunInv, UpgradeInv, TypeOK
<1> QED
  BY <1>1, FirstRunHolds, PTL

\* However the answers of the preflight runs cross the box, the preview on
\* screen is for the box as it is (upgrade-wizard.tsx, the preflight effect).
THEOREM FreshPreviewHolds == Spec => []FreshPreview
<1>1. FirstRunInv => FreshPreview
  BY DEF FirstRunInv, UpgradeInv, FreshRun, FreshPreview, ShowApplyForm, Watches
<1> QED
  BY <1>1, FirstRunHolds, PTL

\* The wizard says complete only over an upgraded schema, whatever answers are
\* lost, old or out of order (upgrade-wizard.tsx handleApply(), showCompleted).
THEOREM CompletedIsRealHolds == Spec => []CompletedIsReal
<1>1. FirstRunInv => CompletedIsReal
  BY DEF FirstRunInv, UpgradeInv, ToldComplete, CompletedIsReal, ShowCompleted
<1> QED
  BY <1>1, FirstRunHolds, PTL

\* No failing probe of the ladder at / offers a wizard the machine does not
\* need, and no other part of the document takes it there (export/src/
\* session.ts rootDestination(), discoverPlatform()).
THEOREM OffersWhatIsNeededHolds == Spec => OffersWhatIsNeeded
<1> DEFINE Offered == page = "/" => /\ page' = "/setup" => Mounted /\ setup = "required"
                                    /\ page' = "/upgrade" => ~Mounted /\ schema # "ce"
<1>1. ASSUME page' \notin {"/setup", "/upgrade"} PROVE Offered
  BY <1>1
<1>2. ASSUME page' = page PROVE Offered
  BY <1>2
<1>3. ASSUME FirstRunInv, [Next]_vars PROVE Offered
  <2>1 CASE Climbs
    <3>1. ASSUME NEW probe, Climb(probe) PROVE Offered
      BY <1>2, <3>1 DEF Climb, appliance, tab
    <3>2. ASSUME NEW address \in {"/unavailable", "home", "/login"}, Land(address) PROVE Offered
      BY <1>1, <3>2 DEF Land
    <3>3 CASE AskComponent
      BY <3>1, <3>2, <3>3 DEF AskComponent
    <3>4 CASE AskUpgrade
      <4>1. PICK state \in {CeOnly(UpgradeState), "failed"} :
              Land(IF state \in NeedsWizard THEN "/upgrade" ELSE "/unavailable")
        BY <3>4 DEF AskUpgrade
      <4>2 CASE state \in NeedsWizard
        <5>1. serving = "upgrade" /\ schema # "ce"
          <6>1. UpgradeState \in NeedsWizard
            BY <4>2 DEF CeOnly, NeedsWizard
          <6>2. ApplianceTypeOK
            BY <1>3 DEF FirstRunInv
          <6> QED
            BY <6>1, <6>2 DEF ApplianceTypeOK, UpgradeState, NeedsWizard
        <5>2. page' = "/upgrade"
          BY <4>1, <4>2 DEF Land
        <5> QED
          BY <5>1, <5>2 DEF Mounted
      <4>3 CASE state \notin NeedsWizard
        BY <3>2, <4>1, <4>3
      <4> QED
        BY <4>2, <4>3
    <3>5 CASE AskSetup
      <4>1 CASE Mounted /\ setup = "required" /\ Land("/setup")
        BY <4>1 DEF Land
      <4> QED
        BY <3>1, <3>2, <3>5, <4>1 DEF AskSetup
    <3>6 CASE AskSession
      BY <3>2, <3>6 DEF AskSession
    <3> QED
      BY <2>1, <3>3, <3>4, <3>5, <3>6 DEF Climbs, LadderNext
  <2>2 CASE LoadsEdition
    BY <1>2, <2>2 DEF LoadsEdition, ReadEdition
  <2>3 CASE UpgradeNext
    BY <2>3, UpgradeNextLeaves DEF UpgradeLeaves
  <2>4 CASE SetupNext
    <3>1. SetupLeaves
      BY <1>3, <2>4, SetupNextKeeps DEF FirstRunInv, SetupInv
    <3> QED
      BY <3>1 DEF SetupLeaves
  <2>5 CASE SetupElsewhere
    BY <1>2, <2>5 DEF SetupElsewhere, tab
  <2>6 CASE Restart
    BY <1>2, <2>6 DEF Restart, Restarts, SwapBinary, RestartService, tab
  <2>7. ASSUME NEW address, Load(address) PROVE Offered
    BY <2>7 DEF Load
  <2>8 CASE UNCHANGED vars
    BY <1>2, <2>8 DEF vars, appliance, tab
  <2> QED
    BY <1>3, <2>1, <2>2, <2>3, <2>4, <2>5, <2>6, <2>7, <2>8, Zenon DEF Next
<1> QED
  <2>1. FirstRunInv /\ [Next]_vars => [Offered]_appliance
    BY <1>3
  <2> QED
    BY <2>1, FirstRunHolds, PTL DEF Spec, OffersWhatIsNeeded

\* A CE machine is set up only once its licence is valid: the enrolment the
\* completion needs was begun from a form that was open only then, and no
\* restart takes a licence back (setup-wizard.tsx licenseAccepted,
\* handleComplete(), handleVerifyAndFinishMFA()).
THEOREM CeSetUpLicensedHolds == Spec => CeSetUpLicensed
<1> DEFINE Licensed == setup' # setup /\ serving = "ce" => licence = "valid"
<1>1. ASSUME UNCHANGED setup PROVE Licensed
  BY <1>1
<1>2. ASSUME FirstRunInv, [Next]_vars PROVE Licensed
  <2>1 CASE Climbs
    BY <1>1, <2>1, LadderNextIs DEF Climbs, machine
  <2>2 CASE LoadsEdition
    BY <1>1, <2>2 DEF LoadsEdition, ReadEdition, machine
  <2>3 CASE UpgradeNext
    BY <1>1, <2>3, UpgradeNextLeaves DEF UpgradeLeaves
  <2>4 CASE SetupNext
    <3>1. SetupTypeOK /\ LicenceFirst
      BY <1>2 DEF FirstRunInv
    <3>2. Completes => Licensed
      BY <3>1 DEF Completes, LicenceFirst
    <3>3. ASSUME NEW c, Accepts(c) PROVE Licensed
      BY <1>1, <3>2, <3>3 DEF Accepts
    <3>4 CASE ServeSetup
      BY <1>1, <3>3, <3>4 DEF ServeSetup, Refuses, Loses
    <3>5 CASE ServeAfloat
      BY <1>1, <3>2, <3>5 DEF ServeAfloat, Loses
    <3>6. GoToLogin => Licensed
      BY <1>1 DEF GoToLogin, machine
    <3>7. ASSUME UNCHANGED appliance PROVE Licensed
      BY <1>1, <3>7 DEF appliance, machine
    <3>8 CASE OpenSetup
      BY <1>1, <3>8 DEF OpenSetup, machine
    <3>9 CASE VerifyCode \/ GotVerify \/ UploadLicence \/ GotUpload \/ Continue
      BY <3>6, <3>7, <3>9 DEF VerifyCode, GotVerify, UploadLicence, GotUpload, Continue
    <3>10 CASE Complete \/ GotInitiate \/ VerifyAndFinish \/ GotMfa \/ GotComplete
      BY <3>6, <3>7, <3>10 DEF Complete, GotInitiate, VerifyAndFinish, GotMfa, GotComplete
    <3> QED
      BY <2>4, <3>4, <3>5, <3>8, <3>9, <3>10, Zenon DEF SetupNext
  <2>5 CASE SetupElsewhere
    BY <2>5 DEF SetupElsewhere
  <2>6 CASE Restart
    BY <1>1, <2>6 DEF Restart, Restarts, SwapBinary, RestartService
  <2>7. ASSUME NEW address, Load(address) PROVE Licensed
    BY <1>1, <2>7 DEF Load, machine
  <2>8 CASE UNCHANGED vars
    BY <1>1, <2>8 DEF vars, appliance, machine
  <2> QED
    BY <1>2, <2>1, <2>2, <2>3, <2>4, <2>5, <2>6, <2>7, <2>8, Zenon DEF Next
<1> QED
  <2>1. FirstRunInv /\ [Next]_vars => [Licensed]_<<machine, setupWizard>>
    BY <1>2
  <2> QED
    BY <2>1, FirstRunHolds, PTL DEF Spec, CeSetUpLicensed
=============================================================================
