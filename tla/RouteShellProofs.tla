-------------------------- MODULE RouteShellProofs ---------------------------
(***************************************************************************)
(* What holds of the router, the shared verdict and the builds for any     *)
(* addresses, any verdicts and any number of navigations.                  *)
(*                                                                         *)
(* ShellInv is the inductive invariant.  The properties speak of the build *)
(* on screen and of a verdict in use; the invariant speaks of every build  *)
(* that was ever started: what it waits for was begun no earlier than the  *)
(* build itself (Sound), which needs that the memo is of the generation it *)
(* says (MemoKnows); it is past its layout only with a verdict that admits *)
(* the user; and it is cancelled unless it is the last (OneIsCurrent), so  *)
(* that one that settles late has nothing to put on the screen.            *)
(***************************************************************************)
EXTENDS RouteShell, TLAPS

\* What a build waits for was begun no earlier than the build, and a guarded
\* build that is past its layout was let in.
Sound(x) ==
  /\ x.layout \in 0..Len(validations) /\ x.page \in 0..Len(validations)
  /\ x.began <= generation
  /\ x.layout > 0 => validations[x.layout].began >= x.began
  /\ x.page > 0 => validations[x.page].began >= x.began
  /\ x.key \in Areas => x.layout > 0
  /\ x.key \in Areas /\ x.stage \notin {"layout", "redirected"} =>
       VerdictOf(x.layout) \in Admitted(x.key)

\* The memo is of the generation it says, which is not to come.
MemoKnows ==
  /\ memo.generation <= generation
  /\ memo.validation > 0 => validations[memo.validation].began = memo.generation

\* Every build but the last is cancelled, and what is shown has settled.
OneIsCurrent == \A b \in 1..Len(builds) : b < Len(builds) => builds[b].cancelled
ShownIsSettled == view > 0 => builds[view].stage \in {"done", "failed"}

ShellInv ==
  /\ TypeOK /\ MemoKnows
  /\ \A b \in 1..Len(builds) : Sound(builds[b])
  /\ OneIsCurrent /\ ShownIsSettled

-----------------------------------------------------------------------------
(* What the operators do.                                                  *)

Validation == [began : Nat, verdict : Verdicts \cup {"pending"}]
Settled == {"done", "failed"}

\* The type invariant, in the pieces the steps change.
PlaceTyped ==
  /\ path \in Paths
  /\ revalidation \in Nat /\ generation \in Nat /\ moves \in 0..MaxMoves
  /\ committed = <<>> \/ committed \in Paths \X Nat
SharedTyped ==
  /\ memo \in [generation : Nat, validation : 0..Len(validations)]
  /\ validations \in Seq(Validation)

\* The type invariant is its pieces.
LEMMA Typed ==
  TypeOK <=> PlaceTyped /\ SharedTyped /\ builds \in Seq(Build) /\ view \in 0..Len(builds)
BY DEF TypeOK, PlaceTyped, SharedTyped, Validation

\* And after a step.
LEMMA TypedNext ==
  ASSUME PlaceTyped', SharedTyped', builds' \in Seq(Build), view' \in 0..Len(builds')
  PROVE  TypeOK'
BY DEF TypeOK, PlaceTyped, SharedTyped, Validation

\* One element of a sequence changes.
LEMMA OneChanges ==
  ASSUME NEW S, NEW s \in Seq(S), NEW i \in 1..Len(s), NEW x \in S, NEW t, t = [s EXCEPT ![i] = x]
  PROVE  /\ t \in Seq(S) /\ Len(t) = Len(s) /\ t[i] = x
         /\ \A j \in 1..Len(s) : j # i => t[j] = s[j]
OBVIOUS

\* Every element of a sequence is replaced.
LEMMA AllChange ==
  ASSUME NEW S, NEW s \in Seq(S), NEW t, DOMAIN t = DOMAIN s,
         t = [i \in DOMAIN s |-> t[i]], \A i \in DOMAIN s : t[i] \in S
  PROVE  t \in Seq(S) /\ Len(t) = Len(s)
<1>1. DOMAIN s = 1..Len(s) /\ Len(s) \in Nat
  OBVIOUS
<1>2. t \in [1..Len(s) -> S]
  BY <1>1
<1> QED
  BY <1>1, <1>2

\* One is added.
LEMMA OneMore ==
  ASSUME NEW S, NEW s \in Seq(S), NEW x \in S, NEW t, t = Append(s, x)
  PROVE  /\ t \in Seq(S) /\ Len(t) = Len(s) + 1 /\ t[Len(s) + 1] = x
         /\ \A j \in 1..Len(s) : t[j] = s[j]
OBVIOUS

\* The validations grow, and an answer is final; generations only pass.
Grows ==
  /\ Len(validations) <= Len(validations') /\ generation <= generation'
  /\ \A v \in 1..Len(validations) :
       /\ validations'[v].began = validations[v].began
       /\ validations[v].verdict # "pending" => validations'[v].verdict = validations[v].verdict

\* A build that did not move stays sound.
LEMMA StaysSound ==
  ASSUME NEW x, Sound(x), Grows, SharedTyped, SharedTyped', PlaceTyped, PlaceTyped', x.began \in Nat
  PROVE  Sound(x)'
<1>1. /\ Len(validations) \in Nat /\ Len(validations') \in Nat /\ Len(validations) <= Len(validations')
      /\ generation \in Nat /\ generation' \in Nat /\ generation <= generation'
  BY DEF SharedTyped, PlaceTyped, Grows
<1>2. /\ x.layout \in 0..Len(validations') /\ x.page \in 0..Len(validations')
      /\ x.began <= generation'
  BY <1>1 DEF Sound
<1>3. /\ x.layout > 0 => validations'[x.layout].began >= x.began
      /\ x.page > 0 => validations'[x.page].began >= x.began
  <2>1. /\ x.layout > 0 => x.layout \in 1..Len(validations)
        /\ x.page > 0 => x.page \in 1..Len(validations)
    BY <1>1 DEF Sound
  <2> QED
    BY <2>1 DEF Grows, Sound
<1>4. x.key \in Areas /\ x.stage \notin {"layout", "redirected"} =>
        VerdictOf(x.layout)' \in Admitted(x.key)
  <2> SUFFICES ASSUME x.key \in Areas, x.stage \notin {"layout", "redirected"}
               PROVE  VerdictOf(x.layout)' \in Admitted(x.key)
    OBVIOUS
  <2>1. x.layout \in 1..Len(validations) /\ VerdictOf(x.layout) \in Admitted(x.key)
    BY <1>1 DEF Sound
  <2>2. "pending" \notin Admitted(x.key)
    BY DEF Admitted, Areas
  <2>3. validations[x.layout].verdict \in Admitted(x.key)
    BY <1>1, <2>1 DEF VerdictOf
  <2>4. validations'[x.layout].verdict \in Admitted(x.key) /\ x.layout # 0
    BY <1>1, <2>1, <2>2, <2>3 DEF Grows
  <2> QED
    BY <2>4 DEF VerdictOf
<1>5. x.key \in Areas => x.layout > 0
  BY DEF Sound
<1> QED
  BY <1>2, <1>3, <1>4, <1>5, Zenon DEF Sound

\* The builds when none of them changes.
LEMMA BuildsStay ==
  ASSUME ShellInv, Grows, PlaceTyped', SharedTyped', MemoKnows', UNCHANGED <<builds, view>>
  PROVE  ShellInv'
<1>1. PlaceTyped /\ SharedTyped /\ builds \in Seq(Build) /\ view \in 0..Len(builds)
  BY Typed DEF ShellInv
<1>2. ASSUME NEW b \in 1..Len(builds) PROVE Sound(builds[b])'
  <2>1. PICK x : x = builds[b]
    OBVIOUS
  <2>2. x \in Build /\ Sound(x)
    BY <1>1, <2>1 DEF ShellInv
  <2>3. x.began \in Nat
    BY <2>2 DEF Build
  <2>4. Sound(x)'
    BY <1>1, <2>2, <2>3, StaysSound
  <2> QED
    BY <2>1, <2>4 DEF Sound
<1>3. TypeOK' /\ OneIsCurrent' /\ ShownIsSettled'
  BY <1>1, TypedNext DEF ShellInv, OneIsCurrent, ShownIsSettled
<1> QED
  BY <1>2, <1>3 DEF ShellInv

\* The builds when one of them goes on.
LEMMA OneBuildGoesOn ==
  ASSUME ShellInv, Grows, PlaceTyped', SharedTyped', MemoKnows',
         NEW b \in 1..Len(builds), NEW r \in Build, builds' = [builds EXCEPT ![b] = r],
         Sound(r)', r.cancelled = builds[b].cancelled, builds[b].stage \notin Settled,
         view' = view \/ (view' = b /\ r.stage \in Settled)
  PROVE  ShellInv'
<1>1. PlaceTyped /\ SharedTyped /\ builds \in Seq(Build) /\ view \in 0..Len(builds)
  BY Typed DEF ShellInv
<1>2. /\ builds' \in Seq(Build) /\ Len(builds') = Len(builds) /\ builds'[b] = r
      /\ \A c \in 1..Len(builds) : c # b => builds'[c] = builds[c]
  BY <1>1, OneChanges
<1>3. ASSUME NEW c \in 1..Len(builds) PROVE Sound(builds[c])'
  <2>1 CASE c = b
    <3>1. builds'[c] = r
      BY <1>2, <2>1
    <3> QED
      BY <3>1 DEF Sound
  <2>2 CASE c # b
    <3>1. PICK x : x = builds[c]
      OBVIOUS
    <3>2. x \in Build /\ Sound(x) /\ builds'[c] = x
      BY <1>1, <1>2, <2>2, <3>1 DEF ShellInv
    <3>3. x.began \in Nat
      BY <3>2 DEF Build
    <3>4. Sound(x)'
      BY <1>1, <3>2, <3>3, StaysSound
    <3> QED
      BY <3>2, <3>4 DEF Sound
  <2> QED
    BY <2>1, <2>2
<1>4. OneIsCurrent'
  BY <1>2 DEF ShellInv, OneIsCurrent
<1>5. view' \in 0..Len(builds') /\ ShownIsSettled'
  BY <1>1, <1>2 DEF ShellInv, ShownIsSettled, Settled
<1> QED
  BY <1>2, <1>3, <1>4, <1>5, TypedNext DEF ShellInv

\* Joining or starting a validation gives one of this generation.
LEMMA AskSessionIs ==
  ASSUME PlaceTyped, SharedTyped, MemoKnows, AskSession, UNCHANGED generation,
         NEW n, n = SharedValidation
  PROVE  /\ SharedTyped' /\ MemoKnows' /\ Grows
         /\ n \in 1..Len(validations') /\ validations'[n].began = generation
<1>1. /\ generation \in Nat /\ validations \in Seq(Validation) /\ Len(validations) \in Nat
      /\ memo \in [generation : Nat, validation : 0..Len(validations)]
  BY DEF PlaceTyped, SharedTyped
<1>2 CASE MemoIsCurrent
  <2>1. UNCHANGED <<memo, validations>> /\ n = memo.validation /\ n > 0 /\ memo.generation = generation
    BY <1>2 DEF AskSession, SharedValidation, MemoIsCurrent
  <2>2. n \in 1..Len(validations) /\ validations[n].began = generation
    BY <1>1, <2>1 DEF MemoKnows
  <2>3. SharedTyped' /\ MemoKnows' /\ Grows
    BY <1>1, <2>1 DEF SharedTyped, MemoKnows, Grows
  <2> QED
    BY <2>1, <2>2, <2>3
<1>3 CASE ~MemoIsCurrent
  <2>1. PICK x : x = [began |-> generation, verdict |-> "pending"]
    OBVIOUS
  <2>2. x \in Validation /\ x.began = generation
    BY <1>1, <2>1 DEF Validation
  <2>3. /\ validations' = Append(validations, x) /\ n = Len(validations) + 1
        /\ memo' = [generation |-> generation, validation |-> n]
    BY <1>3, <2>1 DEF AskSession, SharedValidation
  <2>4. /\ validations' \in Seq(Validation) /\ Len(validations') = n /\ validations'[n] = x
        /\ \A j \in 1..Len(validations) : validations'[j] = validations[j]
    BY <1>1, <2>2, <2>3, OneMore
  <2>5. n \in Nat /\ n > 0
    BY <1>1, <2>3
  <2>6. SharedTyped' /\ MemoKnows'
    <3>1. memo'.generation = generation /\ memo'.validation = n
      BY <2>3
    <3>2. memo' \in [generation : Nat, validation : 0..Len(validations')]
      BY <1>1, <2>3, <2>4, <2>5
    <3> QED
      BY <1>1, <2>2, <2>4, <3>1, <3>2 DEF SharedTyped, MemoKnows
  <2>7. Grows
    BY <1>1, <2>3, <2>4 DEF Grows
  <2> QED
    BY <2>2, <2>4, <2>5, <2>6, <2>7
<1> QED
  BY <1>2, <1>3

-----------------------------------------------------------------------------
(* The steps.                                                              *)

\* Where the guard sends a load, and whom it lets in.
LEMMA GuardIs ==
  ASSUME NEW area, NEW verdict \in Verdicts, NEW to, to = Guard(area, verdict)
  PROVE  /\ to \in Paths \cup {"render"}
         /\ to = "render" /\ area \in Areas => verdict \in Admitted(area)
         /\ to = "login" => verdict = "no_credential"
         /\ to = "login_expired" => verdict = "expired"
<1>1 CASE verdict = "unavailable"
  BY <1>1 DEF Guard, Paths, Admitted, Signed
<1>2 CASE verdict = "no_credential"
  BY <1>2 DEF Guard, Paths, Public, Signed
<1>3 CASE verdict = "expired"
  BY <1>3 DEF Guard, Paths, Public, Signed
<1>4 CASE verdict \in Signed
  <2>1 CASE area = "site"
    BY <1>4, <2>1 DEF Guard, Paths, Areas, Signed
  <2>2 CASE area = "org" /\ verdict = "needs_mfa"
    BY <1>4, <2>2 DEF Guard, Paths, Areas, Signed
  <2>3 CASE area # "site" /\ ~(area = "org" /\ verdict = "needs_mfa")
    <3>1. to = "render"
      BY <1>4, <2>3 DEF Guard, Signed
    <3>2. area \in Areas => verdict \in Admitted(area)
      BY <1>4, <2>3 DEF Areas, Admitted, Signed
    <3> QED
      BY <3>1, <3>2
  <2> QED
    BY <2>1, <2>2, <2>3
<1> QED
  BY <1>1, <1>2, <1>3, <1>4 DEF Verdicts, Signed

\* A build whose answer is there waits for a validation.
LEMMA AnsweredIs ==
  ASSUME SharedTyped, NEW v \in 0..Len(validations), VerdictOf(v) # "pending"
  PROVE  v \in 1..Len(validations) /\ VerdictOf(v) = validations[v].verdict /\ VerdictOf(v) \in Verdicts
<1>1. v # 0 /\ VerdictOf(v) = validations[v].verdict /\ Len(validations) \in Nat
  BY DEF VerdictOf, SharedTyped
<1>2. v \in 1..Len(validations)
  BY <1>1
<1>3. validations[v] \in Validation
  BY <1>2 DEF SharedTyped
<1> QED
  BY <1>1, <1>2, <1>3 DEF Validation

\* A build goes on to another stage.
LEMMA StageChanges ==
  ASSUME ShellInv, Grows, PlaceTyped', SharedTyped', MemoKnows',
         NEW b \in 1..Len(builds), NEW s \in Stages, builds' = [builds EXCEPT ![b].stage = s],
         builds[b].stage \notin Settled \cup {"redirected"},
         view' = view \/ (view' = b /\ s \in Settled),
         \/ s = "redirected"
         \/ s # "layout" /\ builds[b].stage # "layout"
         \/ builds[b].key \in Areas => VerdictOf(builds[b].layout) \in Admitted(builds[b].key)
  PROVE  ShellInv'
<1>1. PICK x : x = builds[b]
  OBVIOUS
<1>2. /\ PlaceTyped /\ SharedTyped /\ builds \in Seq(Build)
      /\ x \in Build /\ Sound(x)
  BY <1>1, Typed DEF ShellInv
<1>3. PICK r : r = [x EXCEPT !.stage = s]
  OBVIOUS
<1>4. /\ r \in Build /\ r.stage = s /\ r.cancelled = x.cancelled /\ r.key = x.key
      /\ r.began = x.began /\ r.layout = x.layout /\ r.page = x.page /\ r.began \in Nat
  BY <1>2, <1>3 DEF Build
<1>5. builds' = [builds EXCEPT ![b] = r]
  BY <1>1, <1>3
<1>6. Sound(r)
  <2>1. r.key \in Areas /\ r.stage \notin {"layout", "redirected"} =>
          VerdictOf(r.layout) \in Admitted(r.key)
    BY <1>1, <1>2, <1>4 DEF Sound
  <2> QED
    BY <1>2, <1>4, <2>1 DEF Sound
<1>7. Sound(r)'
  BY <1>2, <1>4, <1>6, StaysSound
<1> QED
  BY <1>1, <1>4, <1>5, <1>7, OneBuildGoesOn

\* Nothing is asked and nothing answered.
LEMMA SharedStays ==
  ASSUME PlaceTyped, PlaceTyped', SharedTyped, MemoKnows, UNCHANGED <<memo, validations>>,
         generation <= generation'
  PROVE  SharedTyped' /\ MemoKnows' /\ Grows
<1>1. /\ generation \in Nat /\ generation' \in Nat /\ Len(validations) \in Nat
      /\ memo \in [generation : Nat, validation : 0..Len(validations)]
  BY DEF PlaceTyped, SharedTyped
<1> QED
  BY <1>1 DEF SharedTyped, MemoKnows, Grows

\* The invariant holds at first.
LEMMA ShellStarts ==
  ASSUME Init
  PROVE  ShellInv
<1>1. PlaceTyped
  BY ShellAssumption DEF Init, PlaceTyped
<1>2. /\ builds = <<>> /\ view = 0 /\ validations = <<>>
      /\ memo = [generation |-> 0, validation |-> 0] /\ generation = 0
  BY DEF Init
<1>3. SharedTyped /\ MemoKnows
  BY <1>2 DEF SharedTyped, MemoKnows
<1>4. builds \in Seq(Build) /\ view \in 0..Len(builds) /\ Len(builds) = 0
  BY <1>2
<1>5. OneIsCurrent /\ ShownIsSettled /\ \A b \in 1..Len(builds) : Sound(builds[b])
  BY <1>2, <1>4 DEF OneIsCurrent, ShownIsSettled
<1> QED
  BY <1>1, <1>3, <1>4, <1>5, Typed DEF ShellInv

\* What is shown is never an older build.
ViewMoves == view' >= view

\* Every step keeps the invariant, and what is shown moves on.
LEMMA ShellKeeps ==
  ASSUME ShellInv, [Next]_vars
  PROVE  ShellInv' /\ ViewMoves
<1>a. /\ PlaceTyped /\ SharedTyped /\ builds \in Seq(Build) /\ view \in 0..Len(builds)
      /\ MemoKnows /\ Len(builds) \in Nat
  BY Typed DEF ShellInv
<1>b. UNCHANGED view => ViewMoves
  BY <1>a DEF ViewMoves
<1>c. generation \in Nat /\ generation <= generation + 1 /\ generation <= generation
  BY <1>a DEF PlaceTyped
<1>d. DOMAIN builds = 1..Len(builds) /\ DOMAIN validations = 1..Len(validations)
  BY <1>a DEF SharedTyped
<1>1. ASSUME NEW p \in Links, Navigate(p) PROVE ShellInv' /\ ViewMoves
  <2>1. /\ moves < MaxMoves /\ moves' = moves + 1 /\ path' = p /\ generation' = generation + 1
        /\ UNCHANGED <<revalidation, committed, builds, memo, validations, view>>
    BY <1>1 DEF Navigate, GoTo
  <2>2. PlaceTyped'
    BY <1>a, <2>1, ShellAssumption DEF PlaceTyped
  <2> QED
    BY <1>a, <1>b, <1>c, <2>1, <2>2, SharedStays, BuildsStay
<1>2 CASE Revalidate
  <2>1. /\ moves < MaxMoves /\ moves' = moves + 1 /\ generation' = generation + 1
        /\ revalidation' = revalidation + 1
        /\ UNCHANGED <<path, committed, builds, memo, validations, view>>
    BY <1>2 DEF Revalidate
  <2>2. PlaceTyped'
    BY <1>a, <2>1, ShellAssumption DEF PlaceTyped
  <2> QED
    BY <1>a, <1>b, <1>c, <2>1, <2>2, SharedStays, BuildsStay
<1>3 CASE Commit
  <2>1. PICK guarded : guarded = (path \in Areas)
    OBVIOUS
  <2>2. PICK cancelled : cancelled = [b \in DOMAIN builds |-> [builds[b] EXCEPT !.cancelled = TRUE]]
    OBVIOUS
  <2>3. PICK n : n = SharedValidation
    OBVIOUS
  <2>4. PICK new : new = [key |-> path, began |-> generation, cancelled |-> FALSE,
                          stage |-> IF path \in Areas THEN "layout" ELSE "data",
                          layout |-> IF path \in Areas THEN n ELSE 0, page |-> 0, read |-> "none"]
    OBVIOUS
  <2>5. /\ committed' = <<path, revalidation>> /\ builds' = Append(cancelled, new)
        /\ (path \in Areas /\ AskSession) \/ (path \notin Areas /\ UNCHANGED <<memo, validations>>)
        /\ UNCHANGED <<path, revalidation, generation, view, moves>>
    BY <1>3, <2>2, <2>3, <2>4, Zenon DEF Commit
  <2>6. PlaceTyped'
    BY <1>a, <2>5 DEF PlaceTyped
  <2>7. /\ SharedTyped' /\ MemoKnows' /\ Grows
        /\ path \in Areas => n \in 1..Len(validations') /\ validations'[n].began = generation
    BY <1>a, <1>c, <2>3, <2>5, <2>6, AskSessionIs, SharedStays
  <2>8. ASSUME NEW b \in 1..Len(builds)
        PROVE  cancelled[b] \in Build /\ cancelled[b].cancelled /\ Sound(cancelled[b])'
               /\ cancelled[b].stage = builds[b].stage
    <3>1. PICK x : x = builds[b]
      OBVIOUS
    <3>2. x \in Build /\ Sound(x)
      BY <1>a, <3>1 DEF ShellInv
    <3>3. PICK r : r = [x EXCEPT !.cancelled = TRUE]
      OBVIOUS
    <3>4. cancelled[b] = r
      BY <1>d, <2>2, <3>1, <3>3
    <3>5. /\ r \in Build /\ r.cancelled /\ r.stage = x.stage /\ r.key = x.key
          /\ r.began = x.began /\ r.layout = x.layout /\ r.page = x.page /\ r.began \in Nat
      BY <3>2, <3>3 DEF Build
    <3>6. Sound(r)
      BY <3>2, <3>5 DEF Sound
    <3>7. Sound(r)'
      BY <1>a, <2>6, <2>7, <3>5, <3>6, StaysSound
    <3> QED
      BY <3>1, <3>4, <3>5, <3>7
  <2>9. cancelled \in Seq(Build) /\ Len(cancelled) = Len(builds)
    <3>1. DOMAIN cancelled = DOMAIN builds /\ cancelled = [b \in DOMAIN builds |-> cancelled[b]]
      BY <2>2
    <3> QED
      BY <1>a, <1>d, <2>8, <3>1, AllChange
  <2>10. new \in Build /\ Sound(new)'
    <3>1. /\ generation \in Nat /\ generation' = generation /\ path \in Paths
          /\ Len(validations') \in Nat
      BY <1>a, <2>5, <2>7 DEF PlaceTyped, SharedTyped
    <3>2. n \in Nat \/ path \notin Areas
      BY <2>7, <3>1
    <3>3 CASE path \in Areas
      <4>1. new = [key |-> path, began |-> generation, cancelled |-> FALSE,
                   stage |-> "layout", layout |-> n, page |-> 0, read |-> "none"]
        BY <2>4, <3>3
      <4>2. new \in Build
        BY <3>1, <3>2, <3>3, <4>1 DEF Build, Stages
      <4>3. Sound(new)'
        BY <2>7, <3>1, <3>3, <4>1 DEF Sound
      <4> QED
        BY <4>2, <4>3
    <3>4 CASE path \notin Areas
      <4>1. new = [key |-> path, began |-> generation, cancelled |-> FALSE,
                   stage |-> "data", layout |-> 0, page |-> 0, read |-> "none"]
        BY <2>4, <3>4
      <4>2. new \in Build
        BY <3>1, <4>1 DEF Build, Stages
      <4>3. Sound(new)'
        BY <3>1, <3>4, <4>1 DEF Sound
      <4> QED
        BY <4>2, <4>3
    <3> QED
      BY <3>3, <3>4
  <2>11. /\ builds' \in Seq(Build) /\ Len(builds') = Len(builds) + 1
         /\ builds'[Len(builds) + 1] = new
         /\ \A b \in 1..Len(builds) : builds'[b] = cancelled[b]
    BY <2>5, <2>9, <2>10, OneMore
  <2>12. ASSUME NEW b \in 1..Len(builds') PROVE Sound(builds[b])'
    <3>1 CASE b = Len(builds) + 1
      <4>1. builds'[b] = new
        BY <2>11, <3>1
      <4> QED
        BY <2>10, <4>1 DEF Sound
    <3>2 CASE b \in 1..Len(builds)
      <4>1. PICK x : x = cancelled[b]
        OBVIOUS
      <4>2. builds'[b] = x /\ Sound(x)'
        BY <2>8, <2>11, <3>2, <4>1
      <4> QED
        BY <4>2 DEF Sound
    <3> QED
      BY <1>a, <2>11, <3>1, <3>2
  <2>13. OneIsCurrent' /\ ShownIsSettled' /\ view' \in 0..Len(builds')
    BY <1>a, <2>5, <2>8, <2>11 DEF ShellInv, OneIsCurrent, ShownIsSettled
  <2> QED
    BY <1>b, <2>5, <2>6, <2>7, <2>11, <2>12, <2>13, TypedNext DEF ShellInv
<1>4. ASSUME NEW v \in DOMAIN validations, NEW verdict \in Answers, Answer(v, verdict)
      PROVE  ShellInv' /\ ViewMoves
  <2>1. /\ validations[v].verdict = "pending" /\ v \in 1..Len(validations)
        /\ validations' = [validations EXCEPT ![v].verdict = verdict]
        /\ UNCHANGED <<path, revalidation, generation, committed, builds, memo, view, moves>>
    BY <1>4, <1>d DEF Answer
  <2>2. PICK x : x = [validations[v] EXCEPT !.verdict = verdict]
    OBVIOUS
  <2>3. x \in Validation /\ x.began = validations[v].began
    <3>1. validations[v] \in Validation
      BY <1>a, <2>1 DEF SharedTyped
    <3> QED
      BY <2>2, <3>1, ShellAssumption DEF Validation
  <2>4. /\ validations' \in Seq(Validation) /\ Len(validations') = Len(validations)
        /\ validations'[v] = x
        /\ \A w \in 1..Len(validations) : w # v => validations'[w] = validations[w]
    <3>1. validations' = [validations EXCEPT ![v] = x]
      BY <2>1, <2>2
    <3>2. validations \in Seq(Validation)
      BY <1>a DEF SharedTyped
    <3> QED
      BY <2>1, <2>3, <3>1, <3>2, OneChanges
  <2>5. Grows
    BY <1>a, <1>c, <2>1, <2>3, <2>4 DEF Grows, SharedTyped
  <2>6. PlaceTyped' /\ SharedTyped'
    BY <1>a, <2>1, <2>4 DEF PlaceTyped, SharedTyped
  <2>7. MemoKnows'
    <3>1. memo.validation \in 0..Len(validations)
      BY <1>a DEF SharedTyped
    <3> QED
      BY <1>a, <2>1, <2>3, <2>4, <3>1 DEF MemoKnows
  <2> QED
    BY <1>b, <2>1, <2>5, <2>6, <2>7, BuildsStay
<1>5. ASSUME NEW b \in 1..Len(builds) PROVE Sound(builds[b]) /\ builds[b] \in Build
  BY <1>5, <1>a DEF ShellInv
<1>6. ASSUME NEW b \in 1..Len(builds), NEW p \in Paths, Redirect(b, p), UNCHANGED <<committed, view, moves>>,
             builds[b].stage \in {"layout", "session", "organization"}
      PROVE  ShellInv' /\ ViewMoves
  <2>1. /\ path' = p /\ generation' = generation + 1
        /\ builds' = [builds EXCEPT ![b].stage = "redirected"]
        /\ UNCHANGED <<revalidation, committed, memo, validations, view, moves>>
    BY <1>6 DEF Redirect, GoTo
  <2>2. PlaceTyped'
    BY <1>a, <2>1 DEF PlaceTyped
  <2>3. SharedTyped' /\ MemoKnows' /\ Grows
    BY <1>a, <1>c, <2>1, <2>2, SharedStays
  <2>4. "redirected" \in Stages /\ builds[b].stage \notin Settled \cup {"redirected"}
    BY <1>6 DEF Stages, Settled
  <2> QED
    BY <1>b, <2>1, <2>2, <2>3, <2>4, StageChanges
<1>7. ASSUME UNCHANGED <<path, revalidation, generation, committed, memo, validations, moves>>
      PROVE  PlaceTyped' /\ SharedTyped' /\ MemoKnows' /\ Grows
  <2>1. PlaceTyped'
    BY <1>7, <1>a DEF PlaceTyped
  <2> QED
    BY <1>7, <1>a, <1>c, <2>1, SharedStays
<1>8. ASSUME NEW b \in DOMAIN builds, RunGuard(b) PROVE ShellInv' /\ ViewMoves
  <2>1. PICK to : to = Guard(builds[b].key, VerdictOf(builds[b].layout))
    OBVIOUS
  <2>2. /\ builds[b].stage = "layout" /\ VerdictOf(builds[b].layout) # "pending"
        /\ \/ /\ to = "render" /\ builds' = [builds EXCEPT ![b].stage = "shell"]
              /\ UNCHANGED <<path, revalidation, generation, memo, validations>>
           \/ to # "render" /\ Redirect(b, to)
        /\ UNCHANGED <<committed, view, moves>> /\ b \in 1..Len(builds)
    BY <1>8, <1>d, <2>1 DEF RunGuard
  <2>3. VerdictOf(builds[b].layout) \in Verdicts
    <3>1. builds[b].layout \in 0..Len(validations)
      BY <1>5, <2>2 DEF Sound
    <3> QED
      BY <1>a, <2>2, <3>1, AnsweredIs
  <2>4. /\ to \in Paths \cup {"render"}
        /\ to = "render" /\ builds[b].key \in Areas =>
             VerdictOf(builds[b].layout) \in Admitted(builds[b].key)
    BY <2>1, <2>3, GuardIs
  <2>5 CASE to # "render"
    BY <1>6, <2>2, <2>4, <2>5
  <2>6 CASE to = "render"
    <3>1. "shell" \in Stages /\ builds[b].stage \notin Settled \cup {"redirected"}
      BY <2>2 DEF Stages, Settled
    <3> QED
      BY <1>7, <1>b, <2>2, <2>4, <2>6, <3>1, StageChanges
  <2> QED
    BY <2>5, <2>6
<1>9. ASSUME NEW b \in DOMAIN builds, BeginPage(b) PROVE ShellInv' /\ ViewMoves
  <2>1. /\ builds[b].stage = "shell" /\ b \in 1..Len(builds)
        /\ UNCHANGED <<path, revalidation, generation, committed, view, moves>>
    BY <1>9, <1>d DEF BeginPage
  <2>2. builds[b].stage \notin Settled \cup {"redirected", "layout"}
    BY <2>1 DEF Settled
  <2>3. ASSUME NEW first \in {"data", "organization"}, builds' = [builds EXCEPT ![b].stage = first],
               UNCHANGED <<memo, validations>>
        PROVE  ShellInv' /\ ViewMoves
    <3>1. first \in Stages /\ first # "layout"
      BY DEF Stages
    <3> QED
      BY <1>7, <1>b, <2>1, <2>2, <2>3, <3>1, StageChanges
  <2>4 CASE /\ builds' = [builds EXCEPT ![b].stage = "session", ![b].page = SharedValidation]
            /\ AskSession
    <3>1. PICK n : n = SharedValidation
      OBVIOUS
    <3>2. PlaceTyped'
      BY <1>a, <2>1 DEF PlaceTyped
    <3>3. /\ SharedTyped' /\ MemoKnows' /\ Grows
          /\ n \in 1..Len(validations') /\ validations'[n].began = generation
      BY <1>a, <2>1, <2>4, <3>1, AskSessionIs
    <3>4. PICK x : x = builds[b]
      OBVIOUS
    <3>5. x \in Build /\ Sound(x) /\ x.began \in Nat /\ x.stage = "shell"
      BY <1>5, <2>1, <3>4 DEF Build
    <3>6. PICK r : r = [x EXCEPT !.stage = "session", !.page = n]
      OBVIOUS
    <3>7. n \in Nat /\ n \in 0..Len(validations') /\ Len(validations') \in Nat
      BY <3>3 DEF SharedTyped
    <3>8. /\ r \in Build /\ r.stage = "session" /\ r.cancelled = x.cancelled /\ r.key = x.key
          /\ r.began = x.began /\ r.layout = x.layout /\ r.page = n
      BY <3>5, <3>6, <3>7 DEF Build, Stages
    <3>9. builds' = [builds EXCEPT ![b] = r]
      BY <2>4, <3>1, <3>4, <3>6
    <3>10. Sound(x)'
      BY <1>a, <3>2, <3>3, <3>5, StaysSound
    <3>11. Sound(r)'
      <4>1. generation' = generation /\ x.began <= generation
        BY <2>1, <3>5 DEF Sound
      <4>2. /\ r.layout \in 0..Len(validations') /\ r.began <= generation'
            /\ r.layout > 0 => validations'[r.layout].began >= r.began
            /\ r.key \in Areas => r.layout > 0
        BY <3>8, <3>10 DEF Sound
      <4>3. /\ r.page \in 0..Len(validations')
            /\ r.page > 0 => validations'[r.page].began >= r.began
        BY <1>c, <3>3, <3>5, <3>7, <3>8, <4>1
      <4>4. r.key \in Areas => VerdictOf(r.layout)' \in Admitted(r.key)
        BY <3>5, <3>8, <3>10 DEF Sound, VerdictOf
      <4> QED
        BY <4>2, <4>3, <4>4, Zenon DEF Sound
    <3> QED
      BY <1>b, <2>1, <2>2, <3>2, <3>3, <3>4, <3>8, <3>9, <3>11, OneBuildGoesOn
  <2> QED
    BY <1>9, <2>3, <2>4 DEF BeginPage, FirstReads
<1>10. ASSUME NEW b \in DOMAIN builds, PageSession(b) PROVE ShellInv' /\ ViewMoves
  <2>1. /\ builds[b].stage = "session" /\ b \in 1..Len(builds)
        /\ UNCHANGED <<committed, view, moves>>
        /\ \/ Redirect(b, "unavailable")
           \/ /\ builds' = [builds EXCEPT ![b].stage = "data"]
              /\ UNCHANGED <<path, revalidation, generation, memo, validations>>
    BY <1>10, <1>d DEF PageSession
  <2>2. /\ builds[b].stage \notin Settled \cup {"redirected", "layout"}
        /\ "data" \in Stages /\ "unavailable" \in Paths
    BY <2>1 DEF Settled, Stages, Paths, Public
  <2>3 CASE Redirect(b, "unavailable")
    BY <1>6, <2>1, <2>2, <2>3
  <2>4 CASE /\ builds' = [builds EXCEPT ![b].stage = "data"]
            /\ UNCHANGED <<path, revalidation, generation, memo, validations>>
    BY <1>7, <1>b, <2>1, <2>2, <2>4, StageChanges
  <2> QED
    BY <2>1, <2>3, <2>4
<1>11. ASSUME NEW b \in DOMAIN builds, NEW stage \in {"done", "failed"}, Finish(b, stage)
       PROVE  ShellInv' /\ ViewMoves
  <2>1. /\ builds[b].stage \in {"data", "shell"} /\ b \in 1..Len(builds)
        /\ builds' = [builds EXCEPT ![b].stage = stage]
        /\ view' = (IF builds[b].cancelled THEN view ELSE b)
        /\ UNCHANGED <<path, revalidation, generation, committed, memo, validations, moves>>
    BY <1>11, <1>d DEF Finish
  <2>2. /\ builds[b].stage \notin Settled \cup {"redirected", "layout"}
        /\ stage \in Stages /\ stage \in Settled /\ stage # "layout"
    BY <2>1 DEF Settled, Stages
  <2>3. view' = view \/ view' = b
    BY <2>1
  <2>4. ViewMoves
    BY <1>a, <2>1 DEF ShellInv, OneIsCurrent, ViewMoves
  <2> QED
    BY <1>7, <2>1, <2>2, <2>3, <2>4, StageChanges
<1>12 CASE UNCHANGED vars
  BY <1>7, <1>b, <1>12, BuildsStay DEF vars
<1>13. ASSUME NEW b \in DOMAIN builds, NEW answer \in Reads, AnswerRead(b, answer) PROVE ShellInv' /\ ViewMoves
  <2>1. PICK x : x = builds[b]
    OBVIOUS
  <2>2. /\ x.stage = "organization" /\ b \in 1..Len(builds) /\ x \in Build /\ Sound(x) /\ x.began \in Nat
        /\ builds' = [builds EXCEPT ![b].read = answer]
        /\ UNCHANGED <<path, revalidation, generation, committed, memo, validations, view, moves>>
    BY <1>13, <1>d, <1>5, <2>1 DEF AnswerRead, Build
  <2>3. PICK r : r = [x EXCEPT !.read = answer]
    OBVIOUS
  <2>4. /\ r \in Build /\ r.stage = "organization" /\ r.cancelled = x.cancelled /\ r.key = x.key
        /\ r.began = x.began /\ r.layout = x.layout /\ r.page = x.page
    BY <2>2, <2>3 DEF Build
  <2>5. builds' = [builds EXCEPT ![b] = r]
    BY <2>1, <2>2, <2>3
  <2>6. PlaceTyped' /\ SharedTyped' /\ MemoKnows' /\ Grows
    BY <1>7, <2>2
  <2>7. Sound(x)'
    BY <1>a, <2>2, <2>6, StaysSound
  <2>8. Sound(r)'
    BY <2>2, <2>4, <2>7 DEF Sound
  <2> QED
    BY <1>b, <2>1, <2>2, <2>4, <2>5, <2>6, <2>8, OneBuildGoesOn DEF Settled
<1>14. ASSUME NEW b \in DOMAIN builds, PageOrganization(b) PROVE ShellInv' /\ ViewMoves
  <2>1. /\ builds[b].stage = "organization" /\ b \in 1..Len(builds)
        /\ UNCHANGED <<committed, view, moves>>
        /\ \/ Redirect(b, "login_expired")
           \/ /\ builds' = [builds EXCEPT ![b].stage = "data"]
              /\ UNCHANGED <<path, revalidation, generation, memo, validations>>
    BY <1>14, <1>d DEF PageOrganization
  <2>2. /\ builds[b].stage \notin Settled \cup {"redirected", "layout"}
        /\ "data" \in Stages /\ "login_expired" \in Paths
    BY <2>1 DEF Settled, Stages, Paths, Public
  <2>3 CASE Redirect(b, "login_expired")
    BY <1>6, <2>1, <2>2, <2>3
  <2>4 CASE /\ builds' = [builds EXCEPT ![b].stage = "data"]
            /\ UNCHANGED <<path, revalidation, generation, memo, validations>>
    BY <1>7, <1>b, <2>1, <2>2, <2>4, StageChanges
  <2> QED
    BY <2>1, <2>3, <2>4
<1> QED
  BY <1>1, <1>2, <1>3, <1>4, <1>8, <1>9, <1>10, <1>11, <1>12, <1>13, <1>14, Zenon DEF Next

\* The inductive invariant.
LEMMA ShellHolds == Spec => []ShellInv
<1>1. Init => ShellInv
  BY ShellStarts
<1>2. ShellInv /\ [Next]_vars => ShellInv'
  BY ShellKeeps
<1> QED
  BY <1>1, <1>2, PTL DEF Spec
-----------------------------------------------------------------------------
(* The theorems.                                                           *)

\* The router, the shared verdict and the builds keep to their values
\* (export/src/router.ts, server-route.tsx, platform/server-session.ts).
THEOREM ShellTypesHold == Spec => []TypeOK
<1>1. ShellInv => TypeOK
  BY DEF ShellInv
<1> QED
  BY <1>1, ShellHolds, PTL

\* However navigations, commits and answers cross, neither the layout nor the
\* page of a load uses a verdict from before the navigation that led to it
\* (platform/server-session.ts getServerSessionState()).
THEOREM FreshVerdictsHolds == Spec => []FreshVerdicts
<1>1. ASSUME ShellInv PROVE FreshVerdicts
  <2> SUFFICES ASSUME NEW b \in DOMAIN builds, NEW v \in {builds[b].layout, builds[b].page} \ {0}
               PROVE  validations[v].began >= builds[b].began
    BY DEF FreshVerdicts
  <2>1. builds \in Seq(Build) /\ validations \in Seq(Validation)
    BY <1>1, Typed DEF ShellInv, SharedTyped
  <2>2. Sound(builds[b])
    BY <1>1, <2>1 DEF ShellInv
  <2>3. v \in 0..Len(validations) /\ Len(validations) \in Nat
    BY <2>1, <2>2 DEF Sound
  <2>4. v > 0
    BY <2>3
  <2> QED
    BY <2>2, <2>4 DEF Sound
<1> QED
  BY <1>1, ShellHolds, PTL

\* What is on the screen of a guarded area was let in by the verdict its own
\* load waited for (lib/session-guard.ts decideSessionGuard(), the layouts).
THEOREM ShownIsAdmittedHolds == Spec => []ShownIsAdmitted
<1>1. ASSUME ShellInv PROVE ShownIsAdmitted
  <2> SUFFICES ASSUME view > 0, builds[view].key \in Areas
               PROVE  VerdictOf(builds[view].layout) \in Admitted(builds[view].key)
    BY DEF ShownIsAdmitted
  <2>1. builds \in Seq(Build) /\ view \in 0..Len(builds) /\ Len(builds) \in Nat
    BY <1>1, Typed DEF ShellInv
  <2>2. Sound(builds[view])
    BY <1>1, <2>1 DEF ShellInv
  <2>3. builds[view].stage \notin {"layout", "redirected"}
    BY <1>1 DEF ShellInv, ShownIsSettled
  <2> QED
    BY <2>2, <2>3 DEF Sound
<1> QED
  BY <1>1, ShellHolds, PTL

\* A build that was replaced never takes the screen back, in whatever order
\* the builds settle (export/src/server-route.tsx, the effect's clean-up).
THEOREM ViewMovesForwardHolds == Spec => ViewMovesForward
<1>1. ShellInv /\ [Next]_vars => [view' >= view]_vars
  BY ShellKeeps DEF ViewMoves
<1> QED
  BY <1>1, ShellHolds, PTL DEF Spec, ViewMovesForward

\* Without the user, only a verdict against the session, and a 401 to a page's
\* own read of its organization, lead to the sign-in page, and only a refused
\* credential to "session expired" (lib/session-guard.ts,
\* org-admin/settings/page.tsx, platform/next-navigation.ts redirect()).
THEOREM OnlyAVerdictSignsOutHolds == Spec => OnlyAVerdictSignsOut
<1> DEFINE Cause(b) ==
      /\ builds'[b].stage = "redirected"
      /\ \/ /\ builds[b].stage = "layout"
            /\ VerdictOf(builds[b].layout) = IF path' = "login" THEN "no_credential" ELSE "expired"
         \/ /\ builds[b].stage = "organization" /\ builds[b].read = "unauthorized"
            /\ path' = "login_expired"
<1> DEFINE Judged ==
      path' # path /\ moves' = moves /\ path' \in {"login", "login_expired"}
        => \E b \in DOMAIN builds : Cause(b)
<1>1. ASSUME ShellInv, [Next]_vars PROVE Judged
  <2> SUFFICES ASSUME path' # path, moves' = moves, path' \in {"login", "login_expired"}
               PROVE  \E b \in DOMAIN builds : Cause(b)
    OBVIOUS
  <2>a. /\ PlaceTyped /\ SharedTyped /\ builds \in Seq(Build)
        /\ \A b \in 1..Len(builds) : Sound(builds[b])
    BY <1>1, Typed DEF ShellInv
  <2>b. moves \in Nat /\ moves # moves + 1
    BY <2>a, ShellAssumption DEF PlaceTyped
  <2>0. ASSUME NEW b \in DOMAIN builds, NEW p, Redirect(b, p) PROVE path' = p /\ builds'[b].stage = "redirected"
    <3>1. path' = p /\ builds' = [builds EXCEPT ![b].stage = "redirected"]
      BY <2>0 DEF Redirect, GoTo
    <3>2. builds[b] \in Build /\ b \in 1..Len(builds)
      BY <2>a
    <3>3. PICK r : r = [builds[b] EXCEPT !.stage = "redirected"]
      OBVIOUS
    <3>4. r \in Build /\ r.stage = "redirected"
      BY <3>2, <3>3 DEF Build, Stages
    <3>5. builds' = [builds EXCEPT ![b] = r]
      BY <3>1, <3>3
    <3>6. builds'[b] = r
      BY <2>a, <3>2, <3>4, <3>5, OneChanges
    <3> QED
      BY <3>1, <3>4, <3>6
  <2>1. ASSUME NEW b \in DOMAIN builds, RunGuard(b) PROVE Cause(b)
    <3>1. PICK to : to = Guard(builds[b].key, VerdictOf(builds[b].layout))
      OBVIOUS
    <3>2. builds[b].stage = "layout" /\ VerdictOf(builds[b].layout) # "pending" /\ Redirect(b, to)
      BY <1>1, <2>1, <3>1 DEF RunGuard
    <3>3. VerdictOf(builds[b].layout) \in Verdicts
      <4>1. builds[b].layout \in 0..Len(validations)
        BY <2>a DEF Sound
      <4> QED
        BY <2>a, <3>2, <4>1, AnsweredIs
    <3>4. path' = to /\ builds'[b].stage = "redirected"
      BY <2>0, <3>2
    <3>5. VerdictOf(builds[b].layout) = IF path' = "login" THEN "no_credential" ELSE "expired"
      BY <3>1, <3>3, <3>4, GuardIs
    <3> QED
      BY <3>2, <3>4, <3>5
  <2>2. ASSUME NEW b \in DOMAIN builds, PageSession(b) PROVE FALSE
    BY <2>2 DEF PageSession, Redirect, GoTo
  <2>3. ASSUME NEW b \in DOMAIN builds, PageOrganization(b) PROVE Cause(b)
    <3>1. /\ builds[b].stage = "organization" /\ builds[b].read = "unauthorized"
          /\ Redirect(b, "login_expired")
      BY <2>3 DEF PageOrganization, EndsSession
    <3> QED
      BY <2>0, <3>1
  <2>4. ASSUME NEW b \in DOMAIN builds, NEW x, BeginPage(b) \/ AnswerRead(b, x) \/ Finish(b, x) PROVE FALSE
    BY <2>4 DEF BeginPage, AnswerRead, Finish
  <2>5. ASSUME NEW v, NEW verdict, Answer(v, verdict) PROVE FALSE
    BY <2>5 DEF Answer
  <2>6. ASSUME Commit \/ Revalidate \/ UNCHANGED vars PROVE FALSE
    BY <2>6 DEF Commit, Revalidate, vars
  <2>7. ASSUME NEW p, Navigate(p) PROVE FALSE
    BY <2>b, <2>7 DEF Navigate
  <2> HIDE DEF Cause
  <2> QED
    BY <1>1, <2>1, <2>2, <2>3, <2>4, <2>5, <2>6, <2>7, Zenon DEF Next
<1> QED
  <2>1. ShellInv /\ [Next]_vars => [Judged]_vars
    BY <1>1
  <2> QED
    BY <2>1, ShellHolds, PTL DEF Spec, OnlyAVerdictSignsOut
=============================================================================
