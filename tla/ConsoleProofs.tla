---------------------------- MODULE ConsoleProofs ----------------------------
(***************************************************************************)
(* The console's work, for any number of tabs, links, submissions and      *)
(* versions: the pages of one-time links tell the truth, no save is blind  *)
(* unless its page was run again under what was typed, and the account     *)
(* settings keep in the console what they keep by themselves.              *)
(***************************************************************************)
EXTENDS Console, AccountProofs

-----------------------------------------------------------------------------
(* One-time links.                                                         *)

\* The IdP's accounts, and a link that redeems has tries left.
Idps == [exists : BOOLEAN, active : BOOLEAN, newest : 0..MaxLinks, open : BOOLEAN,
         weak : 0..MaxWeak, mine : 0..MaxLinks, set : SUBSET (1..MaxSubmits)]

TriesLeft == idp.open => idp.weak \in 1..MaxWeak

\* What a redemption makes of the account, and what its answer says of it.
LEMMA RedemptionTells ==
  ASSUME idp \in Idps, TriesLeft, NEW l \in Links, NEW by \in 1..MaxSubmits,
         NEW made, NEW told, <<made, told>> \in Redemptions(l, by)
  PROVE  /\ made \in Idps /\ told \in Wires
         /\ made.newest = idp.newest /\ made.mine = idp.mine /\ idp.set \subseteq made.set
         /\ idp.active => made.active
         /\ made.open => idp.open /\ made.weak \in 1..MaxWeak
         /\ told \in {"set", "unended"} => by \in made.set
         /\ told \in {"refused", "burned"} => ~(l = made.newest /\ made.open)
         /\ told = "already" => made.active
<1> USE DEF Idps
<1>a. MaxWeak \in Nat \ {0} /\ 0 \in 0..MaxWeak
  BY HandOverAssumption
<1> DEFINE done == [idp EXCEPT !.open = FALSE, !.active = TRUE, !.set = @ \cup {by}]
<1>1. /\ done \in Idps /\ done.newest = idp.newest /\ done.mine = idp.mine /\ done.active /\ ~done.open
      /\ idp.set \subseteq done.set /\ by \in done.set
  OBVIOUS
<1> DEFINE burned == [idp EXCEPT !.weak = 0, !.open = FALSE]
           fewer == [idp EXCEPT !.weak = @ - 1]
<1>2. /\ burned \in Idps /\ burned.newest = idp.newest /\ burned.mine = idp.mine /\ ~burned.open
      /\ burned.set = idp.set /\ burned.active = idp.active
  <2>1. burned \in Idps
    BY <1>a
  <2> QED
    BY <2>1
<1>3. ASSUME idp.weak \in 2..MaxWeak
      PROVE  /\ fewer \in Idps /\ fewer.newest = idp.newest /\ fewer.mine = idp.mine /\ fewer.open = idp.open
             /\ fewer.set = idp.set /\ fewer.active = idp.active /\ fewer.weak \in 1..MaxWeak
  <2>1. idp.weak - 1 \in 1..MaxWeak /\ idp.weak - 1 \in 0..MaxWeak
    BY <1>3, <1>a
  <2>2. fewer \in Idps
    BY <2>1
  <2>3. /\ fewer.newest = idp.newest /\ fewer.mine = idp.mine /\ fewer.open = idp.open
        /\ fewer.set = idp.set /\ fewer.active = idp.active /\ fewer.weak = idp.weak - 1
    OBVIOUS
  <2> QED
    BY <2>1, <2>2, <2>3
<1>4 CASE ~Redeems(l)
  <2>1. <<made, told>> = <<idp, "refused">> \/ (<<made, told>> = <<idp, "already">> /\ idp.active)
    <3>1. Redemptions(l, by) = {<<idp, "refused">>} \cup
                               (IF kind = "activation" /\ idp.active THEN {<<idp, "already">>} ELSE {})
      BY <1>4 DEF Redemptions
    <3> QED
      BY <3>1, Zenon
  <2>2. \/ made = idp /\ told = "refused"
        \/ made = idp /\ told = "already" /\ idp.active
    BY <2>1
  <2> QED
    BY <1>4, <2>2 DEF Redeems, TriesLeft, Wires
<1>5 CASE Redeems(l)
  <2>1. \/ made = done /\ told \in {"set", "unended"}
        \/ made = idp /\ told \in {"weak", "limited"}
        \/ made = burned /\ told = "burned"
        \/ made = fewer /\ told = "weak" /\ idp.weak # 1
    BY <1>5, Zenon DEF Redemptions
  <2>2. idp.open /\ idp.weak \in 1..MaxWeak
    BY <1>5 DEF Redeems, TriesLeft
  <2>3 CASE made = done /\ told \in {"set", "unended"}
    BY <1>1, <2>2, <2>3 DEF Wires
  <2>4 CASE made = idp /\ told \in {"weak", "limited"}
    BY <2>2, <2>4 DEF Wires
  <2>5 CASE made = burned /\ told = "burned"
    BY <1>2, <2>2, <2>5 DEF Wires
  <2>6 CASE made = fewer /\ told = "weak" /\ idp.weak # 1
    <3>1. idp.weak \in 2..MaxWeak
      BY <1>a, <2>2, <2>6
    <3> QED
      BY <1>3, <2>2, <2>6, <3>1 DEF Wires
  <2> QED
    BY <2>1, <2>3, <2>4, <2>5, <2>6
<1> QED
  BY <1>4, <1>5

\* A redemption is one of a new account and an answer.
LEMMA RedemptionIsPair ==
  ASSUME NEW l, NEW by, NEW out \in Redemptions(l, by)
  PROVE  out = <<out[1], out[2]>>
<1>1. \A a, b : <<a, b>> = <<<<a, b>>[1], <<a, b>>[2]>>
  OBVIOUS
<1>2. \E a, b : out = <<a, b>>
  <2>1 CASE Redeems(l)
    BY <2>1, Zenon DEF Redemptions
  <2>2 CASE ~Redeems(l)
    BY <2>2, Zenon DEF Redemptions
  <2> QED
    BY <2>1, <2>2
<1> QED
  BY <1>1, <1>2

\* A new link.
LEMMA IssuedTells ==
  ASSUME idp \in Idps, idp.newest < MaxLinks, NEW mine \in BOOLEAN
  PROVE  /\ Issued(mine) \in Idps /\ Issued(mine).newest = idp.newest + 1
         /\ Issued(mine).set = idp.set /\ Issued(mine).active = idp.active
         /\ Issued(mine).weak \in 1..MaxWeak
         /\ ~mine => Issued(mine).mine = idp.mine
<1>1. MaxLinks \in Nat /\ MaxWeak \in 1..MaxWeak /\ MaxWeak \in 0..MaxWeak /\ idp.newest + 1 \in 0..MaxLinks
  BY HandOverAssumption DEF Idps
<1> DEFINE named == IF mine THEN idp.newest + 1 ELSE idp.mine
<1>2. named \in 0..MaxLinks /\ (~mine => named = idp.mine)
  BY <1>1 DEF Idps
<1>3. Issued(mine) = [idp EXCEPT !.exists = TRUE, !.newest = @ + 1, !.open = TRUE,
                                 !.weak = MaxWeak, !.mine = named]
  BY Zenon DEF Issued
<1> HIDE DEF named
<1>4. Issued(mine) \in Idps
  BY <1>1, <1>2, <1>3 DEF Idps
<1>5. /\ Issued(mine).newest = idp.newest + 1 /\ Issued(mine).set = idp.set
      /\ Issued(mine).active = idp.active /\ Issued(mine).weak = MaxWeak /\ Issued(mine).mine = named
  BY <1>3 DEF Idps
<1> QED
  BY <1>1, <1>2, <1>4, <1>5

\* What a step does to the account: no link but a new one comes to redeem,
\* no password set is unset, and an active account stays active.
Onward ==
  /\ idp.newest <= idp'.newest /\ idp.set \subseteq idp'.set /\ (idp.active => idp'.active)
  /\ \A l \in 1..idp.newest : Redeems(l)' => Redeems(l)

\* Nothing happens to it,
LEMMA OnwardSame ==
  ASSUME idp \in Idps, idp' = idp PROVE Onward
BY DEF Onward, Redeems, Idps

\* ... a link is issued,
LEMMA OnwardIssued ==
  ASSUME idp \in Idps, idp.newest < MaxLinks, NEW mine \in BOOLEAN, idp' = Issued(mine)
  PROVE  Onward
<1>1. idp.newest \in Nat
  BY HandOverAssumption DEF Idps
<1> QED
  BY <1>1, IssuedTells DEF Onward, Redeems

\* ... or one is presented.
LEMMA OnwardRedeemed ==
  ASSUME idp \in Idps, TriesLeft, NEW l \in Links, NEW by \in 1..MaxSubmits,
         NEW told, <<idp', told>> \in Redemptions(l, by)
  PROVE  Onward /\ idp' \in Idps /\ TriesLeft' /\ idp'.mine = idp.mine
<1>1. idp.newest \in Nat
  BY HandOverAssumption DEF Idps
<1>2. /\ idp' \in Idps /\ idp'.newest = idp.newest /\ idp'.mine = idp.mine /\ idp.set \subseteq idp'.set
      /\ idp.active => idp'.active
      /\ idp'.open => idp.open /\ idp'.weak \in 1..MaxWeak
  BY RedemptionTells
<1> QED
  BY <1>1, <1>2 DEF Onward, Redeems, TriesLeft

\* What a page that checks its link first makes of the answer.
LEMMA CheckedTells ==
  ASSUME kind \in Kinds \ {"mailed reset"}, NEW l, NEW a \in Checks(l) \cup {"lost", "fault"},
         NEW whole \in BOOLEAN
  PROVE  /\ Checked(a, whole) \in {"form", "unusable", "already", "limited", "down"}
         /\ kind = "invite" /\ Checked(a, whole) = "unusable" => ~Redeems(l)
         /\ Checked(a, whole) = "already" => idp.active
<1>1. a = "invalid" => ~Redeems(l)
  BY DEF Checks
<1>2. a = "already" => idp.active
  BY DEF Checks
<1>3. kind \in {"claim", "activation", "invite", "reset link"}
  BY DEF Kinds
<1>4 CASE kind = "claim"
  BY <1>4 DEF Checked, ClaimChecked
<1>5 CASE kind = "activation"
  BY <1>2, <1>5 DEF Checked, ActivationChecked
<1>6 CASE kind = "invite"
  BY <1>1, <1>6 DEF Checked, InviteChecked
<1>7 CASE kind = "reset link"
  BY <1>7 DEF Checked, ResetLinkChecked
<1> QED
  BY <1>3, <1>4, <1>5, <1>6, <1>7

\* What a page makes of the answer to a redemption.
LEMMA ConsumedTells ==
  ASSUME kind \in Kinds, NEW a, NEW whole \in BOOLEAN
  PROVE  /\ Consumed(a, whole) \in {"form", "probing", "ready", "already", "spent", "burned"}
         /\ Consumed(a, whole) \in {"probing", "ready"} => a \in {"set", "unended"}
         /\ Consumed(a, whole) = "already" => a = "already"
         /\ kind \in {"claim", "invite", "reset link"} /\ Consumed(a, whole) \in {"spent", "burned"}
              => a \in {"refused", "burned"}
<1>1 CASE kind = "claim"
  BY <1>1 DEF Consumed, ClaimTold
<1>2 CASE kind = "activation"
  BY <1>2 DEF Consumed, ActivationTold
<1>3 CASE kind = "invite"
  BY <1>3 DEF Consumed, InviteTold
<1>4 CASE kind = "reset link"
  BY <1>4 DEF Consumed, ResetLinkTold
<1>5 CASE kind = "mailed reset"
  BY <1>5 DEF Consumed, ResetPasswordTold
<1> QED
  BY <1>1, <1>2, <1>3, <1>4, <1>5 DEF Kinds

\* What a page holds is sound: its link was issued, its submission is one of
\* its own, the answer on its way says what the IdP did, and so does the page.
Sound(s) ==
  /\ s.page # "away" => s.link \in 1..idp.newest
  /\ s.page \in {"checking", "sending"} => s.by \in 1..submits
  /\ s.page = "checking" => kind = "activation"
  /\ s.page = "sending" => /\ s.wire \in {"set", "unended"} => s.by \in idp.set
                           /\ s.wire \in {"refused", "burned"} => ~Redeems(s.link)
  /\ s.page \in {"checking", "sending"} /\ s.wire = "already" => idp.active
  /\ s.page \in {"probing"} \cup Told => s.by \in idp.set
  /\ \/ kind = "invite" /\ s.page \in {"unusable", "spent"}
     \/ kind \in {"claim", "reset link"} /\ s.page \in {"spent", "burned"}
     => ~Redeems(s.link)
  /\ s.page = "already" => idp.active

TabStates == [page : Pages, link : 0..MaxLinks, by : 0..MaxSubmits, wire : Wires]

HandOverInv == TypeOK /\ TriesLeft /\ \A t \in Tabs : Sound(tab[t])

\* It stays so whatever is done to the account.
LEMMA SoundStays ==
  ASSUME idp \in Idps, idp' \in Idps, Onward, kind' = kind, submits \in Nat, submits' \in Nat, submits <= submits',
         NEW s, Sound(s)
  PROVE  Sound(s)'
<1>1. idp.newest \in Nat /\ idp'.newest \in Nat
  BY HandOverAssumption DEF Idps
<1>2. s.page # "away" => s.link \in 1..idp.newest /\ (Redeems(s.link)' => Redeems(s.link))
  BY Zenon DEF Sound, Onward
<1>3. idp.newest <= idp'.newest /\ idp.set \subseteq idp'.set /\ (idp.active => idp'.active)
  BY DEF Onward
<1>4. s.page # "away" => s.link \in 1..idp'.newest
  BY <1>1, <1>2, <1>3
<1>5. s.page \in {"checking", "sending"} => s.by \in 1..submits'
  <2>1. s.page \in {"checking", "sending"} => s.by \in 1..submits
    BY Zenon DEF Sound
  <2> QED
    BY <2>1
<1> DEFINE dead == \/ kind = "invite" /\ s.page \in {"unusable", "spent"}
                   \/ kind \in {"claim", "reset link"} /\ s.page \in {"spent", "burned"}
<1>6. (dead => ~Redeems(s.link))'
  BY <1>2 DEF Sound
<1>7. s.page = "sending" => /\ s.wire \in {"set", "unended"} => s.by \in idp'.set
                            /\ s.wire \in {"refused", "burned"} => ~Redeems(s.link)'
  BY <1>2, <1>3 DEF Sound
<1> QED
  BY <1>3, <1>4, <1>5, <1>6, <1>7 DEF Sound

\* One page moves, to where it is sound.
LEMMA OnePageMoves ==
  ASSUME HandOverInv, idp' \in Idps, Onward, kind' = kind, submits' \in Nat, submits <= submits',
         NEW t \in Tabs, NEW s \in TabStates, tab' = [tab EXCEPT ![t] = s], Sound(s)'
  PROVE  /\ tab' \in [Tabs -> TabStates]
         /\ \A u \in Tabs : Sound(tab[u])'
<1>1. tab \in [Tabs -> TabStates] /\ submits \in Nat /\ idp \in Idps
  BY HandOverAssumption DEF HandOverInv, TypeOK, TabStates, Idps
<1>2. ASSUME NEW u \in Tabs PROVE Sound(tab[u])'
  <2>1 CASE u = t
    <3>1. tab'[u] = s
      BY <1>1, <2>1
    <3> QED
      BY <3>1 DEF Sound
  <2>2 CASE u # t
    <3>1. tab'[u] = tab[u]
      BY <1>1, <2>2
    <3>2. PICK r : r = tab[u]
      OBVIOUS
    <3>3. Sound(r)
      BY <3>2 DEF HandOverInv
    <3>4. Sound(r)'
      BY <1>1, <3>3, SoundStays
    <3> QED
      BY <3>1, <3>2, <3>4 DEF Sound
  <2> QED
    BY <2>1, <2>2
<1> QED
  BY <1>1, <1>2

\* No page moves.
LEMMA NoPageMoves ==
  ASSUME HandOverInv, idp' \in Idps, Onward, UNCHANGED <<kind, tab, submits>>
  PROVE  \A u \in Tabs : Sound(tab[u])'
<1>1. submits \in Nat /\ idp \in Idps
  BY HandOverAssumption DEF HandOverInv, TypeOK, Idps
<1>2. ASSUME NEW u \in Tabs PROVE Sound(tab[u])'
  <2>1. PICK r : r = tab[u]
    OBVIOUS
  <2>2. Sound(r)
    BY <2>1 DEF HandOverInv
  <2>3. Sound(r)'
    BY <1>1, <2>2, SoundStays
  <2> QED
    BY <2>1, <2>3 DEF Sound
<1> QED
  BY <1>2

\* A page goes on with its link and its submission.
LEMMA GoesIs ==
  ASSUME tab \in [Tabs -> TabStates], NEW t \in Tabs, NEW page \in Pages, NEW wire \in Wires,
         Goes(t, page, wire)
  PROVE  \E s \in TabStates : /\ tab' = [tab EXCEPT ![t] = s]
                              /\ s.page = page /\ s.wire = wire
                              /\ s.link = tab[t].link /\ s.by = tab[t].by
<1> DEFINE s == [[tab[t] EXCEPT !.page = page] EXCEPT !.wire = wire]
<1>1. s \in TabStates /\ s.page = page /\ s.wire = wire /\ s.link = tab[t].link /\ s.by = tab[t].by
  BY DEF TabStates
<1>2. tab' = [tab EXCEPT ![t] = s]
  BY DEF Goes
<1> HIDE DEF s
<1> QED
  BY <1>1, <1>2

Adrifts == [by : 1..MaxSubmits, link : Links]

Panels == [screen : {"new", "detail", "gone"}, error : BOOLEAN,
           call : {"none", "out", "issued", "refused", "denied"},
           link : 0..MaxLinks, kept : 0..MaxLinks]

\* The typing by its parts.
LEMMA HandOverTyped ==
  TypeOK <=> /\ kind \in Kinds /\ idp \in Idps /\ adrift \subseteq Adrifts /\ panel \in Panels
             /\ tab \in [Tabs -> TabStates] /\ submits \in 0..MaxSubmits
BY DEF TypeOK, Idps, Adrifts, Panels, TabStates

\* And after a step.
LEMMA HandOverTypedNext ==
  ASSUME kind' \in Kinds, idp' \in Idps, adrift' \subseteq Adrifts, panel' \in Panels,
         tab' \in [Tabs -> TabStates], submits' \in 0..MaxSubmits
  PROVE  TypeOK'
BY DEF TypeOK, Idps, Adrifts, Panels, TabStates

\* A page that moves while nothing else does.
LEMMA PageMoves ==
  ASSUME HandOverInv, UNCHANGED <<kind, idp, panel, submits>>, adrift' \subseteq Adrifts,
         NEW t \in Tabs, NEW s \in TabStates, tab' = [tab EXCEPT ![t] = s], Sound(s)
  PROVE  HandOverInv'
<1>1. idp \in Idps /\ idp' \in Idps /\ submits \in Nat /\ submits' \in Nat /\ submits <= submits'
  BY HandOverTyped, HandOverAssumption DEF HandOverInv
<1>2. Onward
  BY <1>1, OnwardSame
<1>3. Sound(s)'
  BY <1>1, <1>2, SoundStays
<1>4. tab' \in [Tabs -> TabStates] /\ \A u \in Tabs : Sound(tab[u])'
  BY <1>1, <1>2, <1>3, OnePageMoves
<1>5. TypeOK'
  <2>1. kind' \in Kinds /\ idp' \in Idps /\ panel' \in Panels /\ submits' \in 0..MaxSubmits
    BY HandOverTyped DEF HandOverInv
  <2> QED
    BY <1>4, <2>1, HandOverTypedNext
<1> QED
  BY <1>4, <1>5 DEF HandOverInv, TriesLeft

\* The account changes, or what the console page shows, and no page moves.
LEMMA AccountMoves ==
  ASSUME HandOverInv, Onward, UNCHANGED <<kind, tab, submits>>, idp' \in Idps, TriesLeft',
         panel' \in Panels, adrift' \subseteq Adrifts
  PROVE  HandOverInv'
<1>1. TypeOK'
  <2>1. kind' \in Kinds /\ tab' \in [Tabs -> TabStates] /\ submits' \in 0..MaxSubmits
    BY HandOverTyped DEF HandOverInv
  <2> QED
    BY <2>1, HandOverTypedNext
<1> QED
  BY <1>1, NoPageMoves DEF HandOverInv

\* What a page leaves behind names its link and its submission.
LEMMA DriftsTyped ==
  ASSUME HandOverInv, NEW t \in Tabs, Drifts(t)
  PROVE  adrift' \subseteq Adrifts
<1>1. /\ adrift \subseteq Adrifts /\ submits \in 0..MaxSubmits /\ idp.newest \in 0..MaxLinks
      /\ Sound(tab[t])
  BY HandOverTyped DEF HandOverInv, Idps
<1>2. tab[t].page = "sending" => tab[t].by \in 1..submits /\ tab[t].link \in 1..idp.newest
  BY <1>1 DEF Sound
<1>3. tab[t].page = "sending" => tab[t].by \in 1..MaxSubmits /\ tab[t].link \in Links
  BY <1>1, <1>2, HandOverAssumption DEF Links
<1> QED
  BY <1>1, <1>3 DEF Drifts, Adrifts

\* The console page.
LEMMA PanelTyped ==
  ASSUME panel \in Panels, idp \in Idps
  PROVE  /\ \A shown \in {"new", "detail", "gone"} : Screen(shown) \in Panels
         /\ \A c \in {"out", "issued", "refused", "denied"} : [panel EXCEPT !.call = c] \in Panels
         /\ ShowsError \in Panels /\ \A whole \in BOOLEAN : Learns(whole) \in Panels
<1>1. 0 \in 0..MaxLinks /\ idp.mine \in 0..MaxLinks
  BY HandOverAssumption DEF Idps
<1>2. ASSUME NEW shown \in {"new", "detail", "gone"} PROVE Screen(shown) \in Panels
  BY <1>1 DEF Screen, Panels, NoLink
<1>3. ASSUME NEW c \in {"out", "issued", "refused", "denied"} PROVE [panel EXCEPT !.call = c] \in Panels
  BY DEF Panels
<1>4. ShowsError \in Panels
  BY <1>1 DEF ShowsError, Panels, NoLink
<1>5. ShowsIssued(idp.mine) \in Panels
  BY <1>1 DEF ShowsIssued, Panels, NoLink
<1>6. ASSUME NEW whole \in BOOLEAN PROVE Learns(whole) \in Panels
  BY <1>2, <1>4, <1>5, Zenon DEF Learns
<1> QED
  BY <1>2, <1>3, <1>4, <1>6

\* Every step keeps the invariant.
LEMMA NextHandOverInv == HandOverInv /\ [Next]_vars => HandOverInv'
<1> SUFFICES ASSUME HandOverInv, [Next]_vars PROVE HandOverInv'
  OBVIOUS
<1>a. /\ kind \in Kinds /\ idp \in Idps /\ adrift \subseteq Adrifts /\ panel \in Panels
      /\ tab \in [Tabs -> TabStates] /\ submits \in 0..MaxSubmits
  BY HandOverTyped DEF HandOverInv
<1>b. TriesLeft /\ \A t \in Tabs : Sound(tab[t])
  BY DEF HandOverInv
<1>c. MaxLinks \in Nat /\ MaxSubmits \in Nat /\ MaxWeak \in Nat \ {0} /\ idp.newest \in Nat
  BY <1>a, HandOverAssumption DEF Idps
<1>1 CASE UNCHANGED vars
  BY <1>a, <1>b, <1>1, OnwardSame, AccountMoves DEF vars, TriesLeft
<1>2 CASE IssueElsewhere
  <2>1. idp.newest < MaxLinks /\ idp' = Issued(FALSE) /\ UNCHANGED <<kind, adrift, panel, tab, submits>>
    BY <1>2 DEF IssueElsewhere, Grants
  <2>2. idp' \in Idps /\ TriesLeft'
    BY <1>a, <2>1, IssuedTells DEF TriesLeft
  <2> QED
    BY <1>a, <2>1, <2>2, OnwardIssued, AccountMoves
<1>3 CASE Expire
  <2>1. idp' = [idp EXCEPT !.open = FALSE] /\ UNCHANGED <<kind, adrift, panel, tab, submits>>
    BY <1>3 DEF Expire
  <2>2. idp' \in Idps /\ ~idp'.open /\ idp'.newest = idp.newest /\ idp'.set = idp.set /\ idp'.active = idp.active
    BY <1>a, <2>1 DEF Idps
  <2>3. Onward /\ TriesLeft'
    BY <1>c, <2>2 DEF Onward, Redeems, TriesLeft
  <2> QED
    BY <1>a, <2>1, <2>2, <2>3, AccountMoves
<1>4 CASE ServeAdrift
  <2>1. PICK lost \in adrift : \E out \in Redemptions(lost.link, lost.by) :
          adrift' = adrift \ {lost} /\ idp' = out[1]
    BY <1>4 DEF ServeAdrift
  <2>2. PICK out \in Redemptions(lost.link, lost.by) : adrift' = adrift \ {lost} /\ idp' = out[1]
    BY <2>1
  <2>3. lost.link \in Links /\ lost.by \in 1..MaxSubmits
    BY <1>a DEF Adrifts
  <2>4. <<idp', out[2]>> \in Redemptions(lost.link, lost.by)
    BY <2>2, RedemptionIsPair
  <2>5. Onward /\ idp' \in Idps /\ TriesLeft'
    BY <1>a, <1>b, <2>3, <2>4, OnwardRedeemed
  <2>6. UNCHANGED <<kind, panel, tab, submits>> /\ adrift' \subseteq Adrifts
    BY <1>4, <1>a, <2>2 DEF ServeAdrift
  <2> QED
    BY <1>a, <2>5, <2>6, AccountMoves
<1>5. ASSUME panel' \in Panels, UNCHANGED <<kind, idp, adrift, tab, submits>> PROVE HandOverInv'
  BY <1>5, <1>a, <1>b, OnwardSame, AccountMoves DEF TriesLeft
<1>6. ASSUME NEW shown \in {"new", "detail"}, Visit(shown) PROVE HandOverInv'
  BY <1>6, <1>5, <1>a, PanelTyped DEF Visit
<1>7 CASE AskIssue
  BY <1>7, <1>5, <1>a, PanelTyped DEF AskIssue
<1>8 CASE ServeIssue
  <2>1 CASE UNCHANGED idp
    <3>1. panel' \in Panels
      BY <1>8, <1>a, PanelTyped DEF ServeIssue
    <3> QED
      BY <1>8, <2>1, <3>1, <1>5 DEF ServeIssue
  <2>2 CASE Grants(panel.screen) /\ panel' = [panel EXCEPT !.call = "issued"] /\ idp' = Issued(TRUE)
    <3>1. idp.newest < MaxLinks /\ panel' \in Panels
      BY <1>a, <2>2, PanelTyped DEF Grants
    <3>2. idp' \in Idps /\ TriesLeft' /\ Onward
      BY <1>a, <2>2, <3>1, IssuedTells, OnwardIssued DEF TriesLeft
    <3> QED
      BY <1>8, <1>a, <3>1, <3>2, AccountMoves DEF ServeIssue
  <2> QED
    BY <1>8, <2>1, <2>2, Zenon DEF ServeIssue
<1>9 CASE GotIssue
  <2>1. panel' \in Panels
    BY <1>9, <1>a, PanelTyped DEF GotIssue
  <2> QED
    BY <1>9, <2>1, <1>5 DEF GotIssue
<1>10. ASSUME NEW t \in Tabs, NEW l \in Links, Open(t, l) PROVE HandOverInv'
  <2>1. PICK page \in OpensAs(l) : tab' = [tab EXCEPT ![t] = [page |-> page, link |-> l, by |-> 0, wire |-> "none"]]
    BY <1>10, Zenon DEF Open
  <2>2. /\ page \in {"form", "unusable", "already", "limited", "down"}
        /\ kind = "invite" /\ page = "unusable" => ~Redeems(l)
        /\ page = "already" => idp.active
    <3>1 CASE kind = "mailed reset"
      <4>1. OpensAs(l) = {"form"}
        BY <3>1, Zenon DEF OpensAs
      <4> QED
        BY <2>1, <3>1, <4>1
    <3>2 CASE kind # "mailed reset"
      <4>1. OpensAs(l) = Findings(l)
        BY <3>2, Zenon DEF OpensAs
      <4>2. PICK a \in Checks(l) \cup {"lost", "fault"}, whole \in BOOLEAN : page = Checked(a, whole)
        BY <2>1, <4>1 DEF Findings
      <4>3. kind \in Kinds \ {"mailed reset"}
        BY <1>a, <3>2
      <4> QED
        BY <4>2, <4>3, CheckedTells, Zenon
    <3> QED
      BY <3>1, <3>2
  <2>3. PICK s : s = [page |-> page, link |-> l, by |-> 0, wire |-> "none"]
    OBVIOUS
  <2>4. s \in TabStates /\ s.page = page /\ s.link = l /\ s.wire = "none"
    <3>1. page \in Pages /\ l \in 0..MaxLinks /\ 0 \in 0..MaxSubmits /\ "none" \in Wires
      BY <1>c, <2>2 DEF Pages, Wires, Links
    <3> QED
      BY <2>3, <3>1 DEF TabStates
  <2>5. l \in 1..idp.newest
    <3>1. l <= idp.newest
      BY <1>10, Zenon DEF Open
    <3> QED
      BY <3>1, <1>c DEF Links
  <2>6. Sound(s)
    BY <2>2, <2>4, <2>5 DEF Sound, Told
  <2>7. adrift' \subseteq Adrifts /\ UNCHANGED <<kind, idp, panel, submits>>
    BY <1>10, DriftsTyped DEF Open
  <2> QED
    BY <2>1, <2>3, <2>4, <2>6, <2>7, PageMoves
<1>11. ASSUME NEW t \in Tabs, Submit(t) PROVE HandOverInv'
  <2>1. submits' = submits + 1 /\ submits' \in 1..MaxSubmits /\ tab[t].page = "form"
        /\ UNCHANGED <<kind, idp, adrift, panel>>
    BY <1>11, <1>a, <1>c DEF Submit
  <2>2. PICK page : page = (IF kind = "activation" THEN "checking" ELSE "sending")
    OBVIOUS
  <2>3. page \in {"checking", "sending"} /\ (page = "checking" => kind = "activation")
    BY <2>2
  <2>4. PICK by : by = submits + 1
    OBVIOUS
  <2>5. PICK s : s = [[[tab[t] EXCEPT !.by = by] EXCEPT !.wire = "out"] EXCEPT !.page = page]
    OBVIOUS
  <2>6. tab' = [tab EXCEPT ![t] = s]
    BY <1>11, <2>2, <2>4, <2>5 DEF Submit
  <2>7. s \in TabStates /\ s.page = page /\ s.by = by /\ s.wire = "out" /\ s.link = tab[t].link
    <3>1. page \in Pages /\ by \in 0..MaxSubmits /\ "out" \in Wires /\ tab[t] \in TabStates
      BY <1>a, <1>c, <2>1, <2>3, <2>4 DEF Pages, Wires
    <3> QED
      BY <2>5, <3>1 DEF TabStates
  <2>8. s.link \in 1..idp.newest
    BY <1>b, <2>1, <2>7 DEF Sound
  <2>9. Sound(s)'
    <3>1. s.by \in 1..submits' /\ s.link \in 1..idp'.newest /\ (s.page = "checking" => kind' = "activation")
      BY <1>a, <1>c, <2>1, <2>3, <2>4, <2>7, <2>8
    <3>2. s.page \in {"checking", "sending"} /\ s.wire = "out"
      BY <2>3, <2>7
    <3> QED
      BY <3>1, <3>2 DEF Sound, Told
  <2>10. /\ tab' \in [Tabs -> TabStates] /\ \A u \in Tabs : Sound(tab[u])'
    <3>1. Onward /\ kind' = kind /\ submits' \in Nat /\ submits <= submits' /\ idp' \in Idps
      BY <1>a, <1>c, <2>1, OnwardSame
    <3> QED
      BY <2>6, <2>7, <2>9, <3>1, OnePageMoves
  <2>11. TypeOK'
    BY <1>a, <2>1, <2>10, HandOverTypedNext
  <2> QED
    BY <1>b, <2>1, <2>10, <2>11 DEF HandOverInv, TriesLeft
<1>12. ASSUME NEW t \in Tabs, NEW page \in Pages, NEW wire \in Wires, Goes(t, page, wire),
              UNCHANGED <<kind, idp, panel, submits>>, adrift' \subseteq Adrifts,
              \A s \in TabStates : /\ s.page = page /\ s.wire = wire
                                   /\ s.link = tab[t].link /\ s.by = tab[t].by
                                   => Sound(s)
       PROVE  HandOverInv'
  BY <1>12, <1>a, GoesIs, PageMoves
<1>13. ASSUME NEW t \in Tabs, ServeCheck(t) PROVE HandOverInv'
  <2>1. PICK a \in Checks(tab[t].link) : Goes(t, "checking", a)
    BY <1>13 DEF ServeCheck
  <2>2. a \in {"valid", "invalid", "already", "limited"} /\ (a = "already" => idp.active)
    BY DEF Checks
  <2>3. "checking" \in Pages /\ a \in Wires
    BY <2>2 DEF Pages, Wires
  <2>4. Sound(tab[t]) /\ tab[t].page = "checking"
    BY <1>13, <1>b DEF ServeCheck
  <2>5. \A s \in TabStates : s.page = "checking" /\ s.wire = a /\ s.link = tab[t].link /\ s.by = tab[t].by
                               => Sound(s)
    BY <2>2, <2>4 DEF Sound, Told
  <2> QED
    BY <1>13, <1>a, <2>1, <2>3, <2>5, <1>12 DEF ServeCheck
<1>14. ASSUME NEW t \in Tabs, GotRechecked(t) PROVE HandOverInv'
  <2>1. PICK a \in Answers(t), whole \in BOOLEAN :
          CASE ActivationChecked(a, whole) = "form" -> Goes(t, "sending", "out")
            [] ActivationChecked(a, whole) = "already" -> Goes(t, "already", "none")
            [] OTHER -> Goes(t, "spent", "none")
    BY <1>14 DEF GotRechecked
  <2>2. Sound(tab[t]) /\ tab[t].page = "checking" /\ kind = "activation"
    BY <1>14, <1>b DEF GotRechecked, Sound
  <2>3. ActivationChecked(a, whole) = "already" => idp.active
    BY <2>2 DEF Answers, ActivationChecked, Sound
  <2>4. \E page \in {"sending", "already", "spent"}, wire \in {"out", "none"} :
          Goes(t, page, wire) /\ (page = "already" => idp.active)
    BY <2>1, <2>3
  <2>5. PICK page \in {"sending", "already", "spent"}, wire \in {"out", "none"} :
          Goes(t, page, wire) /\ (page = "already" => idp.active)
    BY <2>4
  <2>6. page \in Pages /\ wire \in Wires
    BY DEF Pages, Wires
  <2>7. \A s \in TabStates : s.page = page /\ s.wire = wire /\ s.link = tab[t].link /\ s.by = tab[t].by
                               => Sound(s)
    BY <2>2, <2>5 DEF Sound, Told
  <2> QED
    BY <1>14, <1>a, <2>5, <2>6, <2>7, <1>12 DEF GotRechecked
<1>15. ASSUME NEW t \in Tabs, ServeConsume(t) PROVE HandOverInv'
  <2>1. PICK out \in Redemptions(tab[t].link, tab[t].by) : idp' = out[1] /\ Goes(t, "sending", out[2])
    BY <1>15 DEF ServeConsume
  <2>2. PICK told : told = out[2]
    OBVIOUS
  <2>3. <<idp', told>> \in Redemptions(tab[t].link, tab[t].by)
    BY <2>1, <2>2, RedemptionIsPair
  <2>4. tab[t].page = "sending" /\ tab[t].link \in 1..idp.newest /\ tab[t].by \in 1..submits
    BY <1>15, <1>b DEF ServeConsume, Sound
  <2>5. tab[t].link \in Links /\ tab[t].by \in 1..MaxSubmits
    BY <1>a, <1>c, <2>4 DEF Links, Idps
  <2>6. Onward /\ idp' \in Idps /\ TriesLeft'
    BY <1>a, <1>b, <2>3, <2>5, OnwardRedeemed
  <2>7. /\ told \in Wires
        /\ told \in {"set", "unended"} => tab[t].by \in idp'.set
        /\ told \in {"refused", "burned"} => ~(tab[t].link = idp'.newest /\ idp'.open)
        /\ told = "already" => idp'.active
        /\ idp'.newest = idp.newest
    BY <1>a, <1>b, <2>3, <2>5, RedemptionTells
  <2>8. PICK s \in TabStates : /\ tab' = [tab EXCEPT ![t] = s]
                               /\ s.page = "sending" /\ s.wire = told
                               /\ s.link = tab[t].link /\ s.by = tab[t].by
    BY <1>a, <2>1, <2>2, <2>7, GoesIs DEF Pages
  <2>9. UNCHANGED <<kind, adrift, panel, submits>>
    BY <1>15 DEF ServeConsume
  <2>10. Sound(s)'
    BY <2>4, <2>7, <2>8, <2>9 DEF Sound, Redeems, Told
  <2>11. tab' \in [Tabs -> TabStates] /\ \A u \in Tabs : Sound(tab[u])'
    <3>1. kind' = kind /\ submits' \in Nat /\ submits <= submits'
      BY <1>a, <1>c, <2>9
    <3> QED
      BY <2>6, <2>8, <2>10, <3>1, OnePageMoves
  <2>12. TypeOK'
    BY <1>a, <2>6, <2>9, <2>11, HandOverTypedNext
  <2> QED
    BY <2>6, <2>11, <2>12 DEF HandOverInv
<1>16. ASSUME NEW t \in Tabs, GotConsumed(t) PROVE HandOverInv'
  <2>1. PICK a \in Answers(t), whole \in BOOLEAN :
          Goes(t, Consumed(a, whole), IF Consumed(a, whole) = "probing" THEN "out" ELSE "none")
    BY <1>16 DEF GotConsumed
  <2>2. PICK page : page = Consumed(a, whole)
    OBVIOUS
  <2>3. PICK wire \in {"out", "none"} : Goes(t, page, wire)
    BY <2>1, <2>2
  <2>4. /\ page \in {"form", "probing", "ready", "already", "spent", "burned"}
        /\ page \in {"probing", "ready"} => a \in {"set", "unended"}
        /\ page = "already" => a = "already"
        /\ kind \in {"claim", "invite", "reset link"} /\ page \in {"spent", "burned"}
             => a \in {"refused", "burned"}
    BY <1>a, <2>2, ConsumedTells
  <2>5. a \in {"set", "unended", "already", "refused", "burned"} => a = tab[t].wire
    BY DEF Answers
  <2>6. Sound(tab[t]) /\ tab[t].page = "sending"
    BY <1>16, <1>b DEF GotConsumed
  <2>7. \A s \in TabStates : s.page = page /\ s.wire = wire /\ s.link = tab[t].link /\ s.by = tab[t].by
                               => Sound(s)
    BY <2>4, <2>5, <2>6 DEF Sound, Told
  <2>8. page \in Pages /\ wire \in Wires
    BY <2>4 DEF Pages, Told, Wires
  <2>9. adrift' \subseteq Adrifts /\ UNCHANGED <<kind, idp, panel, submits>>
    BY <1>16, DriftsTyped DEF GotConsumed
  <2> QED
    BY <2>3, <2>7, <2>8, <2>9, <1>12
<1>17. ASSUME NEW t \in Tabs, ServeProbe(t) PROVE HandOverInv'
  <2>1. PICK wire \in {"session", "refused"} : Goes(t, "probing", wire)
    BY <1>17 DEF ServeProbe
  <2>2. Sound(tab[t]) /\ tab[t].page = "probing"
    BY <1>17, <1>b DEF ServeProbe
  <2>3. \A s \in TabStates : s.page = "probing" /\ s.wire = wire /\ s.link = tab[t].link /\ s.by = tab[t].by
                               => Sound(s)
    BY <2>2 DEF Sound, Told
  <2>4. "probing" \in Pages /\ wire \in Wires
    BY DEF Pages, Wires
  <2> QED
    BY <1>17, <1>a, <2>1, <2>3, <2>4, <1>12 DEF ServeProbe
<1>18. ASSUME NEW t \in Tabs, GotProbed(t) PROVE HandOverInv'
  <2>1. PICK page \in {"enrol", "ready"} : Goes(t, page, "none")
    BY <1>18 DEF GotProbed
  <2>2. Sound(tab[t]) /\ tab[t].page = "probing"
    BY <1>18, <1>b DEF GotProbed
  <2>3. \A s \in TabStates : s.page = page /\ s.wire = "none" /\ s.link = tab[t].link /\ s.by = tab[t].by
                               => Sound(s)
    BY <2>2 DEF Sound, Told
  <2>4. page \in Pages /\ "none" \in Wires
    BY DEF Pages, Wires, Told
  <2> QED
    BY <1>18, <1>a, <2>1, <2>3, <2>4, <1>12 DEF GotProbed
<1>19. ASSUME NEW t \in Tabs, LeaveEnrolment(t) PROVE HandOverInv'
  <2>1. PICK page \in {"enrolled", "away"} : Goes(t, page, "none")
    BY <1>19 DEF LeaveEnrolment
  <2>2. Sound(tab[t]) /\ tab[t].page = "enrol"
    BY <1>19, <1>b DEF LeaveEnrolment
  <2>3. \A s \in TabStates : s.page = page /\ s.wire = "none" /\ s.link = tab[t].link /\ s.by = tab[t].by
                               => Sound(s)
    BY <2>2 DEF Sound, Told
  <2>4. page \in Pages /\ "none" \in Wires
    BY DEF Pages, Wires, Told
  <2> QED
    BY <1>19, <1>a, <2>1, <2>3, <2>4, <1>12 DEF LeaveEnrolment
<1> QED
  BY <1>1, <1>2, <1>3, <1>4, <1>6, <1>7, <1>8, <1>9, <1>10, <1>11, <1>13, <1>14, <1>15, <1>16, <1>17,
     <1>18, <1>19, Zenon DEF Next

\* Before anything is issued the invariant holds,
LEMMA InitHandOverInv == Init => HandOverInv
<1> SUFFICES ASSUME Init PROVE HandOverInv
  OBVIOUS
<1>1. 0 \in 0..MaxLinks /\ 0 \in 0..MaxWeak /\ 0 \in 0..MaxSubmits
  BY HandOverAssumption
<1>2. idp \in Idps /\ ~idp.open
  <2>1. idp = [exists |-> ~Creates, active |-> kind \in {"reset link", "mailed reset"}, newest |-> 0,
               open |-> FALSE, weak |-> 0, mine |-> 0, set |-> {}]
    BY DEF Init, NoLink
  <2>2. (~Creates) \in BOOLEAN /\ (kind \in {"reset link", "mailed reset"}) \in BOOLEAN
    BY DEF Creates
  <2>3. {} \in SUBSET (1..MaxSubmits)
    OBVIOUS
  <2> HIDE DEF Creates
  <2> QED
    BY <1>1, <2>1, <2>2, <2>3 DEF Idps
<1>3. panel \in Panels
  BY <1>1 DEF Init, Screen, Panels, NoLink
<1>4. \A t \in Tabs : tab[t] = [page |-> "away", link |-> NoLink, by |-> 0, wire |-> "none"]
  BY DEF Init
<1>5. tab \in [Tabs -> TabStates]
  <2>1. [page |-> "away", link |-> NoLink, by |-> 0, wire |-> "none"] \in TabStates
    BY <1>1 DEF TabStates, Pages, Wires, NoLink
  <2> QED
    BY <2>1, Zenon DEF Init
<1>6. \A t \in Tabs : Sound(tab[t])
  <2>1. [page |-> "away", link |-> NoLink, by |-> 0, wire |-> "none"].page = "away"
    OBVIOUS
  <2>2. \A t \in Tabs : tab[t].page = "away"
    BY <1>4, <2>1, Zenon
  <2> QED
    BY <2>2 DEF Sound, Told
<1>7. TypeOK
  <2>1. kind \in Kinds /\ adrift \subseteq Adrifts /\ submits \in 0..MaxSubmits
    <3>1. kind \in Kinds /\ adrift = {} /\ submits = 0
      BY Zenon DEF Init
    <3> QED
      BY <1>1, <3>1
  <2> QED
    BY <1>2, <1>3, <1>5, <2>1, HandOverTyped
<1> QED
  BY <1>2, <1>6, <1>7 DEF HandOverInv, TriesLeft

\* ... and it does ever after.
LEMMA HandOverHolds == Spec => []HandOverInv
BY InitHandOverInv, NextHandOverInv, PTL DEF Spec

\* No step of a page moves the newest link the panel's requests led to.
LEMMA PanelAlone ==
  ASSUME HandOverInv,
         NEW t \in Tabs,
         \/ \E l \in Links : Open(t, l)
         \/ Submit(t) \/ ServeCheck(t) \/ GotRechecked(t)
         \/ ServeConsume(t) \/ GotConsumed(t)
         \/ ServeProbe(t) \/ GotProbed(t) \/ LeaveEnrolment(t)
  PROVE  UNCHANGED panel /\ idp'.mine = idp.mine
<1>a. idp \in Idps /\ TriesLeft /\ submits \in 0..MaxSubmits /\ Sound(tab[t])
  BY HandOverTyped DEF HandOverInv
<1>1 CASE ServeConsume(t)
  <2>1. PICK out \in Redemptions(tab[t].link, tab[t].by) : idp' = out[1] /\ Goes(t, "sending", out[2])
    BY <1>1 DEF ServeConsume
  <2>2. PICK told : told = out[2]
    OBVIOUS
  <2>3. <<idp', told>> \in Redemptions(tab[t].link, tab[t].by)
    BY <2>1, <2>2, RedemptionIsPair
  <2>4. tab[t].link \in 1..idp.newest /\ tab[t].by \in 1..submits
    BY <1>1, <1>a DEF ServeConsume, Sound
  <2>5. tab[t].link \in Links /\ tab[t].by \in 1..MaxSubmits
    BY <1>a, <2>4, HandOverAssumption DEF Links, Idps
  <2> QED
    BY <1>1, <1>a, <2>3, <2>5, OnwardRedeemed DEF ServeConsume
<1>2 CASE \E l \in Links : Open(t, l)
  BY <1>2, Zenon DEF Open
<1>3 CASE Submit(t) \/ ServeCheck(t) \/ GotRechecked(t) \/ GotConsumed(t)
          \/ ServeProbe(t) \/ GotProbed(t) \/ LeaveEnrolment(t)
  BY <1>3, Zenon DEF Submit, ServeCheck, GotRechecked, GotConsumed, ServeProbe, GotProbed, LeaveEnrolment
<1> QED
  BY <1>1, <1>2, <1>3

\* Every step keeps a retired link flagged.
LEMMA NextStaleLinkIsFlagged ==
  HandOverInv /\ StaleLinkIsFlagged /\ [Next]_vars => StaleLinkIsFlagged'
<1> SUFFICES ASSUME HandOverInv, StaleLinkIsFlagged, [Next]_vars PROVE StaleLinkIsFlagged'
  OBVIOUS
<1>a. idp \in Idps /\ TriesLeft /\ panel \in Panels /\ adrift \subseteq Adrifts
  BY HandOverTyped DEF HandOverInv
<1>1. ASSUME UNCHANGED panel, idp'.mine = idp.mine PROVE StaleLinkIsFlagged'
  BY <1>1 DEF StaleLinkIsFlagged, Shown
<1>2. ASSUME NEW shown, panel' = Screen(shown) PROVE StaleLinkIsFlagged'
  BY <1>2 DEF StaleLinkIsFlagged, Shown, Screen, NoLink
<1>3 CASE UNCHANGED vars
  BY <1>1, <1>3 DEF vars
<1>4 CASE IssueElsewhere
  <2>1. idp.newest < MaxLinks /\ idp' = Issued(FALSE) /\ UNCHANGED panel
    BY <1>4 DEF IssueElsewhere, Grants
  <2> QED
    BY <1>1, <1>a, <2>1, IssuedTells
<1>5 CASE Expire
  <2>1. UNCHANGED panel /\ idp' = [idp EXCEPT !.open = FALSE]
    BY <1>5 DEF Expire
  <2>2. idp'.mine = idp.mine
    BY <1>a, <2>1 DEF Idps
  <2> QED
    BY <1>1, <2>1, <2>2
<1>6 CASE ServeAdrift
  <2>1. PICK lost \in adrift : \E out \in Redemptions(lost.link, lost.by) : idp' = out[1]
    BY <1>6 DEF ServeAdrift
  <2>2. PICK out \in Redemptions(lost.link, lost.by) : idp' = out[1]
    BY <2>1
  <2>3. lost.link \in Links /\ lost.by \in 1..MaxSubmits
    BY <1>a DEF Adrifts
  <2>4. <<idp', out[2]>> \in Redemptions(lost.link, lost.by)
    BY <2>2, RedemptionIsPair
  <2> QED
    BY <1>1, <1>6, <1>a, <2>3, <2>4, OnwardRedeemed DEF ServeAdrift
<1>7. ASSUME NEW shown \in {"new", "detail"}, Visit(shown) PROVE StaleLinkIsFlagged'
  BY <1>2, <1>7 DEF Visit
<1>8 CASE AskIssue
  <2>1 CASE panel' = Screen("gone")
    BY <1>2, <2>1
  <2>2 CASE panel' = [panel EXCEPT !.call = "out"]
    <3>1. panel'.call = "out"
      BY <1>a, <2>2 DEF Panels
    <3> QED
      BY <3>1 DEF StaleLinkIsFlagged
  <2> QED
    BY <1>8, <2>1, <2>2 DEF AskIssue
<1>9 CASE ServeIssue
  <2>1. \E c \in {"issued", "refused", "denied"} : panel' = [panel EXCEPT !.call = c]
    BY <1>9 DEF ServeIssue
  <2>2. panel'.call # "none"
    BY <1>a, <2>1 DEF Panels
  <2> QED
    BY <2>2 DEF StaleLinkIsFlagged
<1>10 CASE GotIssue
  <2>1. UNCHANGED idp
    BY <1>10 DEF GotIssue
  <2>2. panel' = ShowsError \/ panel' = Screen("gone") \/ panel' = ShowsIssued(idp.mine)
    <3>1. \A whole \in BOOLEAN : Learns(whole) \in {ShowsError, Screen("gone"), ShowsIssued(idp.mine)}
      BY Zenon DEF Learns
    <3> QED
      BY <1>10, <3>1 DEF GotIssue
  <2>3 CASE panel' = ShowsError
    <3>1. panel'.error
      BY <1>a, <2>3 DEF ShowsError, Panels
    <3> QED
      BY <3>1 DEF StaleLinkIsFlagged
  <2>4 CASE panel' = ShowsIssued(idp.mine)
    <3>1. panel'.link = idp.mine /\ (panel'.kept = idp.mine \/ panel'.kept = NoLink)
      BY <1>a, <2>4 DEF ShowsIssued, Panels
    <3>2. Shown' = idp.mine \/ Shown' = NoLink
      BY <3>1 DEF Shown
    <3>3. idp.mine \in Nat
      BY <1>a, HandOverAssumption DEF Idps
    <3> QED
      BY <2>1, <3>2, <3>3 DEF StaleLinkIsFlagged
  <2> QED
    BY <1>2, <2>2, <2>3, <2>4
<1>11. ASSUME NEW t \in Tabs,
              \/ \E l \in Links : Open(t, l)
              \/ Submit(t) \/ ServeCheck(t) \/ GotRechecked(t)
              \/ ServeConsume(t) \/ GotConsumed(t)
              \/ ServeProbe(t) \/ GotProbed(t) \/ LeaveEnrolment(t)
       PROVE  StaleLinkIsFlagged'
  BY <1>1, <1>11, PanelAlone
<1> QED
  BY <1>3, <1>4, <1>5, <1>6, <1>7, <1>8, <1>9, <1>10, <1>11, Zenon DEF Next

\* A page that says the password is set says it of the one submitted there
\* last (consumeClaimAction, redeemInviteAction, redeemResetLinkAction,
\* consumeResetTokenAction and the probe of the claim and activation forms).
THEOREM SetIsMineHolds == Spec => []SetIsMine
<1>1. HandOverInv => SetIsMine
  BY DEF HandOverInv, Sound, SetIsMine
<1> QED
  BY <1>1, HandOverHolds, PTL

\* An invite page that calls its link dead is right, and so are the claim and
\* reset-link forms once they were submitted, and an activation page that
\* calls the organization active.  Nothing is said of the first check of a
\* claim, activation or reset link, nor of the form of a mailed reset: they
\* call a link dead after a network error too.
THEOREM DeadIsDeadHolds == Spec => []DeadIsDead
<1>1. HandOverInv => DeadIsDead
  BY DEF HandOverInv, Sound, DeadIsDead
<1> QED
  BY <1>1, HandOverHolds, PTL

\* A link that an issue of the console page retired is never shown as good
\* (IssueClaimButton and the pages that issue the other links).
THEOREM StaleLinkIsFlaggedHolds == Spec => []StaleLinkIsFlagged
<1>1. Init => StaleLinkIsFlagged
  <2>1. Init => panel = Screen("gone")
    BY Zenon DEF Init
  <2>2. panel = Screen("gone") => Shown = NoLink
    BY DEF Shown, Screen
  <2> QED
    BY <2>1, <2>2 DEF StaleLinkIsFlagged
<1> QED
  BY <1>1, HandOverHolds, NextStaleLinkIsFlagged, PTL DEF Spec

-----------------------------------------------------------------------------
(* An organization's applications.                                         *)

Apps == [exists : BOOLEAN, version : Versions, others : Versions]
Forms == [read : {None} \cup Versions, basis : {None} \cup Versions,
          rebuilt : BOOLEAN, latest : {None} \cup Versions, done : BOOLEAN]

\* A save of a page that was not run again is for a version its author knows.
KnowsItsStamp(c) ==
  stamps /\ c.op = "save" /\ ~c.rebuilt => c.stamp # None /\ c.stamp \in c.knew

\* Nobody's change is newer than the application, and what is typed goes back
\* to what the page was built with, unless it was run again since.
ApplicationsInv ==
  /\ ApplicationsTypeOK
  /\ app.others <= app.version
  /\ form.read = None => form.basis = None
  /\ ~form.rebuilt => form.basis \in {None, form.read}
  /\ KnowsItsStamp(call) /\ KnowsItsStamp(late)


\* Sending an action, answering it and reading it again keep what it knows.
LEMMA CallsAre ==
  /\ NoCall \in Calls /\ KnowsItsStamp(NoCall)
  /\ NoCall.op = "none" /\ NoCall.at = "idle" /\ NoForm.read = None
  /\ NoForm.basis = None /\ ~NoForm.rebuilt /\ NoForm \in Forms
<1>1. NoCall \in Calls
  BY DEF NoCall, Calls
<1>2. NoForm \in Forms
  BY DEF NoForm, Forms
<1>3. NoCall.op = "none" /\ NoCall.at = "idle"
  BY DEF NoCall
<1>4. NoForm.read = None /\ NoForm.basis = None /\ ~NoForm.rebuilt
  BY DEF NoForm
<1> QED
  BY <1>1, <1>2, <1>3, <1>4 DEF KnowsItsStamp

\* An answer changes what its call says, and nothing of what it knew.
LEMMA SaysIs ==
  ASSUME NEW c \in Calls, NEW says \in {"ok", "changed", "gone", "refused"}
  PROVE  /\ Says(c, says) \in Calls /\ Says(c, says).at = "back" /\ Says(c, says).says = says
         /\ Says(c, says).op = c.op /\ Says(c, says).rebuilt = c.rebuilt
         /\ Says(c, says).stamp = c.stamp /\ Says(c, says).knew = c.knew
BY DEF Says, Calls

\* An action that has been answered reads the page again.
LEMMA RereadsIs ==
  ASSUME NEW c \in Calls
  PROVE  Rereads(c) \in Calls /\ Rereads(c).op = "reread"
BY DEF Rereads, Calls

\* The versions.
LEMMA VersionsAre ==
  /\ 1 \in Versions /\ Versions \subseteq Nat \ {0} /\ None \notin Versions
  /\ \A v \in Versions : v < MaxVersions => v + 1 \in Versions
BY ApplicationsAssumption DEF Versions, None

\* What serving an action does to the application and what it answers: a save
\* goes through only without a stamp or for the version there is.
LEMMA ServedTells ==
  ASSUME app \in Apps, app.others <= app.version, NEW c \in Calls, KnowsItsStamp(c),
         NEW made, NEW told, <<made, told>> \in Served(c)
  PROVE  /\ made \in Apps /\ made.others <= made.version
         /\ told \in Calls /\ KnowsItsStamp(told)
         /\ c.op = "save" /\ told.says = "ok" => c.stamp \in {None, app.version}
<1>1. \A says \in {"ok", "changed", "gone", "refused"} :
        Says(c, says) \in Calls /\ KnowsItsStamp(Says(c, says)) /\ Says(c, says).says = says
  BY SaysIs DEF KnowsItsStamp
<1> DEFINE reread == [Says(c, "ok") EXCEPT !.found = app.version]
           gone == [app EXCEPT !.exists = FALSE]
<1>2. app.version \in Versions /\ app.others \in Versions
  BY DEF Apps
<1>3. /\ reread \in Calls /\ reread.op = c.op /\ reread.rebuilt = c.rebuilt
      /\ reread.stamp = c.stamp /\ reread.knew = c.knew
  <2>1. PICK s : s = Says(c, "ok")
    OBVIOUS
  <2>2. [s EXCEPT !.found = app.version] \in Calls
    BY <1>1, <1>2, <2>1 DEF Calls
  <2>3. /\ [s EXCEPT !.found = app.version].op = s.op /\ [s EXCEPT !.found = app.version].rebuilt = s.rebuilt
        /\ [s EXCEPT !.found = app.version].stamp = s.stamp /\ [s EXCEPT !.found = app.version].knew = s.knew
    BY <1>1, <2>1 DEF Calls
  <2> QED
    BY <2>1, <2>2, <2>3, SaysIs
<1>4. gone \in Apps /\ gone.version = app.version /\ gone.others = app.others
  BY DEF Apps
<1>5. ASSUME app.version < MaxVersions
      PROVE  Changed \in Apps /\ Changed.version = app.version + 1 /\ Changed.others = app.others
  BY <1>2, <1>5, VersionsAre DEF Changed, Apps
<1> HIDE DEF reread, gone
<1>6. \/ made = app /\ told = Says(c, "refused")
      \/ made = app /\ told = Says(c, "gone")
      \/ c.op = "reread" /\ made = app /\ told = reread
      \/ c.op = "delete" /\ made = gone /\ told = Says(c, "ok")
      \/ made = app /\ told = Says(c, "changed")
      \/ /\ made = Changed /\ told = Says(c, "ok") /\ app.version < MaxVersions
         /\ c.op = "save" => c.stamp \in {None, app.version}
  <2>1 CASE <<made, told>> = <<app, Says(c, "refused")>>
    BY <2>1
  <2>2 CASE <<made, told>> = <<app, Says(c, "gone")>>
    BY <2>2
  <2>3 CASE app.exists /\ c.op = "reread" /\ <<made, told>> = <<app, reread>>
    BY <2>3
  <2>4 CASE app.exists /\ c.op = "delete" /\ <<made, told>> = <<gone, Says(c, "ok")>>
    BY <2>4
  <2>5 CASE <<made, told>> = <<app, Says(c, "changed")>>
    BY <2>5
  <2>6 CASE /\ <<made, told>> = <<Changed, Says(c, "ok")>> /\ app.version < MaxVersions
            /\ ~(c.op = "save" /\ c.stamp \notin {None, app.version})
    BY <2>6
  <2> QED
    BY <2>1, <2>2, <2>3, <2>4, <2>5, <2>6, Zenon DEF Served, reread, gone
<1>7 CASE made = app /\ told \in {Says(c, "refused"), Says(c, "gone"), Says(c, "changed")}
  BY <1>1, <1>7
<1>8 CASE c.op = "reread" /\ made = app /\ told = reread
  BY <1>3, <1>8 DEF KnowsItsStamp
<1>9 CASE c.op = "delete" /\ made = gone /\ told = Says(c, "ok")
  BY <1>1, <1>4, <1>9
<1>10 CASE /\ made = Changed /\ told = Says(c, "ok") /\ app.version < MaxVersions
           /\ c.op = "save" => c.stamp \in {None, app.version}
  <2>1. made \in Apps /\ made.others <= made.version
    <3>1. app.version \in Nat /\ app.others \in Nat
      BY <1>2, VersionsAre
    <3> QED
      BY <1>5, <1>10, <3>1
  <2> QED
    BY <1>1, <1>10, <2>1
<1> QED
  BY <1>6, <1>7, <1>8, <1>9, <1>10

\* What serving an action makes is one of an application and an answer.
LEMMA ServedIsPair ==
  ASSUME NEW c, NEW out \in Served(c)
  PROVE  out = <<out[1], out[2]>>
<1>1. \A a, b : <<a, b>> = <<<<a, b>>[1], <<a, b>>[2]>>
  OBVIOUS
<1>2. \E a, b : out = <<a, b>>
  BY Zenon DEF Served
<1> QED
  BY <1>1, <1>2

\* The page: what it was built with, what is typed, and the action under way.
PageIsSound ==
  /\ form \in Forms
  /\ form.read = None => form.basis = None
  /\ ~form.rebuilt => form.basis \in {None, form.read}

\* The type invariant, by variable.
LEMMA ApplicationsTyped ==
  /\ ApplicationsTypeOK <=> /\ stamps \in BOOLEAN /\ app \in Apps /\ form \in Forms
                            /\ route \in [page : Routes, stale : BOOLEAN]
                            /\ call \in Calls /\ late \in Calls
BY DEF ApplicationsTypeOK, Apps, Forms

\* The invariant, by part, after a step.
LEMMA ApplicationsInvNext ==
  ASSUME stamps' \in BOOLEAN, app' \in Apps, (app.others <= app.version)',
         route' \in [page : Routes, stale : BOOLEAN], PageIsSound',
         call' \in Calls, KnowsItsStamp(call)', late' \in Calls, KnowsItsStamp(late)'
  PROVE  ApplicationsInv'
BY DEF ApplicationsInv, ApplicationsTypeOK, PageIsSound, Apps, Forms

\* Leaving a page.
LEMMA LeaveIs ==
  ASSUME ApplicationsInv, Leave, UNCHANGED stamps
  PROVE  /\ PageIsSound' /\ call' \in Calls /\ late' \in Calls
         /\ KnowsItsStamp(call)' /\ KnowsItsStamp(late)'
<1>1. form' = NoForm /\ call' = NoCall /\ late' \in {call, late}
  BY DEF Leave
<1>2. call \in Calls /\ late \in Calls
  BY DEF ApplicationsInv, ApplicationsTypeOK
<1>3. PageIsSound'
  BY <1>1, CallsAre DEF PageIsSound
<1>4. KnowsItsStamp(call)'
  BY <1>1, CallsAre DEF KnowsItsStamp
<1>5. KnowsItsStamp(late)'
  BY <1>1 DEF ApplicationsInv, KnowsItsStamp
<1> QED
  BY <1>1, <1>2, <1>3, <1>4, <1>5, CallsAre

\* Where the console is after an action.
LEMMA RoutesAre ==
  ASSUME route \in [page : Routes, stale : BOOLEAN], Revalidates \/ ToTheList
  PROVE  route' \in [page : Routes, stale : BOOLEAN]
<1>1. PICK stale \in BOOLEAN : stale = (route.page # "elsewhere")
  OBVIOUS
<1>2 CASE Revalidates
  BY <1>1, <1>2 DEF Revalidates
<1>3 CASE ToTheList
  BY <1>3 DEF ToTheList, Routes
<1> QED
  BY <1>2, <1>3

\* Every step of the applications keeps the invariant.
LEMMA NextApplicationsInv == ApplicationsInv /\ [ApplicationsNext]_applications => ApplicationsInv'
<1> SUFFICES ASSUME ApplicationsInv, [ApplicationsNext]_applications PROVE ApplicationsInv'
  OBVIOUS
<1>a. /\ stamps \in BOOLEAN /\ app \in Apps /\ form \in Forms
      /\ route \in [page : Routes, stale : BOOLEAN]
      /\ call \in Calls /\ late \in Calls
  BY ApplicationsTyped DEF ApplicationsInv
<1>b. /\ app.others <= app.version /\ PageIsSound
      /\ KnowsItsStamp(call) /\ KnowsItsStamp(late)
  BY <1>a DEF ApplicationsInv, PageIsSound
<1>c. /\ app.version \in Versions /\ app.version \in Nat /\ app.others \in Versions /\ app.others \in Nat
  BY <1>a, VersionsAre DEF Apps
<1>1 CASE UNCHANGED applications
  BY <1>1, <1>a, <1>b, ApplicationsInvNext DEF applications, document, PageIsSound, KnowsItsStamp
<1>2. ASSUME app' \in Apps, app'.others <= app'.version, UNCHANGED <<stamps, document>>
      PROVE  ApplicationsInv'
  BY <1>2, <1>a, <1>b, ApplicationsInvNext DEF document, PageIsSound, KnowsItsStamp
<1>3 CASE ChangedElsewhere
  <2>1. PICK v : v = app.version + 1
    OBVIOUS
  <2>2. v \in Versions /\ v \in Nat
    BY <1>3, <1>c, <2>1, VersionsAre DEF ChangedElsewhere
  <2>3. app' = [[app EXCEPT !.version = v] EXCEPT !.others = v]
    BY <1>3, <2>1 DEF ChangedElsewhere, Changed
  <2>4. app' \in Apps /\ app'.others = v /\ app'.version = v
    BY <1>a, <2>2, <2>3 DEF Apps
  <2> QED
    BY <1>2, <1>3, <2>2, <2>4 DEF ChangedElsewhere
<1>4 CASE RemovedElsewhere
  <2>1. app' = [app EXCEPT !.exists = FALSE] /\ UNCHANGED <<stamps, document>>
    BY <1>4 DEF RemovedElsewhere
  <2>2. app' \in Apps /\ app'.others = app.others /\ app'.version = app.version
    BY <1>a, <2>1 DEF Apps
  <2> QED
    BY <1>2, <1>b, <2>1, <2>2
<1>5 CASE ServeCall
  <2>1. PICK out \in Served(call) : app' = out[1] /\ call' = out[2]
    BY <1>5 DEF ServeCall
  <2>2. <<app', call'>> \in Served(call)
    BY <2>1, ServedIsPair
  <2>3. app' \in Apps /\ app'.others <= app'.version /\ call' \in Calls
    BY <1>a, <1>b, <2>2, ServedTells
  <2>4. UNCHANGED <<stamps, route, form, late>>
    BY <1>5 DEF ServeCall
  <2>5. PICK told : told = call'
    OBVIOUS
  <2>6. KnowsItsStamp(told)
    BY <1>a, <1>b, <2>2, <2>5, ServedTells
  <2>7. KnowsItsStamp(call)' /\ KnowsItsStamp(late)' /\ PageIsSound'
    BY <1>b, <2>4, <2>5, <2>6 DEF KnowsItsStamp, PageIsSound
  <2> QED
    BY <1>a, <2>3, <2>4, <2>7, ApplicationsInvNext
<1>6 CASE ServeLateCall
  <2>1. PICK out \in Served(late) : app' = out[1] /\ late' = out[2]
    BY <1>6 DEF ServeLateCall
  <2>2. <<app', late'>> \in Served(late)
    BY <2>1, ServedIsPair
  <2>3. app' \in Apps /\ app'.others <= app'.version /\ late' \in Calls
    BY <1>a, <1>b, <2>2, ServedTells
  <2>4. UNCHANGED <<stamps, route, form, call>>
    BY <1>6 DEF ServeLateCall
  <2>5. PICK told : told = late'
    OBVIOUS
  <2>6. KnowsItsStamp(told)
    BY <1>a, <1>b, <2>2, <2>5, ServedTells
  <2>7. KnowsItsStamp(late)' /\ KnowsItsStamp(call)' /\ PageIsSound'
    BY <1>b, <2>4, <2>5, <2>6 DEF KnowsItsStamp, PageIsSound
  <2> QED
    BY <1>a, <2>3, <2>4, <2>7, ApplicationsInvNext
<1>7. ASSUME NEW page \in Routes, Go(page) PROVE ApplicationsInv'
  <2>1. route' \in [page : Routes, stale : BOOLEAN] /\ UNCHANGED <<stamps, app>> /\ Leave
    BY <1>7 DEF Go
  <2> QED
    BY <1>a, <1>b, <2>1, LeaveIs, ApplicationsInvNext
<1>8 CASE Reload
  <2>1. /\ form' = NoForm /\ call' = NoCall /\ late' = NoCall /\ UNCHANGED <<stamps, app>>
        /\ route' \in [page : Routes, stale : BOOLEAN]
    BY <1>8, <1>a DEF Reload
  <2>2. PageIsSound' /\ KnowsItsStamp(call)' /\ KnowsItsStamp(late)'
    BY <2>1, CallsAre DEF PageIsSound, KnowsItsStamp
  <2> QED
    BY <1>a, <1>b, <2>1, <2>2, CallsAre, ApplicationsInvNext
<1>9 CASE Load
  <2>1. route' \in [page : Routes, stale : BOOLEAN] /\ UNCHANGED <<stamps, app>>
    BY <1>9, <1>a DEF Load
  <2>2 CASE Leave
    BY <1>a, <1>b, <2>1, <2>2, LeaveIs, ApplicationsInvNext
  <2>3 CASE /\ form' = [form EXCEPT !.read = app.version, !.rebuilt = form.read # None]
            /\ UNCHANGED <<call, late>>
    <3>1. /\ form' \in Forms /\ form'.read = app.version /\ form'.basis = form.basis
          /\ form'.rebuilt = (form.read # None)
      BY <1>a, <1>c, <2>3 DEF Forms
    <3>2. PageIsSound'
      BY <1>b, <1>c, <3>1, VersionsAre DEF PageIsSound
    <3>3. KnowsItsStamp(call)' /\ KnowsItsStamp(late)'
      BY <1>b, <2>1, <2>3 DEF KnowsItsStamp
    <3> QED
      BY <1>a, <1>b, <2>1, <2>3, <3>2, <3>3, ApplicationsInvNext
  <2> QED
    BY <1>9, <2>2, <2>3 DEF Load
<1>10 CASE TypeText
  <2>1. form' = [form EXCEPT !.basis = form.read] /\ UNCHANGED <<stamps, app, route, call, late>>
    BY <1>10 DEF TypeText
  <2>2. form' \in Forms /\ form'.read = form.read /\ form'.basis = form.read /\ form'.rebuilt = form.rebuilt
    BY <1>a, <2>1 DEF Forms
  <2>3. PageIsSound' /\ KnowsItsStamp(call)' /\ KnowsItsStamp(late)'
    BY <1>b, <2>1, <2>2 DEF PageIsSound, KnowsItsStamp
  <2> QED
    BY <1>a, <1>b, <2>1, <2>3, ApplicationsInvNext
<1>d. Basis \in {None} \cup Versions /\ (~form.rebuilt => Basis = form.read)
  BY <1>a, <1>b DEF Basis, PageIsSound, Forms
<1>11. ASSUME NEW stamp \in {None} \cup Versions, NEW knew \in SUBSET Versions, Sends(stamp, knew),
              stamps /\ ~form.rebuilt => stamp # None /\ stamp \in knew
       PROVE  ApplicationsInv'
  <2>1. PICK basis : basis = Basis
    OBVIOUS
  <2>2. form' = [form EXCEPT !.basis = basis] /\ form.read # None
        /\ UNCHANGED <<stamps, app, route, late>>
    BY <1>11, <2>1 DEF Sends, Idle
  <2>3. form' \in Forms /\ form'.read = form.read /\ form'.basis = basis /\ form'.rebuilt = form.rebuilt
    BY <1>a, <1>d, <2>1, <2>2 DEF Forms
  <2>4. PageIsSound'
    BY <1>d, <2>1, <2>2, <2>3 DEF PageIsSound
  <2>5. call' = [NoCall EXCEPT !.op = "save", !.at = "out", !.rebuilt = form.rebuilt,
                               !.stamp = stamp, !.knew = knew]
    BY <1>11 DEF Sends
  <2>6. /\ call' \in Calls /\ call'.rebuilt = form.rebuilt /\ call'.stamp = stamp /\ call'.knew = knew
    BY <1>a, <2>5, CallsAre DEF Calls, Forms
  <2>7. KnowsItsStamp(call)' /\ KnowsItsStamp(late)'
    BY <1>11, <1>b, <2>2, <2>6 DEF KnowsItsStamp
  <2> QED
    BY <1>a, <1>b, <2>2, <2>4, <2>6, <2>7, ApplicationsInvNext
<1>e. Sends(form.latest, {Basis, form.latest}) \/ Sends(IF stamps THEN form.read ELSE None, {Basis}) => Basis # None
  BY <1>a DEF Sends, Idle, Basis
<1>12 CASE Save
  <2>1. PICK stamp, knew : stamp = (IF stamps THEN form.read ELSE None) /\ knew = {Basis}
    OBVIOUS
  <2>2. Sends(stamp, knew) /\ form.read # None
    BY <1>12, <2>1 DEF Save, Sends, Idle
  <2>3. Basis \in Versions
    BY <1>d, <2>2 DEF Basis
  <2>4. stamp \in {None} \cup Versions /\ knew \in SUBSET Versions
    BY <1>a, <2>1, <2>3 DEF Forms
  <2>5. stamps /\ ~form.rebuilt => stamp # None /\ stamp \in knew
    BY <1>d, <2>1, <2>2
  <2> QED
    BY <1>11, <2>2, <2>4, <2>5
<1>13 CASE SaveAnyway
  <2>1. PICK stamp, knew : stamp = form.latest /\ knew = {Basis, form.latest}
    OBVIOUS
  <2>2. Sends(stamp, knew) /\ form.read # None /\ form.latest # None
    BY <1>13, <2>1 DEF SaveAnyway, Sends, Idle
  <2>3. Basis \in Versions /\ form.latest \in Versions
    BY <1>a, <1>d, <2>2 DEF Basis, Forms
  <2>4. stamp \in {None} \cup Versions /\ knew \in SUBSET Versions
    BY <2>1, <2>3
  <2>5. stamps /\ ~form.rebuilt => stamp # None /\ stamp \in knew
    BY <2>1, <2>2
  <2> QED
    BY <1>11, <2>2, <2>4, <2>5
<1>14. ASSUME NEW op \in {"rotate", "delete"}, Ask(op) PROVE ApplicationsInv'
  <2>1. call' = [NoCall EXCEPT !.op = op, !.at = "out"] /\ UNCHANGED <<stamps, app, route, form, late>>
    BY <1>14 DEF Ask
  <2>2. call' \in Calls /\ call'.op = op
    BY <2>1, CallsAre DEF Calls
  <2>3. PageIsSound' /\ KnowsItsStamp(call)' /\ KnowsItsStamp(late)'
    BY <1>b, <2>1, <2>2 DEF PageIsSound, KnowsItsStamp
  <2> QED
    BY <1>a, <1>b, <2>1, <2>2, <2>3, ApplicationsInvNext
<1>15 CASE GotCall
  <2>1. /\ UNCHANGED <<stamps, app>>
        /\ \/ call' = Rereads(call) /\ UNCHANGED <<route, form, late>>
           \/ /\ call' = NoCall /\ UNCHANGED late
              /\ \/ form' = [form EXCEPT !.done = TRUE, !.basis = None] /\ Revalidates
                 \/ form' = NoForm /\ ToTheList
                 \/ UNCHANGED route /\ \E latest \in {call.found, None} : form' = [form EXCEPT !.latest = latest]
    BY <1>15, Zenon DEF GotCall
  <2>2. call' \in Calls /\ KnowsItsStamp(call)' /\ UNCHANGED late
    BY <1>a, <2>1, CallsAre, RereadsIs DEF KnowsItsStamp
  <2>3. route' \in [page : Routes, stale : BOOLEAN]
    BY <1>a, <2>1, RoutesAre
  <2>4. PageIsSound'
    <3>1 CASE UNCHANGED form
      BY <1>b, <3>1 DEF PageIsSound
    <3>2 CASE form' = NoForm
      BY <3>2, CallsAre DEF PageIsSound
    <3>3 CASE form' = [form EXCEPT !.done = TRUE, !.basis = None]
      <4>1. form' \in Forms /\ form'.read = form.read /\ form'.basis = None
        BY <1>a, <3>3 DEF Forms
      <4> QED
        BY <4>1 DEF PageIsSound
    <3>4. ASSUME NEW latest \in {call.found, None}, form' = [form EXCEPT !.latest = latest] PROVE PageIsSound'
      <4>1. latest \in {None} \cup Versions
        BY <1>a DEF Calls
      <4>2. form' \in Forms /\ form'.read = form.read /\ form'.basis = form.basis /\ form'.rebuilt = form.rebuilt
        BY <1>a, <3>4, <4>1 DEF Forms
      <4> QED
        BY <1>b, <4>2 DEF PageIsSound
    <3> QED
      BY <2>1, <3>1, <3>2, <3>3, <3>4
  <2>5. KnowsItsStamp(late)'
    BY <1>b, <2>1, <2>2 DEF KnowsItsStamp
  <2> QED
    BY <1>a, <1>b, <2>1, <2>2, <2>3, <2>4, <2>5, ApplicationsInvNext
<1>16 CASE GotLateCall
  <2>1. /\ UNCHANGED <<stamps, app>>
        /\ \/ late' = Rereads(late) /\ UNCHANGED <<route, form, call>>
           \/ late' = NoCall /\ Revalidates /\ UNCHANGED <<form, call>>
           \/ late' = call /\ call' = NoCall /\ form' = NoForm /\ ToTheList
           \/ late' = NoCall /\ UNCHANGED <<route, form, call>>
    BY <1>16, Zenon DEF GotLateCall
  <2>2. late' \in Calls /\ KnowsItsStamp(late)' /\ call' \in Calls /\ KnowsItsStamp(call)'
    BY <1>a, <1>b, <2>1, CallsAre, RereadsIs DEF KnowsItsStamp
  <2>3. route' \in [page : Routes, stale : BOOLEAN]
    BY <1>a, <2>1, RoutesAre
  <2>4. PageIsSound'
    BY <1>b, <2>1, CallsAre DEF PageIsSound
  <2> QED
    BY <1>a, <1>b, <2>1, <2>2, <2>3, <2>4, ApplicationsInvNext
<1> QED
  BY <1>1, <1>3, <1>4, <1>5, <1>6, <1>7, <1>8, <1>9, <1>10, <1>12, <1>13, <1>14, <1>15, <1>16, Zenon
  DEF ApplicationsNext

\* The invariant of the pages of an application.
LEMMA ApplicationsHold == ApplicationsSpec => []ApplicationsInv
<1>1. ApplicationsInit => ApplicationsInv
  <2> SUFFICES ASSUME ApplicationsInit PROVE ApplicationsInv
    OBVIOUS
  <2>1. app \in Apps /\ app.others <= app.version
    BY VersionsAre DEF ApplicationsInit, Apps
  <2>2. form = NoForm /\ call = NoCall /\ late = NoCall /\ stamps \in BOOLEAN
        /\ route \in [page : Routes, stale : BOOLEAN]
    BY DEF ApplicationsInit, Routes
  <2> QED
    BY <2>1, <2>2, CallsAre, ApplicationsTyped DEF ApplicationsInv
<1> QED
  BY <1>1, NextApplicationsInv, PTL DEF ApplicationsSpec

\* Nothing but the IdP answers an action.
LEMMA OnlyServing ==
  ASSUME ApplicationsInv, [ApplicationsNext]_applications
  PROVE  /\ call.at = "out" /\ call'.at = "back" => ServeCall
         /\ late.at = "out" /\ late.op = "save" /\ late'.at = "back" => ServeLateCall
<1> DEFINE OutStays == /\ call.at = "out" => call'.at # "back"
                       /\ late.at = "out" /\ late.op = "save" => late'.at # "back"
<1>a. NoCall.at = "idle" /\ call \in Calls /\ late \in Calls
  BY CallsAre, ApplicationsTyped DEF ApplicationsInv
<1>b. Rereads(call).at = "out" /\ Rereads(late).at = "out"
  BY <1>a DEF Rereads, Calls
<1>1. ASSUME UNCHANGED <<call, late>> PROVE OutStays
  BY <1>1
<1>2. ASSUME Leave PROVE OutStays
  BY <1>2, <1>a DEF Leave
<1>3 CASE UNCHANGED applications \/ ChangedElsewhere \/ RemovedElsewhere \/ TypeText
  BY <1>1, <1>3 DEF applications, document, ChangedElsewhere, RemovedElsewhere, TypeText
<1>4 CASE ServeCall
  BY <1>4 DEF ServeCall
<1>5 CASE ServeLateCall
  BY <1>5 DEF ServeLateCall
<1>6. ASSUME NEW page \in Routes, Go(page) PROVE OutStays
  BY <1>2, <1>6 DEF Go
<1>7 CASE Reload
  BY <1>7, <1>a DEF Reload
<1>8 CASE Load
  BY <1>1, <1>2, <1>8 DEF Load
<1>9 CASE call = NoCall /\ UNCHANGED late
  BY <1>9, <1>a
<1>10. Save \/ SaveAnyway \/ (\E op \in {"rotate", "delete"} : Ask(op)) => call = NoCall /\ UNCHANGED late
  BY Zenon DEF Save, SaveAnyway, Sends, Ask, Idle
<1>11 CASE GotCall
  <2>1. UNCHANGED late /\ (call' = Rereads(call) \/ call' = NoCall)
    BY <1>11, Zenon DEF GotCall
  <2> QED
    BY <1>a, <1>b, <2>1
<1>12 CASE GotLateCall
  <2>1. \/ late' = Rereads(late) /\ UNCHANGED call
        \/ late' = NoCall /\ UNCHANGED call
        \/ late.op = "delete" /\ call' = NoCall
    BY <1>12, Zenon DEF GotLateCall
  <2> QED
    BY <1>a, <1>b, <2>1
<1> QED
  BY <1>3, <1>4, <1>5, <1>6, <1>7, <1>8, <1>9, <1>10, <1>11, <1>12 DEF ApplicationsNext

\* A save that goes through in a step was known to it.
LEMMA AppliedIsInformed ==
  ASSUME ApplicationsInv, stamps, NEW c, c = call \/ c = late, NEW done,
         Applies(c, done), ~c.rebuilt, \E made : <<made, done>> \in Served(c)
  PROVE  Informed(c)
<1>1. app \in Apps /\ app.others <= app.version /\ c \in Calls /\ KnowsItsStamp(c)
  BY ApplicationsTyped DEF ApplicationsInv
<1>2. c.stamp = app.version /\ c.stamp \in c.knew
  BY <1>1, ServedTells DEF Applies, KnowsItsStamp
<1> QED
  BY <1>1, <1>2 DEF Informed

\* No save of a page that was not run again under what was typed is applied
\* over a change its author never saw (updateApplicationAction).
THEOREM BlindOnlyIfRebuiltHolds == ApplicationsSpec => BlindOnlyIfRebuilt
<1>1. ASSUME ApplicationsInv, [ApplicationsNext]_applications, stamps
      PROVE  /\ Applies(call, call') /\ ~call.rebuilt => Informed(call)
             /\ Applies(late, late') /\ ~late.rebuilt => Informed(late)
  <2>1. Applies(call, call') => \E made : <<made, call'>> \in Served(call)
    <3> SUFFICES ASSUME Applies(call, call') PROVE \E made : <<made, call'>> \in Served(call)
      OBVIOUS
    <3>1. call.at = "out" /\ call'.at = "back" /\ call.op = "save"
      BY DEF Applies
    <3>2. ServeCall
      BY <1>1, <3>1, OnlyServing
    <3>3. PICK out \in Served(call) : call' = out[2]
      BY <3>2 DEF ServeCall
    <3> QED
      BY <3>3, ServedIsPair
  <2>2. Applies(late, late') => \E made : <<made, late'>> \in Served(late)
    <3> SUFFICES ASSUME Applies(late, late') PROVE \E made : <<made, late'>> \in Served(late)
      OBVIOUS
    <3>1. late.at = "out" /\ late'.at = "back" /\ late.op = "save"
      BY DEF Applies
    <3>2. ServeLateCall
      BY <1>1, <3>1, OnlyServing
    <3>3. PICK out \in Served(late) : late' = out[2]
      BY <3>2 DEF ServeLateCall
    <3> QED
      BY <3>3, ServedIsPair
  <2>3. ASSUME Applies(call, call'), ~call.rebuilt PROVE Informed(call)
    BY <1>1, <2>1, <2>3, AppliedIsInformed
  <2>4. ASSUME Applies(late, late'), ~late.rebuilt PROVE Informed(late)
    BY <1>1, <2>2, <2>4, AppliedIsInformed
  <2> QED
    BY <2>3, <2>4
<1> QED
  BY <1>1, ApplicationsHold, PTL DEF ApplicationsSpec, BlindOnlyIfRebuilt

-----------------------------------------------------------------------------
(* Together: a behaviour of the console is one of each of its parts, as the *)
(* other work leaves it alone.                                              *)

\* It is one of the links,
LEMMA ConsoleIsLinks ==
  ConsoleSpec => Spec
<1>1. ConsoleInit => Init
  BY DEF ConsoleInit
<1>2. [ConsoleNext]_<<work, vars, applications, settings>> => [Next]_vars
  BY DEF ConsoleNext
<1> QED
  BY <1>1, <1>2, PTL DEF ConsoleSpec, Spec

\* ... of the application,
LEMMA ConsoleIsApplications ==
  ConsoleSpec => ApplicationsSpec
<1>1. ConsoleInit => ApplicationsInit
  BY DEF ConsoleInit
<1>2. [ConsoleNext]_<<work, vars, applications, settings>> => [ApplicationsNext]_applications
  BY DEF ConsoleNext
<1> QED
  BY <1>1, <1>2, PTL DEF ConsoleSpec, ApplicationsSpec

\* ... and of the account settings.
LEMMA ConsoleIsSettings ==
  ConsoleSpec => AccountSpec
<1>1. ConsoleInit => AccountInit
  BY DEF ConsoleInit
<1>2. [ConsoleNext]_<<work, vars, applications, settings>> => [AccountNext]_settings
  BY DEF ConsoleNext
<1> QED
  BY <1>1, <1>2, PTL DEF ConsoleSpec, AccountSpec

\* Every part of the console stays in its types.
THEOREM ConsoleTypesHold == ConsoleSpec => []ConsoleTypeOK
<1> DEFINE OneOfThree == work \in {"links", "applications", "settings"}
<1>1. ConsoleInit => OneOfThree
  BY DEF ConsoleInit
<1>2. OneOfThree /\ [ConsoleNext]_<<work, vars, applications, settings>> => OneOfThree'
  BY DEF ConsoleNext
<1>3. TypeOK /\ ApplicationsTypeOK /\ AccountTypeOK /\ OneOfThree => ConsoleTypeOK
  BY DEF ConsoleTypeOK
<1> HIDE DEF OneOfThree
<1>4. HandOverInv => TypeOK
  BY DEF HandOverInv
<1>5. ApplicationsInv => ApplicationsTypeOK
  BY DEF ApplicationsInv
<1> QED
  BY <1>1, <1>2, <1>3, <1>4, <1>5, ConsoleIsLinks, HandOverHolds, ConsoleIsApplications, ApplicationsHold,
     ConsoleIsSettings, AccountTypesHold, PTL DEF ConsoleSpec

\* Throughout the console the pages of one-time links tell the truth: a
\* password said to be set is set, an invite link said to be dead is dead, as
\* is a claim or reset link said so after a submission, and a retired link is
\* not shown as good.
THEOREM LinksAreTold ==
  ConsoleSpec => [](SetIsMine /\ DeadIsDead /\ StaleLinkIsFlagged)
BY ConsoleIsLinks, SetIsMineHolds, DeadIsDeadHolds, StaleLinkIsFlaggedHolds, PTL

\* Throughout the console no save is blind but of a page run again under
\* what was typed.
THEOREM SavesAreInformed ==
  ConsoleSpec => BlindOnlyIfRebuilt
BY ConsoleIsApplications, BlindOnlyIfRebuiltHolds, PTL

\* What the forms of /account/settings say is done is so, and the recovery
\* codes on screen are the newest, throughout the console.
THEOREM SettingsAreTold ==
  ConsoleSpec => [](DoneIsDone /\ CodesAreTheNewest)
BY ConsoleIsSettings, WhatIsSaidIsDone, CodesShownAreTheNewest, PTL
=============================================================================
