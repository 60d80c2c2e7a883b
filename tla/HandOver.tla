------------------------------ MODULE HandOver -------------------------------
(***************************************************************************)
(* One-time links, from the console page that issues them to the public    *)
(* page that redeems them: the claim, activation, invite and reset-link    *)
(* ceremonies, and the mailed password reset. A behaviour is about one     *)
(* account and one kind of link.                                           *)
(*                                                                         *)
(* Any call may be lost on the way out or back, be answered by a gateway's *)
(* 5xx, or lose the body of its answer. A redemption given up on may still *)
(* reach the IdP later (adrift); a link the page asked for and gave up on  *)
(* before the IdP heard of it is the same to it as IssueElsewhere. Whether *)
(* a field is well formed, which product offers a ceremony, and the copy   *)
(* of the pages are left out; the enrolment form is in SignIn.             *)
(***************************************************************************)
EXTENDS Naturals

CONSTANTS
  Tabs,       \* browser tabs that open a link
  MaxLinks,   \* bound: links issued for the account
  MaxSubmits, \* bound: passwords submitted, by all tabs together
  MaxWeak     \* weak passwords a claim link survives, plus the last one

ASSUME HandOverAssumption ==
  /\ MaxLinks \in Nat /\ MaxSubmits \in Nat
  /\ MaxWeak \in Nat \ {0}

Kinds == {"claim", "activation", "invite", "reset link", "mailed reset"}
Links == 1..MaxLinks
NoLink == 0

VARIABLES
  kind,   \* the ceremony this behaviour is about
  idp,    \* the IdP's account: does it exist, is it active, its newest link
          \* and whether it redeems, the weak passwords that link has left,
          \* the newest link the panel's own requests led to, and the
          \* submissions whose password was set
  adrift, \* redemptions no page waits for any more
  panel,  \* the console page: which screen, its call, the links and the
          \* error it holds
  tab,    \* per tab: the page shown, its link, its last submission since
          \* the page was opened, and the request or answer under way
  submits \* how many passwords were submitted: each is known by its number

vars == <<kind, idp, adrift, panel, tab, submits>>

Wires == {"none", "out", "valid", "invalid", "already",
          "limited", "set", "unended", "weak", "burned", "refused", "session"}
Told == {"enrol", "ready", "enrolled"}
Pages == {"away", "form", "checking", "sending", "probing",
          "unusable", "already", "limited", "down", "spent", "burned"} \cup Told

TypeOK ==
  /\ kind \in Kinds
  /\ idp \in [exists : BOOLEAN, active : BOOLEAN, newest : 0..MaxLinks,
              open : BOOLEAN, weak : 0..MaxWeak, mine : 0..MaxLinks,
              set : SUBSET (1..MaxSubmits)]
  /\ adrift \subseteq [by : 1..MaxSubmits, link : Links]
  /\ panel \in [screen : {"new", "detail", "gone"}, error : BOOLEAN,
                call : {"none", "out", "issued", "refused", "denied"},
                link : 0..MaxLinks, kept : 0..MaxLinks]
  /\ tab \in [Tabs -> [page : Pages, link : 0..MaxLinks,
                       by : 0..MaxSubmits, wire : Wires]]
  /\ submits \in 0..MaxSubmits

\* An invited user and a pending organization come with their first link;
\* the other kinds are for an account or an organization that is there.
Creates == kind \in {"activation", "invite"}

Screen(s) == [screen |-> s, error |-> FALSE, call |-> "none",
              link |-> NoLink, kept |-> NoLink]

Init ==
  /\ kind \in Kinds
  /\ idp = [exists |-> ~Creates, active |-> kind \in {"reset link", "mailed reset"},
            newest |-> NoLink, open |-> FALSE, weak |-> 0, mine |-> NoLink,
            set |-> {}]
  /\ adrift = {}
  /\ panel = Screen("gone")
  /\ tab = [t \in Tabs |-> [page |-> "away", link |-> NoLink,
                            by |-> 0, wire |-> "none"]]
  /\ submits = 0

-----------------------------------------------------------------------------
(* The IdP's side of a link *)

Redeems(l) == l = idp.newest /\ idp.open

\* A new link retires the one before it.
Issued(mine) ==
  [idp EXCEPT !.exists = TRUE, !.newest = @ + 1, !.open = TRUE,
              !.weak = MaxWeak, !.mine = IF mine THEN idp.newest + 1 ELSE @]

\* A pending account gets a link, an active one only a reset link.
Grants(screen) ==
  /\ idp.newest < MaxLinks
  /\ IF screen = "new" THEN ~idp.exists
     ELSE idp.exists /\ (idp.active <=> kind \in {"reset link", "mailed reset"})

\* What the account becomes and what is answered when submission by
\* redeems link l.
Redemptions(l, by) ==
  IF ~Redeems(l)
  THEN {<<idp, "refused">>} \cup
       (IF kind = "activation" /\ idp.active THEN {<<idp, "already">>} ELSE {})
  ELSE LET done == [idp EXCEPT !.open = FALSE, !.active = TRUE, !.set = @ \cup {by}]
       IN {<<done, "set">>}
          \cup (IF kind = "reset link" THEN {<<done, "unended">>} ELSE {})
          \cup (IF kind # "claim" THEN {<<idp, "weak">>}
                ELSE IF idp.weak = 1
                THEN {<<[idp EXCEPT !.weak = 0, !.open = FALSE], "burned">>}
                ELSE {<<[idp EXCEPT !.weak = @ - 1], "weak">>})
          \cup (IF kind = "invite" THEN {<<idp, "limited">>} ELSE {})

IssueElsewhere ==
  /\ \E screen \in {"new", "detail"} : Grants(screen)
  /\ idp' = Issued(FALSE)
  /\ UNCHANGED <<kind, adrift, panel, tab, submits>>

Expire ==
  /\ idp.open
  /\ idp' = [idp EXCEPT !.open = FALSE]
  /\ UNCHANGED <<kind, adrift, panel, tab, submits>>

ServeAdrift ==
  /\ \E late \in adrift : \E out \in Redemptions(late.link, late.by) :
       adrift' = adrift \ {late} /\ idp' = out[1]
  /\ UNCHANGED <<kind, panel, tab, submits>>

-----------------------------------------------------------------------------
(* The page that issues: a form of its own for the account's first link,   *)
(* a button on the account's page for the next ones                        *)

Visit(screen) ==
  /\ screen = "new" => Creates
  /\ screen = "detail" => idp.exists
  /\ panel' = Screen(screen)
  /\ UNCHANGED <<kind, idp, adrift, tab, submits>>

\* Only a claim link leaves the button that issues another one in place.
MayAsk ==
  /\ kind # "mailed reset"
  /\ panel.screen # "gone" /\ panel.call = "none"
  /\ panel.link = NoLink \/ kind = "claim"

\* What the panel held stays until the answer comes; whoever is no longer
\* signed in as the right administrator is sent away and nothing is asked.
AskIssue ==
  /\ MayAsk
  /\ panel' \in {[panel EXCEPT !.call = "out"], Screen("gone")}
  /\ UNCHANGED <<kind, idp, adrift, tab, submits>>

ServeIssue ==
  /\ panel.call = "out"
  /\ \/ /\ Grants(panel.screen)
        /\ panel' = [panel EXCEPT !.call = "issued"]
        /\ idp' = Issued(TRUE)
     \/ /\ panel' \in {[panel EXCEPT !.call = c] : c \in {"refused", "denied"}}
        /\ UNCHANGED idp
  /\ UNCHANGED <<kind, adrift, tab, submits>>

\* The action's new state replaces the old one; the claim button keeps the
\* last link it was given in a state of its own.
ShowsIssued(link) ==
  [panel EXCEPT !.call = "none", !.error = FALSE, !.link = link,
                !.kept = IF kind = "claim" THEN link ELSE NoLink]
ShowsError == [panel EXCEPT !.call = "none", !.error = TRUE, !.link = NoLink]

\* Fault: a 2xx that carries no link is taken for a success.
LearnsAnyhow(whole) ==
  CASE panel.call = "issued" ->
         IF whole THEN ShowsIssued(idp.mine)
         ELSE [panel EXCEPT !.call = "none", !.error = FALSE, !.link = NoLink]
    [] panel.call = "denied" /\ kind \in {"claim", "activation"} -> Screen("gone")
    [] OTHER -> ShowsError

\* A link that did not arrive whole is a failed issue, whatever the IdP did;
\* a 403 sends a site administrator away, an org administrator is told.
Learns(whole) ==
  CASE panel.call = "issued" /\ whole -> ShowsIssued(idp.mine)
    [] panel.call = "denied" /\ kind \in {"claim", "activation"} -> Screen("gone")
    [] OTHER -> ShowsError

\* No answer at all reads like one that did not arrive whole.
GotIssue ==
  /\ panel.call # "none"
  /\ \/ panel.call # "out" /\ \E whole \in BOOLEAN : panel' = Learns(whole)
     \/ panel' = ShowsError
  /\ UNCHANGED <<kind, idp, adrift, tab, submits>>

Shown == IF panel.link # NoLink THEN panel.link ELSE panel.kept

-----------------------------------------------------------------------------
(* The page that redeems: how each kind reads an answer. An answer that is *)
(* not whole has its status and no body.                                   *)

ClaimChecked(a, whole) ==
  IF a = "valid" /\ whole THEN "form" ELSE "unusable"

ActivationChecked(a, whole) ==
  IF a = "already" THEN "already"
  ELSE IF a = "valid" /\ whole THEN "form" ELSE "unusable"

\* Fault: the page is named by what the IdP said.
InviteAsSaid(a, whole) == IF whole THEN a ELSE "down"

InviteChecked(a, whole) ==
  CASE a = "limited" -> "limited"
    [] a = "invalid" -> "unusable"
    [] a = "valid" /\ whole -> "form"
    [] OTHER -> "down"

ResetLinkChecked(a, whole) ==
  IF a = "valid" /\ whole THEN "form" ELSE "unusable"

\* A lost, torn or broken answer leaves the form; the probe follows a claim.
ClaimTold(a, whole) ==
  CASE whole /\ a = "set" -> "probing"
    [] whole /\ a = "burned" -> "burned"
    [] whole /\ a = "refused" -> "spent"
    [] OTHER -> "form"

\* Judged by its status alone, but for the 400 that names a weak password.
ActivationTold(a, whole) ==
  CASE a = "set" -> "probing"
    [] a = "already" -> "already"
    [] a = "refused" \/ (a = "weak" /\ ~whole) -> "spent"
    [] OTHER -> "form"

\* Fault: any refusal the page cannot name is the link's.
UnnamedIsSpent(a, whole) ==
  CASE a = "set" -> "ready"
    [] a \in {"limited", "lost"} \/ (a = "weak" /\ whole) -> "form"
    [] OTHER -> "spent"

InviteTold(a, whole) ==
  CASE a = "set" -> "ready"
    [] a = "refused" /\ whole -> "spent"
    [] OTHER -> "form"

\* Fault: any 500 is the one that says the password was set.
FaultIsUnended(a, whole) ==
  CASE a \in {"set", "unended", "fault"} -> "ready"
    [] a = "refused" /\ whole -> "spent"
    [] OTHER -> "form"

\* The 500 that says the password was set is a success with a warning.
ResetLinkTold(a, whole) ==
  CASE a = "set" \/ (a = "unended" /\ whole) -> "ready"
    [] a = "refused" /\ whole -> "spent"
    [] OTHER -> "form"

\* What cannot be named sends the visitor to ask for a new link.
ResetPasswordTold(a, whole) ==
  CASE a = "set" -> "ready"
    [] a = "lost" \/ (a = "weak" /\ whole) -> "form"
    [] OTHER -> "spent"

Checked(a, whole) ==
  CASE kind = "claim" -> ClaimChecked(a, whole)
    [] kind = "activation" -> ActivationChecked(a, whole)
    [] kind = "invite" -> InviteChecked(a, whole)
    [] kind = "reset link" -> ResetLinkChecked(a, whole)

Consumed(a, whole) ==
  CASE kind = "claim" -> ClaimTold(a, whole)
    [] kind = "activation" -> ActivationTold(a, whole)
    [] kind = "invite" -> InviteTold(a, whole)
    [] kind = "reset link" -> ResetLinkTold(a, whole)
    [] OTHER -> ResetPasswordTold(a, whole)

-----------------------------------------------------------------------------
(* The page that redeems: its steps *)

Goes(t, page, wire) ==
  tab' = [tab EXCEPT ![t].page = page, ![t].wire = wire]

\* A redemption the page stops waiting for before the IdP has heard of it.
Drifts(t) ==
  adrift' = IF tab[t].page = "sending" /\ tab[t].wire = "out"
            THEN adrift \cup {[by |-> tab[t].by, link |-> tab[t].link]} ELSE adrift

\* What the IdP says of a link it is asked about; asking spends nothing.
Checks(l) ==
  (IF Redeems(l) THEN {"valid"} ELSE {"invalid"})
  \cup (IF kind = "activation" /\ idp.active THEN {"already"} ELSE {})
  \cup (IF kind = "invite" THEN {"limited"} ELSE {})

\* What a link opens as: it is checked first, but for the mailed one.
Findings(l) == {Checked(a, whole) : a \in Checks(l) \cup {"lost", "fault"}, whole \in BOOLEAN}
OpensAs(l) == IF kind = "mailed reset" THEN {"form"} ELSE Findings(l)

\* Any link ever issued may be opened, at any time, and is checked first, but
\* for the mailed one. The check is one step: a dead link stays dead, and a
\* form whose link dies while it loads is as stale as one that was open.
Open(t, l) ==
  /\ l <= idp.newest
  /\ \E page \in OpensAs(l) :
       tab' = [tab EXCEPT ![t] = [page |-> page, link |-> l, by |-> 0, wire |-> "none"]]
  /\ Drifts(t)
  /\ UNCHANGED <<kind, idp, panel, submits>>

\* What the page may be told: what the IdP answered, if it has, or what the
\* network or a gateway in between says in its place.
Answers(t) == ({tab[t].wire} \ {"none", "out"}) \cup {"lost", "fault"}

\* The submit button is disabled while the action runs; an activation first
\* asks again whom its link is for.
Submit(t) ==
  /\ tab[t].page = "form" /\ submits < MaxSubmits
  /\ submits' = submits + 1
  /\ tab' = [tab EXCEPT ![t].by = submits + 1, ![t].wire = "out",
                ![t].page = IF kind = "activation" THEN "checking" ELSE "sending"]
  /\ UNCHANGED <<kind, idp, adrift, panel>>

ServeCheck(t) ==
  /\ tab[t].page = "checking" /\ tab[t].wire = "out"
  /\ \E a \in Checks(tab[t].link) : Goes(t, "checking", a)
  /\ UNCHANGED <<kind, idp, adrift, panel, submits>>

\* What the check before an activation says against the link is final.
GotRechecked(t) ==
  /\ tab[t].page = "checking"
  /\ \E a \in Answers(t), whole \in BOOLEAN :
       CASE ActivationChecked(a, whole) = "form" -> Goes(t, "sending", "out")
         [] ActivationChecked(a, whole) = "already" -> Goes(t, "already", "none")
         [] OTHER -> Goes(t, "spent", "none")
  /\ UNCHANGED <<kind, idp, adrift, panel, submits>>

ServeConsume(t) ==
  /\ tab[t].page = "sending" /\ tab[t].wire = "out"
  /\ \E out \in Redemptions(tab[t].link, tab[t].by) :
       idp' = out[1] /\ Goes(t, "sending", out[2])
  /\ UNCHANGED <<kind, adrift, panel, submits>>

GotConsumed(t) ==
  /\ tab[t].page = "sending"
  /\ \E a \in Answers(t), whole \in BOOLEAN :
       LET page == Consumed(a, whole)
       IN Goes(t, page, IF page = "probing" THEN "out" ELSE "none")
  /\ Drifts(t)
  /\ UNCHANGED <<kind, idp, panel, submits>>

\* The sign-in with the password just set opens a pending session.
ServeProbe(t) ==
  /\ tab[t].page = "probing" /\ tab[t].wire = "out"
  /\ Goes(t, "probing", IF tab[t].by \in idp.set THEN "session" ELSE "refused")
  /\ UNCHANGED <<kind, idp, adrift, panel, submits>>

\* Anything but a pending session leaves the visitor to sign in by hand.
GotProbed(t) ==
  /\ tab[t].page = "probing"
  /\ \E a \in Answers(t), whole \in BOOLEAN :
       Goes(t, IF a = "session" /\ whole THEN "enrol" ELSE "ready", "none")
  /\ UNCHANGED <<kind, idp, adrift, panel, submits>>

\* The enrolment form succeeds, or its back button leads to sign-in.
LeaveEnrolment(t) ==
  /\ tab[t].page = "enrol"
  /\ \E page \in {"enrolled", "away"} : Goes(t, page, "none")
  /\ UNCHANGED <<kind, idp, adrift, panel, submits>>

Next ==
  \/ IssueElsewhere \/ Expire \/ ServeAdrift
  \/ \E screen \in {"new", "detail"} : Visit(screen)
  \/ AskIssue \/ ServeIssue \/ GotIssue
  \/ \E t \in Tabs :
       \/ \E l \in Links : Open(t, l)
       \/ Submit(t) \/ ServeCheck(t) \/ GotRechecked(t)
       \/ ServeConsume(t) \/ GotConsumed(t)
       \/ ServeProbe(t) \/ GotProbed(t) \/ LeaveEnrolment(t)

Spec == Init /\ [][Next]_vars

-----------------------------------------------------------------------------
(* Properties *)

\* A page that says the password is set says it of the password this visitor
\* submitted last, however many of the answers before were lost: nobody is
\* sent to sign in with a password the account does not have
\* (consumeClaimAction, completeActivationAction, redeemInviteAction,
\* redeemResetLinkAction, consumeResetTokenAction).
SetIsMine == \A t \in Tabs : tab[t].page \in Told => tab[t].by \in idp.set

\* A page that calls its link dead is right: an invite page always, the
\* claim and reset-link forms once they were submitted, and an activation
\* page when it says the organization is active.
DeadIsDead ==
  \A t \in Tabs :
    /\ \/ kind = "invite" /\ tab[t].page \in {"unusable", "spent"}
       \/ kind \in {"claim", "reset link"} /\ tab[t].page \in {"spent", "burned"}
       => ~Redeems(tab[t].link)
    /\ tab[t].page = "already" => idp.active

\* A link that an issue of this page has retired is never presented as good:
\* when the answer with the new link was lost, an error stands beside the old
\* one (IssueClaimButton keeps it in a state of its own).
StaleLinkIsFlagged ==
  Shown # NoLink /\ Shown < idp.mine => panel.error \/ panel.call # "none"
=============================================================================
