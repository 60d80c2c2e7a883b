------------------------------ MODULE Console --------------------------------
(***************************************************************************)
(* The work in the console that outlasts a page: handing over one-time     *)
(* links, keeping an organization's applications, and one's own account    *)
(* settings. They share no state of the IdP, so a behaviour is of one.     *)
(***************************************************************************)
EXTENDS MCHandOver, Applications, Account

VARIABLE work   \* which of them

ConsoleTypeOK ==
  /\ work \in {"links", "applications", "settings"}
  /\ work = "links" => TypeOK
  /\ work = "applications" => ApplicationsTypeOK
  /\ work = "settings" => AccountTypeOK

\* Those not done do not matter.
ConsoleInit ==
  /\ work \in {"links", "applications", "settings"}
  /\ Init /\ (work # "links" => kind = "claim")
  /\ ApplicationsInit /\ (work # "applications" => stamps)
  /\ AccountInit /\ (work # "settings" => account.armed = Nil)

ConsoleNext ==
  /\ \/ work = "links" /\ Next /\ UNCHANGED <<applications, settings>>
     \/ work = "applications" /\ ApplicationsNext /\ UNCHANGED <<vars, settings>>
     \/ work = "settings" /\ AccountNext /\ UNCHANGED <<vars, applications>>
  /\ UNCHANGED work

ConsoleSpec == ConsoleInit /\ [][ConsoleNext]_<<work, vars, applications, settings>>
=============================================================================
