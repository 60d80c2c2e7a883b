--------------------------- MODULE SessionContract ---------------------------
(***************************************************************************)
(* What a caller of bff() may rely on, whatever the network, the renewals, *)
(* the other callers and the timers do.  A call opens and closes once.  A  *)
(* write is carried out at most once.  An answer that says it was done is  *)
(* given only when it was, and one that says it was refused means it was   *)
(* not and never will be; only "unknown" leaves the question open, and     *)
(* then the write may still happen after the call has closed.              *)
(***************************************************************************)
EXTENDS Naturals

CONSTANTS
  Calls,   \* the calls of one tab
  Writes   \* those of them that change something at the server

VARIABLES phase, outcome, effects

cvars == <<phase, outcome, effects>>

Outcomes == {"done", "denied", "unknown"}

CInit ==
  /\ phase = [c \in Calls |-> "idle"]
  /\ outcome = [c \in Calls |-> "none"]
  /\ effects = [c \in Calls |-> 0]

Open(c) ==
  /\ phase[c] = "idle"
  /\ phase' = [phase EXCEPT ![c] = "open"]
  /\ UNCHANGED <<outcome, effects>>

Effect(c) ==
  /\ c \in Writes
  /\ phase[c] # "idle" /\ outcome[c] \in {"none", "unknown"}
  /\ effects[c] = 0
  /\ effects' = [effects EXCEPT ![c] = 1]
  /\ UNCHANGED <<phase, outcome>>

Close(c, o) ==
  /\ phase[c] = "open"
  /\ o = "done" /\ c \in Writes => effects[c] = 1
  /\ o = "denied" => effects[c] = 0
  /\ phase' = [phase EXCEPT ![c] = "closed"]
  /\ outcome' = [outcome EXCEPT ![c] = o]
  /\ UNCHANGED effects

CNext == \E c \in Calls : Open(c) \/ Effect(c) \/ \E o \in Outcomes : Close(c, o)

CSpec == CInit /\ [][CNext]_cvars
=============================================================================
