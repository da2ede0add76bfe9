--------------------------- MODULE OneTimeSecret ---------------------------
(***************************************************************************)
(* What the service-account dialog promises about the client secrets it    *)
(* receives: every secret is readable during one uninterrupted period, and *)
(* the period ends because the user acknowledged the secret, because the   *)
(* user gave it up knowingly, or where no guard reaches: the page that     *)
(* hosts the dialog was withdrawn, or the guard was not armed yet.  What   *)
(* has ended is never readable again.                                      *)
(***************************************************************************)
CONSTANT Creates

VARIABLES
  phase,       \* [Creates -> Phases]
  acked        \* [Creates -> BOOLEAN]: the acknowledgement is ticked

Phases == {"unused", "coming", "readable", "refused", "saved", "given",
           "unguarded"}

Init ==
  /\ phase = [c \in Creates |-> "unused"]
  /\ acked = [c \in Creates |-> FALSE]

Request(c) ==
  /\ phase[c] = "unused"
  /\ phase' = [phase EXCEPT ![c] = "coming"]
  /\ UNCHANGED acked

Refuse(c) ==
  /\ phase[c] = "coming"
  /\ phase' = [phase EXCEPT ![c] = "refused"]
  /\ UNCHANGED acked

Deliver(c) ==
  /\ phase[c] = "coming"
  /\ phase' = [phase EXCEPT ![c] = "readable"]
  /\ UNCHANGED acked

Tick(c) ==
  /\ phase[c] = "readable"
  /\ acked' = [acked EXCEPT ![c] = ~@]
  /\ UNCHANGED phase

Save(c) ==
  /\ phase[c] = "readable"
  /\ acked[c]
  /\ phase' = [phase EXCEPT ![c] = "saved"]
  /\ acked' = [acked EXCEPT ![c] = FALSE]

Lose(c, how) ==
  /\ phase[c] \in {"coming", "readable"}
  /\ ~acked[c]
  /\ phase' = [phase EXCEPT ![c] = how]
  /\ UNCHANGED acked

Next ==
  \E c \in Creates :
    \/ Request(c) \/ Refuse(c) \/ Deliver(c) \/ Tick(c) \/ Save(c)
    \/ Lose(c, "given") \/ Lose(c, "unguarded")

Spec == Init /\ [][Next]_<<phase, acked>>
=============================================================================
