------------------------------- MODULE Licence -------------------------------
(***************************************************************************)
(* What starting a task promises, with the protocol left out: a licence   *)
(* is granted once, resources are held under it, it is withdrawn once,    *)
(* and it ends only when every resource has been given back.  A resource  *)
(* may still be taken while the licence is being withdrawn, by a request  *)
(* that was already on its way; it then has to be given back as well.     *)
(***************************************************************************)
CONSTANT Resources

VARIABLES phase, held

Phases == {"idle", "open", "closing", "closed"}

Init == phase = "idle" /\ held = {}

Grant == phase = "idle" /\ phase' = "open" /\ held' = held

\* A licence that was never granted ends without further ado.
Decline == phase = "idle" /\ phase' = "closed" /\ held' = held

Take(r) ==
  /\ phase \in {"open", "closing"}
  /\ held' = held \cup {r}
  /\ phase' = phase

GiveBack(r) ==
  /\ phase \in {"open", "closing"}
  /\ held' = held \ {r}
  /\ phase' = phase

Withdraw == phase = "open" /\ phase' = "closing" /\ held' = held

End == phase = "closing" /\ held = {} /\ phase' = "closed" /\ held' = held

Next ==
  \/ Grant \/ Decline \/ Withdraw \/ End
  \/ \E r \in Resources : Take(r) \/ GiveBack(r)

Spec == Init /\ [][Next]_<<phase, held>>
=============================================================================
