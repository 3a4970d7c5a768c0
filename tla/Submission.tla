------------------------------ MODULE Submission ------------------------------
(***************************************************************************)
(* What the pages of a project promise about the commands a user submits  *)
(* in them: one at a time; a command takes effect at most once; it is     *)
(* called settled only if it has, and refused, as out of date, only if it *)
(* never will.  A command that is no longer followed, for whatever other  *)
(* reason, may still take effect.                                         *)
(***************************************************************************)
EXTENDS Naturals

CONSTANT Keys

VARIABLES
  told,      \* what the user knows of a key: "unsubmitted", "open" while the
             \* outcome is unknown, "settled", "refused" for good, or "dropped"
  effects    \* how often the command of a key was carried out

Init ==
  /\ told = [k \in Keys |-> "unsubmitted"]
  /\ effects = [k \in Keys |-> 0]

Submit(k) ==
  /\ told[k] = "unsubmitted"
  /\ \A j \in Keys : told[j] # "open"
  /\ told' = [told EXCEPT ![k] = "open"]
  /\ UNCHANGED effects

TakeEffect(k) ==
  /\ told[k] \in {"open", "dropped"} /\ effects[k] = 0
  /\ effects' = [effects EXCEPT ![k] = 1]
  /\ UNCHANGED told

Settle(k) ==
  /\ told[k] = "open" /\ effects[k] = 1
  /\ told' = [told EXCEPT ![k] = "settled"]
  /\ UNCHANGED effects

Refuse(k) ==
  /\ told[k] = "open" /\ effects[k] = 0
  /\ told' = [told EXCEPT ![k] = "refused"]
  /\ UNCHANGED effects

\* The user gives up on it or leaves, or is told of a refusal that may pass: it may
\* have been carried out, or yet be.
Drop(k) ==
  /\ told[k] = "open"
  /\ told' = [told EXCEPT ![k] = "dropped"]
  /\ UNCHANGED effects

Next == \E k \in Keys :
          Submit(k) \/ TakeEffect(k) \/ Settle(k) \/ Refuse(k) \/ Drop(k)

Spec == Init /\ [][Next]_<<told, effects>>
=============================================================================
