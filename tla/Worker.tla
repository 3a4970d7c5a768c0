------------------------------- MODULE Worker -------------------------------
(***************************************************************************)
(* What whoever asks a supervisor in a Task Pod to work on ids may rely   *)
(* on: an id is worked on at most once, whatever is repeated, cancelled,  *)
(* lost or restarted, and it is shown as exited only once that work has   *)
(* ended for good.  That it ended need not be shown at all.               *)
(***************************************************************************)
CONSTANT Ids

VARIABLES
  work,   \* per id: "new", "held" (accepted), "working" or "ended"
  shown   \* the ids whose record says that their process has exited

Init ==
  /\ work = [id \in Ids |-> "new"]
  /\ shown = {}

Accept(id) ==
  /\ work[id] = "new"
  /\ work' = [work EXCEPT ![id] = "held"]
  /\ UNCHANGED shown

Begin(id) ==
  /\ work[id] = "held"
  /\ work' = [work EXCEPT ![id] = "working"]
  /\ UNCHANGED shown

\* Work that was never begun may be given up too.
End(ids) ==
  /\ \A id \in ids : work[id] \in {"held", "working"}
  /\ work' = [id \in Ids |-> IF id \in ids THEN "ended" ELSE work[id]]
  /\ shown' \in SUBSET (shown \cup ids)

\* Records are read back, or lost, by a supervisor that restarts.
Show ==
  /\ shown' \in SUBSET {id \in Ids : work[id] = "ended"}
  /\ UNCHANGED work

Next ==
  \/ \E id \in Ids : Accept(id) \/ Begin(id)
  \/ \E ids \in SUBSET Ids : End(ids)
  \/ Show

Spec == Init /\ [][Next]_<<work, shown>>
=============================================================================
