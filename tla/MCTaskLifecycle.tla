--------------------------- MODULE MCTaskLifecycle ---------------------------
(***************************************************************************)
(* TaskLifecycle with a history variable for its runs: whether the user's  *)
(* cancellation of an execution has been accepted.                         *)
(***************************************************************************)
EXTENDS TaskLifecycle

VARIABLE asked  \* history: a cancel was accepted while the task was executing

MCInit == Init /\ asked = FALSE

MCNext == Next /\ asked' = (asked \/ task'.state = "cancelling")

MCSpec == MCInit /\ [][MCNext]_<<vars, asked>>

\* An execution the user cancelled ends as cancelled, also when its stop had to
\* be reconciled (core-loop-plan.md: "cancel enters cancelling, execution
\* unknown reconciling, only confirmed stop cancelled").
CancelEndsCancelled ==
  asked /\ task.state \in Terminal => task.state = "cancelled"
=============================================================================
