------------------------------- MODULE TaskRow -------------------------------
(***************************************************************************)
(* The row of table `tasks` that every part of the platform locks before  *)
(* it decides anything, and the writes the code makes to it.  A row is    *)
(* the record [state, epoch, reason, egress, cleanup]; the counters       *)
(* `version` and `event_sequence`, which every write increments, are left *)
(* to the readers that compare them.                                      *)
(*                                                                        *)
(* The epoch only ever fences: the code compares it for equality with the *)
(* epoch an execution was started with.  MaxEpoch therefore saturates the *)
(* counter instead of stopping it.                                        *)
(***************************************************************************)
EXTENDS Naturals

CONSTANT MaxEpoch  \* bound: the largest epoch told apart from its successor

ASSUME MaxEpochAssumption == MaxEpoch \in Nat /\ MaxEpoch >= 2

TaskStates == {"ready", "provisioning", "running", "completing", "completed",
               "cancelling", "cancelled", "reconciling"}

\* "exploration_ended" stands for the seven reasons the handlers of a running
\* exploration give, which nothing here tells apart: exploration_completed,
\* result_sync_unknown, agent_result_incomplete, budget_exhausted, no_progress,
\* assessment_complete and assessment_partial.
Reasons == {"none", "user_cancelled", "controller_restarted", "runtime_deadline",
            "authorization_or_model_unavailable", "model_key_rejected",
            "model_key_conflict", "exploration_ended"}

Open     == {"provisioning", "running"}                  \* execution is licensed
Closing  == {"cancelling", "completing", "reconciling"}  \* stop() owns the task
Terminal == {"completed", "cancelled"}

TaskRows == [state   : TaskStates,
             epoch   : 0..MaxEpoch,
             reason  : Reasons,
             egress  : {"not_granted", "fixture_only", "revoking", "revoked", "unknown"},
             cleanup : {"not_required", "pending", "completed", "unknown"}]

ReadyTask == [state |-> "ready", epoch |-> 0, reason |-> "none",
              egress |-> "not_granted", cleanup |-> "not_required"]

NextEpoch(e) == IF e < MaxEpoch THEN e + 1 ELSE e

\* POST .../commands with action start, once its guards have passed.
StartRow(t) == [t EXCEPT !.state = "provisioning", !.epoch = NextEpoch(@)]

\* Fault: a task whose provisioning has only begun is cancelled at once.
CancelRowAtOnce(t) ==
  IF t.state \in {"ready", "provisioning"}
  THEN [t EXCEPT !.state = "cancelled", !.reason = "user_cancelled"]
  ELSE [t EXCEPT !.state = "cancelling", !.reason = "user_cancelled",
                 !.epoch = NextEpoch(@)]

\* POST .../commands with action cancel: a task that never started is
\* cancelled at once, any other one is handed to stop() under a new epoch.
CancelRow(t) ==
  IF t.state = "ready"
  THEN [t EXCEPT !.state = "cancelled", !.reason = "user_cancelled"]
  ELSE [t EXCEPT !.state = "cancelling", !.reason = "user_cancelled",
                 !.epoch = NextEpoch(@)]

\* Fault: the licence is closed under the epoch it was granted with.
StopRequestedSameEpoch(t, why) ==
  IF t.state \in Terminal \cup {"cancelling", "completing"}
  THEN t
  ELSE [t EXCEPT !.state = "completing", !.egress = "revoking", !.reason = why]

\* Fault: the states of a runtime attempt are taken for those of a task.
StopRequestedStopping(t, why) ==
  IF t.state \in Terminal \cup {"cancelling", "completing"}
  THEN t
  ELSE [t EXCEPT !.state = "stopping", !.epoch = NextEpoch(@),
                 !.egress = "revoking", !.reason = why]

\* Store.stop_requested: the platform closes the licence itself.
StopRequested(t, why) ==
  IF t.state \in Terminal \cup {"cancelling", "completing"}
  THEN t
  ELSE [t EXCEPT !.state = "completing", !.epoch = NextEpoch(@),
                 !.egress = "revoking", !.reason = why]

\* The transaction that ends stop(), for a task in a closing state.
FinalRow(t, clean) ==
  [t EXCEPT !.state = IF t.reason = "user_cancelled" \/ t.state = "cancelling"
                      THEN "cancelled" ELSE "completed",
            !.egress = "revoked", !.cleanup = clean]
=============================================================================
