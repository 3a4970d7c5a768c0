------------------------------ MODULE AgentRuns ------------------------------
(***************************************************************************)
(* The agent runs of one task: the Cairn dispatcher asks execution-control *)
(* for an admission, has the supervisor of the agent container start a     *)
(* process, saves its output, writes its result to the native graph        *)
(* through execution-control, and reports how it ended; meanwhile a user,  *)
(* a deadline or a doubt may have the task stopped.                        *)
(*                                                                        *)
(* Three processes that may each restart: the dispatcher, which remembers  *)
(* nothing, the handlers and stop() of execution-control, which keep rows, *)
(* and the supervisor, here the abstract Worker.  Every request and reply  *)
(* may be lost or late.  What a handler does between two awaits is one     *)
(* action.  Left out: contents of the graph, assignments, tokens, budgets. *)
(***************************************************************************)
EXTENDS Naturals, FiniteSets

CONSTANTS
  Runs,       \* agent_runs.id
  Intents,    \* what a run may be for: a phase and an intent
  Kinds,      \* the journalled native writes that are modelled
  Capacity,   \* how many runs a task may have at a time: 2 in the code
  None

ASSUME AgentRunsAssumption ==
  /\ None \notin Runs \cup Intents
  /\ Kinds \subseteq {"create_intent", "conclude", "complete"}
  /\ Capacity \in Nat

Ops == Runs \X Kinds

Outcomes == {"success", "failed", "cancelled", "rejected", "unknown"}

Rows == [state   : {"none", "running", "exited", "not_started", "unknown"},
         result  : {"pending", "synced", "reviewed", "rejected", "unknown"},
         outcome : Outcomes \cup {"none", "needs_followup"},
         output  : BOOLEAN]    \* saved, together with its receipt

NoRow == [state |-> "none", result |-> "pending", outcome |-> "none", output |-> FALSE]

VARIABLES
  task,      \* "running", "closing" once a stop is requested, "ended"
  web,       \* is the task a web assessment?
  row,       \* agent_runs
  for,       \* agent_runs.phase and intent_id
  verdict,   \* completion_reviews.decision of a run
  op,        \* core_operations.state
  waiting,   \* writes that have reached execution-control
  lock,      \* cairn_lock: the write that holds it, and what it awaits
  native,    \* what became of the request of a write at the Cairn server
  sends,     \* how often it was sent, 2 for more than once
  at,        \* where the dispatcher is with a run
  says,      \* the outcome it has to report
  put,       \* is the PUT of a run on its way?
  work,      \* the supervisor of the agent container, see Worker
  shown

dispatcher == <<at, says>>
worker == <<work, shown>>
writes == <<op, waiting, lock, native, sends>>
vars == <<task, web, row, for, verdict, writes, dispatcher, put, worker>>

Supervisor == INSTANCE Worker WITH Ids <- Runs

TypeOK ==
  /\ task \in {"running", "closing", "ended"}
  /\ web \in BOOLEAN
  /\ row \in [Runs -> Rows]
  /\ for \in [Runs -> Intents \cup {None}]
  /\ verdict \in [Runs -> {"none", "needs_followup", "stop_with_results"}]
  /\ op \in [Ops -> {"none", "sent", "succeeded", "rejected", "unknown"}]
  /\ waiting \in SUBSET Ops
  /\ lock \in [of : Ops, awaits : {"native", "snapshot", "reading"}]
              \cup [of : {None}, awaits : {"nothing"}]
  /\ native \in [Ops -> {"none", "flying", "applied", "refused"}]
  /\ sends \in [Ops -> 0..2]
  /\ at \in [Runs -> {"gone", "claimed", "starting", "watching", "saved", "reporting"}
                     \cup Kinds]
  /\ says \in [Runs -> Outcomes \cup {"none"}]
  /\ put \in [Runs -> BOOLEAN]
  /\ work \in [Runs -> {"new", "held", "working", "ended"}]
  /\ shown \in SUBSET Runs

Free == [of |-> None, awaits |-> "nothing"]

Init ==
  /\ task = "running" /\ web \in BOOLEAN
  /\ row = [r \in Runs |-> NoRow] /\ for = [r \in Runs |-> None]
  /\ verdict = [r \in Runs |-> "none"]
  /\ op = [o \in Ops |-> "none"] /\ waiting = {} /\ lock = Free
  /\ native = [o \in Ops |-> "none"] /\ sends = [o \in Ops |-> 0]
  /\ at = [r \in Runs |-> "gone"] /\ says = [r \in Runs |-> "none"]
  /\ put = [r \in Runs |-> FALSE]
  /\ Supervisor!Init

-----------------------------------------------------------------------------
(* Helpers *)

Settled == {"exited", "not_started"}

\* The runs that count: not known to have stopped, or with a result in doubt.
Active == {r \in Runs : /\ row[r].state # "none"
                        /\ \/ row[r].state \notin Settled
                           \/ row[r].result \in {"pending", "unknown"}}

\* Is the outcome of a native write of r open?
Pending(r) == \E o \in Ops : o[1] = r /\ op[o] \in {"sent", "unknown"}

\* finish_run: the row of r once outcome o is reported, v being its review.  A
\* saved output came with the receipt of an exited process.
Concluded(r, o, v) ==
  LET doubt    == Pending(r) \/ o = "unknown" \/ (o = "success" /\ ~row[r].output)
      reviewed == /\ web /\ o = "success" /\ row[r].output /\ ~Pending(r)
                  /\ v # "none"
  IN [row[r] EXCEPT
       !.state   = IF row[r].output THEN "exited"
                   ELSE IF o = "rejected" THEN "not_started" ELSE "unknown",
       !.result  = IF reviewed THEN "reviewed" ELSE IF doubt THEN "unknown"
                   ELSE IF o = "success" THEN "synced" ELSE "rejected",
       !.outcome = IF reviewed /\ v = "needs_followup"
                   THEN "needs_followup" ELSE o]

\* Fault: the outcome is taken for the state.
OutcomeAsState(r, o, v) == [Concluded(r, o, v) EXCEPT !.state = o]

\* Fault: writes of the run are not looked at.
WithoutItsWrites(r, o, v) ==
  IF row[r].outcome # "none" THEN row[r]
  ELSE [Concluded(r, o, v) EXCEPT !.result = IF o = "success" THEN "synced" ELSE "rejected"]

\* An outcome that is recorded stays.
Finished(r, o, v) == IF row[r].outcome # "none" THEN row[r] ELSE Concluded(r, o, v)

\* stop_requested: nothing changes for a task that is being stopped already.
Stopped == IF task = "running" THEN "closing" ELSE task

\* finish_run: whatever is not known to have ended well has the task stopped.
FinishRun(r, o) ==
  /\ row' = [row EXCEPT ![r] = Finished(r, o, verdict[r])]
  /\ task' = IF /\ row[r].outcome = "none"
                /\ \/ ~row[r].output \/ Pending(r) \/ o \notin {"success", "cancelled"}
             THEN Stopped ELSE task

\* Where a run of the dispatcher may be when it fails.
Handled(r) == at[r] \in {"claimed", "starting", "watching", "saved"} \cup Kinds

-----------------------------------------------------------------------------
(* Admission *)

\* Fault: the capacity and the intent are not looked at again after the await.
AsBefore(i) == task = "running"

\* What the admission requires, under the lock of the task's row.
Admissible(i) ==
  /\ task = "running"
  /\ Cardinality(Active) < Capacity
  /\ \A r \in Active : for[r] # i

\* The end of a request of _select_worker for an intent.  It has waited for the
\* native graph, others like it may be under way (blocked_admits, which keeps the
\* dispatcher from asking twice, is gone when it restarts), and its checks before
\* the wait promise nothing now.  The run goes on record as running before any
\* process exists; the reply may be lost, or come when nobody waits any more.
Admit(i, r) ==
  /\ row[r].state = "none" /\ Admissible(i)
  /\ row' = [row EXCEPT ![r] = [NoRow EXCEPT !.state = "running"]]
  /\ for' = [for EXCEPT ![r] = i]
  /\ \E place \in {"claimed", "gone"} : at' = [at EXCEPT ![r] = place]
  /\ UNCHANGED <<task, web, verdict, writes, says, put, worker>>

-----------------------------------------------------------------------------
(* The dispatcher works on a run *)

\* The claim of the intent is rejected, so no process is started.  The report
\* of it may be lost, or its reply, and is not repeated.
ClaimRejected(r) ==
  /\ at[r] = "claimed"
  /\ at' = [at EXCEPT ![r] = "gone"]
  /\ FinishRun(r, "rejected") \/ UNCHANGED <<task, row>>
  /\ UNCHANGED <<web, for, verdict, writes, says, put, worker>>

\* RemoteProcess.start, after the run is found to be permitted still.
Start(r) ==
  /\ at[r] = "claimed" /\ task = "running"
  /\ at' = [at EXCEPT ![r] = "starting"]
  /\ put' = [put EXCEPT ![r] = TRUE]
  /\ UNCHANGED <<task, web, row, for, verdict, writes, says, worker>>

\* The PUT is answered or, that lost, the id is known when it is read.
Started(r) ==
  /\ at[r] = "starting" /\ work[r] # "new"
  /\ at' = [at EXCEPT ![r] = "watching"]
  /\ UNCHANGED <<task, web, row, for, verdict, writes, says, put, worker>>

\* The status that the dispatcher polls says that the process has exited.
SeenExited(r) == r \in shown

\* communicate and save_output: an output is saved with the receipt of the exit.
SaveOutput(r) ==
  /\ at[r] = "watching" /\ SeenExited(r)
  /\ row' = [row EXCEPT ![r].output = TRUE]
  /\ at' = [at EXCEPT ![r] = "saved"]
  /\ UNCHANGED <<task, web, for, verdict, writes, says, put, worker>>

\* core_action up to the lock: new writes need a permitted task and an output.
\* A runner that has no answer yet may ask again.
Write(r, k) ==
  /\ at[r] \in {"saved", k} /\ row[r].output
  /\ op[<<r, k>>] # "none" \/ task = "running"
  /\ k = "complete" => ~web
  /\ at' = [at EXCEPT ![r] = k]
  /\ waiting' = waiting \cup {<<r, k>>}
  /\ UNCHANGED <<task, web, row, for, verdict, op, lock, native, sends,
                 says, put, worker>>

\* The runner has the answer: a success, a refusal or a doubt.
Written(r, k) ==
  /\ at[r] = k /\ op[<<r, k>>] # "none"
  /\ <<r, k>> \notin waiting /\ lock.of # <<r, k>>
  /\ at' = [at EXCEPT ![r] = "saved"]
  /\ UNCHANGED <<task, web, row, for, verdict, writes, says, put, worker>>

\* The runner is done with what it had to write.
Succeed(r) ==
  /\ at[r] = "saved"
  /\ at' = [at EXCEPT ![r] = "reporting"]
  /\ says' = [says EXCEPT ![r] = "success"]
  /\ UNCHANGED <<task, web, row, for, verdict, writes, put, worker>>

\* Anything else: a denial, a timeout, a lost reply, a process of unknown state,
\* an output that cannot be read, a cancellation before it wrote anything.
Fail(r) ==
  /\ Handled(r)
  /\ at' = [at EXCEPT ![r] = "reporting"]
  /\ \E o \in {"failed", "cancelled", "unknown"} :
       /\ o = "cancelled" => \A k \in Kinds : at[r] # k /\ op[<<r, k>>] = "none"
       /\ says' = [says EXCEPT ![r] = o]
  /\ UNCHANGED <<task, web, row, for, verdict, writes, put, worker>>

\* _reap_futures; the loop repeats a report that was not answered.
Report(r) ==
  /\ at[r] = "reporting"
  /\ FinishRun(r, says[r])
  /\ \/ UNCHANGED <<at, says>>
     \/ at' = [at EXCEPT ![r] = "gone"] /\ says' = [says EXCEPT ![r] = "none"]
  /\ UNCHANGED <<web, for, verdict, writes, put, worker>>

\* The dispatcher restarts and has forgotten everything.
DispatcherRestart ==
  /\ at' = [r \in Runs |-> "gone"]
  /\ says' = [r \in Runs |-> "none"]
  /\ UNCHANGED <<task, web, row, for, verdict, writes, put, worker>>

-----------------------------------------------------------------------------
(* Native writes, one at a time under cairn_lock *)

\* Fault: a write that is on record without an answer is sent again.
SendsAgain(o) == op[o] \in {"none", "sent", "unknown"}

\* Only a write that is not on record is sent.
IsNew(o) == op[o] = "none"

\* A write gets the lock.  A new one is put on record while the task runs, and
\* only then sent; one without an answer is read back; others are answered.
Take(o) ==
  /\ o \in waiting /\ lock = Free
  /\ waiting' = waiting \ {o}
  /\ IF IsNew(o) /\ task = "running"
     THEN /\ lock' = [of |-> o, awaits |-> "native"]
          /\ op' = [op EXCEPT ![o] = "sent"]
          /\ native' = [native EXCEPT ![o] = "flying"]
          /\ sends' = [sends EXCEPT ![o] = IF @ < 2 THEN @ + 1 ELSE @]
     ELSE /\ lock' = IF op[o] \in {"sent", "unknown"}
                     THEN [of |-> o, awaits |-> "reading"] ELSE Free
          /\ UNCHANGED <<op, native, sends>>
  /\ UNCHANGED <<task, web, row, for, verdict, dispatcher, put, worker>>

\* The Cairn server carries a write out, or refuses it, or never sees it.
Land(o) ==
  /\ native[o] = "flying"
  /\ \E fate \in {"applied", "refused", "none"} : native' = [native EXCEPT ![o] = fate]
  /\ UNCHANGED <<task, web, row, for, verdict, op, waiting, lock, sends, dispatcher,
                 put, worker>>

\* What the answer, if there is one, makes of the write.
Answer(o) == IF native[o] = "applied" THEN "succeeded"
             ELSE IF native[o] = "refused" THEN "rejected" ELSE "unknown"

\* The await of a write ends, with its answer or without.  Without, its run is
\* in doubt and the task is stopped.
WriteEnds(o) ==
  /\ lock = [of |-> o, awaits |-> "native"]
  /\ \E state \in {Answer(o), "unknown"} :
       /\ op' = [op EXCEPT ![o] = state]
       /\ lock' = IF state = "succeeded" THEN [of |-> o, awaits |-> "snapshot"] ELSE Free
       /\ IF state = "unknown"
          THEN row' = [row EXCEPT ![o[1]].result = "unknown"] /\ task' = Stopped
          ELSE UNCHANGED <<row, task>>
  /\ UNCHANGED <<web, for, verdict, waiting, native, sends, dispatcher, put, worker>>

\* The graph has been read, too.  A completion settles its run and stops the task.
Snapshot(o) ==
  /\ lock = [of |-> o, awaits |-> "snapshot"]
  /\ lock' = Free
  /\ IF o[2] = "complete"
     THEN /\ row' = [row EXCEPT ![o[1]] = Finished(o[1], "success", verdict[o[1]])]
          /\ task' = Stopped
     ELSE UNCHANGED <<row, task>>
  /\ UNCHANGED <<web, for, verdict, op, waiting, native, sends, dispatcher, put, worker>>

\* reconcile_native: a conclusion or completion that shows in the graph.
Found(o) == o[2] \in {"conclude", "complete"} /\ native[o] = "applied"

\* A write that was read back: nothing is sent.
ReadBack(o) ==
  /\ lock = [of |-> o, awaits |-> "reading"]
  /\ lock' = Free
  /\ op' = IF Found(o) THEN [op EXCEPT ![o] = "succeeded"] ELSE op
  /\ UNCHANGED <<task, web, row, for, verdict, waiting, native, sends, dispatcher, put,
                 worker>>

\* Fault: other runs do not keep a completion from being accepted.
OthersIgnored(r) == FALSE

\* Does another run keep the completion that r proposes from being accepted?
OthersActive(r) == Active \ {r} # {}

\* core_action, complete, for a web assessment: the proposal is reviewed once.
\* Open tool calls or missing evidence ask for more work, too.
Review(r) ==
  /\ web /\ at[r] = "saved" /\ row[r].output /\ task = "running"
  /\ verdict[r] = "none"
  /\ \E v \in {"needs_followup", "stop_with_results"} :
       /\ v = "stop_with_results" => ~OthersActive(r)
       /\ verdict' = [verdict EXCEPT ![r] = v]
       /\ IF v = "stop_with_results"
          THEN /\ row' = [row EXCEPT ![r] = Finished(r, "success", v)]
               /\ task' = Stopped
          ELSE UNCHANGED <<row, task>>
  /\ UNCHANGED <<web, for, writes, dispatcher, put, worker>>

-----------------------------------------------------------------------------
(* The supervisor of the agent container, as the abstract Worker *)

Accept(r) ==
  /\ put[r] /\ put' = [put EXCEPT ![r] = FALSE]
  /\ Supervisor!Accept(r)
  /\ UNCHANGED <<task, web, row, for, verdict, writes, dispatcher>>

PutLost(r) ==
  /\ put[r] /\ put' = [put EXCEPT ![r] = FALSE]
  /\ UNCHANGED <<task, web, row, for, verdict, writes, dispatcher, worker>>

Work ==
  /\ \/ \E r \in Runs : Supervisor!Begin(r) \/ Supervisor!End({r})
     \/ Supervisor!Show
  /\ UNCHANGED <<task, web, row, for, verdict, writes, dispatcher, put>>

-----------------------------------------------------------------------------
(* The end of the task *)

\* A user, a deadline, a withdrawn permission, another execution-control.
Close ==
  /\ task = "running" /\ task' = "closing"
  /\ UNCHANGED <<web, row, for, verdict, writes, dispatcher, put, worker>>

\* The runs stop() has to wait for.
Open == {r \in Runs : row[r].state \notin Settled \cup {"none"}}

\* Fault: an answer that the supervisor does not know the run is proof enough.
GoneOrExited(r) == r \in shown \/ work[r] = "new"

\* The answer to a GET that proves the end of a run.
ProvesExit(r) == r \in shown

\* stop() asks for a run to be cancelled, reads that it has exited and settles it,
\* but for an outcome or a result that is recorded already.
Cancelled(r) ==
  /\ task = "closing" /\ r \in Open /\ ProvesExit(r)
  /\ row' = [row EXCEPT ![r].state = "exited",
                        ![r].result = IF @ = "pending" THEN "rejected" ELSE @,
                        ![r].outcome = IF @ = "none" THEN "cancelled" ELSE @]
  /\ UNCHANGED <<task, web, for, verdict, writes, dispatcher, put, worker>>

\* With every run settled, stop() reads back what has no answer yet, and ends.
StopReads(o) ==
  /\ task = "closing" /\ Open = {}
  /\ op[o] \in {"sent", "unknown"} /\ Found(o)
  /\ op' = [op EXCEPT ![o] = "succeeded"]
  /\ UNCHANGED <<task, web, row, for, verdict, waiting, lock, native, sends, dispatcher,
                 put, worker>>

End ==
  /\ task = "closing" /\ Open = {}
  /\ task' = "ended"
  /\ UNCHANGED <<web, row, for, verdict, writes, dispatcher, put, worker>>

\* execution-control restarts: handlers and stop() are gone, admissions too.
Restart ==
  /\ waiting' = {} /\ lock' = Free
  /\ UNCHANGED <<task, web, row, for, verdict, op, native, sends, at, says,
                 put, worker>>

-----------------------------------------------------------------------------
Next ==
  \/ \E i \in Intents, r \in Runs : Admit(i, r)
  \/ DispatcherRestart
  \/ \E r \in Runs : \/ ClaimRejected(r) \/ Start(r) \/ Started(r) \/ SaveOutput(r)
                     \/ Succeed(r) \/ Fail(r) \/ Report(r) \/ Review(r)
                     \/ \E k \in Kinds : Write(r, k) \/ Written(r, k)
  \/ \E o \in Ops : Take(o) \/ Land(o) \/ WriteEnds(o) \/ Snapshot(o) \/ ReadBack(o)
  \/ \E r \in Runs : Accept(r) \/ PutLost(r) \/ Cancelled(r)
  \/ Work \/ Close \/ End \/ Restart
  \/ \E o \in Ops : StopReads(o)

Spec == Init /\ [][Next]_vars

-----------------------------------------------------------------------------
(* Properties *)

\* Is a process of the run at work, or can it still come to be?
Busy(r) == put[r] \/ work[r] \in {"held", "working"}

\* "While an Intent has a run that is running, stopping or being written back, no
\* other is dispatched" (cairn-architecture-decision.md): the processes of two
\* runs never work on one intent at a time, whatever was lost, late or restarted.
OneProcessPerIntent ==
  \A r, s \in Runs : r # s /\ for[r] # None /\ for[r] = for[s] => ~(Busy(r) /\ Busy(s))

\* A native write is sent at most once, whoever asks again and whatever restarts,
\* and what is on record as succeeded or rejected is what happened to it.
WritesAreTrue ==
  \A o \in Ops : /\ sends[o] <= 1
                 /\ op[o] = "succeeded" => native[o] = "applied"
                 /\ op[o] = "rejected" => native[o] = "refused"

\* The result of a run is synced only if its process has ended, its output is
\* saved, and none of its writes is waiting, on its way or in doubt.
SyncedIsComplete ==
  \A r \in Runs : row[r].result = "synced" =>
    /\ row[r].output /\ work[r] = "ended" /\ ~Pending(r)
    /\ \A k \in Kinds : op[<<r, k>>] = "none" => <<r, k>> \notin waiting

\* A web assessment that stops with results has no other run at work, and gets
\* none: nothing is added to what was reviewed.
ReviewedIsLast ==
  (\E r \in Runs : verdict[r] = "stop_with_results") =>
    \A r \in Runs : ~Busy(r)

\* A task ends only when no process of its runs is at work or can come to be.
EndedIsQuiet == task = "ended" => \A r \in Runs : ~Busy(r)

\* "Settle its producer before the stop consumer can mistake this successful run
\* for cancellation" (core.py): the run of a completion that succeeded is not
\* recorded as cancelled.  It is when a stop comes during the await of the write.
CompletionIsNoCancellation ==
  \A r \in Runs : /\ "complete" \in Kinds /\ op[<<r, "complete">>] = "succeeded"
                  /\ row[r].result = "rejected"
                  => row[r].outcome # "cancelled"
=============================================================================
