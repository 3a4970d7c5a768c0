------------------------------ MODULE ToolCalls ------------------------------
(***************************************************************************)
(* The tool calls of one task (Core in execution-control): an agent asks  *)
(* for a call, which goes on record and then to the supervisor of the     *)
(* task's tool container, is polled until it is shown as exited, and has  *)
(* to be settled before stop() may delete the Pod and end the task.       *)
(*                                                                        *)
(* The supervisor is the abstract Worker.  Requests and replies may be    *)
(* lost or late.  Handlers share one event loop: what happens between two *)
(* awaits is one action.  A cancel asks the supervisor to end the work of *)
(* a call, which it may do at any time; nothing else follows from it.     *)
(* Calls of platform tools are carried out by their handler itself.       *)
(* Left out: quotas, scopes, arguments, results, the counters of events.  *)
(***************************************************************************)
EXTENDS Naturals, FiniteSets

CONSTANTS
  Calls,          \* calls of tools of the container
  PlatformCalls   \* calls of tools of the platform

ASSUME ToolCallsAssumption == Calls \cap PlatformCalls = {}

AllCalls == Calls \cup PlatformCalls

VARIABLES
  task,     \* "running", "closing" once its licence is withdrawn, "ended"
  row,      \* tool_calls.state, "none" before the row exists
  handler,  \* create_call of a call: "none", "sending" or "platform" work
  put,      \* the PUT of a call: "none", "sent", or its reply on the way
  work,     \* the worker's side, see Worker
  shown,
  news,     \* calls for which a GET was answered with exited
  pod,      \* "up", "deleting" or "gone"
  stop      \* where stop() is: "idle" or before its "final" transaction

vars == <<task, row, handler, put, work, shown, news, pod, stop>>

Supervisor == INSTANCE Worker WITH Ids <- Calls

TypeOK ==
  /\ task \in {"running", "closing", "ended"}
  /\ row \in [AllCalls -> {"none", "registered", "running", "unknown", "exited",
                          "completed"}]
  /\ handler \in [AllCalls -> {"none", "sending", "platform"}]
  /\ \A c \in Calls : row[c] # "completed" /\ handler[c] # "platform"
  /\ \A c \in PlatformCalls : row[c] \in {"none", "registered", "completed"}
                               /\ handler[c] # "sending"
  /\ put \in [Calls -> {"none", "sent", "accepted", "refused"}]
  /\ work \in [Calls -> {"new", "held", "working", "ended"}]
  /\ shown \in SUBSET Calls
  /\ news \in SUBSET Calls
  /\ pod \in {"up", "deleting", "gone"}
  /\ stop \in {"idle", "final"}

Init ==
  /\ task = "running"
  /\ row = [c \in AllCalls |-> "none"]
  /\ handler = [c \in AllCalls |-> "none"]
  /\ put = [c \in Calls |-> "none"]
  /\ Supervisor!Init
  /\ news = {}
  /\ pod = "up"
  /\ stop = "idle"

worker == <<work, shown>>

Final == {"exited", "completed"}

-----------------------------------------------------------------------------
(* create_call *)

\* Up to the first await: under the task's lock, while it is running, the call
\* goes on record, and only then the request leaves.  A call that is on record
\* is answered from it.
Register(c) ==
  /\ task = "running" /\ row[c] = "none"
  /\ row' = [row EXCEPT ![c] = "registered"]
  /\ IF c \in PlatformCalls
     THEN handler' = [handler EXCEPT ![c] = "platform"] /\ UNCHANGED put
     ELSE /\ handler' = [handler EXCEPT ![c] = "sending"]
          /\ put' = [put EXCEPT ![c] = "sent"]
  /\ UNCHANGED <<task, worker, news, pod, stop>>

\* Fault: the row is set without looking.
GivenUpAnyway(state) == "unknown"

\* The row of a call whose launch has an unknown outcome.
GivenUp(state) == IF state \in Final THEN state ELSE "unknown"

\* The supervisor accepted the call: the row says running, whatever it said.
Accepted(c) ==
  /\ handler[c] = "sending" /\ put[c] = "accepted"
  /\ row' = [row EXCEPT ![c] = "running"]
  /\ handler' = [handler EXCEPT ![c] = "none"]
  /\ put' = [put EXCEPT ![c] = "none"]
  /\ UNCHANGED <<task, worker, news, pod, stop>>

\* It was refused, or there is no answer in time, or no Pod to ask; the request
\* may then still be on its way.
NotAccepted(c) ==
  /\ handler[c] = "sending"
  /\ row' = [row EXCEPT ![c] = GivenUp(@)]
  /\ handler' = [handler EXCEPT ![c] = "none"]
  /\ put' = [put EXCEPT ![c] = IF @ = "sent" THEN "sent" ELSE "none"]
  /\ UNCHANGED <<task, worker, news, pod, stop>>

\* platform_call: the work itself, with an await in it for graph_refresh.
PlatformDone(c) ==
  /\ handler[c] = "platform"
  /\ row' = [row EXCEPT ![c] = "completed"]
  /\ handler' = [handler EXCEPT ![c] = "none"]
  /\ UNCHANGED <<task, put, worker, news, pod, stop>>

\* An error that create_call does not catch (of the database, of Kubernetes, of
\* the artifact store) leaves the row as it is.
HandlerFails(c) ==
  /\ handler[c] # "none"
  /\ handler' = [handler EXCEPT ![c] = "none"]
  /\ put' = [d \in Calls |-> IF d = c /\ put[d] # "sent" THEN "none" ELSE put[d]]
  /\ UNCHANGED <<task, row, worker, news, pod, stop>>

-----------------------------------------------------------------------------
(* The supervisor of the container, as the abstract Worker *)

\* A launch is accepted, although it may fail afterwards and be answered so.
Accept(c) ==
  /\ pod # "gone" /\ put[c] = "sent"
  /\ Supervisor!Accept(c)
  /\ \E answer \in {"accepted", "refused"} :
       put' = [put EXCEPT ![c] = IF handler[c] = "sending" THEN answer ELSE "none"]
  /\ UNCHANGED <<task, row, handler, news, pod, stop>>

\* It is refused, or lost.
Refuse(c) ==
  /\ put[c] = "sent"
  /\ put' = [put EXCEPT ![c] = IF handler[c] = "sending" THEN "refused" ELSE "none"]
  /\ UNCHANGED <<task, row, handler, worker, news, pod, stop>>

Work ==
  /\ pod # "gone"
  /\ \/ \E c \in Calls : Supervisor!Begin(c) \/ Supervisor!End({c})
     \/ Supervisor!Show
  /\ UNCHANGED <<task, row, handler, put, news, pod, stop>>

-----------------------------------------------------------------------------
(* poll_call, by an agent, by tick() or by stop() *)

\* Fault: what the supervisor lost track of counts as exited.
ProvesExitOrLost(c) == c \in shown \/ work[c] \in {"held", "ended"}

\* Which answer to a GET proves that the call is over.
ProvesExit(c) == c \in shown

\* The GET for a call whose row is open is answered.
Answer(c) ==
  /\ pod # "gone" /\ row[c] \notin Final \cup {"none"}
  /\ ProvesExit(c)
  /\ news' = news \cup {c}
  /\ UNCHANGED <<task, row, handler, put, worker, pod, stop>>

\* Fault: an exit is recorded only for a call that is known to run.
ExitedIfRunning(state) == IF state = "running" THEN "exited" ELSE state

\* Fault: the call is finished the way platform calls are.
ExitedAsCompleted(state) == "completed"

\* What the row says after an answer that proves the exit.
Exited(state) == "exited"

\* The answer has arrived.
Poll(c) ==
  /\ c \in news
  /\ news' = news \ {c}
  /\ row' = [row EXCEPT ![c] = Exited(@)]
  /\ UNCHANGED <<task, handler, put, worker, pod, stop>>

PollLost(c) ==
  /\ c \in news
  /\ news' = news \ {c}
  /\ UNCHANGED <<task, row, handler, put, worker, pod, stop>>

-----------------------------------------------------------------------------
(* The end of the task *)

\* The licence is withdrawn: cancel, deadline, completion, restart (Licence).
Close ==
  /\ task = "running"
  /\ task' = "closing"
  /\ UNCHANGED <<row, handler, put, worker, news, pod, stop>>

\* Fault: only calls that are known to run keep the task open.
OpenIfKnown == {c \in AllCalls : row[c] \in {"registered", "running"}}

\* The calls that stop() has to wait for.
Open == {c \in AllCalls : row[c] \notin Final \cup {"none"}}

\* stop(), after it has cancelled and polled each open call, finds none: it has
\* the Pod deleted and, once a later visit finds it gone, goes on to its end.
Settle ==
  /\ task = "closing" /\ stop = "idle" /\ Open = {}
  /\ \/ pod = "up" /\ pod' = "deleting" /\ UNCHANGED stop
     \/ pod = "gone" /\ stop' = "final" /\ UNCHANGED pod
  /\ UNCHANGED <<task, row, handler, put, worker, news>>

\* A visit fails on the way.
StopFails ==
  /\ stop = "final" /\ stop' = "idle"
  /\ UNCHANGED <<task, row, handler, put, worker, news, pod>>

\* The final transaction, after awaits for native operations and a snapshot.
End ==
  /\ stop = "final"
  /\ task' = "ended" /\ stop' = "idle"
  /\ UNCHANGED <<row, handler, put, worker, news, pod>>

\* The containers have ended, and whatever they answered has long been read or
\* given up: a supervisor lives on for 5.5 s after it was told to stop.
PodGone ==
  /\ pod = "deleting" /\ pod' = "gone"
  /\ Supervisor!End({c \in Calls : work[c] \in {"held", "working"}})
  /\ put' = [c \in Calls |-> "none"]
  /\ UNCHANGED <<task, row, handler, news, stop>>

\* The process of execution-control ends; the next one takes its place, and
\* closes the task.
Restart ==
  /\ handler' = [c \in AllCalls |-> "none"]
  /\ put' = [c \in Calls |-> IF put[c] = "sent" THEN "sent" ELSE "none"]
  /\ news' = {} /\ stop' = "idle"
  /\ UNCHANGED <<task, row, worker, pod>>

-----------------------------------------------------------------------------
Next ==
  \/ \E c \in AllCalls : Register(c) \/ PlatformDone(c) \/ HandlerFails(c)
  \/ \E c \in Calls : \/ Accepted(c) \/ NotAccepted(c) \/ Accept(c) \/ Refuse(c)
                      \/ Answer(c) \/ Poll(c) \/ PollLost(c)
  \/ Work \/ Close \/ Settle \/ StopFails \/ End \/ PodGone \/ Restart

Spec == Init /\ [][Next]_vars

\* A handler has its answer or gives up after 10 s, and a Pod that is deleted
\* goes.  While a task is running and while it is closing, tick() polls each of
\* its open calls about once a second: now and then a poll is answered and the
\* answer arrives.  So it is with the visits of stop(), agent runs being settled.
Fairness ==
  /\ \A c \in AllCalls : WF_vars(PlatformDone(c))
  /\ \A c \in Calls : /\ WF_vars(Accepted(c) \/ NotAccepted(c))
                      /\ SF_vars(Answer(c)) /\ SF_vars(Poll(c))
  /\ SF_vars(Settle) /\ SF_vars(End) /\ WF_vars(PodGone)

FairSpec == Spec /\ Fairness

-----------------------------------------------------------------------------
(* Properties *)

\* A call is shown as exited only if its work has ended for good, whatever was
\* lost or came late (only an answer that says exited is believed by poll_call).
ExitIsProven == \A c \in Calls : row[c] = "exited" => work[c] = "ended"

\* stop() has the Pod deleted only when no call is being worked on or will be:
\* the deletion is no substitute for the proof that a call has stopped, also
\* for calls whose launch was lost, late or repeated (the pending check).
DeletedWhenQuiet ==
  pod # "up" => \A c \in Calls : work[c] \in {"new", "ended"} /\ put[c] # "sent"

\* A task that has ended has no open call, and never will again, although
\* handlers of create_call may still be waiting for their answer.
EndedIsSettled ==
  task = "ended" => \A c \in AllCalls : row[c] \in {"none", "exited", "completed"}

\* A task does not stay for ever in stop() while the supervisor of its Pod shows
\* each of its open calls as exited, in particular when there is none.
ClosingTaskEnds ==
  ~<>[](task = "closing" /\ \A c \in Open : c \in shown /\ pod # "gone")

\* "Once it is confirmed to have stopped with its result missing, it may end in
\* part" (cairn-architecture-decision.md): a platform call does not stay open for
\* ever.  It fails when the process or, by an error, the handler ends during the
\* call: nobody polls it.
PlatformCallsSettle ==
  \A c \in PlatformCalls : row[c] = "registered" ~> row[c] = "completed"
=============================================================================
