---------------------------- MODULE TaskLifecycle ----------------------------
(***************************************************************************)
(* One task from `ready` to a terminal state: the commands of the API     *)
(* process, the single consumer of execution-control (Core.tick with      *)
(* provision and stop), and the three services it writes to, each of      *)
(* which may lose a request or its reply: the model gateway (a key), the  *)
(* Kubernetes API (a Pod) and the Cairn server (a native project).        *)
(*                                                                        *)
(* The consumer is a coroutine.  Every place where it commits, awaits or  *)
(* calls out is a value of tick.at, so that a cancel, a crash, an expiry  *)
(* or a late landing can fall between any two of its steps.  Its snapshot *)
(* of task_executions needs no copy: the row is written by the consumer   *)
(* alone, and each field is read in a tick before the tick writes it.     *)
(*                                                                        *)
(* Agent runs and tool calls appear here only as the outcome of stop()'s  *)
(* question whether any is still open; ToolCalls models them.             *)
(***************************************************************************)
EXTENDS TaskRow

CONSTANTS
  MaxInstances,  \* bound: how many processes execution-control may be, in turn
  MaxPods,       \* bound: how many Pods of the task's Pod name may be created
  LatePods       \* may Kubernetes create a Pod after the request has timed out?

ASSUME BoundsAssumption ==
  MaxInstances \in Nat \ {0} /\ MaxPods \in Nat \ {0} /\ LatePods \in BOOLEAN

VARIABLES
  task,     \* the row of tasks
  ex,       \* the row of task_executions
  rt,       \* the row of runtime_attempts, attempt 1
  tick,     \* where the consumer is, and what this tick has learnt
  core,     \* the live process of execution-control
  service,  \* execution_services: the process that last sent a heartbeat
  permit,   \* operator, project, tenant, model and authorization all valid
  late,     \* 900 seconds have passed since the execution was created
  key,      \* the virtual key at the model gateway
  pod,      \* the Task Pod in Kubernetes
  uid,      \* the uid of the Pod created last; 0 before the first
  graph,    \* the native project at Cairn
  sent      \* how often each create request has left the consumer

vars == <<task, ex, rt, tick, core, service, permit, late, key, pod, uid, graph,
          sent>>

Executions == [state   : {"none", "pending", "running", "stopped"},
               epoch   : 0..MaxEpoch,
               owner   : 0..MaxInstances,
               model   : {"pending", "sent", "unknown", "ready", "blocked",
                          "block_unknown", "block_rejected"},
               hashed  : BOOLEAN,   \* key_hash is set
               binding : {"pending", "sent", "unknown", "bound"}]

NoExecution == [state |-> "none", epoch |-> 0, owner |-> 0, model |-> "pending",
                hashed |-> FALSE, binding |-> "pending"]

Attempts == [state : {"none", "pending", "provisioning", "ready", "stopping",
                      "stopped", "unknown"},
             uid   : 0..MaxPods]    \* pod_uid, 0 while it is not known

Places == {"idle", "provision", "key", "generate", "lookup", "pod", "create",
           "recheck", "bind", "project", "activate", "running",
           "stop", "find", "work", "clean", "settle", "final"}

Ticks == [at      : Places,
          seen    : TaskStates,     \* the task's state when the tick read it
          blocked : BOOLEAN,        \* stop(): the key is known to be blocked
          absent  : BOOLEAN,        \* stop(): no Pod of that name exists
          clean   : {"not_required", "pending", "completed"}]

Idle == [at |-> "idle", seen |-> "ready", blocked |-> FALSE, absent |-> FALSE,
         clean |-> "not_required"]

TypeOK ==
  /\ task \in TaskRows
  /\ ex \in Executions
  /\ rt \in Attempts
  /\ tick \in Ticks
  /\ core \in 1..MaxInstances
  /\ service \in 0..MaxInstances
  /\ permit \in BOOLEAN
  /\ late \in BOOLEAN
  /\ key \in {"absent", "flying", "live", "blocked"}
  /\ pod \in {"none", "flying", "starting", "ready", "ended", "deleting"}
  /\ uid \in 0..MaxPods
  /\ graph \in {"none", "flying", "active", "stopped"}
  /\ sent \in [{"key", "project"} -> 0..2]

Init ==
  /\ task = ReadyTask
  /\ ex = NoExecution
  /\ rt = [state |-> "none", uid |-> 0]
  /\ tick = Idle
  /\ core = 1
  /\ service = 0
  /\ permit = TRUE
  /\ late = FALSE
  /\ key = "absent"
  /\ pod = "none"
  /\ uid = 0
  /\ graph = "none"
  /\ sent = [r \in {"key", "project"} |-> 0]

-----------------------------------------------------------------------------
(* Helpers *)

At(place) == tick.at = place

GoTo(place) == tick' = [tick EXCEPT !.at = place]

Sleep == tick' = Idle

CountSend(r) == sent' = [sent EXCEPT ![r] = IF @ < 2 THEN @ + 1 ELSE @]

\* Store.permitted: may this execution act now, under runtime attempt a?
Permitted(a) ==
  /\ task.epoch = ex.epoch
  /\ task.state \in Open
  /\ permit
  /\ a.state \notin {"none", "stopped", "unknown"}

\* Core.current.
Current == Permitted(rt)

\* GET on the Pod's name answers 404.
NoPod == pod \in {"none", "flying"}

\* Fault: a key whose creation was not confirmed is asked for again.
KeyToAskForAgain == ex.model \in {"pending", "unknown"}

\* The key has never been asked for.
KeyToAskFor == ex.model = "pending"

\* Fault: a project whose creation was not confirmed is taken for created.
ProjectPresumedBound == ex.binding \in {"bound", "unknown"}

\* The id of the native project is known.
ProjectBound == ex.binding = "bound"

\* Fault: the Pod is looked for only when its state is in doubt.
PodUnrecordedInDoubt == rt.state = "unknown" /\ rt.uid = 0

\* A Pod may have been created whose uid was not recorded.
PodUnrecorded == rt.state # "none" /\ rt.uid = 0

\* Fault: a task that is reconciling waits for someone to look at it.
DispatchUnlessReconciling(state) ==
  CASE state = "provisioning" -> "provision"
    [] state = "running" -> "running"
    [] state \in Closing \ {"reconciling"} -> "stop"
    [] OTHER -> "idle"

\* What Core.tick does with an execution whose task is in this state.
Dispatch(state) ==
  CASE state = "provisioning" -> "provision"
    [] state = "running" -> "running"
    [] state \in Closing -> "stop"
    [] OTHER -> "idle"

externals == <<key, pod, uid, graph>>
clocks    == <<core, service, permit, late>>

-----------------------------------------------------------------------------
(* The API process: start and cancel *)

\* start_command: the heartbeat it trusts may be that of a process that has
\* crashed since (it is accepted for 15 seconds).
Start ==
  /\ task.state = "ready"
  /\ service # 0
  /\ permit
  /\ task' = StartRow(task)
  /\ ex' = [NoExecution EXCEPT !.state = "pending", !.epoch = NextEpoch(task.epoch),
                               !.owner = service]
  /\ UNCHANGED <<rt, tick, clocks, externals, sent>>

\* control_task_command: accepted in every state but the terminal ones.
Cancel ==
  /\ task.state \notin Terminal
  /\ task' = CancelRow(task)
  /\ UNCHANGED <<ex, rt, tick, clocks, externals, sent>>

\* The handlers of an exploration close the licence too (core_action,
\* finish_run), whatever state the task is in by then: core_action does it after
\* an await, during which the consumer may have stopped the task.
ExplorationEnds ==
  /\ ex.state \in {"running", "stopped"} /\ ProjectBound
  /\ task' = StopRequested(task, "exploration_ended")
  /\ UNCHANGED <<ex, rt, tick, clocks, externals, sent>>

-----------------------------------------------------------------------------
(* The consumer: one tick *)

\* Core.tick writes its heartbeat before it looks at any execution.
Heartbeat ==
  /\ At("idle")
  /\ service # core
  /\ service' = core
  /\ UNCHANGED <<task, ex, rt, tick, core, permit, late, externals, sent>>

\* Core.tick, per execution: adopt it after a restart, enforce the deadline,
\* then dispatch on the state the task is in by now.
Tick ==
  /\ At("idle")
  /\ service = core
  /\ ex.state \notin {"none", "stopped"}
  /\ LET adopted == IF ex.owner # core
                    THEN StopRequested(task, "controller_restarted") ELSE task
         t == IF late THEN StopRequested(adopted, "runtime_deadline") ELSE adopted
     IN /\ task' = t
        /\ ex' = [ex EXCEPT !.owner = core]
        /\ tick' = [Idle EXCEPT !.seen = t.state, !.at = Dispatch(t.state)]
  /\ UNCHANGED <<rt, clocks, externals, sent>>

\* The branch of Core.tick for a running task.
TickRunning ==
  /\ At("running")
  /\ task' = IF Current THEN task
             ELSE StopRequested(task, "authorization_or_model_unavailable")
  /\ Sleep
  /\ UNCHANGED <<ex, rt, clocks, externals, sent>>

\* Any exception of a tick is recorded in failure_reason and ends the tick.
TickFails ==
  /\ ~At("idle")
  /\ Sleep
  /\ UNCHANGED <<task, ex, rt, clocks, externals, sent>>

-----------------------------------------------------------------------------
(* provision() *)

\* The attempt is recorded before anything is asked of anyone, and the licence
\* is checked under it.
ProvisionAttempt ==
  /\ At("provision")
  /\ LET attempt == IF rt.state = "none" THEN [rt EXCEPT !.state = "pending"] ELSE rt
     IN \/ /\ task.state # "provisioning"
           /\ Sleep
           /\ UNCHANGED <<task, rt>>
        \/ /\ task.state = "provisioning"
           /\ rt' = attempt
           /\ IF Permitted(attempt)
              THEN /\ GoTo("key")
                   /\ UNCHANGED task
              ELSE /\ task' = StopRequested(task, "authorization_or_model_unavailable")
                   /\ Sleep
  /\ UNCHANGED <<ex, clocks, externals, sent>>

\* A key is asked for at most once, and that it was asked for is on record
\* before the request leaves.  The calls for the Secrets come in between: the
\* licence may have been closed since it was checked.
ProvisionKey ==
  /\ At("key")
  /\ \/ /\ KeyToAskFor
        /\ ex' = [ex EXCEPT !.model = "sent", !.hashed = TRUE]
        /\ key' = "flying"
        /\ CountSend("key")
        /\ GoTo("generate")
     \/ /\ ~KeyToAskFor
        /\ GoTo(IF ex.model = "ready" THEN "pod" ELSE "lookup")
        /\ UNCHANGED <<ex, key, sent>>
  /\ UNCHANGED <<task, rt, clocks, pod, uid, graph>>

\* The reply to POST /key/generate, its rejection, or silence.
GenerateReply ==
  /\ At("generate")
  /\ \/ /\ key = "live"
        /\ ex' = [ex EXCEPT !.model = "ready"]
        /\ GoTo("pod")
        /\ UNCHANGED task
     \/ /\ ex' = [ex EXCEPT !.model = "unknown"]
        /\ Sleep
        /\ UNCHANGED task
     \/ /\ key = "absent"
        /\ task' = StopRequested(task, "model_key_rejected")
        /\ Sleep
        /\ UNCHANGED ex
  /\ UNCHANGED <<rt, clocks, externals, sent>>

\* A key whose creation was not confirmed is looked up, never asked for again.
LookupReply ==
  /\ At("lookup")
  /\ \/ /\ key \in {"absent", "flying"}
        /\ Sleep
        /\ UNCHANGED <<task, ex>>
     \/ /\ key \in {"live", "blocked"}
        /\ ex' = [ex EXCEPT !.model = "ready"]
        /\ GoTo("pod")
        /\ UNCHANGED task
     \/ /\ key \in {"live", "blocked"}   \* with another model, budget or owner
        /\ task' = StopRequested(task, "model_key_conflict")
        /\ Sleep
        /\ UNCHANGED ex
  /\ UNCHANGED <<rt, clocks, externals, sent>>

\* TaskRuntimeController.ensure, up to the create request.
PodCheck ==
  /\ At("pod")
  /\ \/ ~Current /\ Sleep
     \/ Current /\ GoTo(IF NoPod THEN "create" ELSE "recheck")
  /\ UNCHANGED <<task, ex, rt, clocks, externals, sent>>

\* The permit was checked a moment ago, in another transaction.  A request that
\* times out ends the tick; TickFails covers the one that is lost for good.
PodCreate ==
  /\ At("create")
  /\ uid < MaxPods
  /\ \/ /\ pod' = "starting"
        /\ uid' = uid + 1
        /\ GoTo("recheck")
     \/ /\ LatePods
        /\ pod' = "flying"
        /\ uid' = uid
        /\ Sleep
  /\ UNCHANGED <<task, ex, rt, clocks, key, graph, sent>>

\* ensure() after the Pod exists: a permit lost meanwhile deletes it again;
\* provision() then records what was observed.
PodRecheck ==
  /\ At("recheck")
  /\ \/ /\ ~Current
        /\ pod' = IF NoPod THEN pod ELSE "deleting"
        /\ rt' = [state |-> IF NoPod THEN "stopped" ELSE "stopping", uid |-> uid]
        /\ Sleep
     \/ /\ Current
        /\ pod # "ended"       \* RuntimeConflict: TickFails
        /\ rt' = [uid   |-> uid,
                  state |-> CASE pod = "ready" -> "ready"
                              [] pod = "starting" -> "provisioning"
                              [] OTHER -> "stopping"]
        /\ pod' = pod
        /\ IF pod = "ready" THEN GoTo("bind") ELSE Sleep
  /\ UNCHANGED <<task, ex, clocks, key, uid, graph, sent>>

\* The native project is asked for at most once.
Bind ==
  /\ At("bind")
  /\ \/ /\ ex.binding = "pending"
        /\ ex' = [ex EXCEPT !.binding = "sent"]
        /\ graph' = "flying"
        /\ CountSend("project")
        /\ GoTo("project")
     \/ /\ ex.binding # "pending"
        /\ IF ProjectBound THEN GoTo("activate") ELSE Sleep
        /\ UNCHANGED <<ex, graph, sent>>
  /\ UNCHANGED <<task, rt, clocks, key, pod, uid>>

\* 201 with the new id, or anything else, after which the id is never learnt.
ProjectReply ==
  /\ At("project")
  /\ \/ /\ graph = "active"
        /\ ex' = [ex EXCEPT !.binding = "bound"]
        /\ GoTo("activate")
     \/ /\ ex' = [ex EXCEPT !.binding = "unknown"]
        /\ Sleep
  /\ UNCHANGED <<task, rt, clocks, externals, sent>>

\* The transaction that ends provision().
Activate ==
  /\ At("activate")
  /\ IF task.state = "provisioning"
     THEN /\ ex' = [ex EXCEPT !.state = "running"]
          /\ task' = [task EXCEPT !.state = "running", !.egress = "fixture_only"]
     ELSE UNCHANGED <<task, ex>>
  /\ Sleep
  /\ UNCHANGED <<rt, clocks, externals, sent>>

-----------------------------------------------------------------------------
(* stop() *)

\* The gateway is asked to block the key.  landed: the request took effect;
\* heard: its reply arrived; looked: so did that of the lookup made when the
\* block was not confirmed.
StopKey(landed, heard, looked) ==
  /\ At("stop")
  /\ LET asks    == ex.hashed /\ ex.model # "blocked"
         exists  == key \in {"live", "blocked"}
         key2    == IF asks /\ landed /\ exists THEN "blocked" ELSE key
         blocked == \/ ex.hashed /\ ex.model = "blocked"
                    \/ asks /\ landed /\ heard /\ exists
                    \/ asks /\ looked /\ key2 = "blocked"
     IN /\ key' = key2
        /\ ex' = [ex EXCEPT !.model = IF ~ex.hashed THEN @
                                      ELSE IF blocked THEN "blocked"
                                      ELSE IF heard THEN "block_rejected"
                                      ELSE "block_unknown"]
        /\ tick' = [tick EXCEPT !.at = "find",
                      !.blocked = blocked \/ (~ex.hashed /\ ex.model = "pending")]
  /\ UNCHANGED <<task, rt, clocks, pod, uid, graph, sent>>

\* A Pod that may have been created without its uid being recorded is looked
\* for by name.
StopFind ==
  /\ At("find")
  /\ IF PodUnrecorded
     THEN /\ tick' = [tick EXCEPT !.at = "work", !.absent = NoPod]
          /\ rt' = [rt EXCEPT !.uid = IF NoPod THEN 0 ELSE uid]
     ELSE /\ GoTo("work")
          /\ rt' = rt
  /\ UNCHANGED <<task, ex, clocks, externals, sent>>

\* When that cannot be answered, the task is left to reconcile.
StopFindFails ==
  /\ At("find")
  /\ PodUnrecorded
  /\ rt' = [rt EXCEPT !.state = "unknown"]
  /\ task' = [task EXCEPT !.state = "reconciling", !.cleanup = "unknown"]
  /\ Sleep
  /\ UNCHANGED <<ex, clocks, externals, sent>>

\* Calls and runs are cancelled and the native project is told to stop; the
\* reply to that is not looked at.  While any call or run is still open the
\* tick ends here, and after 20 seconds the task is shown as reconciling.
StopWork(settled, landed) ==
  /\ At("work")
  /\ graph' = IF ProjectBound /\ landed /\ graph = "active"
              THEN "stopped" ELSE graph
  /\ \/ /\ settled
        /\ GoTo("clean")
        /\ UNCHANGED task
     \/ /\ ~settled
        /\ ex.state = "running"    \* no call or run precedes Activate
        /\ \/ UNCHANGED task
           \/ /\ tick.seen # "reconciling"
              /\ task' = [task EXCEPT !.state = "reconciling"]
        /\ Sleep
  /\ UNCHANGED <<ex, rt, clocks, key, pod, uid, sent>>

\* TaskRuntimeController.stop, and what stop() records of it.  A Pod of that
\* name with another uid than the recorded one is refused: TickFails.
StopPod ==
  /\ At("clean")
  /\ \/ /\ rt.state # "none" /\ rt.uid # 0
        /\ NoPod \/ rt.uid = uid
        /\ pod' = IF NoPod THEN pod ELSE "deleting"
        /\ rt' = [rt EXCEPT !.state = IF NoPod THEN "stopped" ELSE "stopping"]
        /\ tick' = [tick EXCEPT !.at = "settle",
                      !.clean = IF NoPod THEN "completed" ELSE "pending"]
     \/ /\ rt.state = "none" \/ rt.uid = 0
        /\ rt' = IF rt.state # "none" /\ tick.absent
                 THEN [rt EXCEPT !.state = "stopped"] ELSE rt
        /\ pod' = pod
        /\ GoTo("settle")
  /\ UNCHANGED <<task, ex, clocks, key, uid, graph, sent>>

\* Without a confirmed block, or while the Pod is still going, not yet.
StopSettle ==
  /\ At("settle")
  /\ IF tick.blocked
     THEN /\ UNCHANGED task
          /\ IF tick.clean = "pending" THEN Sleep ELSE GoTo("final")
     ELSE /\ task' = [task EXCEPT !.state = "reconciling", !.egress = "unknown",
                                  !.cleanup = tick.clean]
          /\ Sleep
  /\ UNCHANGED <<ex, rt, clocks, externals, sent>>

\* The transaction that ends stop(): in a state that is not a closing one it
\* raises (TickFails) or returns.
StopFinal ==
  /\ At("final")
  /\ task.state \in Closing
  /\ task' = FinalRow(task, tick.clean)
  /\ ex' = [ex EXCEPT !.state = "stopped"]
  /\ Sleep
  /\ UNCHANGED <<rt, clocks, externals, sent>>

-----------------------------------------------------------------------------
(* Crashes, clocks and the services *)

\* The Deployment is replaced with strategy Recreate: one process at a time.
Restart ==
  /\ core < MaxInstances
  /\ core' = core + 1
  /\ Sleep
  /\ UNCHANGED <<task, ex, rt, service, permit, late, externals, sent>>

\* The operator or model is disabled, or enabled again.
PermitChanges ==
  /\ permit' = ~permit
  /\ UNCHANGED <<task, ex, rt, tick, core, service, late, externals, sent>>

DeadlinePasses ==
  /\ ex.state # "none" /\ ~late
  /\ late' = TRUE
  /\ UNCHANGED <<task, ex, rt, tick, core, service, permit, externals, sent>>

\* A create request reaches its service, however late, or is lost or refused.
KeyLands ==
  /\ key = "flying"
  /\ key' \in {"live", "absent"}
  /\ UNCHANGED <<task, ex, rt, tick, clocks, pod, uid, graph, sent>>

ProjectLands ==
  /\ graph = "flying"
  /\ graph' \in {"active", "none"}
  /\ UNCHANGED <<task, ex, rt, tick, clocks, key, pod, uid, sent>>

PodLands ==
  /\ pod = "flying"
  /\ \/ pod' = "starting" /\ uid < MaxPods /\ uid' = uid + 1
     \/ pod' = "none" /\ uid' = uid
  /\ UNCHANGED <<task, ex, rt, tick, clocks, key, graph, sent>>

\* The kubelet starts the Pod, ends it, or confirms that it is gone.
PodMoves ==
  /\ \/ pod = "starting" /\ pod' \in {"ready", "ended"}
     \/ pod = "ready" /\ pod' = "ended"
     \/ pod = "deleting" /\ pod' = "none"
  /\ UNCHANGED <<task, ex, rt, tick, clocks, key, uid, graph, sent>>

-----------------------------------------------------------------------------
Provision ==
  \/ ProvisionAttempt \/ ProvisionKey \/ GenerateReply \/ LookupReply
  \/ PodCheck \/ PodCreate \/ PodRecheck
  \/ Bind \/ ProjectReply \/ Activate

Stop ==
  \/ \E landed, heard, looked \in BOOLEAN : StopKey(landed, heard, looked)
  \/ StopFind \/ StopFindFails
  \/ \E settled, landed \in BOOLEAN : StopWork(settled, landed)
  \/ StopPod \/ StopSettle \/ StopFinal

Environment ==
  \/ Restart \/ PermitChanges \/ DeadlinePasses
  \/ KeyLands \/ ProjectLands \/ PodLands \/ PodMoves

Next ==
  \/ Start \/ Cancel \/ ExplorationEnds
  \/ Heartbeat \/ Tick \/ TickRunning \/ TickFails
  \/ Provision \/ Stop
  \/ Environment

Spec == Init /\ [][Next]_vars

\* The consumer's loop never ends and none of its awaits does without a reply
\* or a timeout; and what it asks of its services when it stops a task, once a
\* second, is answered, and answered well, now and then.  Nothing is assumed of
\* users, of the platform's permissions or of crashes.
ConsumerFairness ==
  /\ WF_vars(Heartbeat)
  /\ WF_vars(TickRunning \/ TickFails \/ Provision \/ Stop)
  /\ SF_vars(Tick)
  /\ SF_vars(StopKey(TRUE, TRUE, TRUE))
  /\ SF_vars(StopFind)
  /\ SF_vars(StopWork(TRUE, TRUE))
  /\ SF_vars(StopPod)
  /\ SF_vars(StopSettle)
  /\ SF_vars(StopFinal)

ServiceFairness ==
  /\ WF_vars(KeyLands)
  /\ WF_vars(pod = "deleting" /\ PodMoves)

FairSpec == Spec /\ ConsumerFairness /\ ServiceFairness

-----------------------------------------------------------------------------
(* Properties *)

\* An execution is licensed exactly while the task carries the epoch it was
\* started with: whatever closes the licence moves the epoch, and neither a
\* restored permission, a restart nor a late reply brings it back.
EpochFence ==
  ex.state # "none" => (task.epoch = ex.epoch <=> task.state \in Open)

\* A create request is never repeated, not after a lost reply, a failed tick or
\* a crash between the request and the record of its outcome.
AskedAtMostOnce == sent["key"] <= 1 /\ sent["project"] <= 1

\* A task is shown as running only with all three of its resources at hand: a
\* key whose hash is recorded, the Pod that was observed, a native project.
RunningIsEquipped ==
  task.state = "running" =>
    /\ ex.state = "running"
    /\ ex.hashed /\ key \in {"live", "blocked"}
    /\ rt.uid # 0
    /\ ex.binding = "bound" /\ graph = "active"

\* A finished task leaves nothing behind that could still spend or act: its
\* key is blocked or was never asked for, its Pod is gone, and the clean-up
\* state says no more than that.
NothingOutlivesTheTask ==
  task.state \in Terminal /\ ex.state # "none" =>
    /\ ex.state = "stopped"
    /\ key = "blocked" \/ (key = "absent" /\ ~ex.hashed)
    /\ pod = "none"
    /\ task.egress = "revoked" /\ task.cleanup \in {"completed", "not_required"}

\* No command, handler, tick or late reply changes a task once it has ended.
TerminalIsFinal == [][task.state \in Terminal => task' = task]_vars

Stoppable ==
  /\ task.state \in Closing
  /\ ~ex.hashed \/ key \in {"live", "blocked"}
  /\ rt.uid \in {0, uid}

\* Unless it ends, no task stays for ever in a state where its stop can succeed:
\* one whose key exists or was never asked for, and whose Pod is one that
\* stop() recognises, whatever else is closed, restored or cancelled meanwhile.
StopTerminates == ~<>[]Stoppable

NothingToStop == task.state \in Closing /\ key = "absent" /\ pod = "none"

\* The platform decided to stop and nothing is left to be stopped, the gateway
\* having refused the key: the task ends (docs/architecture.md, "platform
\* decides to stop -> completing -> completed").
RefusedKeyTerminates == NothingToStop ~> task.state \in Terminal

\* The native project of a task that has ended is not left active.
ProjectIsStopped ==
  task.state \in Terminal => graph # "active"

-----------------------------------------------------------------------------
(* The abstract promise: resources under a licence *)

phase == CASE task.state = "ready" -> "idle"
           [] task.state \in Open -> "open"
           [] task.state \in Closing -> "closing"
           [] OTHER -> "closed"

held == (IF key \in {"flying", "live"} THEN {"key"} ELSE {})
          \cup (IF pod # "none" THEN {"pod"} ELSE {})

Promise == INSTANCE Licence WITH Resources <- {"key", "pod"}

\* The life of a task is that of a licence: resources are taken only after it
\* was granted, it is closed once and for all, and it ends with none held.
ImplementsLicence == Promise!Spec
=============================================================================
