------------------------- MODULE TaskLifecycleProofs -------------------------
(***************************************************************************)
(* What holds of TaskLifecycle for every number of processes, of Pods and *)
(* of epochs told apart.                                                  *)
(***************************************************************************)
EXTENDS TaskLifecycle, TLAPS

-----------------------------------------------------------------------------
(* The writes to the row of the task keep its type *)

LEMMA NextEpochType == \A e \in 0..MaxEpoch : NextEpoch(e) \in 0..MaxEpoch
BY MaxEpochAssumption DEF NextEpoch

LEMMA RowTypes ==
  ASSUME NEW t \in TaskRows
  PROVE  /\ StartRow(t) \in TaskRows
         /\ CancelRow(t) \in TaskRows
         /\ \A why \in Reasons : StopRequested(t, why) \in TaskRows
         /\ \A clean \in {"not_required", "pending", "completed"} :
               FinalRow(t, clean) \in TaskRows
<1>1. NextEpoch(t.epoch) \in 0..MaxEpoch
  BY NextEpochType DEF TaskRows
<1>2. StartRow(t) \in TaskRows
  BY <1>1 DEF StartRow, TaskRows, TaskStates
<1>3. CancelRow(t) \in TaskRows
  BY <1>1 DEF CancelRow, TaskRows, TaskStates, Reasons
<1>4. ASSUME NEW why \in Reasons PROVE StopRequested(t, why) \in TaskRows
  BY <1>1 DEF StopRequested, TaskRows, TaskStates
<1>5. ASSUME NEW clean \in {"not_required", "pending", "completed"}
      PROVE  FinalRow(t, clean) \in TaskRows
  BY DEF FinalRow, TaskRows, TaskStates
<1> QED
  BY <1>2, <1>3, <1>4, <1>5

-----------------------------------------------------------------------------
(* Type correctness *)

LEMMA IdleType == Idle \in Ticks
BY DEF Idle, Ticks, Places, TaskStates

LEMMA InitType == Init => TypeOK
<1> SUFFICES ASSUME Init PROVE TypeOK
  OBVIOUS
<1>1. task \in TaskRows
  BY MaxEpochAssumption DEF Init, TaskRows, ReadyTask, TaskStates, Reasons
<1>2. ex \in Executions
  BY MaxEpochAssumption, BoundsAssumption DEF Init, Executions, NoExecution
<1>3. rt \in Attempts
  BY BoundsAssumption DEF Init, Attempts
<1>4. sent \in [{"key", "project"} -> 0..2]
  BY DEF Init
<1>5. core \in 1..MaxInstances /\ service \in 0..MaxInstances /\ uid \in 0..MaxPods
  BY BoundsAssumption DEF Init
<1>6. tick \in Ticks
  BY IdleType DEF Init
<1> QED
  BY <1>1, <1>2, <1>3, <1>4, <1>5, <1>6 DEF Init, TypeOK

LEMMA StutterType == TypeOK /\ UNCHANGED vars => TypeOK'
BY DEF TypeOK, vars

LEMMA CommandsType ==
  TypeOK /\ (Start \/ Cancel \/ ExplorationEnds) => TypeOK'
<1> SUFFICES ASSUME TypeOK, Start \/ Cancel \/ ExplorationEnds PROVE TypeOK'
  OBVIOUS
<1> USE DEF clocks, externals
<1>1. CASE Start
  <2>1. task' \in TaskRows
    BY <1>1, RowTypes DEF Start, TypeOK
  <2>2. NextEpoch(task.epoch) \in 0..MaxEpoch
    BY NextEpochType DEF TypeOK, TaskRows
  <2>3. ex' \in Executions
    BY <1>1, <2>2 DEF Start, TypeOK, Executions, NoExecution
  <2> QED
    BY <1>1, <2>1, <2>3 DEF Start, TypeOK
<1>2. CASE Cancel
  BY <1>2, RowTypes DEF Cancel, TypeOK
<1>3. CASE ExplorationEnds
  BY <1>3, RowTypes DEF ExplorationEnds, TypeOK, Reasons
<1> QED
  BY <1>1, <1>2, <1>3

LEMMA TickType ==
  TypeOK /\ (Heartbeat \/ Tick \/ TickRunning \/ TickFails) => TypeOK'
<1> SUFFICES ASSUME TypeOK, Heartbeat \/ Tick \/ TickRunning \/ TickFails PROVE TypeOK'
  OBVIOUS
<1> USE DEF clocks, externals
<1>1. CASE Heartbeat
  BY <1>1 DEF Heartbeat, TypeOK
<1>2. CASE Tick
  <2> DEFINE adopted == IF ex.owner # core
                        THEN StopRequested(task, "controller_restarted") ELSE task
             t == IF late THEN StopRequested(adopted, "runtime_deadline") ELSE adopted
  <2>1. adopted \in TaskRows
    BY RowTypes DEF TypeOK, Reasons
  <2>2. t \in TaskRows
    BY <2>1, RowTypes DEF Reasons
  <2>3. task' = t /\ ex' = [ex EXCEPT !.owner = core]
        /\ tick' = [Idle EXCEPT !.seen = t.state, !.at = Dispatch(t.state)]
    BY <1>2 DEF Tick
  <2> HIDE DEF t
  <2>4. ex' \in Executions
    BY <2>3, BoundsAssumption DEF TypeOK, Executions
  <2>5. tick' \in Ticks
    BY <2>2, <2>3, IdleType DEF Ticks, TaskRows, Dispatch, Places
  <2> QED
    BY <1>2, <2>2, <2>3, <2>4, <2>5 DEF Tick, TypeOK
<1>3. CASE TickRunning
  BY IdleType, <1>3, RowTypes DEF TickRunning, Sleep, TypeOK, Reasons
<1>4. CASE TickFails
  BY IdleType, <1>4 DEF TickFails, Sleep, TypeOK
<1> QED
  BY <1>1, <1>2, <1>3, <1>4

LEMMA ProvisionType == TypeOK /\ Provision => TypeOK'
<1> SUFFICES ASSUME TypeOK, Provision PROVE TypeOK'
  OBVIOUS
<1> USE DEF clocks, externals
<1>0. \A place \in Places : [tick EXCEPT !.at = place] \in Ticks
  BY DEF TypeOK, Ticks
<1>1. CASE ProvisionAttempt
  <2>1. rt' \in Attempts
    BY <1>1, BoundsAssumption DEF ProvisionAttempt, TypeOK, Attempts
  <2>2. task' \in TaskRows
    BY <1>1, RowTypes DEF ProvisionAttempt, TypeOK, Reasons
  <2>3. tick' \in Ticks
    BY <1>0, <1>1, IdleType DEF ProvisionAttempt, Sleep, GoTo, Places
  <2> QED
    BY <1>1, <2>1, <2>2, <2>3 DEF ProvisionAttempt, TypeOK
<1>2. CASE ProvisionKey
  <2>1. ex' \in Executions
    BY <1>2 DEF ProvisionKey, TypeOK, Executions
  <2>2. sent' \in [{"key", "project"} -> 0..2]
    BY <1>2 DEF ProvisionKey, CountSend, TypeOK
  <2>3. tick' \in Ticks
    BY <1>0, <1>2 DEF ProvisionKey, GoTo, Places
  <2> QED
    BY <1>2, <2>1, <2>2, <2>3 DEF ProvisionKey, TypeOK
<1>3. CASE GenerateReply
  <2>1. ex' \in Executions
    BY <1>3 DEF GenerateReply, TypeOK, Executions
  <2>2. task' \in TaskRows
    BY <1>3, RowTypes DEF GenerateReply, TypeOK, Reasons
  <2>3. tick' \in Ticks
    BY <1>0, <1>3, IdleType DEF GenerateReply, Sleep, GoTo, Places
  <2> QED
    BY <1>3, <2>1, <2>2, <2>3 DEF GenerateReply, TypeOK
<1>4. CASE LookupReply
  <2>1. ex' \in Executions
    BY <1>4 DEF LookupReply, TypeOK, Executions
  <2>2. task' \in TaskRows
    BY <1>4, RowTypes DEF LookupReply, TypeOK, Reasons
  <2>3. tick' \in Ticks
    BY <1>0, <1>4, IdleType DEF LookupReply, Sleep, GoTo, Places, TypeOK
  <2> QED
    BY <1>4, <2>1, <2>2, <2>3 DEF LookupReply, TypeOK
<1>5. CASE PodCheck
  <2>1. tick' \in Ticks
    BY <1>0, <1>5, IdleType DEF PodCheck, Sleep, GoTo, Places
  <2> QED
    BY <1>5, <2>1 DEF PodCheck, TypeOK
<1>6. CASE PodCreate
  <2>1. tick' \in Ticks
    BY <1>0, <1>6, IdleType DEF PodCreate, Sleep, GoTo, Places
  <2>2. uid' \in 0..MaxPods
    BY <1>6, BoundsAssumption DEF PodCreate, TypeOK
  <2> QED
    BY <1>6, <2>1, <2>2 DEF PodCreate, TypeOK
<1>7. CASE PodRecheck
  <2>1. tick' \in Ticks
    BY <1>0, <1>7, IdleType DEF PodRecheck, Sleep, GoTo, Places
  <2>2. rt' \in Attempts
    BY <1>7 DEF PodRecheck, TypeOK, Attempts
  <2>3. pod' \in {"none", "flying", "starting", "ready", "ended", "deleting"}
    BY <1>7 DEF PodRecheck, TypeOK
  <2> QED
    BY <1>7, <2>1, <2>2, <2>3 DEF PodRecheck, TypeOK
<1>8. CASE Bind
  <2>1. ex' \in Executions
    BY <1>8 DEF Bind, TypeOK, Executions
  <2>2. sent' \in [{"key", "project"} -> 0..2]
    BY <1>8 DEF Bind, CountSend, TypeOK
  <2>3. tick' \in Ticks
    BY <1>0, <1>8, IdleType DEF Bind, Sleep, GoTo, Places, TypeOK
  <2> QED
    BY <1>8, <2>1, <2>2, <2>3 DEF Bind, TypeOK
<1>9. CASE ProjectReply
  <2>1. ex' \in Executions
    BY <1>9 DEF ProjectReply, TypeOK, Executions
  <2>2. tick' \in Ticks
    BY <1>0, <1>9, IdleType DEF ProjectReply, Sleep, GoTo, Places
  <2> QED
    BY <1>9, <2>1, <2>2 DEF ProjectReply, TypeOK
<1>10. CASE Activate
  <2>1. ex' \in Executions
    BY <1>10 DEF Activate, TypeOK, Executions
  <2>2. task' \in TaskRows
    BY <1>10 DEF Activate, TypeOK, TaskRows, TaskStates
  <2> QED
    BY <1>10, <2>1, <2>2, IdleType DEF Activate, Sleep, TypeOK
<1> QED
  BY <1>1, <1>2, <1>3, <1>4, <1>5, <1>6, <1>7, <1>8, <1>9, <1>10 DEF Provision

LEMMA StopType == TypeOK /\ Stop => TypeOK'
<1> SUFFICES ASSUME TypeOK, Stop PROVE TypeOK'
  OBVIOUS
<1> USE DEF clocks, externals
<1>0. \A place \in Places : [tick EXCEPT !.at = place] \in Ticks
  BY DEF TypeOK, Ticks
<1>a. \A place \in Places, absent \in BOOLEAN :
        [tick EXCEPT !.at = place, !.absent = absent] \in Ticks
  BY DEF TypeOK, Ticks
<1>b. \A place \in Places, clean \in {"not_required", "pending", "completed"} :
        [tick EXCEPT !.at = place, !.clean = clean] \in Ticks
  BY DEF TypeOK, Ticks
<1>1. ASSUME NEW landed \in BOOLEAN, NEW heard \in BOOLEAN, NEW looked \in BOOLEAN,
             StopKey(landed, heard, looked)
      PROVE  TypeOK'
  <2>1. key' \in {"absent", "flying", "live", "blocked"}
    BY <1>1 DEF StopKey, TypeOK
  <2>2. ex' \in Executions
    BY <1>1 DEF StopKey, TypeOK, Executions
  <2>3. tick' \in Ticks
    BY <1>1 DEF StopKey, TypeOK, Ticks, Places
  <2> QED
    BY <1>1, <2>1, <2>2, <2>3 DEF StopKey, TypeOK
<1>2. CASE StopFind
  <2>1. rt' \in Attempts
    BY <1>2, BoundsAssumption DEF StopFind, TypeOK, Attempts
  <2>2. tick' \in Ticks
    <3>1. NoPod \in BOOLEAN
      BY DEF NoPod
    <3>2. [tick EXCEPT !.at = "work", !.absent = NoPod] \in Ticks
      BY <1>a, <3>1, Zenon DEF Places
    <3> QED
      BY <1>0, <1>2, <3>2, Zenon DEF StopFind, GoTo, Places
  <2> QED
    BY <1>2, <2>1, <2>2 DEF StopFind, TypeOK
<1>3. CASE StopFindFails
  <2>1. rt' \in Attempts
    BY <1>3 DEF StopFindFails, TypeOK, Attempts
  <2>2. task' \in TaskRows
    BY <1>3 DEF StopFindFails, TypeOK, TaskRows, TaskStates
  <2> QED
    BY <1>3, <2>1, <2>2, IdleType DEF StopFindFails, Sleep, TypeOK
<1>4. ASSUME NEW settled \in BOOLEAN, NEW landed \in BOOLEAN, StopWork(settled, landed)
      PROVE  TypeOK'
  <2>1. tick' \in Ticks
    BY <1>0, <1>4, IdleType DEF StopWork, Sleep, GoTo, Places
  <2>2. task' \in TaskRows
    BY <1>4 DEF StopWork, TypeOK, TaskRows, TaskStates
  <2> QED
    BY <1>4, <2>1, <2>2 DEF StopWork, TypeOK
<1>5. CASE StopPod
  <2>1. rt' \in Attempts
    BY <1>5 DEF StopPod, TypeOK, Attempts
  <2>2. tick' \in Ticks
    BY <1>0, <1>b, <1>5 DEF StopPod, GoTo, Places
  <2>3. pod' \in {"none", "flying", "starting", "ready", "ended", "deleting"}
    BY <1>5 DEF StopPod, TypeOK
  <2> QED
    BY <1>5, <2>1, <2>2, <2>3 DEF StopPod, TypeOK
<1>6. CASE StopSettle
  <2>1. task' \in TaskRows
    <3>1. task \in TaskRows /\ tick.clean \in {"not_required", "pending", "completed"}
      BY DEF TypeOK, Ticks
    <3>2. \/ task' = task
          \/ task' = [task EXCEPT !.state = "reconciling", !.egress = "unknown",
                                  !.cleanup = tick.clean]
      BY <1>6 DEF StopSettle
    <3> QED
      BY <3>1, <3>2 DEF TaskRows, TaskStates
  <2>2. tick' \in Ticks
    BY <1>0, <1>6, IdleType DEF StopSettle, Sleep, GoTo, Places
  <2> QED
    BY <1>6, <2>1, <2>2 DEF StopSettle, TypeOK
<1>7. CASE StopFinal
  <2>1. task' \in TaskRows
    BY <1>7, RowTypes DEF StopFinal, TypeOK, Ticks
  <2>2. ex' \in Executions
    BY <1>7 DEF StopFinal, TypeOK, Executions
  <2> QED
    BY <1>7, <2>1, <2>2, IdleType DEF StopFinal, Sleep, TypeOK
<1> QED
  BY <1>1, <1>2, <1>3, <1>4, <1>5, <1>6, <1>7 DEF Stop

LEMMA EnvironmentType == TypeOK /\ Environment => TypeOK'
<1> SUFFICES ASSUME TypeOK, Environment PROVE TypeOK'
  OBVIOUS
<1> USE DEF clocks, externals
<1>1. CASE Restart
  BY <1>1, IdleType, BoundsAssumption DEF Restart, Sleep, TypeOK
<1>2. CASE PermitChanges
  BY <1>2 DEF PermitChanges, TypeOK
<1>3. CASE DeadlinePasses
  BY <1>3 DEF DeadlinePasses, TypeOK
<1>4. CASE KeyLands
  BY <1>4 DEF KeyLands, TypeOK
<1>5. CASE ProjectLands
  BY <1>5 DEF ProjectLands, TypeOK
<1>6. CASE PodLands
  <2>1. uid' \in 0..MaxPods
    BY <1>6, BoundsAssumption DEF PodLands, TypeOK
  <2> QED
    BY <1>6, <2>1 DEF PodLands, TypeOK
<1>7. CASE PodMoves
  BY <1>7 DEF PodMoves, TypeOK
<1> QED
  BY <1>1, <1>2, <1>3, <1>4, <1>5, <1>6, <1>7 DEF Environment

\* Every row keeps to its vocabulary and every counter to its bound, whatever
\* the interleaving of commands, consumer, crashes and services.
THEOREM TypeCorrect == Spec => []TypeOK
<1>1. TypeOK /\ [Next]_vars => TypeOK'
  BY StutterType, CommandsType, TickType, ProvisionType, StopType, EnvironmentType
     DEF Next
<1> QED
  BY InitType, <1>1, PTL DEF Spec

-----------------------------------------------------------------------------
(* The fence and the finality of the terminal states *)

StopPlaces == {"stop", "find", "work", "clean", "settle", "final"}

\* The licence as the rows of a task and of its execution tell it: an execution
\* is started under epoch 1, and the row of a closed one has a later epoch.
RowFence(t, e) ==
  /\ e.state = "none" => t.state \in {"ready", "cancelled"}
  /\ e.state # "none" => t.state # "ready" /\ e.epoch = 1
  /\ t.state = "ready" => t.epoch = 0
  /\ t.state \in Open => t.epoch = 1
  /\ e.state # "none" /\ t.state \notin Open => t.epoch >= 2

\* What makes it inductive: the consumer is at work only on an execution, and in
\* stop() only on a task that is closing, which nobody takes out of its hands.
FenceInv ==
  /\ RowFence(task, ex)
  /\ tick.at # "idle" => ex.state # "none"
  /\ tick.at \in StopPlaces => task.state \in Closing

LEMMA FenceImplies == TypeOK /\ FenceInv => EpochFence
BY DEF TypeOK, TaskRows, TaskStates, FenceInv, RowFence, EpochFence, Open

LEMMA FenceInit == Init => FenceInv
BY DEF Init, ReadyTask, NoExecution, Idle, FenceInv, RowFence, Open, StopPlaces

\* A request to stop keeps the fence, leaves a closing task closing and does not
\* touch one that has ended.
LEMMA StopRequestedFence ==
  ASSUME NEW t \in TaskRows, NEW e \in Executions, NEW why,
         RowFence(t, e), e.state # "none"
  PROVE  /\ RowFence(StopRequested(t, why), e)
         /\ t.state \in Closing => StopRequested(t, why).state \in Closing
         /\ t.state \in Terminal => StopRequested(t, why) = t
<1>1. NextEpoch(t.epoch) >= 2
  BY MaxEpochAssumption DEF RowFence, NextEpoch, TaskRows, TaskStates, Open
<1> QED
  BY <1>1 DEF StopRequested, RowFence, TaskRows, TaskStates, Open, Closing, Terminal

\* The fence depends on the state and epoch of the rows alone.
LEMMA SameRowFence ==
  ASSUME NEW e \in Executions, NEW f \in Executions, RowFence(task, e),
         f.state = e.state, f.epoch = e.epoch
  PROVE  RowFence(task, f)
BY DEF RowFence

LEMMA CommandsFence ==
  TypeOK /\ FenceInv /\ (Start \/ Cancel \/ ExplorationEnds)
    => FenceInv' /\ (task.state \in Terminal => task' = task)
<1> SUFFICES ASSUME TypeOK, FenceInv, Start \/ Cancel \/ ExplorationEnds
             PROVE  FenceInv' /\ (task.state \in Terminal => task' = task)
  OBVIOUS
<1>0. task \in TaskRows /\ ex \in Executions
  BY DEF TypeOK
<1>1. CASE Start
  <2>1. task' = StartRow(task) /\ task.state = "ready" /\ task.epoch = 0 /\ tick' = tick
    BY <1>1 DEF Start, FenceInv, RowFence
  <2>2. NextEpoch(task.epoch) = 1
    BY <2>1, MaxEpochAssumption DEF NextEpoch
  <2>3. ex'.state = "pending" /\ ex'.epoch = 1
    BY <1>1, <2>2 DEF Start, NoExecution
  <2>4. task'.state = "provisioning" /\ task'.epoch = 1
    BY <1>0, <2>1, <2>2 DEF StartRow, TaskRows
  <2>5. tick.at = "idle" \/ ex.state # "none"
    BY DEF FenceInv
  <2>6. ex.state = "none"
    BY <2>1 DEF FenceInv, RowFence
  <2> QED
    BY <2>1, <2>3, <2>4, <2>5, <2>6 DEF FenceInv, RowFence, Open, Terminal, StopPlaces
<1>2. CASE Cancel
  <2>1. task' = CancelRow(task) /\ task.state \notin Terminal /\ ex' = ex /\ tick' = tick
    BY <1>2 DEF Cancel
  <2>2. CASE task.state = "ready"
    <3>1. task'.state = "cancelled"
      BY <1>0, <2>1, <2>2 DEF CancelRow, TaskRows
    <3>2. ex.state = "none" /\ tick.at = "idle"
      BY <2>2 DEF FenceInv, RowFence
    <3> QED
      BY <2>1, <3>1, <3>2 DEF FenceInv, RowFence, Open, StopPlaces
  <2>3. CASE task.state # "ready"
    <3>1. NextEpoch(task.epoch) >= 2 /\ ex.state # "none"
      BY <1>0, <2>1, <2>3, MaxEpochAssumption
         DEF FenceInv, RowFence, NextEpoch, TaskRows, TaskStates, Open, Terminal
    <3>2. task'.state = "cancelling" /\ task'.epoch >= 2
      BY <1>0, <2>1, <2>3, <3>1 DEF CancelRow, TaskRows
    <3> QED
      BY <2>1, <3>1, <3>2 DEF FenceInv, RowFence, Open, Closing
  <2> QED
    BY <2>2, <2>3
<1>3. CASE ExplorationEnds
  BY <1>0, <1>3, StopRequestedFence DEF ExplorationEnds, FenceInv
<1> QED
  BY <1>1, <1>2, <1>3

LEMMA TickFence ==
  TypeOK /\ FenceInv /\ (Heartbeat \/ Tick \/ TickRunning \/ TickFails)
    => FenceInv' /\ (task.state \in Terminal => task' = task)
<1> SUFFICES ASSUME TypeOK, FenceInv, Heartbeat \/ Tick \/ TickRunning \/ TickFails
             PROVE  FenceInv' /\ (task.state \in Terminal => task' = task)
  OBVIOUS
<1>0. task \in TaskRows /\ ex \in Executions
  BY DEF TypeOK
<1>1. CASE Heartbeat
  BY <1>1 DEF Heartbeat, FenceInv
<1>2. CASE Tick
  <2> DEFINE adopted == IF ex.owner # core
                        THEN StopRequested(task, "controller_restarted") ELSE task
             t == IF late THEN StopRequested(adopted, "runtime_deadline") ELSE adopted
  <2>1. ex.state # "none" /\ task' = t /\ ex' = [ex EXCEPT !.owner = core]
        /\ tick' = [Idle EXCEPT !.seen = t.state, !.at = Dispatch(t.state)]
    BY <1>2 DEF Tick
  <2>2. adopted \in TaskRows /\ RowFence(adopted, ex)
        /\ (task.state \in Terminal => adopted = task)
    BY <1>0, <2>1, StopRequestedFence, RowTypes DEF FenceInv, Reasons
  <2> HIDE DEF adopted
  <2>3. RowFence(t, ex) /\ (task.state \in Terminal => t = task)
    BY <1>0, <2>1, <2>2, StopRequestedFence
  <2> HIDE DEF t
  <2>4. ex'.state = ex.state /\ ex'.epoch = ex.epoch
    BY <1>0, <2>1 DEF Executions
  <2>5. RowFence(task', ex')
    BY <2>1, <2>3, <2>4 DEF RowFence
  <2>6. tick'.at = Dispatch(task'.state)
    BY <2>1 DEF Idle
  <2>7. tick'.at \in StopPlaces => task'.state \in Closing
    BY <2>6 DEF Dispatch, StopPlaces
  <2> QED
    BY <2>1, <2>3, <2>4, <2>5, <2>7 DEF FenceInv
<1>3. CASE TickRunning
  BY <1>0, <1>3, StopRequestedFence
     DEF TickRunning, At, Sleep, Idle, FenceInv, StopPlaces
<1>4. CASE TickFails
  BY <1>4 DEF TickFails, Sleep, Idle, FenceInv, StopPlaces
<1> QED
  BY <1>1, <1>2, <1>3, <1>4

LEMMA ProvisionFence ==
  TypeOK /\ FenceInv /\ Provision
    => FenceInv' /\ (task.state \in Terminal => task' = task)
<1> SUFFICES ASSUME TypeOK, FenceInv, Provision
             PROVE  FenceInv' /\ (task.state \in Terminal => task' = task)
  OBVIOUS
<1>0. task \in TaskRows /\ ex \in Executions /\ tick \in Ticks
  BY DEF TypeOK
<1>1. tick.at # "idle" /\ tick.at \notin StopPlaces /\ ex.state # "none"
  BY DEF Provision, ProvisionAttempt, ProvisionKey, GenerateReply, LookupReply, PodCheck,
         PodCreate, PodRecheck, Bind, ProjectReply, Activate, At, StopPlaces, FenceInv
\* Provisioning goes on to another of its places or to sleep ...
<1>2. tick'.at \notin StopPlaces
  BY <1>0 DEF Provision, ProvisionAttempt, ProvisionKey, GenerateReply, LookupReply, PodCheck,
         PodCreate, PodRecheck, Bind, ProjectReply, Activate, GoTo, Sleep, Idle, StopPlaces,
         Ticks
\* ... leaves the identity of the execution alone ...
<1>3. ex' \in Executions /\ ex'.epoch = ex.epoch /\ ex'.state # "none"
  <2>1. ex' \in Executions
    BY ProvisionType DEF TypeOK
  <2>2. ex'.epoch = ex.epoch /\ ex'.state # "none"
    BY <1>0, <1>1 DEF Provision, ProvisionAttempt, ProvisionKey, GenerateReply, LookupReply,
         PodCheck, PodCreate, PodRecheck, Bind, ProjectReply, Activate, Executions
  <2> QED
    BY <2>1, <2>2
\* ... and writes the task's row in one of two ways, or not at all.
<1>4. \/ task' = task
      \/ \E why \in Reasons : task' = StopRequested(task, why)
      \/ /\ task.state = "provisioning"
         /\ task' = [task EXCEPT !.state = "running", !.egress = "fixture_only"]
  BY DEF Provision, ProvisionAttempt, ProvisionKey, GenerateReply, LookupReply, PodCheck,
         PodCreate, PodRecheck, Bind, ProjectReply, Activate, Reasons
<1>5. RowFence(task', ex) /\ (task.state \in Terminal => task' = task)
  <2>1. CASE task' = task
    BY <2>1 DEF FenceInv
  <2>2. CASE \E why \in Reasons : task' = StopRequested(task, why)
    BY <1>0, <1>1, <2>2, StopRequestedFence DEF FenceInv
  <2>3. CASE /\ task.state = "provisioning"
             /\ task' = [task EXCEPT !.state = "running", !.egress = "fixture_only"]
    BY <1>0, <1>1, <2>3 DEF FenceInv, RowFence, TaskRows, Open, Terminal
  <2> QED
    BY <1>4, <2>1, <2>2, <2>3
<1> QED
  BY <1>1, <1>2, <1>3, <1>5 DEF FenceInv, RowFence

LEMMA StopFence ==
  TypeOK /\ FenceInv /\ Stop
    => FenceInv' /\ (task.state \in Terminal => task' = task)
<1> SUFFICES ASSUME TypeOK, FenceInv, Stop
             PROVE  FenceInv' /\ (task.state \in Terminal => task' = task)
  OBVIOUS
<1>0. task \in TaskRows /\ ex \in Executions /\ tick \in Ticks
  BY DEF TypeOK
<1>1. tick.at \in StopPlaces
  BY DEF Stop, StopKey, StopFind, StopFindFails, StopWork, StopPod, StopSettle, StopFinal,
         At, StopPlaces
<1>2. task.state \in Closing /\ ex.state # "none" /\ task.epoch >= 2
  BY <1>1 DEF FenceInv, RowFence, StopPlaces, Open, Closing
<1>3. ex' \in Executions /\ ex'.epoch = ex.epoch /\ ex'.state # "none"
  <2>1. ex' \in Executions
    BY StopType DEF TypeOK
  <2>2. ex'.epoch = ex.epoch /\ ex'.state # "none"
    BY <1>0, <1>2 DEF Stop, StopKey, StopFind, StopFindFails, StopWork, StopPod, StopSettle,
         StopFinal, Executions
  <2> QED
    BY <2>1, <2>2
\* Only the last step takes the task out of the closing states, and then the
\* consumer sleeps.
<1>4. /\ task'.epoch = task.epoch
      /\ \/ task'.state \in Closing
         \/ task'.state \in Terminal /\ tick' = Idle
  <2>1. CASE StopFinal
    BY <1>0, <1>2, <2>1 DEF StopFinal, FinalRow, TaskRows, Terminal, Sleep
  <2>2. CASE ~StopFinal
    BY <1>0, <1>2, <2>2 DEF Stop, StopKey, StopFind, StopFindFails, StopWork, StopPod,
         StopSettle, TaskRows, Closing
  <2> QED
    BY <2>1, <2>2
<1> QED
  BY <1>2, <1>3, <1>4 DEF FenceInv, RowFence, Open, Closing, Terminal, Idle, StopPlaces

LEMMA EnvironmentFence ==
  FenceInv /\ Environment => FenceInv' /\ task' = task
BY DEF Environment, Restart, PermitChanges, DeadlinePasses, KeyLands, ProjectLands,
       PodLands, PodMoves, Sleep, Idle, clocks, externals, FenceInv, StopPlaces

LEMMA NextFence ==
  TypeOK /\ FenceInv /\ [Next]_vars
    => FenceInv' /\ (task.state \in Terminal => task' = task)
<1>1. FenceInv /\ UNCHANGED vars => FenceInv' /\ task' = task
  BY DEF vars, FenceInv
<1> QED
  BY <1>1, CommandsFence, TickFence, ProvisionFence, StopFence, EnvironmentFence DEF Next

\* An execution is licensed exactly while its task carries the epoch it was
\* started with, for any number of restarts, permissions and late replies.
THEOREM LicenceIsFenced == Spec => []EpochFence
<1>1. Spec => []FenceInv
  <2>1. TypeOK /\ FenceInv /\ [Next]_vars => FenceInv'
    BY NextFence
  <2> QED
    BY <2>1, FenceInit, TypeCorrect, PTL DEF Spec
<1> QED
  BY <1>1, FenceImplies, TypeCorrect, PTL

\* No command, handler, tick or late reply changes a task that has ended.
THEOREM EndedStaysEnded == Spec => TerminalIsFinal
<1>1. TypeOK /\ FenceInv /\ [Next]_vars => [task.state \in Terminal => task' = task]_vars
  BY NextFence
<1>2. TypeOK /\ FenceInv /\ [Next]_vars => FenceInv'
  BY NextFence
<1> QED
  BY <1>1, <1>2, FenceInit, TypeCorrect, PTL DEF Spec, TerminalIsFinal

-----------------------------------------------------------------------------
(* Requests are made at most once *)

\* A request that has left is on record: its state has moved on from pending.
AskInv ==
  /\ ex.state = "none" => ex = NoExecution
  /\ ex.model = "pending" => sent["key"] = 0
  /\ ex.binding = "pending" => sent["project"] = 0
  /\ sent["key"] <= 1 /\ sent["project"] <= 1

\* A step that sends nothing keeps what has been sent on record, as long as it
\* does not set a state back to pending.
LEMMA AskKept ==
  ASSUME AskInv, sent' = sent, ex'.state # "none" \/ ex' = ex,
         ex'.model = "pending" => ex.model = "pending",
         ex'.binding = "pending" => ex.binding = "pending"
  PROVE  AskInv'
BY DEF AskInv

LEMMA NextAsk == TypeOK /\ FenceInv /\ AskInv /\ [Next]_vars => AskInv'
<1> SUFFICES ASSUME TypeOK, FenceInv, AskInv, [Next]_vars PROVE AskInv'
  OBVIOUS
<1>0. ex \in Executions /\ sent \in [{"key", "project"} -> 0..2]
  BY DEF TypeOK
<1>1. CASE UNCHANGED vars
  BY <1>1 DEF vars, AskInv
<1>2. CASE Start
  <2>1. ex = NoExecution /\ sent' = sent
    BY <1>2 DEF Start, AskInv, FenceInv, RowFence
  <2>2. ex'.state = "pending" /\ ex'.model = "pending" /\ ex'.binding = "pending"
    BY <1>2 DEF Start, NoExecution
  <2>3. sent["key"] = 0 /\ sent["project"] = 0
    BY <2>1 DEF AskInv, NoExecution
  <2> QED
    BY <2>1, <2>2, <2>3 DEF AskInv
<1>3. CASE Cancel \/ ExplorationEnds \/ Heartbeat \/ TickRunning \/ TickFails \/ Environment
  BY <1>3, AskKept DEF Cancel, ExplorationEnds, Heartbeat, TickRunning, TickFails,
       Environment, Restart, PermitChanges, DeadlinePasses, KeyLands, ProjectLands,
       PodLands, PodMoves
<1>4. CASE Tick
  <2>1. sent' = sent /\ ex' = [ex EXCEPT !.owner = core] /\ ex.state # "none"
    BY <1>4 DEF Tick
  <2> QED
    BY <1>0, <2>1, AskKept DEF Executions
<1>5. CASE Provision
  <2>1. ex.state # "none"
    BY <1>5 DEF FenceInv, Provision, ProvisionAttempt, ProvisionKey, GenerateReply, LookupReply,
         PodCheck, PodCreate, PodRecheck, Bind, ProjectReply, Activate, At
  <2>2. CASE ProvisionKey
    <3>1. CASE KeyToAskFor
      <4>1. ex'.state = ex.state /\ ex'.model = "sent" /\ ex'.binding = ex.binding
        BY <1>0, <2>2, <3>1 DEF ProvisionKey, Executions
      <4>2. CountSend("key") /\ sent["key"] = 0
        BY <2>2, <3>1 DEF ProvisionKey, KeyToAskFor, AskInv
      <4>3. sent'["key"] = 1 /\ sent'["project"] = sent["project"]
        BY <1>0, <4>2 DEF CountSend
      <4> QED
        BY <2>1, <4>1, <4>3 DEF AskInv
    <3>2. CASE ~KeyToAskFor
      BY <2>2, <3>2, AskKept DEF ProvisionKey
    <3> QED
      BY <3>1, <3>2
  <2>3. CASE Bind
    <3>1. CASE ex.binding = "pending"
      <4>1. ex'.state = ex.state /\ ex'.binding = "sent" /\ ex'.model = ex.model
        BY <1>0, <2>3, <3>1 DEF Bind, Executions
      <4>2. CountSend("project") /\ sent["project"] = 0
        BY <2>3, <3>1 DEF Bind, AskInv
      <4>3. sent'["project"] = 1 /\ sent'["key"] = sent["key"]
        BY <1>0, <4>2 DEF CountSend
      <4> QED
        BY <2>1, <4>1, <4>3 DEF AskInv
    <3>2. CASE ex.binding # "pending"
      BY <2>3, <3>2, AskKept DEF Bind
    <3> QED
      BY <3>1, <3>2
  <2>4. CASE ~ProvisionKey /\ ~Bind
    <3>1. sent' = sent /\ (ex'.state # "none" \/ ex' = ex)
          /\ (ex'.model = "pending" => ex.model = "pending")
          /\ (ex'.binding = "pending" => ex.binding = "pending")
      BY <1>0, <1>5, <2>1, <2>4 DEF Provision, ProvisionAttempt, GenerateReply, LookupReply,
           PodCheck, PodCreate, PodRecheck, ProjectReply, Activate, Executions
    <3> QED
      BY <3>1, AskKept
  <2> QED
    BY <2>2, <2>3, <2>4
<1>6. CASE Stop
  <2>1. ex.state # "none"
    BY <1>6 DEF FenceInv, Stop, StopKey, StopFind, StopFindFails, StopWork, StopPod,
         StopSettle, StopFinal, At
  <2>2. sent' = sent /\ ex'.state # "none"
        /\ (ex'.model = "pending" => ex.model = "pending") /\ ex'.binding = ex.binding
    <3>1. CASE \E landed, heard, looked \in BOOLEAN : StopKey(landed, heard, looked)
      <4>1. PICK landed, heard, looked \in BOOLEAN : StopKey(landed, heard, looked)
        BY <3>1
      <4>2. sent' = sent /\ ex'.state = ex.state /\ ex'.binding = ex.binding
        BY <1>0, <4>1 DEF StopKey, Executions
      <4>3. ex'.model = ex.model \/ ex'.model \in {"blocked", "block_rejected", "block_unknown"}
        BY <1>0, <4>1 DEF StopKey, Executions
      <4> QED
        BY <2>1, <4>2, <4>3
    <3>2. CASE ~\E landed, heard, looked \in BOOLEAN : StopKey(landed, heard, looked)
      BY <1>0, <1>6, <2>1, <3>2 DEF Stop, StopFind, StopFindFails, StopWork, StopPod,
         StopSettle, StopFinal, Executions
    <3> QED
      BY <3>1, <3>2
  <2> QED
    BY <2>2, AskKept
<1> QED
  BY <1>1, <1>2, <1>3, <1>4, <1>5, <1>6 DEF Next

\* Neither the key nor the native project is ever asked for twice.
THEOREM NeverAskedTwice == Spec => []AskedAtMostOnce
<1>1. Init => AskInv
  BY DEF Init, NoExecution, AskInv
<1>2. AskInv => AskedAtMostOnce
  BY DEF AskInv, AskedAtMostOnce
<1> QED
  BY <1>1, <1>2, NextAsk, NextFence, FenceInit, TypeCorrect, PTL DEF Spec

-----------------------------------------------------------------------------
(* The key *)

PodPlaces == {"pod", "create", "recheck", "bind", "project", "activate"}

\* What the row of the execution says of its key is true, and so is what stop()
\* has learnt of it.
KeyInv ==
  /\ ex.state = "none" => ex = NoExecution
  /\ key = "absent" \/ ex.hashed
  /\ ex.hashed <=> ex.model # "pending"
  /\ ex.model = "ready" => key \in {"live", "blocked"}
  /\ ex.model = "blocked" => key = "blocked"
  /\ tick.at = "generate" => ex.hashed
  /\ tick.at \in PodPlaces => ex.model = "ready"
  /\ tick.at \in StopPlaces /\ tick.blocked => key = "blocked" \/ ~ex.hashed

LEMMA KeyInit == Init => KeyInv
BY DEF Init, NoExecution, Idle, KeyInv, PodPlaces, StopPlaces

\* A step that moves neither the key nor its state, and brings the consumer
\* neither among the Pod's places nor further in stop(), keeps what is known.
LEMMA KeyKept ==
  ASSUME KeyInv, key' = key, ex'.model = ex.model, ex'.hashed = ex.hashed,
         ex'.state # "none" \/ ex' = ex,
         tick'.at = "generate" => tick.at = "generate",
         tick'.at \in PodPlaces => ex.model = "ready",
         tick'.at \in StopPlaces /\ tick'.blocked =>
           tick.at \in StopPlaces /\ tick.blocked
  PROVE  KeyInv'
BY DEF KeyInv

LEMMA NextKey == TypeOK /\ FenceInv /\ KeyInv /\ [Next]_vars => KeyInv'
<1> SUFFICES ASSUME TypeOK, FenceInv, KeyInv, [Next]_vars PROVE KeyInv'
  OBVIOUS
<1>0. ex \in Executions /\ tick \in Ticks
  BY DEF TypeOK
<1> USE DEF At, GoTo, Sleep, Idle
<1>1. CASE UNCHANGED vars
  BY <1>1 DEF vars, KeyInv
<1>2. CASE Start
  <2>1. ex = NoExecution /\ tick.at = "idle"
    BY <1>2 DEF Start, KeyInv, FenceInv, RowFence
  <2>2. ex'.state = "pending" /\ ex'.model = "pending" /\ ex'.hashed = FALSE
        /\ key' = key /\ tick' = tick
    BY <1>2 DEF Start, NoExecution, externals
  <2> QED
    BY <2>1, <2>2, KeyKept DEF NoExecution, KeyInv
<1>3. CASE \/ Cancel \/ ExplorationEnds \/ Heartbeat \/ TickRunning \/ TickFails
           \/ Restart \/ PermitChanges \/ DeadlinePasses \/ ProjectLands \/ PodLands
           \/ PodMoves
  BY <1>3, KeyKept DEF Cancel, ExplorationEnds, Heartbeat, TickRunning, TickFails, Restart,
     PermitChanges, DeadlinePasses, ProjectLands, PodLands, PodMoves, externals, KeyInv,
     PodPlaces, StopPlaces
<1>4. CASE KeyLands
  BY <1>4 DEF KeyLands, KeyInv
<1>5. CASE Tick
  <2>1. ex' = [ex EXCEPT !.owner = core] /\ ex.state # "none" /\ key' = key
    BY <1>5 DEF Tick, externals
  <2>2. \E t : tick' = [Idle EXCEPT !.seen = t.state, !.at = Dispatch(t.state)]
    BY <1>5, Zenon DEF Tick
  <2>3. tick'.at \notin PodPlaces \cup {"generate"} /\ tick'.blocked = FALSE
    BY <2>2 DEF Dispatch, PodPlaces
  <2> QED
    BY <1>0, <2>1, <2>3, KeyKept DEF Executions
<1>6. CASE Provision
  <2>1. ex.state # "none" /\ tick.at \notin StopPlaces
    BY <1>6 DEF FenceInv, Provision, ProvisionAttempt, ProvisionKey, GenerateReply, LookupReply,
         PodCheck, PodCreate, PodRecheck, Bind, ProjectReply, Activate, StopPlaces
  <2>2. CASE ProvisionKey
    <3>1. CASE KeyToAskFor
      BY <1>0, <2>1, <2>2, <3>1 DEF ProvisionKey, KeyInv, Executions, Ticks,
         PodPlaces, StopPlaces
    <3>2. CASE ~KeyToAskFor
      BY <1>0, <2>1, <2>2, <3>2 DEF ProvisionKey, KeyInv, KeyToAskFor, Ticks,
         PodPlaces, StopPlaces
    <3> QED
      BY <3>1, <3>2
  <2>3. CASE GenerateReply
    BY <1>0, <2>1, <2>3 DEF GenerateReply, KeyInv, Executions, Ticks, externals,
       PodPlaces, StopPlaces
  <2>4. CASE LookupReply
    BY <1>0, <2>1, <2>4 DEF LookupReply, KeyInv, Executions, Ticks, externals,
       PodPlaces, StopPlaces
  <2>5. CASE ~ProvisionKey /\ ~GenerateReply /\ ~LookupReply
    <3>1. key' = key /\ ex'.model = ex.model /\ ex'.hashed = ex.hashed /\ ex'.state # "none"
      BY <1>0, <1>6, <2>1, <2>5 DEF Provision, ProvisionAttempt, PodCheck, PodCreate,
         PodRecheck, Bind, ProjectReply, Activate, Executions, externals
    <3>2. tick'.at \in PodPlaces => ex.model = "ready"
      BY <1>0, <1>6, <2>5 DEF Provision, ProvisionAttempt, PodCheck, PodCreate,
         PodRecheck, Bind, ProjectReply, Activate, Ticks, KeyInv, PodPlaces
    <3>3. tick'.at \notin StopPlaces \cup {"generate"}
      BY <1>0, <1>6, <2>5 DEF Provision, ProvisionAttempt, PodCheck, PodCreate,
         PodRecheck, Bind, ProjectReply, Activate, Ticks, StopPlaces
    <3> QED
      BY <3>1, <3>2, <3>3, KeyKept, Zenon
  <2> QED
    BY <2>2, <2>3, <2>4, <2>5
<1>7. CASE Stop
  <2>1. ex.state # "none" /\ tick.at \in StopPlaces
    BY <1>7 DEF FenceInv, Stop, StopKey, StopFind, StopFindFails, StopWork, StopPod,
         StopSettle, StopFinal, StopPlaces
  <2>2. ASSUME NEW landed \in BOOLEAN, NEW heard \in BOOLEAN, NEW looked \in BOOLEAN,
               StopKey(landed, heard, looked)
        PROVE  KeyInv'
    BY <1>0, <2>1, <2>2 DEF StopKey, KeyInv, Executions, Ticks, PodPlaces, StopPlaces
  <2>3. CASE ~\E landed, heard, looked \in BOOLEAN : StopKey(landed, heard, looked)
    <3>1. key' = key /\ ex'.model = ex.model /\ ex'.hashed = ex.hashed /\ ex'.state # "none"
      BY <1>0, <1>7, <2>1, <2>3 DEF Stop, StopFind, StopFindFails, StopWork, StopPod,
         StopSettle, StopFinal, Executions, externals
    <3>2. tick'.at \in StopPlaces \cup {"idle"} /\ (tick'.blocked => tick.blocked)
      <4>1. CASE StopFind
        BY <1>0, <4>1 DEF StopFind, Ticks, StopPlaces
      <4>2. CASE StopPod
        BY <1>0, <4>2 DEF StopPod, Ticks, StopPlaces
      <4>3. CASE ~StopFind /\ ~StopPod
        BY <1>0, <1>7, <2>3, <4>3 DEF Stop, StopFindFails, StopWork, StopSettle, StopFinal,
           Ticks, StopPlaces
      <4> QED
        BY <4>1, <4>2, <4>3
    <3> QED
      BY <2>1, <3>1, <3>2, KeyKept DEF PodPlaces, StopPlaces
  <2> QED
    BY <1>7, <2>2, <2>3 DEF Stop
<1> QED
  BY <1>1, <1>2, <1>3, <1>4, <1>5, <1>6, <1>7 DEF Next, Environment

-----------------------------------------------------------------------------
(* The equipment of a running task *)

BindPlaces == {"bind", "project", "activate"}

\* The Pod has been observed when the project is bound, the project exists when
\* its id is known, and it is not stopped while the licence is open.
EquipInv ==
  /\ pod \notin {"none", "flying"} => uid # 0
  /\ tick.at = "recheck" => uid # 0
  /\ tick.at \in BindPlaces => rt.uid # 0
  /\ tick.at = "project" => ex.binding = "sent"
  /\ tick.at = "activate" => ex.binding = "bound"
  /\ ex.binding = "bound" => graph \in {"active", "stopped"}
  /\ ex.binding = "bound" /\ task.state \in Open => graph = "active"
  /\ ex.state = "none" => ex.binding = "pending"
  /\ task.state = "running" => ex.state = "running" /\ ex.binding = "bound" /\ rt.uid # 0
                               /\ ex.hashed /\ key \in {"live", "blocked"}

LEMMA EquipInit == Init => EquipInv
BY DEF Init, NoExecution, ReadyTask, Idle, EquipInv, BindPlaces

LEMMA EquipImplies == EquipInv => RunningIsEquipped
BY DEF EquipInv, RunningIsEquipped, Open

\* A task is not made running but by Activate.
LEMMA StopRequestedOpen ==
  ASSUME NEW t \in TaskRows, NEW why, StopRequested(t, why).state \in Open
  PROVE  StopRequested(t, why) = t
BY DEF StopRequested, TaskRows, Open, Terminal

\* A step that leaves the equipment alone, does not open the licence and leaves
\* the consumer out of the places where it gathers equipment.
LEMMA EquipKept ==
  ASSUME EquipInv, task'.state \in Open => task'.state = task.state,
         ex'.state = ex.state, ex'.binding = ex.binding, ex'.hashed = ex.hashed,
         key' = key \/ key \notin {"live", "blocked"}, graph' = graph, uid' = uid,
         pod' = pod \/ pod \notin {"none", "flying"} \/ pod' = "none",
         rt'.uid = rt.uid,
         tick'.at \in BindPlaces \cup {"recheck"} => tick' = tick
  PROVE  EquipInv'
BY DEF EquipInv, BindPlaces, Open

LEMMA CommandsEquip ==
  TypeOK /\ FenceInv /\ EquipInv /\ (Start \/ Cancel \/ ExplorationEnds) => EquipInv'
<1> SUFFICES ASSUME TypeOK, FenceInv, EquipInv, Start \/ Cancel \/ ExplorationEnds
             PROVE  EquipInv'
  OBVIOUS
<1>0. task \in TaskRows
  BY DEF TypeOK
<1>1. CASE Start
  <2>1. task'.state = "provisioning" /\ ex'.state = "pending" /\ ex'.binding = "pending"
        /\ tick.at = "idle" /\ tick' = tick /\ uid' = uid /\ pod' = pod
    BY <1>0, <1>1 DEF Start, StartRow, TaskRows, NoExecution, FenceInv, RowFence, externals
  <2> QED
    BY <2>1 DEF EquipInv, BindPlaces
<1>2. CASE Cancel
  <2>1. task'.state \in {"cancelled", "cancelling"}
    BY <1>0, <1>2 DEF Cancel, CancelRow, TaskRows
  <2> QED
    BY <1>2, <2>1, EquipKept DEF Cancel, externals, Open
<1>3. CASE ExplorationEnds
  BY <1>0, <1>3, EquipKept, StopRequestedOpen DEF ExplorationEnds, externals
<1> QED
  BY <1>1, <1>2, <1>3

LEMMA TickEquip ==
  TypeOK /\ EquipInv /\ (Heartbeat \/ Tick \/ TickRunning \/ TickFails) => EquipInv'
<1> SUFFICES ASSUME TypeOK, EquipInv, Heartbeat \/ Tick \/ TickRunning \/ TickFails
             PROVE  EquipInv'
  OBVIOUS
<1>0. task \in TaskRows /\ ex \in Executions
  BY DEF TypeOK
<1>1. CASE Heartbeat
  BY <1>1, EquipKept DEF Heartbeat, externals
<1>2. CASE Tick
  <2> DEFINE adopted == IF ex.owner # core
                        THEN StopRequested(task, "controller_restarted") ELSE task
             t == IF late THEN StopRequested(adopted, "runtime_deadline") ELSE adopted
  <2>1. task' = t /\ ex' = [ex EXCEPT !.owner = core]
        /\ tick' = [Idle EXCEPT !.seen = t.state, !.at = Dispatch(t.state)]
        /\ UNCHANGED <<rt, key, pod, uid, graph>>
    BY <1>2 DEF Tick, externals
  <2>2. adopted \in TaskRows /\ (adopted.state \in Open => adopted = task)
    BY <1>0, RowTypes, StopRequestedOpen DEF Reasons
  <2> HIDE DEF adopted
  <2>3. t.state \in Open => t = task
    BY <2>2, StopRequestedOpen
  <2> HIDE DEF t
  <2>4. tick'.at \notin BindPlaces \cup {"recheck"}
    BY <2>1 DEF Idle, Dispatch, BindPlaces
  <2>5. ex'.state = ex.state /\ ex'.binding = ex.binding /\ ex'.hashed = ex.hashed
    BY <1>0, <2>1 DEF Executions
  <2> QED
    BY <2>1, <2>3, <2>4, <2>5, EquipKept
<1>3. CASE TickRunning
  BY <1>0, <1>3, EquipKept, StopRequestedOpen
     DEF TickRunning, Sleep, Idle, externals, BindPlaces
<1>4. CASE TickFails
  BY <1>4, EquipKept DEF TickFails, Sleep, Idle, externals, BindPlaces
<1> QED
  BY <1>1, <1>2, <1>3, <1>4

LEMMA EnvironmentEquip == TypeOK /\ KeyInv /\ EquipInv /\ Environment => EquipInv'
<1> SUFFICES ASSUME TypeOK, KeyInv, EquipInv, Environment PROVE EquipInv'
  OBVIOUS
<1>1. CASE Restart
  BY <1>1, EquipKept DEF Restart, Sleep, Idle, externals, BindPlaces
<1>2. CASE PermitChanges \/ DeadlinePasses
  BY <1>2, EquipKept DEF PermitChanges, DeadlinePasses, externals
<1>3. CASE KeyLands
  BY <1>3, EquipKept DEF KeyLands
<1>4. CASE ProjectLands
  BY <1>4 DEF ProjectLands, EquipInv, BindPlaces, Open
<1>5. CASE PodLands
  <2>1. task' = task /\ ex' = ex /\ rt' = rt /\ tick' = tick /\ key' = key /\ graph' = graph
        /\ (uid' # 0 \/ (pod' = "none" /\ uid' = uid))
    BY <1>5 DEF PodLands, TypeOK
  <2> QED
    BY <2>1 DEF EquipInv
<1>6. CASE PodMoves
  BY <1>6, EquipKept DEF PodMoves
<1> QED
  BY <1>1, <1>2, <1>3, <1>4, <1>5, <1>6 DEF Environment
LEMMA ProvisionEquip ==
  TypeOK /\ FenceInv /\ KeyInv /\ EquipInv /\ Provision => EquipInv'
<1> SUFFICES ASSUME TypeOK, FenceInv, KeyInv, EquipInv, Provision PROVE EquipInv'
  OBVIOUS
<1>0. task \in TaskRows /\ ex \in Executions /\ tick \in Ticks /\ rt \in Attempts /\ uid \in Nat
  BY DEF TypeOK
<1> USE DEF At, GoTo, Sleep, Idle, externals, BindPlaces
<1>1. CASE ProvisionAttempt
  <2>1. rt'.uid = rt.uid
    BY <1>0, <1>1 DEF ProvisionAttempt, Attempts
  <2>2. task'.state \in Open => task' = task
    BY <1>0, <1>1, StopRequestedOpen DEF ProvisionAttempt
  <2>3. tick'.at \notin BindPlaces \cup {"recheck"}
    BY <1>0, <1>1 DEF ProvisionAttempt, Ticks
  <2> QED
    BY <1>1, <2>1, <2>2, <2>3, EquipKept DEF ProvisionAttempt
<1>2. CASE ProvisionKey
  <2>1. CASE KeyToAskFor
    <3>1. task.state # "running"
      BY <2>1 DEF KeyToAskFor, KeyInv, EquipInv
    <3> QED
      BY <1>0, <1>2, <2>1, <3>1 DEF ProvisionKey, EquipInv, Executions, Ticks
  <2>2. CASE ~KeyToAskFor
    BY <1>0, <1>2, <2>2, EquipKept DEF ProvisionKey, Ticks
  <2> QED
    BY <2>1, <2>2
<1>3. CASE GenerateReply \/ LookupReply
  <2>1. ex'.state = ex.state /\ ex'.binding = ex.binding /\ ex'.hashed = ex.hashed
    BY <1>0, <1>3 DEF GenerateReply, LookupReply, Executions
  <2>2. task'.state \in Open => task' = task
    BY <1>0, <1>3, StopRequestedOpen DEF GenerateReply, LookupReply
  <2>3. tick'.at \notin BindPlaces \cup {"recheck"}
    BY <1>0, <1>3 DEF GenerateReply, LookupReply, Ticks
  <2> QED
    BY <1>3, <2>1, <2>2, <2>3, EquipKept DEF GenerateReply, LookupReply
<1>4. CASE PodCheck
  <2>1. tick'.at \in {"idle", "create"} \/ (tick'.at = "recheck" /\ ~NoPod)
    BY <1>0, <1>4 DEF PodCheck, Ticks
  <2> QED
    BY <1>4, <2>1 DEF PodCheck, EquipInv, NoPod
<1>5. CASE PodCreate
  <2>1. \/ pod' = "starting" /\ uid' # 0 /\ tick'.at = "recheck"
        \/ pod' = "flying" /\ uid' = uid /\ tick'.at = "idle"
    BY <1>0, <1>5 DEF PodCreate, Ticks
  <2> QED
    BY <1>5, <2>1 DEF PodCreate, EquipInv
<1>6. CASE PodRecheck
  <2>1. rt'.uid # 0
    BY <1>6 DEF PodRecheck, EquipInv
  <2>2. tick'.at \in {"idle", "bind"} /\ (pod' = pod \/ pod \notin {"none", "flying"})
    BY <1>0, <1>6 DEF PodRecheck, Ticks, NoPod
  <2> QED
    BY <1>6, <2>1, <2>2 DEF PodRecheck, EquipInv
<1>7. CASE Bind
  <2>1. CASE ex.binding = "pending"
    <3>1. ex'.binding = "sent" /\ ex'.state = ex.state /\ tick'.at = "project"
      BY <1>0, <1>7, <2>1 DEF Bind, Executions, Ticks
    <3>2. ex.state # "none" /\ rt.uid # 0 /\ task.state # "running"
      BY <1>7, <2>1 DEF Bind, FenceInv, EquipInv
    <3> QED
      BY <1>7, <3>1, <3>2 DEF Bind, EquipInv
  <2>2. CASE ex.binding # "pending"
    <3>1. tick'.at = "idle" \/ (tick'.at = "activate" /\ ex.binding = "bound")
      BY <1>0, <1>7, <2>2 DEF Bind, ProjectBound, Ticks
    <3> QED
      BY <1>7, <2>2, <3>1 DEF Bind, EquipInv
  <2> QED
    BY <2>1, <2>2
<1>8. CASE ProjectReply
  <2>1. ex.binding = "sent" /\ ex'.state = ex.state
    BY <1>0, <1>8 DEF ProjectReply, EquipInv, Executions
  <2>2. \/ graph = "active" /\ ex'.binding = "bound" /\ tick'.at = "activate"
        \/ ex'.binding = "unknown" /\ tick'.at = "idle"
    BY <1>0, <1>8 DEF ProjectReply, Executions, Ticks
  <2>3. ex.state # "none" /\ rt.uid # 0
    BY <1>8 DEF ProjectReply, FenceInv, EquipInv
  <2> QED
    BY <1>8, <2>1, <2>2, <2>3 DEF ProjectReply, EquipInv
<1>9. CASE Activate
  <2>1. CASE task.state = "provisioning"
    <3>1. task'.state = "running" /\ ex'.state = "running" /\ ex'.binding = ex.binding
          /\ ex'.hashed = ex.hashed
      BY <1>0, <1>9, <2>1 DEF Activate, TaskRows, Executions
    <3>2. ex.binding = "bound" /\ rt.uid # 0 /\ graph = "active"
      BY <1>9, <2>1 DEF Activate, EquipInv, Open
    <3>3. ex.hashed /\ key \in {"live", "blocked"}
      BY <1>9 DEF Activate, KeyInv, PodPlaces
    <3> QED
      BY <1>9, <3>1, <3>2, <3>3 DEF Activate, EquipInv
  <2>2. CASE task.state # "provisioning"
    BY <1>9, <2>2, EquipKept DEF Activate
  <2> QED
    BY <2>1, <2>2
<1> QED
  BY <1>1, <1>2, <1>3, <1>4, <1>5, <1>6, <1>7, <1>8, <1>9 DEF Provision

LEMMA StopEquip == TypeOK /\ FenceInv /\ EquipInv /\ Stop => EquipInv'
<1> SUFFICES ASSUME TypeOK, FenceInv, EquipInv, Stop PROVE EquipInv'
  OBVIOUS
<1>0. task \in TaskRows /\ ex \in Executions /\ tick \in Ticks
  BY DEF TypeOK
<1>1. tick.at \in StopPlaces /\ task.state \in Closing /\ ex.state # "none"
  BY DEF Stop, StopKey, StopFind, StopFindFails, StopWork, StopPod, StopSettle, StopFinal,
         At, StopPlaces, FenceInv
<1>2. task'.state \notin Open
  <2>1. CASE StopFinal
    BY <1>0, <2>1 DEF StopFinal, FinalRow, TaskRows, Open
  <2>2. CASE ~StopFinal
    BY <1>0, <1>1, <2>2 DEF Stop, StopKey, StopFind, StopFindFails, StopWork, StopPod,
       StopSettle, TaskRows, Open, Closing
  <2> QED
    BY <2>1, <2>2
<1>3. ex'.binding = ex.binding /\ ex'.state # "none"
  BY <1>0, <1>1 DEF Stop, StopKey, StopFind, StopFindFails, StopWork, StopPod, StopSettle,
     StopFinal, Executions
<1>4. tick'.at \in StopPlaces \cup {"idle"}
  <2>1. CASE StopFind
    BY <1>0, <2>1 DEF StopFind, GoTo, Ticks, StopPlaces
  <2>2. CASE StopPod
    BY <1>0, <2>2 DEF StopPod, GoTo, Ticks, StopPlaces
  <2>3. CASE \E landed, heard, looked \in BOOLEAN : StopKey(landed, heard, looked)
    BY <1>0, <2>3 DEF StopKey, Ticks, StopPlaces
  <2>4. CASE StopFindFails \/ StopSettle \/ StopFinal
             \/ \E settled, landed \in BOOLEAN : StopWork(settled, landed)
    BY <1>0, <2>4 DEF StopFindFails, StopWork, StopSettle, StopFinal, GoTo, Sleep, Idle,
       Ticks, StopPlaces
  <2> QED
    BY <2>1, <2>2, <2>3, <2>4 DEF Stop
<1>5. graph' = graph \/ graph' = "stopped"
  BY DEF Stop, StopKey, StopFind, StopFindFails, StopWork, StopPod, StopSettle, StopFinal,
     externals
<1>6. uid' = uid /\ (pod' = pod \/ pod \notin {"none", "flying"})
  BY DEF Stop, StopKey, StopFind, StopFindFails, StopWork, StopPod, StopSettle, StopFinal,
     externals, NoPod
<1> QED
  BY <1>2, <1>3, <1>4, <1>5, <1>6 DEF EquipInv, StopPlaces, BindPlaces, Open

LEMMA NextEquip == TypeOK /\ FenceInv /\ KeyInv /\ EquipInv /\ [Next]_vars => EquipInv'
<1>1. EquipInv /\ UNCHANGED vars => EquipInv'
  BY DEF vars, EquipInv
<1> QED
  BY <1>1, CommandsEquip, TickEquip, ProvisionEquip, StopEquip, EnvironmentEquip DEF Next

\* A task that is shown as running has its key, its Pod and its native project.
THEOREM RunningTaskIsEquipped == Spec => []RunningIsEquipped
BY EquipInit, NextEquip, EquipImplies, KeyInit, NextKey, FenceInit, NextFence, TypeCorrect,
   PTL DEF Spec

-----------------------------------------------------------------------------
(* What a finished task leaves behind, if no Pod is created late *)

\* What the consumer believes of the Pod while it works is true.
PodInv ==
  /\ pod # "flying"
  /\ rt.state = "none" => uid = 0
  /\ tick.at \in PodPlaces \cup {"key", "generate", "lookup"} => rt.state # "none"
  /\ tick.at \in StopPlaces /\ tick.absent => pod = "none"
  /\ tick.at \in {"work", "clean"} /\ rt.state # "none" /\ rt.uid = 0 => pod = "none"
  /\ tick.at = "settle" => pod = "none" \/ tick.clean = "pending"
  /\ tick.at = "final" => pod = "none" /\ tick.clean # "pending" /\ tick.blocked

LEMMA PodInit == Init => PodInv
BY DEF Init, Idle, PodInv, PodPlaces, StopPlaces

\* A step that creates no Pod and brings the consumer to no other place, unless
\* to sleep, keeps what it believes.
LEMMA PodKept ==
  ASSUME PodInv, rt' = rt, uid' = uid, pod' = pod \/ pod' # "flying",
         pod = "none" => pod' = "none", tick' = tick \/ tick'.at = "idle"
  PROVE  PodInv'
BY DEF PodInv, PodPlaces, StopPlaces

LEMMA ProvisionPod ==
  TypeOK /\ EquipInv /\ PodInv /\ ~LatePods /\ Provision => PodInv'
<1> SUFFICES ASSUME TypeOK, EquipInv, PodInv, ~LatePods, Provision PROVE PodInv'
  OBVIOUS
<1>0. tick \in Ticks /\ rt \in Attempts
  BY DEF TypeOK
<1> USE DEF At, GoTo, Sleep, Idle, externals
<1>1. CASE ProvisionAttempt
  BY <1>0, <1>1 DEF ProvisionAttempt, PodInv, Ticks, Attempts, PodPlaces, StopPlaces
<1>2. CASE ProvisionKey \/ GenerateReply \/ LookupReply \/ Bind \/ ProjectReply \/ Activate
  <2>1. /\ tick.at \in PodPlaces \cup {"key", "generate", "lookup"}
        /\ tick'.at \in PodPlaces \cup {"key", "generate", "lookup", "idle"}
        /\ pod' = pod /\ uid' = uid /\ rt' = rt
    BY <1>0, <1>2 DEF ProvisionKey, GenerateReply, LookupReply, Bind, ProjectReply, Activate,
       Ticks, PodPlaces
  <2> QED
    BY <2>1 DEF PodInv, PodPlaces, StopPlaces
<1>3. CASE PodCheck
  BY <1>0, <1>3 DEF PodCheck, PodInv, Ticks, PodPlaces, StopPlaces
<1>4. CASE PodCreate
  BY <1>0, <1>4 DEF PodCreate, PodInv, Ticks, PodPlaces, StopPlaces
<1>5. CASE PodRecheck
  <2>1. rt'.state # "none" /\ pod' # "flying" /\ uid' = uid
    BY <1>5 DEF PodRecheck, PodInv
  <2>2. tick'.at \in {"idle", "bind"}
    BY <1>0, <1>5 DEF PodRecheck, Ticks
  <2> QED
    BY <2>1, <2>2 DEF PodInv, PodPlaces, StopPlaces
<1> QED
  BY <1>1, <1>2, <1>3, <1>4, <1>5 DEF Provision

LEMMA StopPodInv == TypeOK /\ EquipInv /\ PodInv /\ Stop => PodInv'
<1> SUFFICES ASSUME TypeOK, EquipInv, PodInv, Stop PROVE PodInv'
  OBVIOUS
<1>0. tick \in Ticks /\ rt \in Attempts
  BY DEF TypeOK
<1> USE DEF At, GoTo, Sleep, Idle, externals
<1>1. ASSUME NEW landed \in BOOLEAN, NEW heard \in BOOLEAN, NEW looked \in BOOLEAN,
             StopKey(landed, heard, looked)
      PROVE  PodInv'
  <2>1. tick'.at = "find" /\ tick'.absent = tick.absent /\ tick.at = "stop"
        /\ pod' = pod /\ uid' = uid /\ rt' = rt
    BY <1>0, <1>1 DEF StopKey, Ticks
  <2> QED
    BY <2>1 DEF PodInv, PodPlaces, StopPlaces
<1>2. CASE StopFind
  <2>0. pod' = pod /\ uid' = uid /\ tick'.at = "work" /\ tick.at = "find" /\ pod # "flying"
    BY <1>0, <1>2 DEF StopFind, Ticks, PodInv
  <2>1. CASE PodUnrecorded
    <3>1. tick'.absent <=> pod = "none"
      BY <1>0, <1>2, <2>0, <2>1 DEF StopFind, Ticks, NoPod
    <3>2. rt'.state = rt.state /\ (pod # "none" => rt'.uid = uid)
      BY <1>0, <1>2, <2>0, <2>1 DEF StopFind, Attempts, NoPod
    <3>3. pod # "none" => uid # 0
      BY <2>0 DEF EquipInv
    <3> QED
      BY <2>0, <3>1, <3>2, <3>3 DEF PodInv, PodPlaces, StopPlaces
  <2>2. CASE ~PodUnrecorded
    <3>1. rt' = rt /\ tick'.absent = tick.absent
      BY <1>0, <1>2, <2>2 DEF StopFind, Ticks
    <3> QED
      BY <2>0, <2>2, <3>1 DEF PodInv, PodUnrecorded, PodPlaces, StopPlaces
  <2> QED
    BY <2>1, <2>2
<1>3. CASE StopFindFails
  BY <1>0, <1>3 DEF StopFindFails, PodInv, Attempts, PodPlaces, StopPlaces, PodUnrecorded
<1>4. ASSUME NEW settled \in BOOLEAN, NEW landed \in BOOLEAN, StopWork(settled, landed)
      PROVE  PodInv'
  <2>1. tick.at = "work" /\ pod' = pod /\ uid' = uid /\ rt' = rt
        /\ tick'.at \in {"clean", "idle"} /\ (tick'.at = "clean" => tick'.absent = tick.absent)
    BY <1>0, <1>4 DEF StopWork, Ticks
  <2> QED
    BY <2>1 DEF PodInv, PodPlaces, StopPlaces
<1>5. CASE StopPod
  <2>0. tick.at = "clean" /\ uid' = uid /\ tick'.at = "settle" /\ tick'.absent = tick.absent
        /\ (rt'.state = "none" => rt.state = "none")
    BY <1>0, <1>5 DEF StopPod, Ticks, Attempts
  <2>1. CASE rt.state # "none" /\ rt.uid # 0
    <3>1. \/ pod = "none" /\ pod' = "none"
          \/ pod # "none" /\ pod' = "deleting" /\ tick'.clean = "pending"
      BY <1>0, <1>5, <2>1 DEF StopPod, Ticks, NoPod, PodInv
    <3> QED
      BY <2>0, <3>1 DEF PodInv, PodPlaces, StopPlaces
  <2>2. CASE rt.state = "none" \/ rt.uid = 0
    <3>1. pod' = pod
      BY <1>5, <2>2 DEF StopPod
    <3>2. pod = "none"
      BY <2>0, <2>2 DEF PodInv, EquipInv
    <3> QED
      BY <2>0, <3>1, <3>2 DEF PodInv, PodPlaces, StopPlaces
  <2> QED
    BY <2>1, <2>2
<1>6. CASE StopSettle
  <2>1. tick.at = "settle" /\ pod' = pod /\ uid' = uid /\ rt' = rt
    BY <1>6 DEF StopSettle
  <2>2. \/ tick'.at = "idle"
        \/ /\ tick'.at = "final" /\ tick'.absent = tick.absent
           /\ tick'.clean = tick.clean /\ tick.clean # "pending" /\ tick.blocked /\ tick'.blocked
    BY <1>0, <1>6 DEF StopSettle, Ticks
  <2> QED
    BY <2>1, <2>2 DEF PodInv, PodPlaces, StopPlaces
<1>7. CASE StopFinal
  BY <1>7, PodKept DEF StopFinal
<1> QED
  BY <1>1, <1>2, <1>3, <1>4, <1>5, <1>6, <1>7 DEF Stop

LEMMA NextPod ==
  TypeOK /\ EquipInv /\ PodInv /\ ~LatePods /\ [Next]_vars => PodInv'
<1> SUFFICES ASSUME TypeOK, EquipInv, PodInv, ~LatePods, [Next]_vars PROVE PodInv'
  OBVIOUS
<1>1. CASE UNCHANGED vars
  BY <1>1 DEF vars, PodInv
<1>2. CASE Tick
  <2>1. rt' = rt /\ uid' = uid /\ pod' = pod
    BY <1>2 DEF Tick, externals
  <2>2. \E t : tick' = [Idle EXCEPT !.seen = t.state, !.at = Dispatch(t.state)]
    BY <1>2, Zenon DEF Tick
  <2>3. tick'.at \in {"idle", "provision", "running", "stop"} /\ ~tick'.absent
    BY <2>2 DEF Dispatch, Idle
  <2> QED
    BY <2>1, <2>3 DEF PodInv, PodPlaces, StopPlaces
<1>3. CASE \/ Start \/ Cancel \/ ExplorationEnds \/ Heartbeat \/ TickRunning \/ TickFails
           \/ Restart \/ PermitChanges \/ DeadlinePasses \/ KeyLands \/ ProjectLands \/ PodMoves
  BY <1>3, PodKept DEF Start, Cancel, ExplorationEnds, Heartbeat, TickRunning, TickFails,
     Restart, PermitChanges, DeadlinePasses, KeyLands, ProjectLands, PodMoves, Sleep, Idle,
     externals
<1>4. CASE PodLands
  BY <1>4 DEF PodLands, PodInv
<1> QED
  BY <1>1, <1>2, <1>3, <1>4, ProvisionPod, StopPodInv DEF Next, Environment
\* The execution is stopped when its task has ended, not before, and the
\* consumer has then finished with it.
EndInv ==
  /\ task.state \in Terminal /\ ex.state # "none" <=> ex.state = "stopped"
  /\ tick.at # "idle" => ex.state # "stopped"
  /\ NothingOutlivesTheTask

LEMMA EndInit == Init => EndInv
BY DEF Init, ReadyTask, NoExecution, Idle, EndInv, NothingOutlivesTheTask, Terminal

\* A step of a task that has not ended and does not end.
LEMMA NotEnded ==
  ASSUME EndInv, task'.state \notin Terminal, ex'.state # "stopped" \/ ex' = ex,
         task.state \notin Terminal
  PROVE  EndInv'
BY DEF EndInv, NothingOutlivesTheTask

\* A step after the end.
LEMMA AlreadyEnded ==
  ASSUME EndInv, task' = task, ex'.state = ex.state, ex'.hashed = ex.hashed,
         key' = key \/ key = "flying", pod' = pod \/ pod \notin {"none"},
         tick' = tick \/ tick'.at = "idle" \/ ex.state # "stopped"
  PROVE  EndInv'
BY DEF EndInv, NothingOutlivesTheTask

LEMMA FinalEnd ==
  TypeOK /\ FenceInv /\ KeyInv /\ PodInv /\ StopFinal => EndInv'
<1> SUFFICES ASSUME TypeOK, FenceInv, KeyInv, PodInv, StopFinal PROVE EndInv'
  OBVIOUS
<1>0. task \in TaskRows /\ ex \in Executions /\ tick \in Ticks
  BY DEF TypeOK
<1>1. key = "blocked" \/ (key = "absent" /\ ~ex.hashed)
  BY DEF StopFinal, At, PodInv, KeyInv, StopPlaces
<1>2. pod = "none" /\ tick.clean \in {"completed", "not_required"}
  BY <1>0 DEF StopFinal, At, PodInv, Ticks
<1>3. task'.state \in Terminal /\ task'.egress = "revoked" /\ task'.cleanup = tick.clean
  BY <1>0 DEF StopFinal, FinalRow, TaskRows, Terminal
<1>4. ex'.state = "stopped" /\ ex'.hashed = ex.hashed /\ key' = key /\ pod' = pod
      /\ tick'.at = "idle"
  BY <1>0 DEF StopFinal, Executions, externals, Sleep, Idle
<1> QED
  BY <1>1, <1>2, <1>3, <1>4 DEF EndInv, NothingOutlivesTheTask

LEMMA NextEnd ==
  TypeOK /\ FenceInv /\ KeyInv /\ PodInv /\ EndInv /\ ~LatePods /\ [Next]_vars => EndInv'
<1> SUFFICES ASSUME TypeOK, FenceInv, KeyInv, PodInv, EndInv, ~LatePods, [Next]_vars
             PROVE  EndInv'
  OBVIOUS
<1>0. task \in TaskRows /\ ex \in Executions /\ tick \in Ticks
  BY DEF TypeOK
<1>1. CASE StopFinal
  BY <1>1, FinalEnd
<1>2. CASE Start
  <2>1. task'.state = "provisioning" /\ ex'.state = "pending" /\ task.state = "ready"
    BY <1>0, <1>2 DEF Start, StartRow, TaskRows, NoExecution
  <2> QED
    BY <2>1, NotEnded DEF Terminal
<1>3. CASE Cancel
  <2>1. CASE task.state = "ready"
    <3>1. ex.state = "none" /\ ex' = ex /\ tick' = tick
      BY <1>3, <2>1 DEF Cancel, FenceInv, RowFence
    <3> QED
      BY <3>1 DEF EndInv, NothingOutlivesTheTask
  <2>2. CASE task.state # "ready"
    <3>1. task'.state = "cancelling" /\ task.state \notin Terminal /\ ex' = ex
      BY <1>0, <1>3, <2>2 DEF Cancel, CancelRow, TaskRows
    <3> QED
      BY <3>1, NotEnded DEF Terminal
  <2> QED
    BY <2>1, <2>2
<1>4. CASE Environment
  <2>1. /\ task' = task /\ ex' = ex
        /\ key' = key \/ key = "flying"
        /\ pod' = pod \/ pod # "none"
        /\ tick' = tick \/ tick'.at = "idle"
    BY <1>4 DEF Environment, Restart, PermitChanges, DeadlinePasses, KeyLands, ProjectLands,
       PodLands, PodMoves, Sleep, Idle, externals
  <2> QED
    BY <2>1, AlreadyEnded
<1>5. CASE ExplorationEnds \/ Heartbeat \/ TickFails \/ UNCHANGED vars
  <2>1. \/ task' = task
        \/ \E why : task' = StopRequested(task, why)
    BY <1>5 DEF ExplorationEnds, Heartbeat, TickFails, vars
  <2>2. ex' = ex /\ key' = key /\ pod' = pod /\ (tick' = tick \/ tick'.at = "idle")
    BY <1>5 DEF ExplorationEnds, Heartbeat, TickFails, vars, Sleep, Idle, externals
  <2>3. task' = task \/ (task.state \notin Terminal /\ task'.state \notin Terminal)
    BY <1>0, <2>1 DEF StopRequested, TaskRows, Terminal
  <2> QED
    BY <2>2, <2>3, AlreadyEnded, NotEnded
\* The consumer works only on an execution that is not stopped, and none of its
\* steps but the last ends the task.
<1>6. CASE (Tick \/ TickRunning \/ Provision \/ Stop) /\ ~StopFinal
  <2>1. ex.state \notin {"none", "stopped"}
    BY <1>6 DEF Tick, TickRunning, Provision, ProvisionAttempt, ProvisionKey,
       GenerateReply, LookupReply, PodCheck, PodCreate, PodRecheck, Bind, ProjectReply,
       Activate, Stop, StopKey, StopFind, StopFindFails, StopWork, StopPod, StopSettle,
       At, EndInv, FenceInv
  <2>2. task.state \notin Terminal
    BY <2>1 DEF EndInv
  <2>3. ex'.state # "stopped"
    BY <1>0, <1>6, <2>1 DEF Tick, TickRunning, Provision, ProvisionAttempt, ProvisionKey,
       GenerateReply, LookupReply, PodCheck, PodCreate, PodRecheck, Bind, ProjectReply,
       Activate, Stop, StopKey, StopFind, StopFindFails, StopWork, StopPod, StopSettle,
       Executions
  <2>4. task'.state \notin Terminal
    <3>1. ASSUME NEW t \in TaskRows, NEW why, t.state \notin Terminal
          PROVE  StopRequested(t, why).state \notin Terminal
      BY <3>1 DEF StopRequested, TaskRows, Terminal
    <3>2. CASE Tick
      <4> DEFINE adopted == IF ex.owner # core
                            THEN StopRequested(task, "controller_restarted") ELSE task
      <4>1. adopted \in TaskRows /\ adopted.state \notin Terminal
        BY <1>0, <2>2, <3>1, RowTypes DEF Reasons
      <4>2. task' = IF late THEN StopRequested(adopted, "runtime_deadline") ELSE adopted
        BY <3>2 DEF Tick
      <4> QED
        BY <3>1, <4>1, <4>2
    <3>3. CASE TickRunning \/ Provision
      BY <1>0, <2>2, <3>1, <3>3 DEF TickRunning, Provision, ProvisionAttempt, ProvisionKey,
         GenerateReply, LookupReply, PodCheck, PodCreate, PodRecheck, Bind, ProjectReply,
         Activate, TaskRows, Terminal
    <3>4. CASE Stop
      BY <1>0, <1>6, <2>2, <3>4 DEF Stop, StopKey, StopFind, StopFindFails, StopWork,
         StopPod, StopSettle, TaskRows, Terminal
    <3> QED
      BY <1>6, <3>2, <3>3, <3>4
  <2> QED
    BY <2>2, <2>3, <2>4, NotEnded
<1> QED
  BY <1>1, <1>2, <1>3, <1>4, <1>5, <1>6 DEF Next

\* If Kubernetes creates no Pod after the request for it has timed out, nothing
\* that could spend or act outlives a task that was started.
THEOREM NothingIsLeftBehind == ASSUME ~LatePods PROVE Spec => []NothingOutlivesTheTask
<1>1. TypeOK /\ FenceInv /\ KeyInv /\ EquipInv /\ PodInv /\ EndInv /\ [Next]_vars
        => KeyInv' /\ EquipInv' /\ PodInv' /\ EndInv'
  BY NextKey, NextEquip, NextPod, NextEnd
<1>2. EndInv => NothingOutlivesTheTask
  BY DEF EndInv
<1> QED
  BY <1>1, <1>2, KeyInit, EquipInit, PodInit, EndInit, FenceInit, NextFence, TypeCorrect, PTL
     DEF Spec

-----------------------------------------------------------------------------
(* That the protocol implements Licence, provided that Kubernetes creates   *)
(* no Pod after the request for it has timed out.                          *)

\* An execution has to be started before anything is done for it.
UnstartedInv == ex.state = "none" => rt.state = "none"

\* The steps that write the row of a runtime attempt are those of a consumer at
\* work on an execution, and no step unmakes an execution.
LEMMA NextUnstarted == TypeOK /\ FenceInv /\ UnstartedInv /\ [Next]_vars => UnstartedInv'
<1> SUFFICES ASSUME TypeOK, FenceInv, UnstartedInv, [Next]_vars PROVE UnstartedInv'
  OBVIOUS
<1>0. ex \in Executions /\ tick \in Ticks
  BY DEF TypeOK
<1>1. CASE rt' = rt /\ (ex' = ex \/ ex'.state # "none")
  BY <1>1 DEF UnstartedInv
<1>2. CASE ex.state # "none" /\ ex'.state # "none"
  BY <1>2 DEF UnstartedInv
<1>3. CASE UNCHANGED vars
  BY <1>1, <1>3 DEF vars
<1>4. CASE Start \/ Cancel \/ ExplorationEnds \/ Heartbeat \/ TickFails \/ TickRunning
           \/ Environment
  BY <1>1, <1>4 DEF Start, Cancel, ExplorationEnds, Heartbeat, TickFails, TickRunning,
     Environment, Restart, PermitChanges, DeadlinePasses, KeyLands, ProjectLands, PodLands,
     PodMoves, NoExecution, clocks, externals
<1>5. CASE Tick \/ Provision \/ Stop
  <2>1. ex.state # "none"
    BY <1>5 DEF Tick, Provision, ProvisionAttempt, ProvisionKey, GenerateReply, LookupReply,
       PodCheck, PodCreate, PodRecheck, Bind, ProjectReply, Activate, Stop, StopKey,
       StopFind, StopFindFails, StopWork, StopPod, StopSettle, StopFinal, At, FenceInv
  <2>2. ex'.state # "none"
    BY <1>0, <1>5, <2>1 DEF Tick, Provision, ProvisionAttempt, ProvisionKey, GenerateReply,
       LookupReply, PodCheck, PodCreate, PodRecheck, Bind, ProjectReply, Activate, Stop,
       StopKey, StopFind, StopFindFails, StopWork, StopPod, StopSettle, StopFinal, Executions
  <2> QED
    BY <1>2, <2>1, <2>2
<1> QED
  BY <1>3, <1>4, <1>5 DEF Next

LEMMA StaysStarted == TypeOK /\ [Next]_vars /\ ex.state # "none" => ex'.state # "none"
<1> SUFFICES ASSUME TypeOK, [Next]_vars, ex.state # "none" PROVE ex'.state # "none"
  OBVIOUS
<1>0. ex \in Executions
  BY DEF TypeOK
<1>1. CASE UNCHANGED vars \/ Environment
  BY <1>1 DEF vars, Environment, Restart, PermitChanges, DeadlinePasses, KeyLands,
     ProjectLands, PodLands, PodMoves
<1>2. CASE Start \/ Cancel \/ ExplorationEnds \/ Heartbeat \/ TickFails \/ TickRunning \/ Tick
  BY <1>0, <1>2 DEF Start, Cancel, ExplorationEnds, Heartbeat, TickFails, TickRunning, Tick,
     NoExecution, Executions
<1>3. CASE Provision \/ Stop
  BY <1>0, <1>3 DEF Provision, ProvisionAttempt, ProvisionKey, GenerateReply, LookupReply,
     PodCheck, PodCreate, PodRecheck, Bind, ProjectReply, Activate, Stop, StopKey, StopFind,
     StopFindFails, StopWork, StopPod, StopSettle, StopFinal, Executions
<1> QED
  BY <1>1, <1>2, <1>3 DEF Next

-----------------------------------------------------------------------------
(* What a step does to the key and the Pod *)

\* A step moves at most one of the two, leaves the task alone when it does, and
\* has a reason to: the consumer is at work, or something is there already.
LEMMA OneResource ==
  TypeOK /\ [Next]_vars =>
    \/ key' = key /\ pod' = pod
    \/ /\ task' = task
       /\ key' = key \/ pod' = pod
       /\ tick.at # "idle" \/ key = "flying" \/ pod # "none"
<1> SUFFICES ASSUME TypeOK, [Next]_vars
             PROVE  \/ key' = key /\ pod' = pod
                    \/ /\ task' = task
                       /\ key' = key \/ pod' = pod
                       /\ tick.at # "idle" \/ key = "flying" \/ pod # "none"
  OBVIOUS
<1>1. CASE UNCHANGED vars
  BY <1>1 DEF vars
<1>2. CASE Start \/ Cancel \/ ExplorationEnds \/ Heartbeat \/ Tick \/ TickRunning \/ TickFails
  BY <1>2 DEF Start, Cancel, ExplorationEnds, Heartbeat, Tick, TickRunning, TickFails,
     externals
<1>3. CASE Provision
  BY <1>3 DEF Provision, ProvisionAttempt, ProvisionKey, GenerateReply, LookupReply, PodCheck,
     PodCreate, PodRecheck, Bind, ProjectReply, Activate, externals, At
<1>4. CASE Stop
  BY <1>4 DEF Stop, StopKey, StopFind, StopFindFails, StopWork, StopPod, StopSettle, StopFinal,
     externals, At
<1>5. CASE Environment
  BY <1>5 DEF Environment, Restart, PermitChanges, DeadlinePasses, KeyLands, ProjectLands,
     PodLands, PodMoves, externals, TypeOK
<1> QED
  BY <1>1, <1>2, <1>3, <1>4, <1>5 DEF Next

LEMMA HeldByOpenTask ==
  ASSUME TypeOK, FenceInv, KeyInv, EquipInv, PodInv, EndInv, UnstartedInv,
         tick.at # "idle" \/ key = "flying" \/ pod # "none"
  PROVE  task.state \in Open \cup Closing
<1>0. task \in TaskRows /\ ex \in Executions
  BY DEF TypeOK
<1>1. ex.state # "none"
  <2>1. CASE tick.at # "idle"
    BY <2>1 DEF FenceInv
  <2>2. CASE key = "flying"
    BY <2>2 DEF KeyInv, NoExecution
  <2>3. CASE pod # "none"
    BY <2>3 DEF EquipInv, PodInv, UnstartedInv
  <2> QED
    BY <2>1, <2>2, <2>3
<1>2. task.state \notin Terminal
  BY <1>1 DEF EndInv, NothingOutlivesTheTask
<1>3. task.state # "ready"
  BY <1>1 DEF FenceInv, RowFence
<1> QED
  BY <1>0, <1>2, <1>3 DEF TaskRows, TaskStates, Open, Closing, Terminal

-----------------------------------------------------------------------------
(* What a step does to the state of the task *)

LEMMA StopRequestedCloses ==
  ASSUME NEW t \in TaskRows, NEW why
  PROVE  /\ t.state \in Open \cup Closing => StopRequested(t, why).state \in Closing
         /\ t.state \in Terminal => StopRequested(t, why) = t
BY DEF StopRequested, TaskRows, Open, Closing, Terminal

LEMMA TaskMoves ==
  TypeOK /\ FenceInv /\ EndInv /\ [Next]_vars =>
    \/ task'.state = task.state
    \/ task.state = "ready" /\ task'.state \in Open \cup {"cancelled"}
    \/ task.state \in Open /\ task'.state \in Open \cup Closing
    \/ task.state \in Closing /\ task'.state \in Closing \cup Terminal
<1> DEFINE Moves ==
      \/ task'.state = task.state
      \/ task.state = "ready" /\ task'.state \in Open \cup {"cancelled"}
      \/ task.state \in Open /\ task'.state \in Open \cup Closing
      \/ task.state \in Closing /\ task'.state \in Closing \cup Terminal
<1> SUFFICES ASSUME TypeOK, FenceInv, EndInv, [Next]_vars PROVE Moves
  OBVIOUS
<1>0. task \in TaskRows /\ ex \in Executions
  BY DEF TypeOK
<1>1. CASE task' = task
  BY <1>1
<1>2. CASE UNCHANGED vars \/ Heartbeat \/ TickFails \/ Environment
  BY <1>1, <1>2 DEF vars, Heartbeat, TickFails, Environment, Restart, PermitChanges,
     DeadlinePasses, KeyLands, ProjectLands, PodLands, PodMoves
<1>3. CASE Start
  BY <1>0, <1>3 DEF Start, StartRow, TaskRows, Open
<1>4. CASE Cancel
  BY <1>0, <1>4 DEF Cancel, CancelRow, TaskRows, TaskStates, Open, Closing, Terminal
<1>5. ASSUME ex.state # "none", NEW why, task' = StopRequested(task, why) PROVE Moves
  <2>1. task.state # "ready"
    BY <1>5 DEF FenceInv, RowFence
  <2>2. task.state \in Open \cup Closing \cup Terminal
    BY <1>0, <2>1 DEF TaskRows, TaskStates, Open, Closing, Terminal
  <2> QED
    BY <1>0, <1>5, <2>2, StopRequestedCloses
<1>6. CASE ExplorationEnds
  BY <1>5, <1>6 DEF ExplorationEnds
<1>7. CASE Tick
  <2> DEFINE adopted == IF ex.owner # core
                        THEN StopRequested(task, "controller_restarted") ELSE task
  <2>1. task.state \in Open \cup Closing
    <3>1. task.state # "ready" /\ task.state \notin Terminal
      BY <1>7 DEF Tick, FenceInv, RowFence, EndInv
    <3> QED
      BY <1>0, <3>1 DEF TaskRows, TaskStates, Open, Closing, Terminal
  <2>2. adopted \in TaskRows /\ (adopted = task \/ adopted.state \in Closing)
    BY <1>0, <2>1, StopRequestedCloses, RowTypes DEF Reasons
  <2>3. task' = IF late THEN StopRequested(adopted, "runtime_deadline") ELSE adopted
    BY <1>7 DEF Tick
  <2>4. task' = task \/ task'.state \in Closing
    BY <2>1, <2>2, <2>3, StopRequestedCloses
  <2> QED
    BY <2>1, <2>4
<1>8. CASE TickRunning
  BY <1>1, <1>5, <1>8 DEF TickRunning, At, FenceInv
<1>9. CASE Provision
  <2>1. ex.state # "none"
    BY <1>9 DEF Provision, ProvisionAttempt, ProvisionKey, GenerateReply, LookupReply,
       PodCheck, PodCreate, PodRecheck, Bind, ProjectReply, Activate, At, FenceInv
  <2>2. CASE Activate
    BY <1>0, <2>2 DEF Activate, TaskRows, Open
  <2>3. CASE ~Activate
    BY <1>1, <1>5, <1>9, <2>1, <2>3 DEF Provision, ProvisionAttempt, ProvisionKey,
       GenerateReply, LookupReply, PodCheck, PodCreate, PodRecheck, Bind, ProjectReply
  <2> QED
    BY <2>2, <2>3
<1>10. CASE Stop
  <2>1. task.state \in Closing
    BY <1>10 DEF Stop, StopKey, StopFind, StopFindFails, StopWork, StopPod, StopSettle,
       StopFinal, At, FenceInv, StopPlaces
  <2>2. task' = task \/ task'.state \in Closing \cup Terminal
    BY <1>0, <1>10 DEF Stop, StopKey, StopFind, StopFindFails, StopWork, StopPod, StopSettle,
       StopFinal, FinalRow, TaskRows, Closing, Terminal
  <2> QED
    BY <2>1, <2>2
<1> HIDE DEF Moves
<1> QED
  BY <1>2, <1>3, <1>4, <1>6, <1>7, <1>8, <1>9, <1>10 DEF Next

-----------------------------------------------------------------------------
(* The refinement *)

LEMMA LicenceInit == Init => Promise!Init
BY DEF Init, ReadyTask, Promise!Init, phase, held, Open, Closing

LEMMA LicenceStep ==
  ASSUME TypeOK, FenceInv, KeyInv, EquipInv, PodInv, EndInv, UnstartedInv, [Next]_vars,
         TypeOK', EndInv', UnstartedInv'
  PROVE  [Promise!Next]_<<phase, held>>
<1>0. task \in TaskRows /\ task' \in TaskRows
  BY DEF TypeOK
<1>1. CASE key' = key /\ pod' = pod
  <2>1. held' = held
    BY <1>1 DEF held
  <2>2. CASE phase' = phase
    BY <2>1, <2>2
  <2>3. CASE task.state = "ready" /\ task'.state \in Open
    <3>1. phase = "idle" /\ phase' = "open"
      BY <2>3 DEF phase, Open, Closing
    <3> QED
      BY <2>1, <3>1 DEF Promise!Next, Promise!Grant
  <2>4. CASE task.state = "ready" /\ task'.state = "cancelled"
    <3>1. phase = "idle" /\ phase' = "closed"
      BY <2>4 DEF phase, Open, Closing
    <3> QED
      BY <2>1, <3>1 DEF Promise!Next, Promise!Decline
  <2>5. CASE task.state \in Open /\ task'.state \in Closing
    <3>1. phase = "open" /\ phase' = "closing"
      BY <2>5 DEF phase, Open, Closing
    <3> QED
      BY <2>1, <3>1 DEF Promise!Next, Promise!Withdraw
  <2>6. CASE task.state \in Closing /\ task'.state \in Terminal
    <3>1. phase = "closing" /\ phase' = "closed"
      BY <2>6 DEF phase, Open, Closing, Terminal
    <3>2. ex.state # "none"
      BY <2>6 DEF FenceInv, RowFence, Closing
    <3>3. ex'.state # "none"
      BY <3>2, StaysStarted
    <3>4. key' \notin {"flying", "live"} /\ pod' = "none"
      BY <2>6, <3>3 DEF EndInv, NothingOutlivesTheTask
    <3>5. held = {}
      BY <1>1, <3>4 DEF held
    <3> QED
      BY <2>1, <3>1, <3>5 DEF Promise!Next, Promise!End
  <2>7. CASE \/ task'.state = task.state
             \/ task.state \in Open /\ task'.state \in Open
             \/ task.state \in Closing /\ task'.state \in Closing
    <3>1. phase' = phase
      BY <2>7 DEF phase, Open, Closing
    <3> QED
      BY <2>2, <3>1
  <2> QED
    BY <2>3, <2>4, <2>5, <2>6, <2>7, TaskMoves
<1>2. CASE /\ task' = task
           /\ key' = key \/ pod' = pod
           /\ tick.at # "idle" \/ key = "flying" \/ pod # "none"
  <2>1. phase' = phase /\ phase \in {"open", "closing"}
    BY <1>2, HeldByOpenTask DEF phase, Open, Closing
  <2>2. CASE pod' = pod
    <3>1. held' = held \cup {"key"} \/ held' = held \ {"key"}
      BY <2>2 DEF held
    <3> QED
      BY <2>1, <3>1 DEF Promise!Next, Promise!Take, Promise!GiveBack
  <2>3. CASE key' = key
    <3>1. held' = held \cup {"pod"} \/ held' = held \ {"pod"}
      BY <2>3 DEF held
    <3> QED
      BY <2>1, <3>1 DEF Promise!Next, Promise!Take, Promise!GiveBack
  <2> QED
    BY <1>2, <2>2, <2>3
<1> QED
  BY <1>1, <1>2, OneResource

\* If Kubernetes creates no Pod after the request for it has timed out, the life
\* of a task is that of a licence.
THEOREM TaskIsALicence == ASSUME ~LatePods PROVE Spec => ImplementsLicence
<1>1. Init => UnstartedInv
  BY DEF Init, UnstartedInv
<1>2. TypeOK /\ FenceInv /\ KeyInv /\ EquipInv /\ PodInv /\ EndInv /\ UnstartedInv
        /\ [Next]_vars
        => KeyInv' /\ EquipInv' /\ PodInv' /\ EndInv' /\ UnstartedInv'
  BY NextKey, NextEquip, NextPod, NextEnd, NextUnstarted
<1>3. /\ TypeOK /\ FenceInv /\ KeyInv /\ EquipInv /\ PodInv /\ EndInv /\ UnstartedInv
      /\ [Next]_vars
      /\ TypeOK' /\ EndInv' /\ UnstartedInv'
      => [Promise!Next]_<<phase, held>>
  BY LicenceStep
<1> QED
  BY <1>1, <1>2, <1>3, LicenceInit, KeyInit, EquipInit, PodInit, EndInit, FenceInit,
     NextFence, TypeCorrect, PTL DEF Spec, ImplementsLicence, Promise!Spec
=============================================================================
