--------------------------- MODULE ToolCallsProofs ---------------------------
(***************************************************************************)
(* ToolCalls for any sets of calls: what its rows say of the work of the  *)
(* supervisor is true, and stop() ends the task only when all is settled. *)
(***************************************************************************)
EXTENDS ToolCalls, TLAPS

\* What the row, the request and the news of a call tell of its work.
CallInv(c) ==
  /\ c \in shown \/ c \in news \/ row[c] = "exited" => work[c] = "ended"
  /\ row[c] = "none" => put[c] = "none" /\ work[c] = "new" /\ handler[c] = "none"
  /\ put[c] = "sent" => work[c] = "new"

Settled == \A c \in AllCalls : row[c] \in {"none", "exited", "completed"}

Quiet == \A c \in Calls : work[c] \in {"new", "ended"} /\ put[c] # "sent"

\* How far the end of the task has got, and what is settled by then.
Stages ==
  /\ pod # "up" => task # "running" /\ Quiet
  /\ pod = "gone" => \A c \in Calls : put[c] = "none"
  /\ stop = "final" \/ task = "ended" => task # "running" /\ pod = "gone" /\ Settled

ToolInv == TypeOK /\ (\A c \in Calls : CallInv(c)) /\ Stages

-----------------------------------------------------------------------------
(* Each action keeps the invariant *)

LEMMA InitInv == Init => ToolInv
BY ToolCallsAssumption
DEF Init, ToolInv, TypeOK, CallInv, Stages, Settled, Quiet, AllCalls, Supervisor!Init

LEMMA RegisterKeeps ==
  ASSUME ToolInv, NEW c \in AllCalls, Register(c)
  PROVE  ToolInv'
<1>1. TypeOK'
  BY ToolCallsAssumption DEF ToolInv, TypeOK, Register, AllCalls, worker
<1>2. ASSUME NEW d \in Calls PROVE CallInv(d)'
  BY <1>2, ToolCallsAssumption DEF ToolInv, TypeOK, CallInv, Register, AllCalls, worker
<1>3. Stages'
  BY DEF ToolInv, TypeOK, Stages, Register
<1> QED BY <1>1, <1>2, <1>3 DEF ToolInv

LEMMA HandlerKeeps ==
  ASSUME ToolInv, NEW c \in AllCalls, PlatformDone(c) \/ HandlerFails(c)
  PROVE  ToolInv'
<1>1. TypeOK'
  <2>1. CASE PlatformDone(c)
    BY <2>1 DEF ToolInv, TypeOK, PlatformDone, AllCalls, worker
  <2>2. CASE HandlerFails(c)
    BY <2>2 DEF ToolInv, TypeOK, HandlerFails, AllCalls, worker
  <2> QED BY <2>1, <2>2
<1>2. ASSUME NEW d \in Calls PROVE CallInv(d)'
  <2>1. CASE PlatformDone(c)
    BY <1>2, <2>1 DEF ToolInv, TypeOK, CallInv, PlatformDone, AllCalls, worker
  <2>2. CASE HandlerFails(c)
    BY <1>2, <2>2 DEF ToolInv, TypeOK, CallInv, HandlerFails, AllCalls, worker
  <2> QED BY <2>1, <2>2
<1>3. Stages'
  <2>1. CASE PlatformDone(c)
    BY <2>1 DEF ToolInv, TypeOK, Stages, Settled, Quiet, PlatformDone, worker
  <2>2. CASE HandlerFails(c)
    BY <2>2 DEF ToolInv, TypeOK, Stages, Settled, Quiet, HandlerFails, worker
  <2> QED BY <2>1, <2>2
<1> QED BY <1>1, <1>2, <1>3 DEF ToolInv

\* A reply to the PUT of a call can come only while there is a Pod.
LEMMA ReplyKeeps ==
  ASSUME ToolInv, NEW c \in Calls, Accepted(c) \/ NotAccepted(c)
  PROVE  ToolInv'
<1>1. TypeOK'
  <2>1. CASE Accepted(c)
    BY <2>1, ToolCallsAssumption DEF ToolInv, TypeOK, Accepted, AllCalls, worker
  <2>2. CASE NotAccepted(c)
    BY <2>2, ToolCallsAssumption
    DEF ToolInv, TypeOK, NotAccepted, GivenUp, Final, AllCalls, worker
  <2> QED BY <2>1, <2>2
<1>2. ASSUME NEW d \in Calls PROVE CallInv(d)'
  <2>1. CASE Accepted(c)
    BY <1>2, <2>1 DEF ToolInv, TypeOK, CallInv, Accepted, AllCalls, worker
  <2>2. CASE NotAccepted(c)
    BY <1>2, <2>2
    DEF ToolInv, TypeOK, CallInv, NotAccepted, GivenUp, Final, AllCalls, worker
  <2> QED BY <2>1, <2>2
<1>3. Stages'
  <2>1. CASE Accepted(c)
    BY <2>1 DEF ToolInv, TypeOK, Stages, Settled, Quiet, Accepted, worker
  <2>2. CASE NotAccepted(c)
    <3>1. row[c] # "none"
      BY <2>2 DEF ToolInv, TypeOK, CallInv, NotAccepted, AllCalls
    <3> QED
      BY <2>2, <3>1
      DEF ToolInv, TypeOK, Stages, Settled, Quiet, NotAccepted, GivenUp, Final, worker
  <2> QED BY <2>1, <2>2
<1> QED BY <1>1, <1>2, <1>3 DEF ToolInv

\* The supervisor's answers to the PUT of a call.
LEMMA LaunchKeeps ==
  ASSUME ToolInv, NEW c \in Calls, Accept(c) \/ Refuse(c)
  PROVE  ToolInv'
<1>1. TypeOK'
  BY DEF ToolInv, TypeOK, Accept, Refuse, Supervisor!Accept, AllCalls, worker
<1>2. ASSUME NEW d \in Calls PROVE CallInv(d)'
  BY <1>2
  DEF ToolInv, TypeOK, CallInv, Accept, Refuse, Supervisor!Accept, AllCalls, worker
<1>3. Stages'
  BY DEF ToolInv, TypeOK, Stages, Settled, Quiet, Accept, Refuse, Supervisor!Accept, worker
<1> QED BY <1>1, <1>2, <1>3 DEF ToolInv

LEMMA WorkKeeps ==
  ASSUME ToolInv, Work
  PROVE  ToolInv'
<1>1. CASE Supervisor!Show
  <2>1. shown' \in SUBSET {d \in Calls : work[d] = "ended"} /\ work' = work
    BY <1>1 DEF Supervisor!Show
  <2> QED
    BY <2>1 DEF ToolInv, TypeOK, CallInv, Stages, Settled, Quiet, Work
<1>2. ASSUME NEW c \in Calls, Supervisor!Begin(c) PROVE ToolInv'
  <2>1. TypeOK'
    BY <1>2 DEF ToolInv, TypeOK, Work, Supervisor!Begin
  <2>2. ASSUME NEW d \in Calls PROVE CallInv(d)'
    BY <1>2, <2>2 DEF ToolInv, TypeOK, CallInv, Work, Supervisor!Begin
  <2>3. Stages'
    BY <1>2 DEF ToolInv, TypeOK, Stages, Settled, Quiet, Work, Supervisor!Begin
  <2> QED BY <2>1, <2>2, <2>3 DEF ToolInv
<1>3. ASSUME NEW c \in Calls, Supervisor!End({c}) PROVE ToolInv'
  <2>1. /\ work' = [d \in Calls |-> IF d = c THEN "ended" ELSE work[d]]
        /\ shown' \subseteq shown \cup {c}
        /\ work[c] \in {"held", "working"}
    BY <1>3 DEF Supervisor!End
  <2>2. TypeOK'
    BY <2>1 DEF ToolInv, TypeOK, Work
  <2>3. ASSUME NEW d \in Calls PROVE CallInv(d)'
    BY <2>1, <2>3 DEF ToolInv, TypeOK, CallInv, Work
  <2>4. Stages'
    BY <2>1 DEF ToolInv, TypeOK, Stages, Settled, Quiet, Work
  <2> QED BY <2>2, <2>3, <2>4 DEF ToolInv
<1> QED BY <1>1, <1>2, <1>3 DEF Work

LEMMA PollKeeps ==
  ASSUME ToolInv, NEW c \in Calls, Answer(c) \/ Poll(c) \/ PollLost(c)
  PROVE  ToolInv'
<1>1. TypeOK'
  BY ToolCallsAssumption
  DEF ToolInv, TypeOK, Answer, Poll, PollLost, Exited, AllCalls, worker
<1>2. ASSUME NEW d \in Calls PROVE CallInv(d)'
  BY <1>2
  DEF ToolInv, TypeOK, CallInv, Answer, Poll, PollLost, Exited, ProvesExit, AllCalls, worker
<1>3. Stages'
  BY DEF ToolInv, TypeOK, Stages, Settled, Quiet, Answer, Poll, PollLost, Exited, worker
<1> QED BY <1>1, <1>2, <1>3 DEF ToolInv

\* The Pod is deleted when no call is open, which is when all are quiet.
LEMMA StopKeeps ==
  ASSUME ToolInv, Close \/ Settle \/ StopFails \/ End
  PROVE  ToolInv'
<1>1. TypeOK'
  BY DEF ToolInv, TypeOK, Close, Settle, StopFails, End, worker
<1>2. ASSUME NEW d \in Calls PROVE CallInv(d)'
  BY <1>2 DEF ToolInv, CallInv, Close, Settle, StopFails, End, worker
<1>3. Stages'
  <2>1. CASE Close
    BY <2>1 DEF ToolInv, Stages, Settled, Quiet, Close, worker
  <2>2. CASE Settle
    <3>1. Settled
      BY <2>2 DEF Settle, Open, Final, Settled
    <3>2. Quiet
      BY <3>1 DEF ToolInv, TypeOK, CallInv, Settled, Quiet, AllCalls
    <3> QED
      BY <2>2, <3>1, <3>2 DEF ToolInv, TypeOK, Stages, Settled, Quiet, Settle, worker
  <2>3. CASE StopFails
    BY <2>3 DEF ToolInv, Stages, Settled, Quiet, StopFails, worker
  <2>4. CASE End
    BY <2>4 DEF ToolInv, Stages, Settled, Quiet, End, worker
  <2> QED BY <2>1, <2>2, <2>3, <2>4
<1> QED BY <1>1, <1>2, <1>3 DEF ToolInv

LEMMA PodGoneKeeps ==
  ASSUME ToolInv, PodGone
  PROVE  ToolInv'
<1> DEFINE open == {c \in Calls : work[c] \in {"held", "working"}}
<1>1. /\ work' = [d \in Calls |-> IF d \in open THEN "ended" ELSE work[d]]
      /\ shown' \subseteq shown \cup open
  BY DEF PodGone, Supervisor!End
<1>2. TypeOK'
  BY <1>1 DEF ToolInv, TypeOK, PodGone
<1>3. ASSUME NEW d \in Calls PROVE CallInv(d)'
  BY <1>1, <1>3 DEF ToolInv, TypeOK, CallInv, PodGone
<1>4. Stages'
  BY <1>1 DEF ToolInv, TypeOK, Stages, Settled, Quiet, PodGone
<1> QED BY <1>2, <1>3, <1>4 DEF ToolInv

LEMMA RestartKeeps ==
  ASSUME ToolInv, Restart
  PROVE  ToolInv'
<1>1. TypeOK'
  BY DEF ToolInv, TypeOK, Restart, AllCalls, worker
<1>2. ASSUME NEW d \in Calls PROVE CallInv(d)'
  BY <1>2 DEF ToolInv, TypeOK, CallInv, Restart, AllCalls, worker
<1>3. Stages'
  BY DEF ToolInv, TypeOK, Stages, Settled, Quiet, Restart, worker
<1> QED BY <1>1, <1>2, <1>3 DEF ToolInv

LEMMA NextKeeps ==
  ASSUME ToolInv, [Next]_vars
  PROVE  ToolInv'
<1>1. CASE Next
  BY <1>1, RegisterKeeps, HandlerKeeps, ReplyKeeps, LaunchKeeps, WorkKeeps, PollKeeps,
     StopKeeps, PodGoneKeeps, RestartKeeps
  DEF Next
<1>2. CASE UNCHANGED vars
  BY <1>2 DEF vars, ToolInv, TypeOK, CallInv, Stages, Settled, Quiet
<1> QED BY <1>1, <1>2

LEMMA AlwaysInv == Spec => []ToolInv
BY InitInv, NextKeeps, PTL DEF Spec

-----------------------------------------------------------------------------
(* Results *)

\* Every reachable state is well typed.
THEOREM ToolCallsTypeCorrect == Spec => []TypeOK
<1>1. ToolInv => TypeOK
  BY DEF ToolInv
<1> QED BY <1>1, AlwaysInv, PTL

\* A call is recorded as exited (poll_call) only if its work has ended for good.
THEOREM ExitedCallsHaveEnded == Spec => []ExitIsProven
<1>1. ToolInv => ExitIsProven
  BY DEF ToolInv, CallInv, ExitIsProven
<1> QED BY <1>1, AlwaysInv, PTL

\* stop() has the Pod deleted only when no call is or will be worked on.
THEOREM PodIsDeletedWhenQuiet == Spec => []DeletedWhenQuiet
<1>1. ToolInv => DeletedWhenQuiet
  BY DEF ToolInv, Stages, Quiet, DeletedWhenQuiet
<1> QED BY <1>1, AlwaysInv, PTL

\* A task that has ended has no open call, whatever replies come afterwards.
THEOREM EndedTaskIsSettled == Spec => []EndedIsSettled
<1>1. ToolInv => EndedIsSettled
  BY DEF ToolInv, Stages, Settled, EndedIsSettled
<1> QED BY <1>1, AlwaysInv, PTL
=============================================================================
