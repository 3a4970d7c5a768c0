-------------------------- MODULE AgentRunsProofs --------------------------
(***************************************************************************)
(* AgentRuns for any runs, intents, capacity and kinds of native writes:   *)
(* what its rows say is true of the processes and of the writes, and       *)
(* whoever ends a run or the task does so when nothing is at work.         *)
(***************************************************************************)
EXTENDS AgentRuns, TLAPS

\* A write is on record before it is sent, and the record is true.
WriteInv(o) ==
  /\ op[o] = "none" => sends[o] = 0
  /\ sends[o] <= 1
  /\ op[o] = "succeeded" => native[o] = "applied"
  /\ op[o] = "rejected" => native[o] = "refused"
  /\ lock.of = o /\ lock # Free => op[o] # "none"

\* May a process of the run still come to be, or be at work?
Wanted(r) == at[r] = "claimed" \/ Busy(r)

\* What the row of a run, the dispatcher and the supervisor know of each other.
RunInv(r) ==
  /\ r \in shown \/ row[r].output => work[r] = "ended"
  /\ at[r] = "claimed" => work[r] = "new" /\ ~put[r]
  /\ put[r] => work[r] = "new"
  /\ at[r] = "reporting" => says[r] \in Outcomes \ {"rejected"}
  /\ Wanted(r) => r \in Open
  /\ row[r].state = "none" => at[r] = "gone" /\ work[r] = "new"

\* Has the write reached a handler of execution-control that is not done with it?
UnderWay(o) == o \in waiting \/ (lock.of = o /\ lock # Free)

\* A runner that waits for a write, or is no longer heard, is past its process; one
\* that has its answers has nothing under way.
FlightInv(r) ==
  /\ \A k \in Kinds : UnderWay(<<r, k>>) =>
       /\ row[r].output
       /\ at[r] \in {k, "gone"} \/ (at[r] = "reporting" /\ says[r] # "success")
  /\ \A k, l \in Kinds : UnderWay(<<r, k>>) /\ UnderWay(<<r, l>>) => k = l

\* Has every write that the run asked for been answered?
Answered(r) ==
  ~Pending(r) /\ \A k \in Kinds : op[<<r, k>>] = "none" => <<r, k>> \notin waiting

\* While the task runs, a run that is synced asks for no more writes.
SyncInv(r) ==
  row[r].result = "synced" =>
    /\ row[r].output /\ Answered(r)
    /\ task = "running" => at[r] \in {"reporting", "gone"}

\* Admissions and the end.
TaskInv ==
  /\ \A r, s \in Runs : r # s /\ for[r] # None /\ for[r] = for[s] => ~(Wanted(r) /\ Wanted(s))
  /\ (\E r \in Runs : verdict[r] = "stop_with_results") \/ task = "ended"
       => task # "running" /\ \A r \in Runs : ~Wanted(r)

AgentInv ==
  /\ TypeOK
  /\ \A o \in Ops : WriteInv(o)
  /\ \A r \in Runs : RunInv(r) /\ FlightInv(r) /\ SyncInv(r)
  /\ TaskInv

-----------------------------------------------------------------------------
(* Operators *)

LEMMA PairsOfOps ==
  ASSUME NEW o \in Ops
  PROVE  o[1] \in Runs /\ o[2] \in Kinds /\ o = <<o[1], o[2]>>
BY DEF Ops

LEMMA OpsOfPairs ==
  ASSUME NEW r \in Runs, NEW k \in Kinds
  PROVE  <<r, k>> \in Ops /\ <<r, k>>[1] = r /\ <<r, k>>[2] = k
BY DEF Ops

\* What an outcome, of whatever origin, may make of a row.
LEMMA FinishedFacts ==
  ASSUME NEW r \in Runs, row[r] \in Rows, NEW o \in Outcomes, NEW v
  PROVE  LET f == Finished(r, o, v)
         IN /\ f \in Rows
            /\ f.output = row[r].output
            /\ f.state = "none" => f = row[r]
            /\ f.state = "exited" => f = row[r] \/ row[r].output
            /\ f.state = "not_started" => f = row[r] \/ o = "rejected"
            /\ f.result = "synced" =>
                 row[r].result = "synced"
                 \/ (o = "success" /\ row[r].output /\ ~Pending(r))
<1>1. CASE row[r].outcome # "none"
  BY <1>1 DEF Finished
<1>2. CASE row[r].outcome = "none"
  BY <1>2 DEF Finished, Concluded, Rows, Outcomes
<1> QED BY <1>1, <1>2

LEMMA StoppedType == TypeOK => Stopped \in {"running", "closing", "ended"}
BY DEF TypeOK, Stopped

\* The other writes to a row.
LEMMA RowTypes ==
  ASSUME TypeOK, NEW r \in Runs
  PROVE  /\ row[r] \in Rows
         /\ [row[r] EXCEPT !.output = TRUE] \in Rows
         /\ [row[r] EXCEPT !.result = "unknown"] \in Rows
         /\ [row[r] EXCEPT !.state = "exited",
                           !.result = IF @ = "pending" THEN "rejected" ELSE @,
                           !.outcome = IF @ = "none" THEN "cancelled" ELSE @] \in Rows
<1>1. row[r] \in Rows
  BY DEF TypeOK
<1> QED BY <1>1 DEF Rows, Outcomes

LEMMA RowUpdate ==
  ASSUME TypeOK, NEW r \in Runs, NEW new \in Rows, row' = [row EXCEPT ![r] = new]
  PROVE  row' \in [Runs -> Rows]
BY DEF TypeOK

-----------------------------------------------------------------------------
(* Type correctness *)

LEMMA InitType == Init => TypeOK
BY DEF Init, TypeOK, Rows, NoRow, Free, Supervisor!Init

LEMMA NextType ==
  ASSUME TypeOK, [Next]_vars,
         \A r \in Runs : at[r] = "reporting" => says[r] \in Outcomes
  PROVE  TypeOK'
<1>1. CASE UNCHANGED vars
  BY <1>1 DEF vars, writes, dispatcher, worker, TypeOK
<1>2. ASSUME NEW i \in Intents, NEW r \in Runs, Admit(i, r) PROVE TypeOK'
  <2>1. [NoRow EXCEPT !.state = "running"] \in Rows
    BY DEF NoRow, Rows
  <2>2. row' \in [Runs -> Rows] /\ for' \in [Runs -> Intents \cup {None}]
    BY <1>2, <2>1 DEF Admit, TypeOK
  <2> QED
    BY <1>2, <2>2 DEF Admit, TypeOK, writes, dispatcher, worker
<1>3. CASE DispatcherRestart
  BY <1>3 DEF DispatcherRestart, TypeOK, writes, dispatcher, worker
<1>4. ASSUME NEW r \in Runs, ClaimRejected(r) \/ Report(r) PROVE TypeOK'
  <2>1. \A o \in Outcomes : Finished(r, o, verdict[r]) \in Rows
    BY FinishedFacts DEF TypeOK
  <2>2. CASE ClaimRejected(r)
    BY <2>1, <2>2, StoppedType DEF ClaimRejected, FinishRun, TypeOK, Outcomes, writes, worker
  <2>3. CASE Report(r)
    BY <2>1, <2>3, StoppedType DEF Report, FinishRun, TypeOK, writes, worker
  <2> QED BY <1>4, <2>2, <2>3
<1>5. ASSUME NEW r \in Runs, Start(r) \/ Started(r) \/ SaveOutput(r) \/ Succeed(r) \/ Fail(r)
      PROVE  TypeOK'
  <2>1. CASE SaveOutput(r)
    <3>1. row' \in [Runs -> Rows]
      BY <2>1, RowTypes, RowUpdate DEF SaveOutput
    <3> QED
      BY <2>1, <3>1 DEF SaveOutput, TypeOK, writes, worker
  <2>2. CASE Start(r) \/ Started(r) \/ Succeed(r)
    <3>1. UNCHANGED <<task, web, row, for, verdict, writes, worker>>
      BY <2>2 DEF Start, Started, Succeed
    <3>2. /\ at' \in [Runs -> {"gone", "claimed", "starting", "watching", "saved", "reporting"}
                               \cup Kinds]
          /\ says' \in [Runs -> Outcomes \cup {"none"}] /\ put' \in [Runs -> BOOLEAN]
      BY <2>2 DEF Start, Started, Succeed, TypeOK, Outcomes
    <3> QED
      BY <3>1, <3>2 DEF TypeOK, writes, worker
  <2>3. CASE Fail(r)
    BY <2>3 DEF Fail, TypeOK, Outcomes, writes, worker
  <2> QED BY <1>5, <2>1, <2>2, <2>3
<1>6. ASSUME NEW r \in Runs, Review(r) PROVE TypeOK'
  <2>1. \A v : Finished(r, "success", v) \in Rows
    BY FinishedFacts DEF TypeOK, Outcomes
  <2> QED
    BY <1>6, <2>1, StoppedType DEF Review, TypeOK, writes, dispatcher, worker
<1>7. ASSUME NEW r \in Runs, NEW k \in Kinds, Write(r, k) \/ Written(r, k) PROVE TypeOK'
  BY <1>7, OpsOfPairs DEF Write, Written, TypeOK, writes, worker
<1>8. ASSUME NEW o \in Ops, Take(o) PROVE TypeOK'
  BY <1>8 DEF Take, TypeOK, Free, dispatcher, worker
<1>9. ASSUME NEW o \in Ops, Land(o) \/ ReadBack(o) \/ StopReads(o) PROVE TypeOK'
  BY <1>9 DEF Land, ReadBack, StopReads, TypeOK, Free, dispatcher, worker
<1>10. ASSUME NEW o \in Ops, WriteEnds(o) PROVE TypeOK'
  <2>1. row' \in [Runs -> Rows]
    <3>1. o[1] \in Runs
      BY PairsOfOps
    <3>2. row' = row \/ row' = [row EXCEPT ![o[1]] = [row[o[1]] EXCEPT !.result = "unknown"]]
      BY <1>10 DEF WriteEnds
    <3> QED BY <3>1, <3>2, RowTypes, RowUpdate DEF TypeOK
  <2>2. /\ op' \in [Ops -> {"none", "sent", "succeeded", "rejected", "unknown"}]
        /\ lock' \in [of : Ops, awaits : {"native", "snapshot", "reading"}]
                    \cup [of : {None}, awaits : {"nothing"}]
    BY <1>10 DEF WriteEnds, Answer, TypeOK, Free
  <2> QED
    BY <1>10, <2>1, <2>2, StoppedType DEF WriteEnds, TypeOK, dispatcher, worker
<1>11. ASSUME NEW o \in Ops, Snapshot(o) PROVE TypeOK'
  <2>1. o[1] \in Runs /\ Finished(o[1], "success", verdict[o[1]]) \in Rows
    BY FinishedFacts, PairsOfOps DEF TypeOK, Outcomes
  <2> QED
    BY <1>11, <2>1, StoppedType DEF Snapshot, TypeOK, Free, dispatcher, worker
<1>12. ASSUME NEW r \in Runs, Accept(r) \/ PutLost(r) PROVE TypeOK'
  BY <1>12 DEF Accept, PutLost, Supervisor!Accept, TypeOK, writes, dispatcher, worker
<1>13. ASSUME NEW r \in Runs, Cancelled(r) PROVE TypeOK'
  <2>1. row' \in [Runs -> Rows]
    <3> DEFINE new == [row[r] EXCEPT !.state = "exited",
                         !.result = IF @ = "pending" THEN "rejected" ELSE @,
                         !.outcome = IF @ = "none" THEN "cancelled" ELSE @]
    <3>1. new \in Rows
      BY RowTypes
    <3>2. row' = [row EXCEPT ![r] = new]
      BY <1>13 DEF Cancelled, TypeOK, Rows
    <3> HIDE DEF new
    <3> QED BY <3>1, <3>2, RowUpdate
  <2> QED
    BY <1>13, <2>1 DEF Cancelled, TypeOK, writes, dispatcher, worker
<1>14. CASE Work
  BY <1>14 DEF Work, Supervisor!Begin, Supervisor!End, Supervisor!Show, TypeOK, writes,
     dispatcher
<1>15. CASE Close \/ End \/ Restart
  BY <1>15 DEF Close, End, Restart, TypeOK, Free, writes, dispatcher, worker
<1> QED
  BY <1>1, <1>2, <1>3, <1>4, <1>5, <1>6, <1>7, <1>8, <1>9, <1>10, <1>11, <1>12, <1>13, <1>14,
     <1>15 DEF Next

-----------------------------------------------------------------------------
(* The journal of native writes *)

LEMMA InitWrites == ASSUME Init, NEW o \in Ops PROVE WriteInv(o)
BY DEF Init, WriteInv, Free

\* A write leaves the journal's "none" when it takes the lock, and is sent then.
LEMMA NextWrites ==
  ASSUME TypeOK, \A o \in Ops : WriteInv(o), [Next]_vars, NEW p \in Ops
  PROVE  WriteInv(p)'
<1>1. CASE UNCHANGED <<op, lock, native, sends>>
  BY <1>1 DEF WriteInv, Free
<1>2. ASSUME NEW o \in Ops, Take(o) PROVE WriteInv(p)'
  BY <1>2 DEF Take, IsNew, TypeOK, WriteInv, Free
<1>3. ASSUME NEW o \in Ops, Land(o) PROVE WriteInv(p)'
  BY <1>3 DEF Land, TypeOK, WriteInv, Free
<1>4. ASSUME NEW o \in Ops, WriteEnds(o) PROVE WriteInv(p)'
  BY <1>4 DEF WriteEnds, Answer, TypeOK, WriteInv, Free
<1>5. ASSUME NEW o \in Ops, Snapshot(o) \/ ReadBack(o) \/ StopReads(o) PROVE WriteInv(p)'
  BY <1>5 DEF Snapshot, ReadBack, StopReads, Found, TypeOK, WriteInv, Free
<1>6. CASE Restart
  BY <1>6 DEF Restart, WriteInv, Free
<1>7. CASE UNCHANGED vars \/ DispatcherRestart \/ Work \/ Close \/ End
  BY <1>1, <1>7 DEF vars, DispatcherRestart, Work, Close, End, writes
<1>8. ASSUME NEW i \in Intents, NEW r \in Runs, Admit(i, r) PROVE WriteInv(p)'
  BY <1>1, <1>8 DEF Admit, writes
<1>9. ASSUME NEW r \in Runs,
             \/ ClaimRejected(r) \/ Start(r) \/ Started(r) \/ SaveOutput(r) \/ Succeed(r)
             \/ Fail(r) \/ Report(r) \/ Review(r) \/ Accept(r) \/ PutLost(r) \/ Cancelled(r)
      PROVE  WriteInv(p)'
  BY <1>1, <1>9 DEF ClaimRejected, Start, Started, SaveOutput, Succeed, Fail, Report, Review,
     Accept, PutLost, Cancelled, writes
<1>10. ASSUME NEW r \in Runs, NEW k \in Kinds, Write(r, k) \/ Written(r, k) PROVE WriteInv(p)'
  BY <1>1, <1>10 DEF Write, Written, writes
<1> QED
  BY <1>2, <1>3, <1>4, <1>5, <1>6, <1>7, <1>8, <1>9, <1>10 DEF Next

-----------------------------------------------------------------------------
(* The rows and the processes *)

LEMMA InitRuns == ASSUME Init, NEW r \in Runs PROVE RunInv(r)
BY DEF Init, RunInv, Wanted, Busy, NoRow, Supervisor!Init

\* A run whose process has ended, and that was not admitted just now, is free to be
\* settled; others keep their state or are in doubt.
LEMMA SettledRun ==
  ASSUME NEW r \in Runs, TypeOK, RunInv(r), UNCHANGED <<work, shown, put>>,
         row' \in [Runs -> Rows],
         row'[r].output => row[r].output,
         row'[r].state = "none" => row[r].state = "none",
         row'[r].state \in Settled => row[r].state \in Settled \/ work[r] = "ended",
         at'[r] \in {at[r], "gone"},
         at'[r] = "reporting" => says'[r] = says[r]
  PROVE  RunInv(r)'
BY DEF RunInv, Wanted, Busy, Open, TypeOK, Settled

LEMMA NextRuns ==
  ASSUME TypeOK, \A q \in Runs : RunInv(q) /\ FlightInv(q), [Next]_vars, TypeOK',
         NEW s \in Runs
  PROVE  RunInv(s)'
<1>0. RunInv(s) /\ row' \in [Runs -> Rows] /\ row \in [Runs -> Rows]
  BY DEF TypeOK
<1>1. CASE UNCHANGED <<row, at, says, put, work, shown>>
  BY <1>0, <1>1 DEF RunInv, Wanted, Busy, Open
<1>2. ASSUME NEW i \in Intents, NEW r \in Runs, Admit(i, r) PROVE RunInv(s)'
  BY <1>0, <1>2 DEF Admit, RunInv, Wanted, Busy, Open, NoRow, TypeOK, Settled, worker
<1>3. CASE DispatcherRestart
  BY <1>0, <1>3 DEF DispatcherRestart, RunInv, Wanted, Busy, Open, worker
<1>4. ASSUME NEW r \in Runs, ClaimRejected(r) PROVE RunInv(s)'
  <2>1. /\ UNCHANGED <<says, put, work, shown>> /\ at' = [at EXCEPT ![r] = "gone"]
        /\ row' = row \/ row' = [row EXCEPT ![r] = Finished(r, "rejected", verdict[r])]
        /\ RunInv(r) /\ at[r] = "claimed"
    BY <1>4 DEF ClaimRejected, FinishRun, worker
  <2>2. at' \in [Runs -> {"gone", "claimed", "starting", "watching", "saved", "reporting"}
                         \cup Kinds] /\ at'[r] = "gone" /\ \A q \in Runs : q # r => at'[q] = at[q]
    BY <2>1 DEF TypeOK
  <2>3. row'[s] = row[s] \/ (s = r /\ row'[r] = Finished(r, "rejected", verdict[r]))
    BY <1>0, <2>1
  <2>4. row'[s].output = row[s].output
        /\ (row'[s].state = "none" => row[s].state = "none")
    BY <2>3, <1>0, FinishedFacts DEF Outcomes
  <2> QED BY <1>0, <2>1, <2>2, <2>3, <2>4 DEF RunInv, Wanted, Busy, Open, TypeOK
<1>5. ASSUME NEW r \in Runs, Report(r) PROVE RunInv(s)'
  <2>1. /\ UNCHANGED <<put, work, shown>>
        /\ row' = [row EXCEPT ![r] = Finished(r, says[r], verdict[r])]
        /\ \/ UNCHANGED <<at, says>>
           \/ at' = [at EXCEPT ![r] = "gone"] /\ says' = [says EXCEPT ![r] = "none"]
    BY <1>5 DEF Report, FinishRun, worker
  <2>2. at'[s] \in {at[s], "gone"} /\ (at'[s] = "reporting" => says'[s] = says[s])
    BY <2>1 DEF TypeOK
  <2>3. row'[s] = row[s] \/ (s = r /\ row'[r] = Finished(r, says[r], verdict[r]))
    BY <1>0, <2>1
  <2>4. says[r] \in Outcomes \ {"rejected"}
    BY <1>5 DEF Report, RunInv
  <2>5. /\ row'[s].output = row[s].output
        /\ row'[s].state = "none" => row[s].state = "none"
        /\ row'[s].state \in Settled => row[s].state \in Settled \/ row[s].output
    BY <2>3, <2>4, <1>0, FinishedFacts DEF Settled
  <2>6. row[s].output => work[s] = "ended"
    BY <1>0 DEF RunInv
  <2> QED BY <1>0, <2>1, <2>2, <2>5, <2>6, SettledRun
<1>6. ASSUME NEW r \in Runs, Start(r) \/ Started(r) \/ Succeed(r) \/ Fail(r) PROVE RunInv(s)'
  <2>1. CASE Start(r)
    BY <1>0, <2>1 DEF Start, RunInv, Wanted, Busy, Open, TypeOK, worker
  <2>2. CASE Started(r)
    BY <1>0, <2>2 DEF Started, RunInv, Wanted, Busy, Open, TypeOK, worker
  <2>3. CASE Succeed(r)
    BY <1>0, <2>3 DEF Succeed, RunInv, Wanted, Busy, Open, TypeOK, Outcomes, worker
  <2>4. CASE Fail(r)
    BY <1>0, <2>4, AgentRunsAssumption
    DEF Fail, Handled, RunInv, Wanted, Busy, Open, TypeOK, Outcomes, worker
  <2> QED BY <1>6, <2>1, <2>2, <2>3, <2>4
<1>7. ASSUME NEW r \in Runs, SaveOutput(r) PROVE RunInv(s)'
  <2>1. row'[s].state = row[s].state /\ (s # r => row'[s] = row[s])
    BY <1>0, <1>7 DEF SaveOutput
  <2> QED
    BY <1>0, <1>7, <2>1 DEF SaveOutput, SeenExited, RunInv, Wanted, Busy, Open, TypeOK, worker
<1>8. ASSUME NEW r \in Runs, NEW o \in Ops, o[1] = r, WriteEnds(o) \/ Snapshot(o) PROVE RunInv(s)'
  <2>1. UnderWay(o) /\ o[2] \in Kinds /\ o = <<r, o[2]>>
    BY <1>8, PairsOfOps DEF WriteEnds, Snapshot, UnderWay, Free
  <2>2. row[r].output /\ RunInv(r)
    BY <2>1 DEF FlightInv
  <2>3. work[r] = "ended"
    BY <2>2 DEF RunInv
  <2>4. UNCHANGED <<at, says, put, work, shown>>
    BY <1>8 DEF WriteEnds, Snapshot, dispatcher, worker
  <2>5. /\ row'[s].output => row[s].output
        /\ row'[s].state = "none" => row[s].state = "none"
        /\ row'[s].state \in Settled => row[s].state \in Settled \/ s = r
    <3>1. CASE row' = row
      BY <3>1
    <3>2. CASE row' = [row EXCEPT ![r] = Finished(r, "success", verdict[r])]
      BY <1>0, <2>2, <3>2, FinishedFacts DEF Outcomes
    <3>3. CASE row' = [row EXCEPT ![r].result = "unknown"]
      BY <1>0, <3>3 DEF Rows
    <3> QED BY <1>8, <3>1, <3>2, <3>3 DEF WriteEnds, Snapshot
  <2> QED BY <1>0, <2>3, <2>4, <2>5, SettledRun DEF TypeOK
<1>9. ASSUME NEW r \in Runs, Review(r) \/ Cancelled(r) PROVE RunInv(s)'
  <2>1. UNCHANGED <<at, says, put, work, shown>> /\ RunInv(r)
    BY <1>9 DEF Review, Cancelled, dispatcher, worker
  <2>2. work[r] = "ended"
    BY <1>9, <2>1 DEF Review, Cancelled, ProvesExit, RunInv
  <2> DEFINE Keeps == /\ row'[s].output => row[s].output
                      /\ row'[s].state = "none" => row[s].state = "none"
                      /\ row'[s].state \in Settled => row[s].state \in Settled \/ s = r
  <2>3. Keeps
    <3>1. ASSUME NEW v, row' = [row EXCEPT ![r] = Finished(r, "success", v)] PROVE Keeps
      BY <1>0, <3>1, FinishedFacts DEF Outcomes
    <3>2. CASE Cancelled(r)
      BY <1>0, <3>2 DEF Cancelled, Rows
    <3>3. Review(r) => row' = row \/ \E v : row' = [row EXCEPT ![r] = Finished(r, "success", v)]
      BY DEF Review
    <3> QED BY <1>9, <3>1, <3>2, <3>3
  <2> QED BY <1>0, <2>1, <2>2, <2>3, SettledRun DEF TypeOK
<1>10. ASSUME NEW r \in Runs, NEW k \in Kinds, Write(r, k) \/ Written(r, k) PROVE RunInv(s)'
  BY <1>0, <1>10, AgentRunsAssumption
  DEF Write, Written, RunInv, Wanted, Busy, Open, TypeOK, worker
<1>11. ASSUME NEW r \in Runs, Accept(r) \/ PutLost(r) PROVE RunInv(s)'
  BY <1>0, <1>11
  DEF Accept, PutLost, Supervisor!Accept, RunInv, Wanted, Busy, Open, TypeOK, dispatcher, worker
<1>12. CASE Work
  <2>1. UNCHANGED <<row, at, says, put>>
    BY <1>12 DEF Work, dispatcher
  <2>2. \/ work' = work /\ shown' \subseteq {q \in Runs : work[q] = "ended"}
        \/ \E q \in Runs : work[q] = "held" /\ work' = [work EXCEPT ![q] = "working"]
                          /\ shown' = shown
        \/ \E q \in Runs : /\ work[q] \in {"held", "working"}
                           /\ work' = [work EXCEPT ![q] = "ended"]
                           /\ shown' \subseteq shown \cup {q}
    BY <1>12 DEF Work, Supervisor!Begin, Supervisor!End, Supervisor!Show, TypeOK
  <2> QED BY <1>0, <2>1, <2>2 DEF RunInv, Wanted, Busy, Open, TypeOK
<1>13. CASE \/ UNCHANGED vars \/ Close \/ End \/ Restart
            \/ \E o \in Ops : Take(o) \/ Land(o) \/ ReadBack(o) \/ StopReads(o)
  BY <1>1, <1>13
  DEF vars, Close, End, Restart, Take, Land, ReadBack, StopReads, dispatcher, worker
<1> QED
  BY PairsOfOps, <1>2, <1>3, <1>4, <1>5, <1>6, <1>7, <1>8, <1>9, <1>10, <1>11, <1>12, <1>13
  DEF Next

-----------------------------------------------------------------------------
(* The writes under way *)

LEMMA InitFlight == ASSUME Init, NEW r \in Runs PROVE FlightInv(r) /\ SyncInv(r)
BY DEF Init, FlightInv, SyncInv, UnderWay, NoRow, Free

\* Names of kinds are no other place of the dispatcher.
LEMMA PlacesDiffer ==
  ASSUME NEW k \in Kinds
  PROVE  k \notin {"gone", "claimed", "starting", "watching", "saved", "reporting"}
BY AgentRunsAssumption

LEMMA NextFlight ==
  ASSUME TypeOK, \A q \in Runs : RunInv(q) /\ FlightInv(q), [Next]_vars, TypeOK',
         NEW s \in Runs
  PROVE  FlightInv(s)'
<1>0. FlightInv(s) /\ row' \in [Runs -> Rows] /\ row \in [Runs -> Rows]
  BY DEF TypeOK
<1>1. ASSUME UNCHANGED <<waiting, lock>>,
             at'[s] # "gone" => at'[s] = at[s] /\ says'[s] = says[s],
             row'[s].output = row[s].output
      PROVE  FlightInv(s)'
  BY <1>0, <1>1 DEF FlightInv, UnderWay, Free
\* A dispatcher that is not waiting for a write may go on.
<1>2. ASSUME UNCHANGED <<waiting, lock>>, row[s].output => row'[s].output,
             at[s] \in {"claimed", "starting", "watching", "saved"}
      PROVE  FlightInv(s)'
  BY <1>0, <1>2, PlacesDiffer DEF FlightInv, UnderWay, Free
<1>3. ASSUME NEW i \in Intents, NEW r \in Runs, Admit(i, r) PROVE FlightInv(s)'
  <2>1. UNCHANGED <<waiting, lock, says>> /\ row[r].state = "none"
        /\ \A q \in Runs : q # r => at'[q] = at[q] /\ row'[q] = row[q]
    BY <1>3, <1>0 DEF Admit, writes, TypeOK
  <2>2. \A k \in Kinds : ~UnderWay(<<r, k>>)
    BY <2>1 DEF RunInv, FlightInv
  <2> QED BY <1>0, <2>1, <2>2 DEF FlightInv, UnderWay, Free
<1>4. CASE DispatcherRestart
  BY <1>1, <1>4 DEF DispatcherRestart, writes
<1>5. ASSUME NEW r \in Runs, ClaimRejected(r) \/ Start(r) \/ Started(r) \/ Succeed(r)
      PROVE  FlightInv(s)'
  <2>1. /\ UNCHANGED <<waiting, lock>> /\ at[r] \in {"claimed", "starting", "saved"}
        /\ s # r => at'[s] = at[s] /\ says'[s] = says[s]
    BY <1>5 DEF ClaimRejected, Start, Started, Succeed, writes, TypeOK
  <2>2. row'[s].output = row[s].output
    BY <1>5, <1>0, FinishedFacts
    DEF ClaimRejected, FinishRun, Start, Started, Succeed, Outcomes
  <2> QED BY <1>0, <1>2, <2>1, <2>2 DEF FlightInv, UnderWay, Free
<1>6. ASSUME NEW r \in Runs, Fail(r) PROVE FlightInv(s)'
  BY <1>0, <1>6 DEF Fail, FlightInv, UnderWay, Free, writes, TypeOK
<1>7. ASSUME NEW r \in Runs, SaveOutput(r) PROVE FlightInv(s)'
  <2>1. /\ UNCHANGED <<waiting, lock, says>> /\ at[r] = "watching"
        /\ s # r => at'[s] = at[s] /\ row'[s] = row[s]
    BY <1>7, <1>0 DEF SaveOutput, writes, TypeOK
  <2>2. row[s].output => row'[s].output
    BY <1>7, <1>0 DEF SaveOutput, Rows
  <2> QED BY <1>0, <1>2, <2>1, <2>2 DEF FlightInv, UnderWay, Free
<1>8. ASSUME NEW r \in Runs, NEW k \in Kinds, Write(r, k) PROVE FlightInv(s)'
  BY <1>0, <1>8, PlacesDiffer DEF Write, FlightInv, UnderWay, Free, TypeOK
<1>9. ASSUME NEW r \in Runs, NEW k \in Kinds, Written(r, k) PROVE FlightInv(s)'
  BY <1>0, <1>9, PlacesDiffer DEF Written, FlightInv, UnderWay, Free, TypeOK, writes
<1>10. ASSUME NEW r \in Runs, Report(r) \/ Review(r) \/ Cancelled(r) PROVE FlightInv(s)'
  <2>1. /\ UNCHANGED <<waiting, lock>>
        /\ at'[s] # "gone" => at'[s] = at[s] /\ says'[s] = says[s]
    BY <1>10 DEF Report, Review, Cancelled, writes, dispatcher, TypeOK
  <2>2. row'[s].output = row[s].output
    <3>1. CASE Report(r)
      BY <1>0, <3>1, FinishedFacts DEF Report, FinishRun, RunInv
    <3>2. CASE Review(r)
      BY <1>0, <3>2, FinishedFacts DEF Review, Outcomes
    <3>3. CASE Cancelled(r)
      BY <1>0, <3>3 DEF Cancelled, Rows
    <3> QED BY <1>10, <3>1, <3>2, <3>3
  <2> QED BY <1>1, <2>1, <2>2
<1>11. ASSUME NEW o \in Ops, Take(o) PROVE FlightInv(s)'
  BY <1>0, <1>11 DEF Take, FlightInv, UnderWay, Free, dispatcher
<1>12. ASSUME NEW o \in Ops, WriteEnds(o) \/ Snapshot(o) \/ ReadBack(o) PROVE FlightInv(s)'
  <2>1. /\ UNCHANGED <<waiting, at, says>> /\ lock.of = o /\ lock # Free
        /\ lock' \in {[of |-> o, awaits |-> "snapshot"], Free}
    BY <1>12 DEF WriteEnds, Snapshot, ReadBack, dispatcher, Free
  <2>2. row'[s].output = row[s].output
    <3>1. CASE row' = row
      BY <3>1
    <3>2. CASE row' = [row EXCEPT ![o[1]] = Finished(o[1], "success", verdict[o[1]])]
      BY <1>0, <3>2, PairsOfOps, FinishedFacts DEF Outcomes
    <3>3. CASE row' = [row EXCEPT ![o[1]].result = "unknown"]
      BY <1>0, <3>3, PairsOfOps DEF Rows
    <3> QED BY <1>12, <3>1, <3>2, <3>3 DEF WriteEnds, Snapshot, ReadBack
  <2> QED BY <1>0, <2>1, <2>2 DEF FlightInv, UnderWay, Free
<1>13. CASE Restart
  BY <1>13 DEF Restart, FlightInv, UnderWay, Free
<1>14. CASE \/ UNCHANGED vars \/ Work \/ Close \/ End
            \/ \E r \in Runs : Accept(r) \/ PutLost(r)
            \/ \E o \in Ops : Land(o) \/ StopReads(o)
  BY <1>1, <1>14
  DEF vars, Work, Close, End, Accept, PutLost, Land, StopReads, writes, dispatcher
<1> QED
  BY <1>3, <1>4, <1>5, <1>6, <1>7, <1>8, <1>9, <1>10, <1>11, <1>12, <1>13, <1>14 DEF Next

LEMMA NextSync ==
  ASSUME TypeOK, \A o \in Ops : WriteInv(o),
         \A q \in Runs : RunInv(q) /\ FlightInv(q) /\ SyncInv(q), [Next]_vars, TypeOK',
         NEW s \in Runs
  PROVE  SyncInv(s)'
<1>0. SyncInv(s) /\ row' \in [Runs -> Rows] /\ row \in [Runs -> Rows]
  BY DEF TypeOK
\* A step that asks for no write and opens none, and leaves the result alone.
<1>1. ASSUME Answered(s) => Answered(s)', task' = "running" => task = "running",
             row'[s].result = "synced" => row[s].result = "synced",
             row[s].output => row'[s].output,
             \/ at'[s] \in {at[s], "gone"}
             \/ at[s] \notin {"reporting", "gone"}
             \/ task' # "running"
      PROVE  SyncInv(s)'
  BY <1>0, <1>1 DEF SyncInv
<1>2. ASSUME UNCHANGED op, waiting' \subseteq waiting PROVE Answered(s) => Answered(s)'
  BY <1>2 DEF Answered, Pending
\* A new result.
<1>3. ASSUME row'[s].output = row[s].output, task' = "running" => task = "running",
             row'[s].result = "synced" =>
               row[s].result = "synced"
               \/ (row[s].output /\ Answered(s)'
                   /\ (task' = "running" => at'[s] \in {"reporting", "gone"})),
             Answered(s) => Answered(s)', at'[s] \in {at[s], "gone"}
      PROVE  SyncInv(s)'
  BY <1>0, <1>3 DEF SyncInv
<1>4. ASSUME UNCHANGED <<row, task, op>>, waiting' \subseteq waiting, at'[s] \in {at[s], "gone"}
      PROVE  SyncInv(s)'
  BY <1>1, <1>2, <1>4
<1>5. ASSUME NEW i \in Intents, NEW r \in Runs, Admit(i, r) PROVE SyncInv(s)'
  <2>1. UNCHANGED <<task, op, waiting>> /\ (s # r => at'[s] = at[s] /\ row'[s] = row[s])
    BY <1>5, <1>0 DEF Admit, writes, TypeOK
  <2>2. s = r => row'[s].result = "pending"
    BY <1>5, <1>0 DEF Admit, NoRow
  <2>3. CASE s = r
    BY <2>2, <2>3 DEF SyncInv
  <2>4. CASE s # r
    BY <1>1, <1>2, <2>1, <2>4
  <2> QED BY <2>3, <2>4
<1>6. CASE DispatcherRestart
  BY <1>4, <1>6 DEF DispatcherRestart, writes
<1>7. ASSUME NEW r \in Runs, ClaimRejected(r) PROVE SyncInv(s)'
  <2>1. UNCHANGED <<op, waiting>> /\ at'[s] \in {at[s], "gone"}
        /\ (task' = "running" => task = "running")
    BY <1>7 DEF ClaimRejected, FinishRun, Stopped, writes, TypeOK
  <2>2. /\ row'[s].output = row[s].output
        /\ row'[s].result = "synced" => row[s].result = "synced"
    BY <1>7, <1>0, FinishedFacts DEF ClaimRejected, FinishRun, Outcomes
  <2> QED BY <1>1, <1>2, <2>1, <2>2
<1>8. ASSUME NEW r \in Runs, Start(r) \/ Started(r) \/ Succeed(r) \/ Fail(r) PROVE SyncInv(s)'
  <2>1. UNCHANGED <<task, op, waiting, row>>
        /\ (at'[s] = at[s] \/ at[s] \notin {"reporting", "gone"})
    BY <1>8, PlacesDiffer DEF Start, Started, Succeed, Fail, Handled, writes, TypeOK
  <2> QED BY <1>1, <1>2, <2>1
<1>9. ASSUME NEW r \in Runs, SaveOutput(r) PROVE SyncInv(s)'
  <2>1. UNCHANGED <<task, op, waiting>>
        /\ (at'[s] = at[s] \/ at[s] \notin {"reporting", "gone"})
    BY <1>9 DEF SaveOutput, writes, TypeOK
  <2>2. row'[s].result = row[s].result /\ (row[s].output => row'[s].output)
    BY <1>9, <1>0 DEF SaveOutput, Rows
  <2> QED BY <1>1, <1>2, <2>1, <2>2
<1>10. ASSUME NEW r \in Runs, NEW k \in Kinds, Write(r, k) PROVE SyncInv(s)'
  <2>1. UNCHANGED <<task, op, row>> /\ waiting' = waiting \cup {<<r, k>>}
        /\ (at'[s] = at[s] \/ s = r) /\ at[r] \notin {"reporting", "gone"}
        /\ (op[<<r, k>>] # "none" \/ task = "running")
    BY <1>10, PlacesDiffer DEF Write, TypeOK
  <2>2. CASE s # r \/ op[<<r, k>>] # "none"
    <3>1. Answered(s) => Answered(s)'
      BY <2>1, <2>2 DEF Answered, Pending
    <3> QED BY <1>1, <2>1, <3>1
  <2>3. CASE s = r /\ task = "running"
    BY <1>0, <2>1, <2>3 DEF SyncInv
  <2> QED BY <2>1, <2>2, <2>3
<1>11. ASSUME NEW r \in Runs, NEW k \in Kinds, Written(r, k) PROVE SyncInv(s)'
  <2>1. UNCHANGED <<task, op, waiting, row>>
        /\ (at'[s] = at[s] \/ at[s] \notin {"reporting", "gone"})
    BY <1>11, PlacesDiffer DEF Written, writes, TypeOK
  <2> QED BY <1>1, <1>2, <2>1
<1>12. ASSUME NEW r \in Runs, Report(r) PROVE SyncInv(s)'
  <2>1. UNCHANGED <<op, waiting>> /\ at'[s] \in {at[s], "gone"}
        /\ (task' = "running" => task = "running")
        /\ at[r] = "reporting" /\ says[r] \in Outcomes
        /\ row' = [row EXCEPT ![r] = Finished(r, says[r], verdict[r])]
    BY <1>12 DEF Report, FinishRun, Stopped, writes, TypeOK, RunInv
  <2>2. says[r] = "success" => \A k \in Kinds : <<r, k>> \notin waiting
    BY <2>1, PlacesDiffer DEF FlightInv, UnderWay
  <2>3. /\ row'[s].output = row[s].output
        /\ row'[s].result = "synced" => row[s].result = "synced"
             \/ (s = r /\ row[s].output /\ ~Pending(r) /\ says[r] = "success")
    BY <2>1, <1>0, FinishedFacts
  <2>4. ~Pending(r) /\ says[r] = "success" => Answered(r)
    BY <2>2 DEF Answered
  <2> QED BY <1>2, <1>3, <2>1, <2>3, <2>4
<1>13. ASSUME NEW r \in Runs, Review(r) PROVE SyncInv(s)'
  <2>1. UNCHANGED <<op, waiting, at>> /\ at[r] = "saved" /\ task = "running"
        /\ (row' = row \/ task' # "running")
    BY <1>13 DEF Review, Stopped, writes, dispatcher
  <2>2. Answered(r) \/ Pending(r)
    BY <2>1, PlacesDiffer DEF FlightInv, UnderWay, Answered
  <2>3. /\ row'[s].output = row[s].output
        /\ row'[s].result = "synced" => row[s].result = "synced"
             \/ (s = r /\ row[s].output /\ ~Pending(r) /\ row' # row)
    BY <1>13, <1>0, FinishedFacts DEF Review, Outcomes
  <2> QED BY <1>2, <1>3, <2>1, <2>2, <2>3
<1>14. ASSUME NEW o \in Ops, Take(o) PROVE SyncInv(s)'
  <2>1. UNCHANGED <<task, row, at>> /\ waiting' \subseteq waiting /\ o \in waiting
        /\ (op' # op => op[o] = "none" /\ op' = [op EXCEPT ![o] = "sent"])
    BY <1>14 DEF Take, IsNew, dispatcher
  <2>2. Answered(s) => Answered(s)'
    BY <2>1, PairsOfOps, OpsOfPairs DEF Answered, Pending, TypeOK
  <2> QED BY <1>1, <2>1, <2>2
<1>15. ASSUME NEW o \in Ops, WriteEnds(o) \/ ReadBack(o) \/ StopReads(o) PROVE SyncInv(s)'
  <2>1. UNCHANGED <<waiting, at>> /\ (task' = "running" => task = "running")
        /\ (op' = op \/ \E v : v # "none" /\ op' = [op EXCEPT ![o] = v])
    BY <1>15 DEF WriteEnds, ReadBack, StopReads, Answer, Stopped, dispatcher
  <2>2. /\ row'[s].output = row[s].output
        /\ row'[s].result = "synced" => row[s].result = "synced"
    BY <1>15, <1>0, PairsOfOps DEF WriteEnds, ReadBack, StopReads, Rows
  <2>3. row'[s].result = "synced" /\ Answered(s) => Answered(s)'
    <3>1. op' = op \/ op'[o] \in {"succeeded", "rejected"} \/ row'[o[1]].result = "unknown"
      BY <1>15, <1>0, PairsOfOps DEF WriteEnds, ReadBack, StopReads, Answer, TypeOK, Rows
    <3> QED BY <2>1, <3>1, PairsOfOps, OpsOfPairs DEF Answered, Pending, TypeOK
  <2> QED BY <1>0, <2>1, <2>2, <2>3 DEF SyncInv
<1>16. ASSUME NEW o \in Ops, Snapshot(o) PROVE SyncInv(s)'
  <2>1. UNCHANGED <<op, waiting, at>> /\ UnderWay(o) /\ op[o] # "none"
        /\ (row' = row \/ task' # "running") /\ (task' = "running" => task = "running")
    BY <1>16 DEF Snapshot, Stopped, UnderWay, WriteInv, Free, dispatcher
  <2>2. \A k \in Kinds : op[<<o[1], k>>] = "none" => <<o[1], k>> \notin waiting
    BY <2>1, PairsOfOps DEF FlightInv, UnderWay
  <2>3. /\ row'[s].output = row[s].output
        /\ row'[s].result = "synced" => row[s].result = "synced"
             \/ (s = o[1] /\ row[s].output /\ ~Pending(s) /\ row' # row)
    BY <1>16, <1>0, PairsOfOps, FinishedFacts DEF Snapshot, Outcomes
  <2>4. s = o[1] /\ ~Pending(s) => Answered(s)
    BY <2>2 DEF Answered
  <2> QED BY <1>2, <1>3, <2>1, <2>3, <2>4
<1>17. ASSUME NEW r \in Runs, Cancelled(r) PROVE SyncInv(s)'
  <2>1. UNCHANGED <<op, waiting, at, task>>
    BY <1>17 DEF Cancelled, writes, dispatcher
  <2>2. /\ row'[s].output = row[s].output
        /\ row'[s].result = "synced" => row[s].result = "synced"
    BY <1>17, <1>0 DEF Cancelled, Rows
  <2> QED BY <1>1, <1>2, <2>1, <2>2
<1>18. CASE Close \/ End
  BY <1>1, <1>2, <1>18 DEF Close, End, writes, dispatcher
<1>19. CASE \/ UNCHANGED vars \/ Work \/ Restart
            \/ \E r \in Runs : Accept(r) \/ PutLost(r)
            \/ \E o \in Ops : Land(o)
  BY <1>4, <1>19 DEF vars, Work, Restart, Accept, PutLost, Land, writes, dispatcher
<1> QED
  BY <1>5, <1>6, <1>7, <1>8, <1>9, <1>10, <1>11, <1>12, <1>13, <1>14, <1>15, <1>16, <1>17,
     <1>18, <1>19 DEF Next

-----------------------------------------------------------------------------
(* Admissions and the end *)

LEMMA InitTask == Init => TaskInv
BY DEF Init, TaskInv

\* Only an admission makes a run wanted that was not.
LEMMA NothingElseAdmits ==
  ASSUME TypeOK, [Next]_vars, ~\E i \in Intents, r \in Runs : Admit(i, r), NEW s \in Runs
  PROVE  Wanted(s)' => Wanted(s)
<1>1. CASE UNCHANGED vars \/ Close \/ End \/ Restart \/ DispatcherRestart
  BY <1>1 DEF vars, Close, End, Restart, DispatcherRestart, Wanted, Busy, dispatcher, worker
<1>2. ASSUME NEW r \in Runs, \/ ClaimRejected(r) \/ Start(r) \/ Started(r) \/ SaveOutput(r)
                             \/ Succeed(r) \/ Fail(r) \/ Report(r)
      PROVE  Wanted(s)' => Wanted(s)
  <2>1. UNCHANGED work
    BY <1>2 DEF ClaimRejected, Start, Started, SaveOutput, Succeed, Fail, Report, worker
  <2>2. /\ at'[s] = "claimed" => at[s] = "claimed"
        /\ put'[s] => put[s] \/ at[s] = "claimed"
    BY <1>2 DEF ClaimRejected, Start, Started, SaveOutput, Succeed, Fail, Report, TypeOK
  <2> QED BY <2>1, <2>2 DEF Wanted, Busy
<1>3. ASSUME NEW r \in Runs, Review(r) \/ Cancelled(r) PROVE Wanted(s)' => Wanted(s)
  BY <1>3 DEF Review, Cancelled, Wanted, Busy, dispatcher, worker
<1>4. ASSUME NEW r \in Runs, NEW k \in Kinds, Write(r, k) \/ Written(r, k)
      PROVE  Wanted(s)' => Wanted(s)
  BY <1>4, PlacesDiffer DEF Write, Written, Wanted, Busy, TypeOK, worker
<1>5. ASSUME NEW o \in Ops, \/ Take(o) \/ Land(o) \/ WriteEnds(o) \/ Snapshot(o) \/ ReadBack(o)
                            \/ StopReads(o)
      PROVE  Wanted(s)' => Wanted(s)
  BY <1>5 DEF Take, Land, WriteEnds, Snapshot, ReadBack, StopReads, Wanted, Busy, dispatcher,
     worker
<1>6. ASSUME NEW r \in Runs, Accept(r) \/ PutLost(r) PROVE Wanted(s)' => Wanted(s)
  BY <1>6 DEF Accept, PutLost, Supervisor!Accept, Wanted, Busy, TypeOK, dispatcher, worker
<1>7. CASE Work
  <2>1. UNCHANGED <<at, put>>
    BY <1>7 DEF Work, dispatcher
  <2>2. work'[s] \in {"held", "working"} => work[s] \in {"held", "working"}
    BY <1>7 DEF Work, Supervisor!Begin, Supervisor!End, Supervisor!Show, TypeOK
  <2> QED BY <2>1, <2>2 DEF Wanted, Busy
<1> QED
  BY <1>1, <1>2, <1>3, <1>4, <1>5, <1>6, <1>7 DEF Next

\* A step that neither admits a run, nor ends the task, nor reviews.
OtherStep == /\ ~\E i \in Intents, r \in Runs : Admit(i, r)
             /\ ~End /\ ~\E r \in Runs : Review(r)

\* Nothing reopens a task or moves a run to another intent.
LEMMA NothingReopens ==
  ASSUME TypeOK, [Next]_vars, OtherStep
  PROVE  /\ UNCHANGED <<for, verdict>>
         /\ task' \in {task, "closing"} /\ (task # "running" => task' = task)
<1> DEFINE Goal == /\ UNCHANGED <<for, verdict>>
                   /\ task' \in {task, "closing"} /\ (task # "running" => task' = task)
<1>1. CASE UNCHANGED vars \/ Close \/ Restart \/ DispatcherRestart \/ Work
  BY <1>1 DEF vars, Close, Restart, DispatcherRestart, Work
<1>2. ASSUME NEW r \in Runs, \/ ClaimRejected(r) \/ Start(r) \/ Started(r) \/ SaveOutput(r)
                             \/ Succeed(r) \/ Fail(r) \/ Report(r) \/ Cancelled(r)
                             \/ Accept(r) \/ PutLost(r)
      PROVE  Goal
  BY <1>2 DEF ClaimRejected, Start, Started, SaveOutput, Succeed, Fail, Report, FinishRun,
     Stopped, Cancelled, Accept, PutLost
<1>3. ASSUME NEW r \in Runs, NEW k \in Kinds, Write(r, k) \/ Written(r, k) PROVE Goal
  BY <1>3 DEF Write, Written
<1>4. ASSUME NEW o \in Ops, \/ Take(o) \/ Land(o) \/ WriteEnds(o) \/ Snapshot(o) \/ ReadBack(o)
                            \/ StopReads(o)
      PROVE  Goal
  BY <1>4 DEF Take, Land, WriteEnds, Snapshot, ReadBack, StopReads, Stopped
<1> QED
  BY <1>1, <1>2, <1>3, <1>4 DEF Next, OtherStep

\* A run whose process may still come to be is one that admission and review count,
\* and that the end of the task waits for.
LEMMA WantedIsActive ==
  ASSUME NEW r \in Runs, RunInv(r), Wanted(r)
  PROVE  r \in Open /\ r \in Active
BY DEF RunInv, Open, Active

LEMMA NextTask ==
  ASSUME TypeOK, \A r \in Runs : RunInv(r), TaskInv, [Next]_vars
  PROVE  TaskInv'
<1>1. ASSUME NEW i \in Intents, NEW r \in Runs, Admit(i, r) PROVE TaskInv'
  <2>1. /\ UNCHANGED <<task, verdict, put, work>> /\ task = "running"
        /\ \A q \in Runs : q # r => for'[q] = for[q] /\ at'[q] = at[q]
        /\ for'[r] = i
    BY <1>1 DEF Admit, Admissible, TypeOK, worker
  <2>2. \A q \in Runs : Wanted(q) => for[q] # i
    BY <1>1, WantedIsActive DEF Admit, Admissible
  <2>3. \A q \in Runs : q # r => (Wanted(q)' <=> Wanted(q))
    BY <2>1 DEF Wanted, Busy
  <2> QED BY <2>1, <2>2, <2>3 DEF TaskInv
<1>2. ASSUME NEW r \in Runs, Review(r) PROVE TaskInv'
  <2>1. /\ task = "running" /\ UNCHANGED <<for, at, put, work>>
        /\ \A q \in Runs : q # r => verdict'[q] = verdict[q]
    BY <1>2 DEF Review, dispatcher, worker, TypeOK
  <2>2. CASE verdict'[r] = "stop_with_results"
    <3>1. task' = "closing" /\ row[r].output /\ Active \ {r} = {}
      BY <1>2, <2>2 DEF Review, OthersActive, Stopped, TypeOK
    <3>2. ~Wanted(r)
      BY <3>1 DEF RunInv, Wanted, Busy
    <3>3. \A q \in Runs : ~Wanted(q)
      BY <3>1, <3>2, WantedIsActive
    <3> QED BY <2>1, <3>1, <3>3 DEF TaskInv, Wanted, Busy
  <2>3. CASE verdict'[r] # "stop_with_results"
    <3>1. task' = "running"
      BY <1>2, <2>1, <2>3 DEF Review, TypeOK
    <3> QED BY <2>1, <2>3, <3>1 DEF TaskInv, Wanted, Busy
  <2> QED BY <2>2, <2>3
<1>3. CASE End
  <2>1. \A q \in Runs : ~Wanted(q)
    BY <1>3, WantedIsActive DEF End
  <2> QED BY <1>3, <2>1 DEF End, TaskInv, Wanted, Busy, dispatcher, worker
<1>4. CASE OtherStep
  <2>1. \A q \in Runs : Wanted(q)' => Wanted(q)
    BY <1>4, NothingElseAdmits DEF OtherStep
  <2>2. /\ UNCHANGED <<for, verdict>>
        /\ task' \in {task, "closing"} /\ (task # "running" => task' = task)
    BY <1>4, NothingReopens
  <2> QED BY <2>1, <2>2 DEF TaskInv
<1> QED BY <1>1, <1>2, <1>3, <1>4 DEF OtherStep

-----------------------------------------------------------------------------
(* Theorems *)

LEMMA AlwaysAgent == Spec => []AgentInv
<1>1. Init => AgentInv
  BY InitType, InitWrites, InitRuns, InitFlight, InitTask DEF AgentInv
<1>2. AgentInv /\ [Next]_vars => AgentInv'
  <2> SUFFICES ASSUME AgentInv, [Next]_vars PROVE AgentInv'
    OBVIOUS
  <2>1. /\ TypeOK /\ TaskInv /\ \A o \in Ops : WriteInv(o)
        /\ \A r \in Runs : RunInv(r) /\ FlightInv(r) /\ SyncInv(r)
    BY DEF AgentInv
  <2>2. TypeOK'
    BY <2>1, NextType DEF RunInv
  <2>3. \A o \in Ops : WriteInv(o)'
    BY <2>1, NextWrites
  <2>4. \A r \in Runs : RunInv(r)' /\ FlightInv(r)' /\ SyncInv(r)'
    BY <2>1, <2>2, NextRuns, NextFlight, NextSync
  <2>5. TaskInv'
    BY <2>1, NextTask
  <2> QED BY <2>2, <2>3, <2>4, <2>5 DEF AgentInv, Ops
<1> QED BY <1>1, <1>2, PTL DEF Spec

\* Every variable keeps its type, whichever process restarts between two steps, and
\* whatever is lost: a row of agent_runs is always one that finish_run, stop() or an
\* admission writes (core.py).
THEOREM AgentRunsTypeCorrect == Spec => []TypeOK
BY AlwaysAgent, PTL DEF AgentInv

\* The processes of two runs are never at work on one intent at a time: an admission
\* counts every run whose process may still come to be, even when the reply to the
\* PUT, the dispatcher or execution-control is lost (core.py, cairn_dispatcher.py).
THEOREM OneProcessPerIntentHolds == Spec => []OneProcessPerIntent
<1>1. AgentInv => OneProcessPerIntent
  BY DEF AgentInv, TaskInv, OneProcessPerIntent, Wanted
<1> QED BY <1>1, AlwaysAgent, PTL

\* A native write is on record before it is sent and is never sent from a record, so
\* it is sent at most once, and its record, once settled, is what the Cairn server
\* did (core_action and reconcile_native, core.py).
THEOREM NativeWritesAreTrue == Spec => []WritesAreTrue
<1>1. AgentInv => WritesAreTrue
  BY DEF AgentInv, WriteInv, WritesAreTrue
<1> QED BY <1>1, AlwaysAgent, PTL

\* A run is settled as synced, by its report or by its completion, only with its
\* output saved, its process ended and each of its writes answered (finish_run,
\* core.py); no write is asked for afterwards.
THEOREM SyncedResultsAreComplete == Spec => []SyncedIsComplete
<1>1. AgentInv => SyncedIsComplete
  BY DEF AgentInv, RunInv, SyncInv, Answered, SyncedIsComplete
<1> QED BY <1>1, AlwaysAgent, PTL

\* A review that stops a web assessment with its results finds no other run at work,
\* and none is admitted or started after it (core_action, complete, core.py).
THEOREM ReviewedRunIsLast == Spec => []ReviewedIsLast
<1>1. AgentInv => ReviewedIsLast
  BY DEF AgentInv, TaskInv, ReviewedIsLast, Wanted
<1> QED BY <1>1, AlwaysAgent, PTL

\* stop() ends a task only when every run is settled by a proof of its exit, and no
\* process is at work then or comes to be later, from a PUT on its way (core.py).
THEOREM EndedTaskIsQuiet == Spec => []EndedIsQuiet
<1>1. AgentInv => EndedIsQuiet
  BY DEF AgentInv, TaskInv, EndedIsQuiet, Wanted
<1> QED BY <1>1, AlwaysAgent, PTL
=============================================================================
