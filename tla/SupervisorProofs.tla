-------------------------- MODULE SupervisorProofs --------------------------
(***************************************************************************)
(* What holds of Supervisor for any number of ids, restarts and waiting    *)
(* launches, whether files fail or not: types, the record that precedes    *)
(* every child, and that it is a Worker.                                   *)
(***************************************************************************)
EXTENDS Supervisor, SequenceTheorems, TLAPS

\* The save that is written is the first of its chain, and the rest remains.
LEMMA WrittenIsHead ==
  ASSUME NEW S, NEW chain \in Seq(S), NEW i \in WrittenNext(chain)
  PROVE  /\ i = 1 /\ 1 \in DOMAIN chain /\ chain[1] \in S
         /\ Without(chain, i) = Tail(chain)
         /\ Tail(chain) \in Seq(S)
         /\ \A k \in DOMAIN Tail(chain) : k + 1 \in DOMAIN chain /\ k + 1 # 1
                                          /\ Tail(chain)[k] = chain[k + 1]
<1>1. i = 1 /\ 1 \in DOMAIN chain /\ chain # <<>>
  BY DEF WrittenNext
<1>2. SubSeq(chain, 1, 0) = <<>>
  BY SubSeqEmpty
<1>3. Tail(chain) = SubSeq(chain, 2, Len(chain))
  BY <1>1, TailIsSubSeq
<1>4. Tail(chain) \in Seq(S) /\ chain[1] \in S
  BY <1>1
<1>5. Without(chain, i) = <<>> \o Tail(chain)
  BY <1>1, <1>2, <1>3 DEF Without
<1>6. <<>> \o Tail(chain) = Tail(chain)
  BY <1>4, ConcatEmptySeq
<1>7. \A k \in DOMAIN Tail(chain) : k + 1 \in DOMAIN chain /\ k + 1 # 1
                                    /\ Tail(chain)[k] = chain[k + 1]
  BY <1>1
<1> QED
  BY <1>1, <1>4, <1>5, <1>6, <1>7

-----------------------------------------------------------------------------
(* The inductive invariant *)

\* The launch waits for one save of a chain at most.
Awaited == {"launch", "spawned", "failed"}

OneAwaited(chain) ==
  \A i, k \in DOMAIN chain : chain[i].for \in Awaited /\ chain[k].for \in Awaited => i = k

\* A save is of an id with a directory, the launch waits for it where it is, and
\* what will be written is true.
Chain(id) ==
  /\ \A i \in DOMAIN saves[id] :
       /\ disk[id] # NoRecord
       /\ saves[id][i].for = "launch" => LaunchAt(id, "save")
       /\ saves[id][i].for \in {"spawned", "failed"} => LaunchAt(id, "started")
       /\ saves[id][i].copy.state = "exited" => proc[id] = "ended"
  /\ OneAwaited(saves[id])

\* The directory is there before the entry, the entry before the child, and the
\* record on disk before the process, which no launch meets.
Claim(id) ==
  /\ Known(id) => disk[id] # NoRecord
  /\ id \in child \cup reading => Known(id) /\ proc[id] # "none"
  /\ proc[id] # "none" => disk[id] # NoRecord
  /\ proc[id] \in {"alive", "failed"} => OnDisk(id)
  /\ LaunchAt(id, "save") \/ LaunchAt(id, "files") =>
       proc[id] = "none" /\ disk[id] # NoRecord
  /\ LaunchAt(id, "files") => OnDisk(id)

\* Wherever an id is shown as exited, its process has ended.
Truth(id) ==
  rec[id].state = "exited" \/ disk[id].state = "exited" \/ id \in reading =>
    proc[id] = "ended"

\* While the supervisor is down nothing is under way or will be again.
Down ==
  up = "down" =>
    /\ launch = NoLaunch /\ child = {} /\ reading = {}
    /\ \A id \in Ids : rec[id] = NoRecord /\ saves[id] = <<>>
                       /\ (disk[id] = NoRecord \/ proc[id] = "ended")

EachId == \A id \in Ids : Chain(id) /\ Claim(id) /\ Truth(id)

SupInv == TypeOK /\ EachId /\ Down

-----------------------------------------------------------------------------
(* Types *)

LEMMA InitTypes == Init => TypeOK
<1> SUFFICES ASSUME Init PROVE TypeOK
  OBVIOUS
<1>1. queue \in Seq(Ids) /\ Len(queue) <= MaxQueue /\ restarts \in 0..MaxRestarts
  BY SupervisorAssumption DEF Init
<1>2. saves \in [Ids -> Seq(Saves)]
  BY DEF Init
<1> QED
  BY <1>1, <1>2 DEF Init, TypeOK

\* What a new save, and the end of one, leave of the chains of saves.
LEMMA SaveTypes ==
  ASSUME TypeOK, NEW id \in Ids, NEW r \in Records, NEW w \in Waiters
  PROVE  Save(id, r, w) => saves' \in [Ids -> Seq(Saves)]
<1>1. saves \in [Ids -> Seq(Saves)] /\ [copy |-> r, for |-> w] \in Saves
  BY DEF TypeOK, Saves
<1>2. Append(saves[id], [copy |-> r, for |-> w]) \in Seq(Saves)
  BY <1>1
<1> QED
  BY <1>1, <1>2 DEF Save

LEMMA WrittenTypes ==
  ASSUME TypeOK, NEW id \in Ids, NEW i \in WrittenNext(saves[id])
  PROVE  /\ saves[id][i] \in Saves
         /\ Without(saves[id], i) \in Seq(Saves)
         /\ [saves EXCEPT ![id] = Without(@, i)] \in [Ids -> Seq(Saves)]
<1>1. saves \in [Ids -> Seq(Saves)]
  BY DEF TypeOK
<1>2. saves[id][i] \in Saves /\ Without(saves[id], i) \in Seq(Saves)
  BY <1>1, WrittenIsHead
<1> QED
  BY <1>1, <1>2

\* The record of an id that is known, with a new state or with its result.
LEMMA RecordTypes ==
  ASSUME TypeOK, NEW id \in Ids
  PROVE  /\ Known(id) => rec[id] \in Records
         /\ \A s \in States : [rec[id] EXCEPT !.state = s] \in Records
<1>1. rec[id] \in Records \cup {NoRecord}
  BY DEF TypeOK
<1>2. ASSUME NEW s \in States PROVE [rec[id] EXCEPT !.state = s] \in Records
  BY <1>1 DEF Records, NoRecord, States
<1> QED
  BY <1>1, <1>2 DEF Known

\* Puts and the steps of launch().
LEMMA LaunchTypes == TypeOK /\ (Launch \/ \E id \in Ids : Put(id)) => TypeOK'
<1>1. ASSUME TypeOK, NEW id \in Ids, Put(id) PROVE TypeOK'
  <2>1. queue' \in Seq(Ids) /\ Len(queue') <= MaxQueue
    BY <1>1, SupervisorAssumption DEF TypeOK, Put
  <2> QED
    BY <1>1, <2>1 DEF TypeOK, Put, life, children
<1>2. ASSUME TypeOK, LaunchCheck PROVE TypeOK'
  <2>1. Head(queue) \in Ids /\ Tail(queue) \in Seq(Ids) /\ Len(Tail(queue)) <= MaxQueue
    BY <1>2, SupervisorAssumption DEF TypeOK, LaunchCheck
  <2> QED
    BY <1>2, <2>1 DEF TypeOK, LaunchCheck, life, children
<1>3. ASSUME TypeOK, NEW id \in Ids, LaunchMkdir(id) PROVE TypeOK'
  <2>1. [state |-> "registered", result |-> "none"] \in Records /\ "launch" \in Waiters
    BY DEF Records, States, Waiters
  <2>2. saves' \in [Ids -> Seq(Saves)]
    <3>1. CASE UNCHANGED saves
      BY <1>3, <3>1 DEF TypeOK
    <3>2. CASE Save(id, [state |-> "registered", result |-> "none"], "launch")
      BY <1>3, <2>1, <3>2, SaveTypes
    <3> QED
      BY <1>3, <3>1, <3>2 DEF LaunchMkdir
  <2>3. launch' \in [id : Ids, at : {"mkdir", "save", "files", "started"}] \cup {NoLaunch}
    BY <1>3 DEF LaunchMkdir, LaunchAt, AfterMkdir
  <2>4. rec' \in [Ids -> Records \cup {NoRecord}]
    BY <1>3, <2>1 DEF TypeOK, LaunchMkdir
  <2>5. disk' \in [Ids -> Records \cup {NoRecord, BareDir}]
    BY <1>3 DEF TypeOK, LaunchMkdir
  <2> QED
    BY <1>3, <2>2, <2>3, <2>4, <2>5 DEF TypeOK, LaunchMkdir, life, children
<1>4. ASSUME TypeOK, NEW id \in Ids, LaunchSpawn(id) \/ LaunchThrows(id) PROVE TypeOK'
  <2>1. [rec[id] EXCEPT !.state = "running"] \in Records
        /\ [rec[id] EXCEPT !.state = "unknown"] \in Records
    BY <1>4, RecordTypes DEF States
  <2>2. saves' \in [Ids -> Seq(Saves)]
    <3>1. CASE Save(id, [rec[id] EXCEPT !.state = "running"], "spawned")
      BY <1>4, <2>1, <3>1, SaveTypes DEF Waiters
    <3>2. CASE Save(id, [rec[id] EXCEPT !.state = "unknown"], "failed")
      BY <1>4, <2>1, <3>2, SaveTypes DEF Waiters
    <3> QED
      BY <1>4, <3>1, <3>2 DEF LaunchSpawn, LaunchThrows
  <2>3. launch' \in [id : Ids, at : {"mkdir", "save", "files", "started"}] \cup {NoLaunch}
    BY <1>4 DEF LaunchSpawn, LaunchThrows, LaunchAt
  <2>4. rec' \in [Ids -> Records \cup {NoRecord}]
    BY <1>4, <2>1 DEF TypeOK, LaunchSpawn, LaunchThrows
  <2> QED
    BY <1>4, <2>2, <2>3, <2>4 DEF TypeOK, LaunchSpawn, LaunchThrows, life, children
<1>5. ASSUME TypeOK, NEW id \in Ids, LaunchError(id) PROVE TypeOK'
  <2>1. /\ [rec[id] EXCEPT !.state = "running"] \in Records
        /\ [rec[id] EXCEPT !.state = "unknown"] \in Records
    BY <1>5, RecordTypes DEF States
  <2> DEFINE two == << [copy |-> [rec[id] EXCEPT !.state = "running"], for |-> "spawned"],
                       [copy |-> [rec[id] EXCEPT !.state = "unknown"], for |-> "nobody"] >>
  <2>2. two \in Seq(Saves)
    BY <2>1 DEF Saves, Waiters
  <2>3. saves[id] \o two \in Seq(Saves)
    BY <1>5, <2>2, ConcatProperties DEF TypeOK
  <2>4. saves' \in [Ids -> Seq(Saves)]
    BY <1>5, <2>3 DEF TypeOK, LaunchError
  <2>5. launch' \in [id : Ids, at : {"mkdir", "save", "files", "started"}] \cup {NoLaunch}
    BY <1>5 DEF LaunchError, LaunchAt
  <2>6. rec' \in [Ids -> Records \cup {NoRecord}]
    BY <1>5, <2>1 DEF TypeOK, LaunchError
  <2> QED
    BY <1>5, <2>4, <2>5, <2>6 DEF TypeOK, LaunchError, life
<1>6. ASSUME TypeOK, NEW id \in Ids, LaunchFails(id) PROVE TypeOK'
  BY <1>6 DEF TypeOK, LaunchFails, life, children
<1> QED
  BY <1>1, <1>2, <1>3, <1>4, <1>5, <1>6 DEF Launch

\* Cancels, timers, children and saves.
LEMMA ChildTypes ==
  ASSUME SupInv, NEW id \in Ids,
         \/ Cancel(id) \/ Timer(id) \/ DeadlinePasses(id) \/ ChildEnds(id)
         \/ Close(id) \/ CloseRead(id) \/ SaveDone(id) \/ SaveFails(id)
  PROVE  TypeOK'
<1>0. TypeOK /\ Chain(id) /\ Claim(id)
  BY DEF SupInv, EachId
<1>1. CASE Cancel(id) \/ Timer(id)
  <2>1. rec[id] \in Records
    BY <1>0, <1>1, RecordTypes DEF Cancel, Timer, Claim
  <2>2. CASE Save(id, rec[id], "cancel") \/ Save(id, rec[id], "kill")
    <3>1. saves' \in [Ids -> Seq(Saves)]
      BY <1>0, <2>1, <2>2, SaveTypes DEF Waiters
    <3> QED
      BY <1>0, <1>1, <3>1 DEF TypeOK, Cancel, Timer, life, children
  <2> QED
    BY <1>1, <2>2 DEF Cancel, Timer
<1>2. CASE DeadlinePasses(id) \/ ChildEnds(id)
  BY <1>0, <1>2 DEF TypeOK, DeadlinePasses, ChildEnds, life, children
<1>3. CASE Close(id)
  <2>1. [rec[id] EXCEPT !.state = "exited"] \in Records
    BY <1>0, RecordTypes DEF States
  <2>2. rec' \in [Ids -> Records \cup {NoRecord}]
    BY <1>0, <1>3, <2>1 DEF TypeOK, Close
  <2>3. proc' \in [Ids -> {"none", "alive", "failed", "ended"}]
    BY <1>0, <1>3 DEF TypeOK, Close
  <2> QED
    BY <1>0, <1>3, <2>2, <2>3 DEF TypeOK, Close, life
<1>4. CASE CloseRead(id)
  <2>1. rec[id] \in Records
    BY <1>0, <1>4, RecordTypes DEF CloseRead, Claim
  <2>2. [rec[id] EXCEPT !.result = "set"] \in Records
    BY <2>1 DEF Records
  <2>3. saves' \in [Ids -> Seq(Saves)]
    BY <1>0, <1>4, <2>2, SaveTypes DEF CloseRead, Waiters
  <2>4. rec' \in [Ids -> Records \cup {NoRecord}]
    BY <1>0, <1>4, <2>2 DEF TypeOK, CloseRead
  <2> QED
    BY <1>0, <1>4, <2>3, <2>4 DEF TypeOK, CloseRead, life
<1>5. CASE SaveDone(id)
  <2>1. PICK i \in WrittenNext(saves[id]) :
          /\ disk' = [disk EXCEPT ![id] = saves[id][i].copy]
          /\ launch' = GoesOn(saves[id][i].for)
          /\ saves' = [saves EXCEPT ![id] = Without(@, i)]
    BY <1>5 DEF SaveDone
  <2>2. saves[id][i] \in Saves /\ saves[id][i].copy \in Records
    BY <1>0, WrittenTypes DEF Saves
  <2>3. saves' \in [Ids -> Seq(Saves)]
    BY <1>0, <2>1, WrittenTypes
  <2>4. launch' \in [id : Ids, at : {"mkdir", "save", "files", "started"}] \cup {NoLaunch}
    <3>1. i \in DOMAIN saves[id]
      BY <2>1, <1>0, WrittenIsHead DEF TypeOK
    <3>2. saves[id][i].for = "launch" => launch = [id |-> id, at |-> "save"]
      BY <1>0, <3>1 DEF Chain, LaunchAt
    <3>3. launch \in [id : Ids, at : {"mkdir", "save", "files", "started"}] \cup {NoLaunch}
      BY <1>0 DEF TypeOK
    <3>4. GoesOn(saves[id][i].for) \in {launch, NoLaunch, [id |-> id, at |-> "files"]}
      BY <3>2 DEF GoesOn
    <3> QED
      BY <2>1, <3>3, <3>4
  <2>5. disk' \in [Ids -> Records \cup {NoRecord, BareDir}]
    BY <1>0, <2>1, <2>2 DEF TypeOK
  <2>6. signalled' \in SUBSET Ids
    BY <1>0, <1>5 DEF TypeOK, SaveDone
  <2> QED
    BY <1>0, <1>5, <2>3, <2>4, <2>5, <2>6 DEF TypeOK, SaveDone, life
<1>6. CASE SaveFails(id)
  <2>1. PICK i \in WrittenNext(saves[id]) :
          \/ /\ launch' = NoLaunch \/ launch' = launch
             /\ saves' = [saves EXCEPT ![id] = Without(@, i)]
             /\ UNCHANGED rec
          \/ /\ rec' = [rec EXCEPT ![id].state = "unknown"]
             /\ saves' = [saves EXCEPT ![id] =
                            Append(Without(saves[id], i),
                                   [copy |-> [rec[id] EXCEPT !.state = "unknown"],
                                    for |-> "failed"])]
             /\ UNCHANGED launch
    BY <1>0, <1>6 DEF SaveFails, TypeOK
  <2>2. [rec[id] EXCEPT !.state = "unknown"] \in Records
    BY <1>0, RecordTypes DEF States
  <2>3. [copy |-> [rec[id] EXCEPT !.state = "unknown"], for |-> "failed"] \in Saves
    BY <2>2 DEF Saves, Waiters
  <2>4. Without(saves[id], i) \in Seq(Saves)
    BY <1>0, WrittenTypes
  <2>a. Append(Without(saves[id], i), [copy |-> [rec[id] EXCEPT !.state = "unknown"],
                                       for |-> "failed"]) \in Seq(Saves)
    BY <2>3, <2>4
  <2>b. saves \in [Ids -> Seq(Saves)]
    BY <1>0 DEF TypeOK
  <2>5. saves' \in [Ids -> Seq(Saves)]
    BY <2>1, <2>4, <2>a, <2>b
  <2>6. rec' \in [Ids -> Records \cup {NoRecord}]
    BY <1>0, <2>1, <2>2 DEF TypeOK
  <2> QED
    BY <1>0, <1>6, <2>1, <2>5, <2>6 DEF TypeOK, SaveFails, life, children
<1> QED
  BY <1>1, <1>2, <1>3, <1>4, <1>5, <1>6

\* The lease, SIGTERM, the end of the process and its next start.
LEMMA ProcessTypes ==
  ASSUME TypeOK, LeaseChanges \/ Sigterm \/ Exit \/ Boot
  PROVE  TypeOK'
<1>1. CASE LeaseChanges
  BY <1>1 DEF TypeOK, LeaseChanges, life, children
<1>2. CASE Sigterm
  <2>1. ASSUME NEW id \in Ids, Known(id)
        PROVE  Append(saves[id], [copy |-> rec[id], for |-> "kill"]) \in Seq(Saves)
    <3>1. [copy |-> rec[id], for |-> "kill"] \in Saves
      BY <2>1, RecordTypes DEF Saves, Waiters
    <3> QED
      BY <3>1 DEF TypeOK
  <2>2. saves' \in [Ids -> Seq(Saves)]
    BY <1>2, <2>1 DEF TypeOK, Sigterm
  <2> QED
    BY <1>2, <2>2 DEF TypeOK, Sigterm, children
<1>3. CASE Exit
  <2>1. queue' \in Seq(Ids) /\ Len(queue') <= MaxQueue
    BY <1>3, SupervisorAssumption DEF Exit
  <2>2. saves' \in [Ids -> Seq(Saves)]
    BY <1>3 DEF Exit
  <2>3. proc' \in [Ids -> {"none", "alive", "failed", "ended"}]
    BY <1>3 DEF TypeOK, Exit
  <2> QED
    BY <1>3, <2>1, <2>2, <2>3 DEF TypeOK, Exit
<1>4. CASE Boot
  <2>1. ASSUME NEW id \in Ids, OnDisk(id) PROVE Reloaded(disk[id]) \in Records
    <3>1. disk[id] \in Records
      BY <2>1 DEF TypeOK, OnDisk
    <3> QED
      BY <3>1 DEF Reloaded, Records, States
  <2>2. PICK read \in SUBSET {id \in Ids : OnDisk(id)} : \E saved \in SUBSET read :
          /\ rec' = [id \in Ids |-> IF id \in read THEN Reloaded(disk[id]) ELSE NoRecord]
          /\ disk' = [id \in Ids |-> IF id \in saved THEN Reloaded(disk[id]) ELSE disk[id]]
    BY <1>4 DEF Boot
  <2>3. rec' \in [Ids -> Records \cup {NoRecord}]
    BY <2>1, <2>2
  <2>4. disk' \in [Ids -> Records \cup {NoRecord, BareDir}]
    BY <2>1, <2>2 DEF TypeOK
  <2>5. restarts' \in 0..MaxRestarts
    BY <1>4, SupervisorAssumption DEF TypeOK, Boot
  <2> QED
    BY <1>4, <2>3, <2>4, <2>5 DEF TypeOK, Boot, children
<1> QED
  BY <1>1, <1>2, <1>3, <1>4

LEMMA StateSet ==
  ASSUME TypeOK, NEW id \in Ids, NEW s \in States, rec' = [rec EXCEPT ![id].state = s]
  PROVE  /\ rec'[id].state = s /\ rec'[id] # NoRecord
         /\ [rec[id] EXCEPT !.state = s].state = s
         /\ \A j \in Ids \ {id} : rec'[j] = rec[j]
<1>1. rec \in [Ids -> Records \cup {NoRecord}] /\ s # "none"
  BY DEF TypeOK, States
<1>2. rec'[id] = [rec[id] EXCEPT !.state = s]
  BY <1>1
<1>3. [rec[id] EXCEPT !.state = s].state = s
  BY <1>1 DEF Records, NoRecord
<1> QED
  BY <1>1, <1>2, <1>3 DEF NoRecord

-----------------------------------------------------------------------------
(* The other parts of the invariant *)

LEMMA InitSup == Init => SupInv
BY InitTypes DEF Init, SupInv, EachId, Chain, OneAwaited, Claim, Truth, Down, Known, OnDisk, LaunchAt,
   NoLaunch, NoRecord

\* Does the launch await a save of id?
Awaits(id) == LaunchAt(id, "save") \/ LaunchAt(id, "started")

LEMMA AwaitedOnly ==
  ASSUME NEW id \in Ids, Chain(id), ~Awaits(id)
  PROVE  \A i \in DOMAIN saves[id] : saves[id][i].for \notin Awaited
BY DEF Chain, Awaits, Awaited

\* An id that a step does not touch keeps its part.
LEMMA Untouched ==
  ASSUME SupInv, NEW j \in Ids,
         saves'[j] = saves[j], disk'[j] = disk[j], proc'[j] = proc[j], rec'[j] = rec[j],
         j \in child' => j \in child, j \in reading' => j \in reading,
         launch' = launch \/ (launch.id # j /\ launch'.id # j) \/ launch' = NoLaunch
  PROVE  Claim(j)' /\ Truth(j)' /\ (launch' = launch \/ ~Awaits(j) => Chain(j)')
<1>1. Chain(j) /\ Claim(j) /\ Truth(j)
  BY DEF SupInv, EachId
<1>2. ASSUME NEW place \in {"save", "files"}, LaunchAt(j, place)' PROVE LaunchAt(j, place)
  BY <1>2, SupervisorAssumption DEF LaunchAt, NoLaunch
<1>3. Claim(j)' /\ Truth(j)'
  BY <1>1, <1>2 DEF Claim, Truth, Known, OnDisk
<1>4. OneAwaited(saves'[j])
  BY <1>1 DEF Chain
<1>5. ASSUME launch' = launch PROVE Chain(j)'
  BY <1>1, <1>4, <1>5 DEF Chain, LaunchAt
<1>6. ASSUME ~Awaits(j) PROVE Chain(j)'
  <2>1. \A i \in DOMAIN saves[j] : saves[j][i].for \notin Awaited
    BY <1>1, <1>6, AwaitedOnly
  <2> QED
    BY <1>1, <1>4, <2>1 DEF Chain, Awaited
<1> QED
  BY <1>3, <1>5, <1>6

\* A chain that grows by a save that is true, and that the launch awaits only if
\* it awaited none before.
LEMMA Grown ==
  ASSUME SupInv, NEW id \in Ids, NEW r, NEW w,
         Save(id, r, w), disk'[id] # NoRecord,
         proc[id] = "ended" => proc'[id] = "ended",
         r.state = "exited" => proc'[id] = "ended",
         Awaits(id) => launch' = launch /\ w \notin Awaited,
         w = "launch" => LaunchAt(id, "save")',
         w \in {"spawned", "failed"} => LaunchAt(id, "started")'
  PROVE  Chain(id)'
<1>1. saves[id] \in Seq(Saves) /\ saves \in [Ids -> Seq(Saves)] /\ Chain(id)
  BY DEF SupInv, EachId, TypeOK
<1>2. saves'[id] = Append(saves[id], [copy |-> r, for |-> w])
  BY <1>1 DEF Save
<1>3. ASSUME NEW i \in DOMAIN saves'[id]
      PROVE  \/ i \in DOMAIN saves[id] /\ saves'[id][i] = saves[id][i]
             \/ i = Len(saves[id]) + 1 /\ saves'[id][i] = [copy |-> r, for |-> w]
  BY <1>1, <1>2
<1>4. OneAwaited(saves'[id])
  <2>1. Awaits(id) => w \notin Awaited
    OBVIOUS
  <2>2. ~Awaits(id) => \A i \in DOMAIN saves[id] : saves[id][i].for \notin Awaited
    BY <1>1, AwaitedOnly
  <2>3. OneAwaited(saves[id])
    BY <1>1 DEF Chain
  <2> QED
    BY <1>3, <2>1, <2>2, <2>3 DEF OneAwaited
<1>5. ASSUME NEW i \in DOMAIN saves'[id]
      PROVE  /\ saves'[id][i].for = "launch" => LaunchAt(id, "save")'
             /\ saves'[id][i].for \in {"spawned", "failed"} => LaunchAt(id, "started")'
             /\ saves'[id][i].copy.state = "exited" => proc'[id] = "ended"
  <2>1. CASE saves'[id][i] = [copy |-> r, for |-> w]
    BY <2>1
  <2>2. CASE i \in DOMAIN saves[id] /\ saves'[id][i] = saves[id][i]
    BY <1>1, <2>2 DEF Chain, Awaits, LaunchAt
  <2> QED
    BY <1>3, <2>1, <2>2
<1> QED
  BY <1>4, <1>5 DEF Chain

\* What remains of a chain when its oldest save is written or has failed.
LEMMA Rest ==
  ASSUME SupInv, NEW id \in Ids, NEW i \in WrittenNext(saves[id]),
         NEW rest, rest = Without(saves[id], i)
  PROVE  /\ rest \in Seq(Saves) /\ i \in DOMAIN saves[id]
         /\ \A k \in DOMAIN rest :
              /\ rest[k].for \in Awaited => saves[id][i].for \notin Awaited
              /\ rest[k].for = "launch" => LaunchAt(id, "save")
              /\ rest[k].for \in {"spawned", "failed"} => LaunchAt(id, "started")
              /\ rest[k].copy.state = "exited" => proc[id] = "ended"
         /\ OneAwaited(rest)
<1>1. saves[id] \in Seq(Saves) /\ Chain(id)
  BY DEF SupInv, EachId, TypeOK
<1>2. rest = Tail(saves[id]) /\ rest \in Seq(Saves) /\ i = 1 /\ i \in DOMAIN saves[id]
  <2>1. Without(saves[id], i) = Tail(saves[id]) /\ Tail(saves[id]) \in Seq(Saves) /\ i = 1
        /\ 1 \in DOMAIN saves[id]
    BY <1>1, WrittenIsHead, Zenon
  <2> QED
    BY <2>1
<1>3. ASSUME NEW k \in DOMAIN rest
      PROVE  k + 1 \in DOMAIN saves[id] /\ k + 1 # i /\ rest[k] = saves[id][k + 1] /\ k \in Nat
  BY <1>1, <1>2, WrittenIsHead
<1>4. OneAwaited(rest)
  BY <1>1, <1>3 DEF Chain, OneAwaited
<1> QED
  BY <1>1, <1>2, <1>3, <1>4 DEF Chain, OneAwaited

\* A chain whose oldest save is written.
LEMMA Shrunk ==
  ASSUME SupInv, NEW id \in Ids, NEW i \in WrittenNext(saves[id]),
         saves' = [saves EXCEPT ![id] = Without(@, i)],
         disk'[id] # NoRecord, proc' = proc,
         launch' = launch \/ saves[id][i].for \in Awaited
  PROVE  Chain(id)'
<1>1. saves'[id] = Without(saves[id], i)
  BY DEF SupInv, TypeOK
<1>2. OneAwaited(saves'[id])
  BY <1>1, Rest
<1>3. ASSUME NEW k \in DOMAIN saves'[id]
      PROVE  /\ saves'[id][k].for = "launch" => LaunchAt(id, "save")'
             /\ saves'[id][k].for \in {"spawned", "failed"} => LaunchAt(id, "started")'
             /\ saves'[id][k].copy.state = "exited" => proc'[id] = "ended"
  BY <1>1, Rest DEF Awaited, LaunchAt
<1> QED
  BY <1>2, <1>3 DEF Chain

\* In a supervisor that works nothing needs to be shown of one that is down.
LEMMA UpIsNotDown ==
  ASSUME Down, up # "down", up' = up
  PROVE  Down'
BY DEF Down

\* The steps of launch() and PUT.
LEMMA LaunchKeeps ==
  ASSUME SupInv, Launch \/ \E id \in Ids : Put(id)
  PROVE  EachId' /\ Down'
<1>0. TypeOK /\ Down /\ \A id \in Ids : Chain(id) /\ Claim(id) /\ Truth(id)
  BY DEF SupInv, EachId
<1>1. ASSUME NEW id \in Ids, Put(id) PROVE EachId' /\ Down'
  BY <1>0, <1>1, Untouched, UpIsNotDown DEF Put, EachId, life, children
<1>2. ASSUME LaunchCheck PROVE EachId' /\ Down'
  <2>1. Down'
    BY <1>0, <1>2, UpIsNotDown DEF LaunchCheck, life
  <2>2. ASSUME NEW j \in Ids PROVE Chain(j)' /\ Claim(j)' /\ Truth(j)'
    <3>1. launch = NoLaunch /\ (launch' = NoLaunch \/ launch'.at = "mkdir")
      BY <1>2 DEF LaunchCheck
    <3>2. /\ saves' = saves /\ disk' = disk /\ proc' = proc /\ rec' = rec
          /\ child' = child /\ reading' = reading
      BY <1>2 DEF LaunchCheck, children
    <3>3. \A place \in {"save", "files", "started"} : ~LaunchAt(j, place)
                                                       /\ ~LaunchAt(j, place)'
      BY <3>1 DEF LaunchAt, NoLaunch
    <3> QED
      BY <1>0, <3>2, <3>3 DEF Chain, Claim, Truth, Known, OnDisk
  <2> QED
    BY <2>1, <2>2 DEF EachId
<1>3. ASSUME NEW id \in Ids, NEW place \in {"mkdir", "files"}, LaunchAt(id, place), up' = up
      PROVE  Down' /\ ~Awaits(id)
  <2>1. up # "down"
    BY <1>0, <1>3 DEF Down, LaunchAt, NoLaunch
  <2> QED
    BY <1>0, <1>3, <2>1, UpIsNotDown DEF Awaits, LaunchAt
<1>4. ASSUME NEW id \in Ids, LaunchMkdir(id) PROVE EachId' /\ Down'
  <2>1. Down' /\ ~Awaits(id) /\ launch.id = id
    BY <1>3, <1>4 DEF LaunchMkdir, life, LaunchAt
  <2>2. CASE launch' = NoLaunch /\ UNCHANGED <<disk, rec, saves, children>>
    BY <2>1, <2>2, Untouched DEF EachId, Awaits, LaunchAt, children
  <2>3. CASE /\ Fresh(id)
             /\ disk' = [disk EXCEPT ![id] = BareDir]
             /\ rec' = [rec EXCEPT ![id] = [state |-> "registered", result |-> "none"]]
             /\ Save(id, [state |-> "registered", result |-> "none"], "launch")
             /\ launch' = [id |-> id, at |-> "save"]
             /\ UNCHANGED children
    <3>1. ASSUME NEW j \in Ids \ {id} PROVE Chain(j)' /\ Claim(j)' /\ Truth(j)'
      <4>1. saves'[j] = saves[j] /\ disk'[j] = disk[j] /\ rec'[j] = rec[j]
        BY <1>0, <2>3 DEF TypeOK, Save
      <4> QED
        BY <2>1, <2>3, <4>1, Untouched DEF Awaits, LaunchAt, children
    <3>2. proc[id] = "none" /\ id \notin child /\ id \notin reading /\ saves[id] = <<>>
      BY <1>0, <2>3 DEF TypeOK, Chain, Claim, Fresh
    <3>3. saves'[id] = << [copy |-> [state |-> "registered", result |-> "none"],
                           for |-> "launch"] >>
      BY <1>0, <2>3, <3>2 DEF TypeOK, Save
    <3>4. disk'[id] = BareDir /\ rec'[id] = [state |-> "registered", result |-> "none"]
      BY <1>0, <2>3 DEF TypeOK
    <3>5. Chain(id)'
      BY <2>3, <3>3, <3>4 DEF Chain, OneAwaited, LaunchAt, BareDir, NoRecord
    <3>6. Claim(id)' /\ Truth(id)'
      BY <2>3, <3>2, <3>4 DEF Claim, Truth, Known, OnDisk, LaunchAt, BareDir, NoRecord, children
    <3> QED
      BY <2>1, <3>1, <3>5, <3>6 DEF EachId
  <2> QED
    BY <1>4, <2>2, <2>3 DEF LaunchMkdir, LaunchAt, AfterMkdir, children
<1>5. ASSUME NEW id \in Ids, LaunchFails(id) PROVE EachId' /\ Down'
  BY <1>3, <1>5, Untouched DEF LaunchFails, EachId, Awaits, LaunchAt, life, children
<1>6. ASSUME NEW id \in Ids, LaunchSpawn(id) \/ LaunchThrows(id) PROVE EachId' /\ Down'
  <2>1. Down' /\ ~Awaits(id) /\ launch = [id |-> id, at |-> "files"]
        /\ launch' = [id |-> id, at |-> "started"]
    BY <1>3, <1>6 DEF LaunchSpawn, LaunchThrows, life, LaunchAt
  <2>2. proc[id] = "none" /\ OnDisk(id) /\ disk[id] # NoRecord /\ disk[id].state # "exited"
        /\ id \notin reading
    BY <1>0, <2>1 DEF Claim, Truth, LaunchAt
  <2>3. CASE LaunchSpawn(id)
    <3>1. /\ rec'[id].state = "running" /\ rec'[id] # NoRecord
          /\ [rec[id] EXCEPT !.state = "running"].state = "running"
          /\ \A j \in Ids \ {id} : rec'[j] = rec[j]
      BY <1>0, <2>3, StateSet DEF LaunchSpawn, States
    <3>2. ASSUME NEW j \in Ids \ {id} PROVE Chain(j)' /\ Claim(j)' /\ Truth(j)'
      <4>1. saves'[j] = saves[j] /\ proc'[j] = proc[j] /\ (j \in child' => j \in child)
            /\ disk' = disk /\ reading' = reading
        BY <1>0, <2>3 DEF TypeOK, LaunchSpawn, Save
      <4> QED
        BY <2>1, <3>1, <4>1, Untouched DEF Awaits, LaunchAt
    <3>3. proc'[id] = "alive" /\ disk' = disk /\ reading' = reading /\ child' = child \cup {id}
      BY <1>0, <2>3 DEF TypeOK, LaunchSpawn
    <3>4. Chain(id)'
      BY <2>1, <2>2, <2>3, <3>1, <3>3, Grown DEF LaunchSpawn, LaunchAt
    <3>5. Claim(id)' /\ Truth(id)'
      BY <2>1, <2>2, <3>1, <3>3 DEF Claim, Truth, Known, OnDisk, LaunchAt
    <3> QED
      BY <2>1, <3>2, <3>4, <3>5 DEF EachId
  <2>4. CASE LaunchThrows(id)
    <3>1. /\ rec'[id].state = "unknown" /\ rec'[id] # NoRecord
          /\ [rec[id] EXCEPT !.state = "unknown"].state = "unknown"
          /\ \A j \in Ids \ {id} : rec'[j] = rec[j]
      BY <1>0, <2>4, StateSet DEF LaunchThrows, States
    <3>2. proc' = proc /\ disk' = disk /\ reading' = reading /\ child' = child
      BY <2>4 DEF LaunchThrows, children
    <3>3. ASSUME NEW j \in Ids \ {id} PROVE Chain(j)' /\ Claim(j)' /\ Truth(j)'
      <4>1. saves'[j] = saves[j]
        BY <1>0, <2>4 DEF TypeOK, LaunchThrows, Save
      <4> QED
        BY <2>1, <3>1, <3>2, <4>1, Untouched DEF Awaits, LaunchAt
    <3>4. Chain(id)'
      BY <2>1, <2>2, <2>4, <3>1, <3>2, Grown DEF LaunchThrows, LaunchAt
    <3>5. Claim(id)' /\ Truth(id)'
      BY <1>0, <2>1, <2>2, <3>1, <3>2 DEF Claim, Truth, Known, OnDisk, LaunchAt
    <3> QED
      BY <2>1, <3>3, <3>4, <3>5 DEF EachId
  <2> QED
    BY <1>6, <2>3, <2>4
<1>7. ASSUME NEW id \in Ids, LaunchError(id) PROVE EachId' /\ Down'
  <2>1. Down' /\ ~Awaits(id) /\ launch = [id |-> id, at |-> "files"]
        /\ launch' = [id |-> id, at |-> "started"]
    BY <1>3, <1>7 DEF LaunchError, life, LaunchAt
  <2>2. proc[id] = "none" /\ OnDisk(id) /\ disk[id] # NoRecord /\ disk[id].state # "exited"
        /\ id \notin reading
    BY <1>0, <2>1 DEF Claim, Truth, LaunchAt
  <2>3. /\ rec'[id].state = "unknown" /\ rec'[id] # NoRecord
        /\ [rec[id] EXCEPT !.state = "unknown"].state = "unknown"
        /\ \A j \in Ids \ {id} : rec'[j] = rec[j]
    BY <1>0, <1>7, StateSet DEF LaunchError, States
  <2>4. ASSUME NEW j \in Ids \ {id} PROVE Chain(j)' /\ Claim(j)' /\ Truth(j)'
    <3>1. saves'[j] = saves[j] /\ proc'[j] = proc[j] /\ (j \in child' => j \in child)
          /\ disk' = disk /\ reading' = reading
      BY <1>0, <1>7 DEF TypeOK, LaunchError
    <3> QED
      BY <2>1, <2>3, <3>1, Untouched DEF Awaits, LaunchAt
  <2>5. proc'[id] = "failed" /\ disk' = disk /\ reading' = reading /\ child' = child \cup {id}
    BY <1>0, <1>7 DEF TypeOK, LaunchError
  <2>6. Chain(id)'
    <3> DEFINE two == << [copy |-> [rec[id] EXCEPT !.state = "running"], for |-> "spawned"],
                         [copy |-> [rec[id] EXCEPT !.state = "unknown"], for |-> "nobody"] >>
    <3>1. /\ [rec[id] EXCEPT !.state = "running"] \in Records
          /\ [rec[id] EXCEPT !.state = "unknown"] \in Records
      BY <1>0, RecordTypes DEF States
    <3>2. [rec[id] EXCEPT !.state = "running"].state = "running"
      <4>1. rec[id] \in Records \cup {NoRecord}
        BY <1>0 DEF TypeOK
      <4> QED
        BY <4>1 DEF Records, NoRecord
    <3>3. saves'[id] = saves[id] \o two /\ saves[id] \in Seq(Saves)
      BY <1>0, <1>7 DEF TypeOK, LaunchError
    <3>4. two \in Seq(Saves) /\ Len(two) = 2
      BY <3>1 DEF Saves, Waiters
    <3>5. /\ two[1].for = "spawned" /\ two[1].copy.state # "exited"
          /\ two[2].for = "nobody" /\ two[2].copy.state # "exited"
      <4>1. /\ two[1].copy = [rec[id] EXCEPT !.state = "running"] /\ two[1].for = "spawned"
            /\ two[2].copy = [rec[id] EXCEPT !.state = "unknown"] /\ two[2].for = "nobody"
        OBVIOUS
      <4> HIDE DEF two
      <4>2. two[1].copy.state = "running" /\ two[2].copy.state = "unknown"
        BY <2>3, <3>2, <4>1, Zenon
      <4> QED
        BY <4>1, <4>2, Zenon
    <3>6. \A i \in DOMAIN saves[id] : saves[id][i].for \notin Awaited
                                      /\ saves[id][i].copy.state # "exited"
      BY <1>0, <2>1, <2>2, AwaitedOnly DEF Chain
    <3> HIDE DEF two
    <3>7. ASSUME NEW i \in DOMAIN saves'[id]
          PROVE  /\ saves'[id][i].copy.state # "exited" /\ saves'[id][i].for # "launch"
                 /\ saves'[id][i].for \in Awaited => i = Len(saves[id]) + 1
      <4>0. Len(saves[id] \o two) = Len(saves[id]) + Len(two) /\ saves[id] \o two \in Seq(Saves)
        BY <3>3, <3>4, ConcatProperties, Zenon
      <4>1. Len(saves'[id]) = Len(saves[id]) + 2 /\ saves'[id] \in Seq(Saves)
        BY <3>3, <3>4, <4>0
      <4>2. i \in 1 .. Len(saves[id]) + Len(two)
        BY <3>4, <4>1
      <4>3. saves'[id][i] = IF i <= Len(saves[id]) THEN saves[id][i]
                            ELSE two[i - Len(saves[id])]
        BY <3>3, <3>4, <4>2, ConcatProperties
      <4>4. CASE i <= Len(saves[id])
        <5>1. i \in DOMAIN saves[id]
          BY <3>3, <4>2, <4>4
        <5> QED
          BY <3>6, <4>3, <4>4, <5>1 DEF Awaited
      <4>5. CASE i = Len(saves[id]) + 1
        <5>1. saves'[id][i] = two[1]
          BY <3>3, <4>3, <4>5
        <5> QED
          BY <3>5, <4>5, <5>1 DEF Awaited
      <4>6. CASE i = Len(saves[id]) + 2
        <5>1. saves'[id][i] = two[2]
          BY <3>3, <4>3, <4>6
        <5> QED
          BY <3>5, <5>1 DEF Awaited
      <4> QED
        BY <3>3, <3>4, <4>2, <4>4, <4>5, <4>6
    <3>8. OneAwaited(saves'[id])
      BY <3>7 DEF OneAwaited
    <3> QED
      BY <2>1, <2>2, <2>5, <3>7, <3>8 DEF Chain, LaunchAt
  <2>7. Claim(id)' /\ Truth(id)'
    BY <2>1, <2>2, <2>3, <2>5 DEF Claim, Truth, Known, OnDisk, LaunchAt
  <2> QED
    BY <2>1, <2>4, <2>6, <2>7 DEF EachId
<1> QED
  BY <1>1, <1>2, <1>4, <1>5, <1>6, <1>7 DEF Launch

\* The steps of cancels, timers, children and saves.
LEMMA ChildKeeps ==
  ASSUME SupInv, NEW id \in Ids,
         \/ Cancel(id) \/ Timer(id) \/ DeadlinePasses(id) \/ ChildEnds(id)
         \/ Close(id) \/ CloseRead(id) \/ SaveDone(id) \/ SaveFails(id)
  PROVE  EachId' /\ Down'
<1>0. /\ TypeOK /\ Down /\ \A j \in Ids : Chain(j) /\ Claim(j) /\ Truth(j)
      /\ rec[id] \in Records \cup {NoRecord} /\ disk[id] \in Records \cup {NoRecord, BareDir}
      /\ saves[id] \in Seq(Saves) /\ proc[id] \in {"none", "alive", "failed", "ended"}
  BY DEF SupInv, EachId, TypeOK
<1>1. CASE Cancel(id) \/ Timer(id)
  <2>1. Down'
    BY <1>0, <1>1, UpIsNotDown DEF Cancel, Timer, life
  <2>2. UNCHANGED <<rec, disk, launch, children>> /\ Known(id)
    BY <1>0, <1>1 DEF Cancel, Timer, Claim
  <2>3. Save(id, rec[id], "cancel") \/ Save(id, rec[id], "kill")
    BY <1>1 DEF Cancel, Timer
  <2>4. Chain(id)'
    BY <1>0, <2>2, <2>3, Grown DEF Awaited, Claim, Truth, children
  <2>5. Claim(id)' /\ Truth(id)'
    BY <1>0, <2>2 DEF Claim, Truth, Known, OnDisk, LaunchAt, children
  <2>6. ASSUME NEW j \in Ids \ {id} PROVE Chain(j)' /\ Claim(j)' /\ Truth(j)'
    <3>1. saves'[j] = saves[j]
      BY <1>0, <2>3 DEF TypeOK, Save
    <3> QED
      BY <2>2, <3>1, Untouched DEF children
  <2> QED
    BY <2>1, <2>4, <2>5, <2>6 DEF EachId
<1>2. CASE DeadlinePasses(id)
  <2>1. UNCHANGED <<up, rec, disk, saves, launch, children>>
    BY <1>2 DEF DeadlinePasses, life
  <2> QED
    BY <1>0, <2>1, Untouched DEF EachId, Down, children
<1>3. CASE ChildEnds(id)
  <2>1. /\ UNCHANGED <<up, rec, disk, saves, launch, child, reading>> /\ proc[id] = "alive"
        /\ proc'[id] = "ended" /\ \A j \in Ids \ {id} : proc'[j] = proc[j]
    BY <1>0, <1>3 DEF TypeOK, ChildEnds, life
  <2>2. Down'
    BY <1>0, <2>1 DEF Down
  <2>3. ASSUME NEW j \in Ids \ {id} PROVE Chain(j)' /\ Claim(j)' /\ Truth(j)'
    BY <2>1, Untouched
  <2>4. Chain(id)' /\ Claim(id)' /\ Truth(id)'
    BY <1>0, <2>1 DEF Chain, Claim, Truth, Known, OnDisk, LaunchAt
  <2> QED
    BY <2>2, <2>3, <2>4 DEF EachId
<1>4. CASE Close(id)
  <2>1. Down'
    BY <1>0, <1>4, UpIsNotDown DEF Close, life
  <2>2. proc[id] \in {"failed", "ended"} /\ disk[id] # NoRecord
    BY <1>0, <1>4 DEF Close, ExitSeen, Claim
  <2>3. /\ UNCHANGED <<disk, saves, launch>> /\ child' = child \ {id}
        /\ reading' = reading \cup {id}
        /\ proc'[id] = "ended" /\ \A j \in Ids \ {id} : proc'[j] = proc[j]
    BY <1>0, <1>4, <2>2 DEF TypeOK, Close
  <2>4. rec'[id] # NoRecord /\ \A j \in Ids \ {id} : rec'[j] = rec[j]
    BY <1>0, <1>4, StateSet DEF Close, States
  <2>5. ASSUME NEW j \in Ids \ {id} PROVE Chain(j)' /\ Claim(j)' /\ Truth(j)'
    BY <2>3, <2>4, Untouched
  <2>6. Chain(id)' /\ Claim(id)' /\ Truth(id)'
    BY <1>0, <2>2, <2>3, <2>4 DEF Chain, Claim, Truth, Known, OnDisk, LaunchAt
  <2> QED
    BY <2>1, <2>5, <2>6 DEF EachId
<1>5. CASE CloseRead(id)
  <2>1. Down'
    BY <1>0, <1>5, UpIsNotDown DEF CloseRead, life
  <2>2. proc[id] = "ended" /\ rec[id] \in Records /\ disk[id] # NoRecord
    BY <1>0, <1>5 DEF CloseRead, Claim, Truth, Known
  <2>3. /\ UNCHANGED <<disk, launch, proc, child>> /\ reading' = reading \ {id}
        /\ rec'[id] = [rec[id] EXCEPT !.result = "set"]
        /\ \A j \in Ids \ {id} : rec'[j] = rec[j] /\ saves'[j] = saves[j]
    BY <1>0, <1>5 DEF TypeOK, CloseRead, Save
  <2>4. rec'[id] # NoRecord
    BY <2>2, <2>3 DEF Records, NoRecord, States
  <2>5. ASSUME NEW j \in Ids \ {id} PROVE Chain(j)' /\ Claim(j)' /\ Truth(j)'
    BY <2>3, Untouched
  <2>6. Chain(id)'
    BY <1>5, <2>2, <2>3, Grown DEF Awaited, CloseRead
  <2>7. Claim(id)' /\ Truth(id)'
    BY <1>0, <2>2, <2>3, <2>4 DEF Claim, Truth, Known, OnDisk, LaunchAt
  <2> QED
    BY <2>1, <2>5, <2>6, <2>7 DEF EachId
<1>6. CASE SaveDone(id)
  <2>1. Down'
    BY <1>0, <1>6, UpIsNotDown DEF SaveDone, life
  <2>2. PICK i \in WrittenNext(saves[id]) :
          /\ disk' = [disk EXCEPT ![id] = saves[id][i].copy]
          /\ launch' = GoesOn(saves[id][i].for)
          /\ saves' = [saves EXCEPT ![id] = Without(@, i)]
    BY <1>6 DEF SaveDone
  <2>3. UNCHANGED <<rec, proc, child, reading>>
    BY <1>6 DEF SaveDone
  <2>4. saves[id][i].copy \in Records /\ i \in DOMAIN saves[id]
    BY <1>0, WrittenTypes, WrittenIsHead DEF Saves
  <2>5. disk'[id] \in Records /\ disk'[id] = saves[id][i].copy
        /\ \A j \in Ids \ {id} : disk'[j] = disk[j] /\ saves'[j] = saves[j]
    BY <1>0, <2>2, <2>4 DEF TypeOK
  <2>6. disk'[id] # NoRecord /\ OnDisk(id)' /\ disk[id] # NoRecord
        /\ (disk'[id].state = "exited" => proc[id] = "ended")
    BY <1>0, <2>4, <2>5 DEF Chain, OnDisk, NoRecord, BareDir, Records, States
  <2>7. CASE saves[id][i].for \in Awaited
    <3>1. /\ saves[id][i].for = "launch" => LaunchAt(id, "save")
          /\ saves[id][i].for \in {"spawned", "failed"} => LaunchAt(id, "started")
      BY <1>0, <2>4 DEF Chain
    <3>2. launch.id = id /\ launch' \in {[id |-> id, at |-> "files"], NoLaunch}
          /\ (launch' # NoLaunch => LaunchAt(id, "save"))
      BY <2>2, <2>7, <3>1 DEF GoesOn, LaunchAt, Awaited
    <3>3. Chain(id)'
      BY <2>2, <2>3, <2>6, <2>7, Shrunk
    <3>4. Claim(id)' /\ Truth(id)'
      BY <1>0, <2>3, <2>6, <3>2, SupervisorAssumption DEF Claim, Truth, Known, LaunchAt, NoLaunch
    <3>5. ASSUME NEW j \in Ids \ {id} PROVE Chain(j)' /\ Claim(j)' /\ Truth(j)'
      BY <2>3, <2>5, <3>2, Untouched DEF Awaits, LaunchAt
    <3> QED
      BY <2>1, <3>3, <3>4, <3>5 DEF EachId
  <2>8. CASE saves[id][i].for \notin Awaited
    <3>1. launch' = launch
      BY <2>2, <2>8 DEF GoesOn, Awaited
    <3>2. Chain(id)'
      BY <2>2, <2>3, <2>6, <3>1, Shrunk
    <3>3. Claim(id)' /\ Truth(id)'
      BY <1>0, <2>3, <2>6, <3>1 DEF Claim, Truth, Known, LaunchAt
    <3>4. ASSUME NEW j \in Ids \ {id} PROVE Chain(j)' /\ Claim(j)' /\ Truth(j)'
      BY <2>3, <2>5, <3>1, Untouched
    <3> QED
      BY <2>1, <3>2, <3>3, <3>4 DEF EachId
  <2> QED
    BY <2>7, <2>8
<1>7. CASE SaveFails(id)
  <2>1. Down'
    BY <1>0, <1>7, UpIsNotDown DEF SaveFails, life
  <2>2. PICK i \in WrittenNext(saves[id]) :
          \/ /\ saves[id][i].for \in {"launch", "failed"} /\ launch' = NoLaunch
             /\ saves' = [saves EXCEPT ![id] = Without(saves[id], i)] /\ UNCHANGED rec
          \/ /\ saves[id][i].for = "cancel" /\ UNCHANGED <<rec, launch>>
             /\ saves' = [saves EXCEPT ![id] = Without(saves[id], i)]
          \/ /\ saves[id][i].for = "spawned" /\ UNCHANGED launch
             /\ rec' = [rec EXCEPT ![id].state = "unknown"]
             /\ saves' = [saves EXCEPT ![id] =
                            Append(Without(saves[id], i),
                                   [copy |-> [rec[id] EXCEPT !.state = "unknown"],
                                    for |-> "failed"])]
    BY <1>7 DEF SaveFails
  <2>3. UNCHANGED <<disk, proc, child, reading>>
    BY <1>7 DEF SaveFails, children
  <2>4. i \in DOMAIN saves[id] /\ disk[id] # NoRecord
    BY <1>0, WrittenIsHead DEF Chain
  <2>5. CASE saves[id][i].for \in {"launch", "failed"}
    <3>1. launch.id = id /\ launch' = NoLaunch /\ UNCHANGED rec
      BY <1>0, <2>2, <2>4, <2>5 DEF Chain, LaunchAt
    <3>2. saves' = [saves EXCEPT ![id] = Without(@, i)] /\ \A j \in Ids \ {id} : saves'[j] = saves[j]
      BY <1>0, <2>2, <2>5 DEF TypeOK
    <3>3. Chain(id)'
      BY <2>3, <2>4, <2>5, <3>2, Shrunk DEF Awaited
    <3>4. Claim(id)' /\ Truth(id)'
      BY <1>0, <2>3, <3>1, SupervisorAssumption DEF Claim, Truth, Known, OnDisk, LaunchAt, NoLaunch
    <3>5. ASSUME NEW j \in Ids \ {id} PROVE Chain(j)' /\ Claim(j)' /\ Truth(j)'
      BY <2>3, <3>1, <3>2, Untouched DEF Awaits, LaunchAt
    <3> QED
      BY <2>1, <3>3, <3>4, <3>5 DEF EachId
  <2>6. CASE saves[id][i].for = "cancel"
    <3>1. UNCHANGED <<rec, launch>>
      BY <2>2, <2>6
    <3>2. saves' = [saves EXCEPT ![id] = Without(@, i)] /\ \A j \in Ids \ {id} : saves'[j] = saves[j]
      BY <1>0, <2>2, <2>6 DEF TypeOK
    <3>3. Chain(id)'
      BY <2>3, <2>4, <3>1, <3>2, Shrunk
    <3>4. Claim(id)' /\ Truth(id)'
      BY <1>0, <2>3, <3>1 DEF Claim, Truth, Known, OnDisk, LaunchAt
    <3>5. ASSUME NEW j \in Ids \ {id} PROVE Chain(j)' /\ Claim(j)' /\ Truth(j)'
      BY <2>3, <3>1, <3>2, Untouched
    <3> QED
      BY <2>1, <3>3, <3>4, <3>5 DEF EachId
  <2>7. CASE saves[id][i].for = "spawned"
    <3>1. UNCHANGED launch /\ LaunchAt(id, "started")
      BY <1>0, <2>2, <2>4, <2>7 DEF Chain
    <3>2. /\ rec'[id].state = "unknown" /\ rec'[id] # NoRecord
          /\ [rec[id] EXCEPT !.state = "unknown"].state = "unknown"
          /\ \A j \in Ids \ {id} : rec'[j] = rec[j]
      BY <1>0, <2>2, <2>7, StateSet DEF States
    <3> DEFINE rest == Without(saves[id], i)
               new  == [copy |-> [rec[id] EXCEPT !.state = "unknown"], for |-> "failed"]
    <3>3. /\ rest \in Seq(Saves) /\ OneAwaited(rest)
          /\ \A k \in DOMAIN rest :
               /\ rest[k].for \notin Awaited
               /\ rest[k].copy.state = "exited" => proc[id] = "ended"
      BY <2>7, Rest DEF Awaited
    <3>4. new.for = "failed" /\ new.copy.state = "unknown"
      BY <3>2
    <3>5. saves'[id] = Append(rest, new) /\ \A j \in Ids \ {id} : saves'[j] = saves[j]
      BY <1>0, <2>2, <2>7 DEF TypeOK
    <3> HIDE DEF rest, new
    <3>6. ASSUME NEW k \in DOMAIN saves'[id]
          PROVE  \/ k \in DOMAIN rest /\ saves'[id][k] = rest[k]
                 \/ k = Len(rest) + 1 /\ saves'[id][k] = new
      BY <3>3, <3>5
    <3>7. OneAwaited(saves'[id])
      BY <3>3, <3>6 DEF OneAwaited
    <3>8. Chain(id)'
      BY <2>3, <2>4, <3>1, <3>3, <3>4, <3>6, <3>7 DEF Chain, LaunchAt, Awaited
    <3>9. Claim(id)' /\ Truth(id)'
      BY <1>0, <2>3, <2>4, <3>1, <3>2 DEF Claim, Truth, Known, OnDisk, LaunchAt
    <3>10. ASSUME NEW j \in Ids \ {id} PROVE Chain(j)' /\ Claim(j)' /\ Truth(j)'
      BY <2>3, <3>1, <3>2, <3>5, Untouched
    <3> QED
      BY <2>1, <3>8, <3>9, <3>10 DEF EachId
  <2> QED
    BY <2>2, <2>5, <2>6, <2>7
<1> QED
  BY <1>1, <1>2, <1>3, <1>4, <1>5, <1>6, <1>7

\* The lease, SIGTERM, the end of the process and its next start.
LEMMA ProcessKeeps ==
  ASSUME SupInv, LeaseChanges \/ Sigterm \/ Exit \/ Boot
  PROVE  EachId' /\ Down'
<1>0. TypeOK /\ Down /\ \A j \in Ids : Chain(j) /\ Claim(j) /\ Truth(j)
  BY DEF SupInv, EachId
<1>1. CASE LeaseChanges
  <2>1. UNCHANGED <<up, rec, disk, saves, launch, children>>
    BY <1>1 DEF LeaseChanges, life
  <2> QED
    BY <1>0, <2>1, Untouched DEF EachId, Down, children
<1>2. CASE Sigterm
  <2>1. Down' /\ UNCHANGED <<rec, disk, launch, children>>
    BY <1>2 DEF Sigterm, Down
  <2>2. ASSUME NEW j \in Ids PROVE Chain(j)' /\ Claim(j)' /\ Truth(j)'
    <3>1. Claim(j)' /\ Truth(j)'
      BY <1>0, <2>1 DEF Claim, Truth, Known, OnDisk, LaunchAt, children
    <3>2. CASE Known(j)
      <4>1. saves'[j] = Append(saves[j], [copy |-> rec[j], for |-> "kill"])
        BY <1>2, <3>2 DEF Sigterm
      <4>2. saves[j] \in Seq(Saves)
        BY <1>0 DEF TypeOK
      <4>3. ASSUME NEW k \in DOMAIN saves'[j]
            PROVE  \/ k \in DOMAIN saves[j] /\ saves'[j][k] = saves[j][k]
                   \/ saves'[j][k] = [copy |-> rec[j], for |-> "kill"]
        BY <4>1, <4>2
      <4>4. OneAwaited(saves'[j])
        BY <1>0, <4>3 DEF Chain, OneAwaited, Awaited
      <4>5. disk'[j] # NoRecord
        BY <1>0, <2>1, <3>2 DEF Claim
      <4>6. rec[j].state = "exited" => proc[j] = "ended"
        BY <1>0 DEF Truth
      <4>7. Chain(j)'
        BY <1>0, <2>1, <4>3, <4>4, <4>5, <4>6 DEF Chain, LaunchAt, children
      <4> QED
        BY <3>1, <4>7
    <3>3. CASE ~Known(j)
      <4>1. saves'[j] = saves[j]
        BY <1>2, <3>3 DEF Sigterm
      <4> QED
        BY <2>1, <4>1, Untouched DEF children
    <3> QED
      BY <3>2, <3>3
  <2> QED
    BY <2>1, <2>2 DEF EachId
<1>3. CASE Exit
  <2>1. /\ launch' = NoLaunch /\ child' = {} /\ reading' = {} /\ disk' = disk
        /\ \A j \in Ids : /\ rec'[j] = NoRecord /\ saves'[j] = <<>>
                          /\ proc'[j] = IF disk[j] = NoRecord THEN proc[j] ELSE "ended"
    BY <1>3 DEF Exit
  <2>2. ASSUME NEW j \in Ids PROVE Chain(j)' /\ Claim(j)' /\ Truth(j)'
    <3>1. disk'[j] = NoRecord => disk'[j].state # "exited" /\ proc'[j] = "none"
      BY <1>0, <2>1 DEF Claim, NoRecord
    <3>2. disk'[j] # NoRecord => proc'[j] = "ended"
      BY <2>1
    <3>3. \A place \in {"save", "files"} : ~LaunchAt(j, place)'
      BY <2>1 DEF LaunchAt, NoLaunch
    <3>4. Chain(j)'
      BY <2>1 DEF Chain, OneAwaited
    <3> QED
      BY <2>1, <3>1, <3>2, <3>3, <3>4 DEF Claim, Truth, Known, NoRecord
  <2>3. Down'
    BY <2>1 DEF Down
  <2> QED
    BY <2>2, <2>3 DEF EachId
<1>4. CASE Boot
  <2>1. /\ up' # "down" /\ UNCHANGED <<saves, launch, children>>
        /\ up = "down"
    BY <1>4 DEF Boot
  <2>2. PICK read \in SUBSET {id \in Ids : OnDisk(id)} : \E saved \in SUBSET read :
          /\ rec' = [id \in Ids |-> IF id \in read THEN Reloaded(disk[id]) ELSE NoRecord]
          /\ disk' = [id \in Ids |-> IF id \in saved THEN Reloaded(disk[id]) ELSE disk[id]]
    BY <1>4 DEF Boot
  <2>3. PICK saved \in SUBSET read :
          disk' = [id \in Ids |-> IF id \in saved THEN Reloaded(disk[id]) ELSE disk[id]]
    BY <2>2
  <2>4. ASSUME NEW j \in Ids PROVE Chain(j)' /\ Claim(j)' /\ Truth(j)'
    <3>1. launch = NoLaunch /\ child = {} /\ reading = {} /\ saves[j] = <<>>
          /\ (disk[j] = NoRecord \/ proc[j] = "ended")
      BY <1>0, <2>1 DEF Down
    <3>2. \A place \in {"save", "files"} : ~LaunchAt(j, place)'
      BY <2>1, <3>1 DEF LaunchAt, NoLaunch
    <3>3. CASE OnDisk(j)
      <4>1. Reloaded(disk[j]) \in Records
        <5>1. disk[j] \in Records
          BY <1>0, <3>3 DEF TypeOK, OnDisk
        <5> QED
          BY <5>1 DEF Reloaded, Records, States
      <4>2. disk'[j] # NoRecord /\ disk'[j] # BareDir /\ proc'[j] = "ended"
        BY <2>1, <2>3, <3>1, <3>3, <4>1 DEF OnDisk, Records, States, NoRecord, BareDir, children
      <4> QED
        BY <2>1, <3>1, <3>2, <4>2 DEF Chain, OneAwaited, Claim, Truth, OnDisk, children
    <3>4. CASE ~OnDisk(j)
      <4>1. rec'[j] = NoRecord /\ disk'[j] = disk[j]
        BY <2>2, <2>3, <3>4
      <4>2. disk[j].state # "exited"
        BY <3>4 DEF OnDisk, NoRecord, BareDir
      <4>3. proc[j] \in {"none", "ended"} /\ (proc[j] # "none" => disk[j] # NoRecord)
        BY <1>0, <3>1 DEF Claim
      <4> QED
        BY <2>1, <3>1, <3>2, <4>1, <4>2, <4>3
           DEF Chain, OneAwaited, Claim, Truth, Known, NoRecord, children
    <3> QED
      BY <3>3, <3>4
  <2> QED
    BY <2>1, <2>4 DEF EachId, Down
<1> QED
  BY <1>1, <1>2, <1>3, <1>4

-----------------------------------------------------------------------------
(* The theorems *)

LEMMA NextSup == SupInv /\ [Next]_vars => SupInv'
<1> SUFFICES ASSUME SupInv, [Next]_vars PROVE SupInv'
  OBVIOUS
<1>1. CASE UNCHANGED vars
  BY <1>1 DEF vars, SupInv, TypeOK, EachId, Chain, OneAwaited, Claim, Truth, Down, Known,
     OnDisk, LaunchAt
<1>2. CASE Launch \/ \E id \in Ids : Put(id)
  BY <1>2, LaunchTypes, LaunchKeeps DEF SupInv
<1>3. ASSUME NEW id \in Ids,
             \/ Cancel(id) \/ Timer(id) \/ DeadlinePasses(id) \/ ChildEnds(id)
             \/ Close(id) \/ CloseRead(id) \/ SaveDone(id) \/ SaveFails(id)
      PROVE  SupInv'
  BY <1>3, ChildTypes, ChildKeeps DEF SupInv
<1>4. CASE LeaseChanges \/ Sigterm \/ Exit \/ Boot
  BY <1>4, ProcessTypes, ProcessKeeps DEF SupInv
<1> QED
  BY <1>1, <1>2, <1>3, <1>4 DEF Next

LEMMA SupInvariant == Spec => []SupInv
BY InitSup, NextSup, PTL DEF Spec

\* Every reachable state of the supervisor is well typed.
THEOREM SupervisorTypeCorrect == Spec => []TypeOK
BY SupInvariant, PTL DEF SupInv

\* A record is on disk before a process is started for an id (launch() awaits its
\* first save), however often files fail.
THEOREM RecordPrecedesChild == Spec => []RecordedBeforeSpawn
<1>1. SupInv => RecordedBeforeSpawn
  BY DEF SupInv, EachId, Claim, RecordedBeforeSpawn
<1> QED
  BY <1>1, SupInvariant, PTL

-----------------------------------------------------------------------------
(* A supervisor is a worker *)

LEMMA WorkerInit == Init => Promise!Init
BY DEF Init, Promise!Init, work, workOf, shown, NoRecord

\* What an id's work is depends on its directory and its process only.
LEMMA WorkKept ==
  ASSUME TypeOK, NEW j \in Ids,
         disk'[j] = NoRecord <=> disk[j] = NoRecord,
         proc'[j] = proc[j] \/ {proc[j], proc'[j]} \subseteq {"none", "failed"}
  PROVE  workOf(j)' = workOf(j)
<1>1. proc[j] \in {"none", "alive", "failed", "ended"}
  BY DEF TypeOK
<1>2. CASE disk[j] = NoRecord
  BY <1>2 DEF workOf
<1>3. CASE disk[j] # NoRecord /\ proc[j] \in {"none", "failed"}
  BY <1>3 DEF workOf
<1>4. CASE disk[j] # NoRecord /\ proc[j] = "alive"
  BY <1>4 DEF workOf
<1>5. CASE disk[j] # NoRecord /\ proc[j] = "ended"
  BY <1>5 DEF workOf
<1> QED
  BY <1>1, <1>2, <1>3, <1>4, <1>5

\* A step that leaves the work of every id alone shows what it may.
LEMMA ShowStep ==
  ASSUME SupInv, SupInv', \A j \in Ids : workOf(j)' = workOf(j)
  PROVE  Promise!Next
<1>1. work' = work
  BY DEF work
<1>2. shown' \subseteq {id \in Ids : work'[id] = "ended"}
  <2>1. ASSUME NEW j \in shown' PROVE j \in Ids /\ work'[j] = "ended"
    <3>1. j \in Ids /\ proc'[j] = "ended" /\ disk'[j] # NoRecord
      BY DEF SupInv, EachId, Claim, Truth, shown
    <3> QED
      BY <3>1 DEF work, workOf
  <2> QED
    BY <2>1
<1> QED
  BY <1>1, <1>2 DEF Promise!Next, Promise!Show

LEMMA WorkerStep ==
  ASSUME SupInv, SupInv', [Next]_vars
  PROVE  [Promise!Next]_<<work, shown>>
<1>0. /\ TypeOK /\ rec \in [Ids -> Records \cup {NoRecord}] /\ proc' \in [Ids -> {"none", "alive", "failed", "ended"}]
      /\ disk \in [Ids -> Records \cup {NoRecord, BareDir}]
      /\ proc \in [Ids -> {"none", "alive", "failed", "ended"}]
      /\ \A j \in Ids : Chain(j) /\ Claim(j) /\ Truth(j)
  BY DEF SupInv, EachId, TypeOK
<1>1. CASE UNCHANGED vars
  BY <1>1 DEF vars, work, workOf, shown
<1>2. ASSUME NEW id \in Ids,
             Put(id) \/ Cancel(id) \/ Timer(id) \/ DeadlinePasses(id) \/ CloseRead(id)
               \/ SaveFails(id) \/ LaunchThrows(id) \/ LaunchFails(id)
      PROVE  Promise!Next
  <2>1. UNCHANGED <<disk, proc>>
    BY <1>2 DEF Put, Cancel, Timer, DeadlinePasses, CloseRead, SaveFails, LaunchThrows,
       LaunchFails, children
  <2> QED
    BY <1>0, <2>1, WorkKept, ShowStep
<1>3. CASE LaunchCheck \/ LeaseChanges \/ Sigterm
  <2>1. UNCHANGED <<disk, proc>>
    BY <1>3 DEF LaunchCheck, LeaseChanges, Sigterm, children
  <2> QED
    BY <1>0, <2>1, WorkKept, ShowStep
<1>4. ASSUME NEW id \in Ids, LaunchMkdir(id) PROVE Promise!Next
  <2>1. CASE UNCHANGED <<disk, proc>>
    BY <1>0, <2>1, WorkKept, ShowStep
  <2>2. CASE /\ Fresh(id) /\ UNCHANGED proc
             /\ disk' = [disk EXCEPT ![id] = BareDir]
             /\ rec' = [rec EXCEPT ![id] = [state |-> "registered", result |-> "none"]]
    <3>1. workOf(id) = "new" /\ proc[id] = "none"
      BY <1>0, <2>2 DEF Fresh, workOf, Claim
    <3>2. workOf(id)' = "held"
      <4>1. disk'[id] # NoRecord /\ proc'[id] = "none"
        BY <1>0, <2>2, <3>1 DEF BareDir, NoRecord
      <4> QED
        BY <4>1 DEF workOf
    <3>3. ASSUME NEW j \in Ids \ {id} PROVE workOf(j)' = workOf(j)
      BY <1>0, <2>2, WorkKept
    <3>4. shown' = shown
      BY <1>0, <2>2, <3>1 DEF shown, Truth
    <3>5. work' = [work EXCEPT ![id] = "held"] /\ work[id] = "new"
      BY <3>1, <3>2, <3>3 DEF work
    <3> QED
      BY <3>4, <3>5 DEF Promise!Next, Promise!Accept
  <2> QED
    BY <1>4, <2>1, <2>2 DEF LaunchMkdir, children
<1>5. ASSUME NEW id \in Ids, LaunchSpawn(id) PROVE Promise!Next
  <2>1. proc[id] = "none" /\ disk[id] # NoRecord /\ rec[id].state # "exited"
    BY <1>0, <1>5 DEF LaunchSpawn, Claim, Truth
  <2>2. UNCHANGED disk /\ proc' = [proc EXCEPT ![id] = "alive"]
    BY <1>5 DEF LaunchSpawn
  <2>3. workOf(id) = "held" /\ workOf(id)' = "working"
    BY <1>0, <2>1, <2>2 DEF workOf
  <2>4. ASSUME NEW j \in Ids \ {id} PROVE workOf(j)' = workOf(j)
    BY <1>0, <2>2, WorkKept
  <2>5. shown' = shown
    BY <1>0, <1>5, <2>1, StateSet DEF LaunchSpawn, shown, States
  <2>6. work' = [work EXCEPT ![id] = "working"] /\ work[id] = "held"
    BY <2>3, <2>4 DEF work
  <2> QED
    BY <2>5, <2>6 DEF Promise!Next, Promise!Begin
<1>6. ASSUME NEW id \in Ids, LaunchError(id) PROVE Promise!Next
  <2>1. proc[id] = "none"
    BY <1>0, <1>6 DEF LaunchError, Claim
  <2>2. UNCHANGED disk /\ proc' = [proc EXCEPT ![id] = "failed"]
    BY <1>6 DEF LaunchError
  <2>3. ASSUME NEW j \in Ids PROVE workOf(j)' = workOf(j)
    <3>1. proc'[j] = proc[j] \/ {proc[j], proc'[j]} \subseteq {"none", "failed"}
      BY <1>0, <2>1, <2>2
    <3> QED
      BY <1>0, <2>2, <3>1, WorkKept
  <2> QED
    BY <2>3, ShowStep
<1>7. ASSUME NEW id \in Ids, ChildEnds(id) \/ Close(id) PROVE Promise!Next
  <2>1. disk[id] # NoRecord /\ UNCHANGED disk /\ proc'[id] = "ended"
        /\ \A j \in Ids \ {id} : proc'[j] = proc[j]
    BY <1>0, <1>7 DEF ChildEnds, Close, ExitSeen, Claim
  <2>2. ASSUME NEW j \in Ids \ {id} PROVE workOf(j)' = workOf(j)
    BY <1>0, <2>1, WorkKept
  <2>3. CASE proc[id] = "ended"
    <3>1. workOf(id)' = workOf(id)
      BY <1>0, <2>1, <2>3, WorkKept
    <3> QED
      BY <2>2, <3>1, ShowStep
  <2>4. CASE proc[id] \in {"alive", "failed"}
    <3>1. workOf(id) \in {"held", "working"} /\ workOf(id)' = "ended"
      BY <2>1, <2>4 DEF workOf
    <3>2. shown' \subseteq shown \cup {id}
      BY <1>0, <1>7 DEF ChildEnds, Close, shown
    <3>3. /\ work' = [j \in Ids |-> IF j \in {id} THEN "ended" ELSE work[j]]
          /\ work[id] \in {"held", "working"}
      BY <2>2, <3>1 DEF work
    <3> QED
      BY <3>2, <3>3 DEF Promise!Next, Promise!End
  <2> QED
    BY <1>0, <1>7, <2>3, <2>4 DEF ChildEnds, Close, ExitSeen, Claim
<1>8. ASSUME NEW id \in Ids, SaveDone(id) PROVE Promise!Next
  <2>1. UNCHANGED proc /\ \A j \in Ids : disk'[j] = NoRecord <=> disk[j] = NoRecord
    <3>1. PICK i \in WrittenNext(saves[id]) : disk' = [disk EXCEPT ![id] = saves[id][i].copy]
      BY <1>8 DEF SaveDone
    <3>2. saves[id][i] \in Saves
      BY <1>0, WrittenTypes
    <3>3. disk[id] # NoRecord
      <4>1. i \in DOMAIN saves[id]
        BY Rest
      <4> QED
        BY <1>0, <4>1 DEF Chain
    <3>4. saves[id][i].copy # NoRecord
      BY <3>2 DEF Saves, Records, States, NoRecord
    <3> QED
      BY <1>0, <1>8, <3>1, <3>3, <3>4 DEF SaveDone
  <2> QED
    BY <1>0, <2>1, WorkKept, ShowStep
<1>9. CASE Exit
  <2> DEFINE ids == {id \in Ids : disk[id] # NoRecord /\ proc[id] # "ended"}
  <2>1. shown' = {} /\ UNCHANGED disk
        /\ \A j \in Ids : proc'[j] = IF disk[j] = NoRecord THEN proc[j] ELSE "ended"
    BY <1>9 DEF Exit, shown, NoRecord
  <2>2. \A j \in ids : workOf(j) \in {"held", "working"} /\ workOf(j)' = "ended"
    BY <1>0, <2>1 DEF workOf
  <2>3. \A j \in Ids \ ids : workOf(j)' = workOf(j)
    BY <1>0, <2>1, WorkKept
  <2>4. /\ work' = [j \in Ids |-> IF j \in ids THEN "ended" ELSE work[j]]
        /\ \A j \in ids : work[j] \in {"held", "working"}
    BY <2>2, <2>3 DEF work
  <2> QED
    BY <2>1, <2>4 DEF Promise!Next, Promise!End
<1>10. CASE Boot
  <2>1. UNCHANGED proc /\ \A j \in Ids : disk'[j] = NoRecord <=> disk[j] = NoRecord
    <3>1. PICK saved \in SUBSET {id \in Ids : OnDisk(id)} :
            disk' = [id \in Ids |-> IF id \in saved THEN Reloaded(disk[id]) ELSE disk[id]]
      BY <1>10 DEF Boot
    <3>2. ASSUME NEW j \in saved PROVE Reloaded(disk[j]) # NoRecord /\ disk[j] # NoRecord
      BY <1>0 DEF OnDisk, Reloaded, Records, States, NoRecord
    <3> QED
      BY <1>10, <3>1, <3>2 DEF Boot, children
  <2> QED
    BY <1>0, <2>1, WorkKept, ShowStep
<1> QED
  BY <1>1, <1>2, <1>3, <1>4, <1>5, <1>6, <1>7, <1>8, <1>9, <1>10 DEF Next, Launch

\* Whatever fails, crashes and is asked again, a supervisor works on each id at
\* most once and shows as exited only what has ended.
THEOREM SupervisorIsAWorker == Spec => ImplementsWorker
<1>1. SupInv /\ SupInv' /\ [Next]_vars => [Promise!Next]_<<work, shown>>
  BY WorkerStep
<1> QED
  BY <1>1, WorkerInit, SupInvariant, PTL DEF Spec, ImplementsWorker, Promise!Spec

-----------------------------------------------------------------------------
(* A record that says exited on disk stays so, if no file operation fails *)

\* Once a save of an id, or its record on disk, says exited, so do all that follow:
\* the later saves of its chain and the record in memory, from which the next is taken.
Final(id) ==
  /\ disk[id].state = "exited" =>
       /\ \A i \in DOMAIN saves[id] : saves[id][i].copy.state = "exited"
       /\ up # "down" => rec[id].state = "exited"
  /\ \A i \in DOMAIN saves[id] : saves[id][i].copy.state = "exited" =>
       /\ \A k \in DOMAIN saves[id] : i <= k => saves[id][k].copy.state = "exited"
       /\ rec[id].state = "exited"

LEMMA FinalInit == Init => \A id \in Ids : Final(id)
BY DEF Init, Final, NoRecord

\* A step that leaves the files of an id and its saves alone.
LEMMA FinalStays ==
  ASSUME NEW id \in Ids, Final(id), saves'[id] = saves[id], disk'[id] = disk[id],
         rec[id].state = "exited" => rec'[id].state = "exited", up' # "down" => up # "down"
  PROVE  Final(id)'
BY DEF Final

\* A save that is taken from the record, or of an id that nothing shows as exited.
LEMMA FinalGrows ==
  ASSUME NEW id \in Ids, Final(id), saves[id] \in Seq(Saves), NEW new \in Saves,
         saves'[id] = Append(saves[id], new), disk'[id] = disk[id],
         rec[id].state = "exited" => rec'[id].state = "exited" /\ new.copy.state = "exited",
         new.copy.state = "exited" => rec'[id].state = "exited",
         up # "down"
  PROVE  Final(id)'
<1>1. ASSUME NEW i \in DOMAIN saves'[id]
      PROVE  \/ i \in DOMAIN saves[id] /\ saves'[id][i] = saves[id][i]
             \/ i = Len(saves[id]) + 1 /\ saves'[id][i] = new
  OBVIOUS
<1>2. \A i \in DOMAIN saves[id] : i <= Len(saves[id])
  OBVIOUS
<1> QED
  BY <1>1, <1>2 DEF Final

LEMMA FinalWritten ==
  ASSUME NEW id \in Ids, Final(id), saves[id] \in Seq(Saves), NEW i \in WrittenNext(saves[id]),
         disk'[id] = saves[id][i].copy, saves'[id] = Without(saves[id], i),
         UNCHANGED <<rec, up>>
  PROVE  Final(id)' /\ (disk[id].state = "exited" => disk'[id].state = "exited")
<1> DEFINE rest == Tail(saves[id])
           Exited(save) == save.copy.state = "exited"
<1>1. /\ i = 1 /\ 1 \in DOMAIN saves[id] /\ saves'[id] = rest /\ rest \in Seq(Saves)
      /\ \A k \in DOMAIN rest : k + 1 \in DOMAIN saves[id] /\ k + 1 # 1
                               /\ rest[k] = saves[id][k + 1]
  BY WrittenIsHead, Zenon
<1> HIDE DEF rest
<1>2. ASSUME NEW k \in DOMAIN saves'[id]
      PROVE  k \in Nat /\ 1 <= k + 1 /\ k + 1 \in DOMAIN saves[id] /\ saves'[id][k] = saves[id][k + 1]
  <2>1. k \in Nat
    <3>1. rest \in Seq(Saves) /\ k \in DOMAIN rest
      BY <1>1
    <3>2. DOMAIN rest \subseteq Nat
      BY <3>1
    <3> QED BY <3>1, <3>2
  <2> QED BY <1>1, <2>1
<1>3. Exited(saves[id][1]) =>
        rec[id].state = "exited" /\ \A k \in DOMAIN saves'[id] : Exited(saves'[id][k])
  BY <1>1, <1>2 DEF Final
<1>4. ASSUME NEW k \in DOMAIN saves'[id], Exited(saves'[id][k])
      PROVE  /\ \A l \in DOMAIN saves'[id] : k <= l => Exited(saves'[id][l])
             /\ rec[id].state = "exited"
  <2>1. Exited(saves[id][k + 1]) /\ k + 1 \in DOMAIN saves[id]
    BY <1>2, <1>4
  <2>2. ASSUME NEW l \in DOMAIN saves'[id], k <= l PROVE Exited(saves'[id][l])
    <3>1. k + 1 <= l + 1 /\ l + 1 \in DOMAIN saves[id] /\ saves'[id][l] = saves[id][l + 1]
      BY <1>2, <2>2
    <3> QED BY <2>1, <3>1 DEF Final
  <2> QED BY <2>1, <2>2 DEF Final
<1>5. disk[id].state = "exited" => Exited(saves[id][1])
  BY <1>1 DEF Final
<1> QED
  BY <1>1, <1>3, <1>4, <1>5 DEF Final

\* Before a process of an id has ended, nothing shows it as exited.
LEMMA NothingExited ==
  ASSUME SupInv, SupInv', NEW id \in Ids, proc[id] # "ended", proc'[id] # "ended"
  PROVE  Final(id)' /\ (disk[id].state = "exited" => disk'[id].state = "exited")
BY DEF SupInv, EachId, Truth, Chain, Final

LEMMA FinalNext ==
  ASSUME SupInv, SupInv', \A id \in Ids : Final(id), ~DiskFails, [Next]_vars, NEW j \in Ids
  PROVE  Final(j)' /\ (disk[j].state = "exited" => disk'[j].state = "exited")
<1> DEFINE Goal == Final(j)' /\ (disk[j].state = "exited" => disk'[j].state = "exited")
<1>0. /\ TypeOK /\ Final(j) /\ saves[j] \in Seq(Saves)
      /\ rec[j] \in Records \cup {NoRecord} /\ disk[j] \in Records \cup {NoRecord, BareDir}
  BY DEF SupInv, TypeOK
<1>1. ASSUME saves'[j] = saves[j], disk'[j] = disk[j],
             rec[j].state = "exited" => rec'[j].state = "exited", up' # "down" => up # "down"
      PROVE  Goal
  BY <1>0, <1>1, FinalStays
<1>2. CASE UNCHANGED <<up, rec, disk, saves>>
  BY <1>1, <1>2
<1>3. CASE \/ UNCHANGED vars \/ LaunchCheck \/ LeaseChanges
           \/ \E id \in Ids : Put(id) \/ LaunchFails(id) \/ DeadlinePasses(id) \/ ChildEnds(id)
  BY <1>2, <1>3 DEF vars, LaunchCheck, LeaseChanges, Put, LaunchFails, DeadlinePasses,
     ChildEnds, life
<1>4. ASSUME NEW id \in Ids, LaunchMkdir(id) PROVE Goal
  <2>1. CASE UNCHANGED <<disk, rec, saves>>
    BY <1>2, <1>4, <2>1 DEF LaunchMkdir, life
  <2>2. CASE j # id
    <3>1. saves'[j] = saves[j] /\ disk'[j] = disk[j] /\ rec'[j] = rec[j] /\ up' = up
      BY <1>0, <1>4, <2>2 DEF LaunchMkdir, Save, TypeOK, life
    <3> QED BY <1>1, <3>1
  <2>3. CASE j = id /\ disk[id] = NoRecord
    <3>1. proc[j] = "none"
      BY <2>3 DEF SupInv, EachId, Claim
    <3>2. proc' = proc
      BY <1>4 DEF LaunchMkdir, children
    <3> QED BY <3>1, <3>2, NothingExited
  <2> QED BY <1>4, <2>1, <2>2, <2>3 DEF LaunchMkdir, Fresh
<1>5. ASSUME NEW id \in Ids, LaunchSpawn(id) \/ LaunchError(id) \/ LaunchThrows(id) PROVE Goal
  <2>1. LaunchAt(id, "files") /\ UNCHANGED <<disk, up>>
    BY <1>5 DEF LaunchSpawn, LaunchError, LaunchThrows, life
  <2>2. CASE j # id
    <3>1. saves'[j] = saves[j] /\ rec'[j] = rec[j]
      BY <1>0, <1>5, <2>2 DEF LaunchSpawn, LaunchError, LaunchThrows, Save, TypeOK
    <3> QED BY <1>1, <2>1, <3>1
  <2>3. CASE j = id
    <3>1. proc[j] = "none"
      BY <2>1, <2>3 DEF SupInv, EachId, Claim
    <3>2. proc'[j] \in {"none", "alive", "failed"}
      BY <1>0, <1>5, <2>3, <3>1
      DEF LaunchSpawn, LaunchError, LaunchThrows, TypeOK, children
    <3> QED BY <3>1, <3>2, NothingExited
  <2> QED BY <2>2, <2>3
<1>6. ASSUME NEW id \in Ids, Cancel(id) \/ Timer(id) PROVE Goal
  <2>1. UNCHANGED <<rec, disk, up>> /\ up # "down"
    BY <1>6 DEF Cancel, Timer, life
  <2>2. CASE j # id
    <3>1. saves'[j] = saves[j]
      BY <1>0, <1>6, <2>2 DEF Cancel, Timer, Save, TypeOK
    <3> QED BY <1>1, <2>1, <3>1
  <2>3. CASE j = id
    <3>1. PICK w \in Waiters : saves'[j] = Append(saves[j], [copy |-> rec[j], for |-> w])
      BY <1>0, <1>6, <2>3 DEF Cancel, Timer, Save, TypeOK, Waiters
    <3>2. rec[j] \in Records
      BY <1>0, <1>6, <2>3 DEF Cancel, Timer, Known, SupInv, EachId, Claim
    <3>3. [copy |-> rec[j], for |-> w] \in Saves
      BY <3>2 DEF Saves
    <3> QED BY <1>0, <2>1, <3>1, <3>3, FinalGrows
  <2> QED BY <2>2, <2>3
<1>7. ASSUME NEW id \in Ids, Close(id) PROVE Goal
  <2>1. UNCHANGED <<saves, disk, up>> /\ (rec'[j] = rec[j] \/ rec'[j].state = "exited")
    BY <1>0, <1>7, StateSet DEF Close, States, life
  <2> QED BY <1>1, <2>1
<1>8. ASSUME NEW id \in Ids, CloseRead(id) PROVE Goal
  <2>1. UNCHANGED <<disk, up>> /\ up # "down" /\ id \in reading
    BY <1>8 DEF CloseRead, life
  <2>2. CASE j # id
    <3>1. saves'[j] = saves[j] /\ rec'[j] = rec[j]
      BY <1>0, <1>8, <2>2 DEF CloseRead, Save, TypeOK
    <3> QED BY <1>1, <2>1, <3>1
  <2>3. CASE j = id
    <3> DEFINE r == [rec[j] EXCEPT !.result = "set"]
               new == [copy |-> r, for |-> "nobody"]
    <3>1. rec[j] \in Records
      BY <1>0, <2>1, <2>3 DEF SupInv, EachId, Claim, Known
    <3>2. r \in Records /\ r.state = rec[j].state
      BY <3>1 DEF Records
    <3>3. saves'[j] = Append(saves[j], new) /\ rec'[j] = r
      BY <1>0, <1>8, <2>3 DEF CloseRead, Save, TypeOK
    <3>4. new \in Saves /\ new.copy = r
      BY <3>2 DEF Saves, Waiters
    <3> HIDE DEF new, r
    <3> QED BY <1>0, <2>1, <3>2, <3>3, <3>4, FinalGrows
  <2> QED BY <2>2, <2>3
<1>9. ASSUME NEW id \in Ids, SaveDone(id) PROVE Goal
  <2>1. PICK i \in WrittenNext(saves[id]) :
          /\ disk' = [disk EXCEPT ![id] = saves[id][i].copy]
          /\ saves' = [saves EXCEPT ![id] = Without(@, i)]
    BY <1>9 DEF SaveDone
  <2>2. UNCHANGED <<rec, up>>
    BY <1>9 DEF SaveDone, life
  <2>3. CASE j # id
    BY <1>0, <1>1, <2>1, <2>2, <2>3 DEF TypeOK
  <2>4. CASE j = id
    <3>1. disk'[j] = saves[j][i].copy /\ saves'[j] = Without(saves[j], i)
      BY <1>0, <2>1, <2>4 DEF TypeOK
    <3> QED BY <1>0, <2>1, <2>2, <2>4, <3>1, FinalWritten
  <2> QED BY <2>3, <2>4
<1>10. ASSUME NEW id \in Ids, SaveFails(id) PROVE Goal
  BY <1>10 DEF SaveFails
<1>11. CASE Sigterm
  <2>1. UNCHANGED <<rec, disk>> /\ up = "up" /\ up' = "stopping"
    BY <1>11 DEF Sigterm
  <2>2. CASE ~Known(j)
    <3>1. saves'[j] = saves[j]
      BY <1>11, <2>2 DEF Sigterm
    <3> QED BY <1>1, <2>1, <3>1
  <2>3. CASE Known(j)
    <3>1. saves'[j] = Append(saves[j], [copy |-> rec[j], for |-> "kill"])
      BY <1>11, <2>3 DEF Sigterm
    <3>2. [copy |-> rec[j], for |-> "kill"] \in Saves
      BY <1>0, <2>3 DEF Saves, Waiters, Known
    <3> QED BY <1>0, <2>1, <3>1, <3>2, FinalGrows
  <2> QED BY <2>2, <2>3
<1>12. CASE Exit
  BY <1>12 DEF Exit, Final
<1>13. CASE Boot
  <2>1. PICK read \in SUBSET {id \in Ids : OnDisk(id)} : \E saved \in SUBSET read :
          /\ saved = {id \in Ids : OnDisk(id)}
          /\ rec' = [id \in Ids |-> IF id \in read THEN Reloaded(disk[id]) ELSE NoRecord]
          /\ disk' = [id \in Ids |-> IF id \in saved THEN Reloaded(disk[id]) ELSE disk[id]]
    BY <1>13 DEF Boot
  <2>2. OnDisk(j) => rec'[j] = Reloaded(disk[j]) /\ disk'[j] = Reloaded(disk[j])
    BY <2>1
  <2>3. ~OnDisk(j) => disk'[j] = disk[j] /\ disk[j].state # "exited"
    BY <2>1 DEF OnDisk, NoRecord, BareDir
  <2>4. saves'[j] = <<>>
    BY <1>13 DEF Boot, SupInv, Down
  <2>5. disk[j].state = "exited" => Reloaded(disk[j]).state = "exited"
    BY DEF Reloaded
  <2> QED BY <2>2, <2>3, <2>4, <2>5 DEF Final
<1> QED
  BY <1>3, <1>4, <1>5, <1>6, <1>7, <1>8, <1>9, <1>10, <1>11, <1>12, <1>13 DEF Next, Launch

\* When every file operation succeeds, status.json never takes back that a process
\* has exited: saves are chained, each is taken from the record, which an exit ends,
\* and a restart keeps it (save(), close and boot, supervisor.mjs).
THEOREM ExitedIsFinal == ASSUME ~DiskFails PROVE Spec => StatusIsFinal
<1> DEFINE AllFinal == \A id \in Ids : Final(id)
           Keeps == \A id \in Ids : disk[id].state = "exited" => disk'[id].state = "exited"
<1>1. SupInv /\ AllFinal /\ [Next]_vars => AllFinal' /\ Keeps
  BY FinalNext, NextSup
<1>2. Init => AllFinal
  BY FinalInit
<1>3. Spec => []SupInv
  BY SupInvariant
<1> HIDE DEF AllFinal
<1> QED
  BY <1>1, <1>2, <1>3, PTL DEF Spec, StatusIsFinal
=============================================================================
