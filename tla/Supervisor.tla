----------------------------- MODULE Supervisor -----------------------------
(***************************************************************************)
(* The supervisor of one container of a Task Pod (supervisor.mjs): it     *)
(* launches a child process per id it is asked for, once, cancels it, and *)
(* keeps a record per id in memory and, in status.json, on a volume that  *)
(* outlives it.  It is one thread: what happens between two awaits of a   *)
(* handler is one action here, and every await is a place where cancels,  *)
(* the lease, timers, the child's end or a crash may come in between.     *)
(*                                                                        *)
(* Launches are serialized.  The saves of one id are chained, so each is  *)
(* an entry of a queue, written in order, and says who waits for it.      *)
(* Request bodies, of which an id has one, pids, digests and replies      *)
(* carry no state; a child stands for its process group.                  *)
(***************************************************************************)
EXTENDS Naturals, Sequences, FiniteSets

CONSTANTS
  Ids,          \* the ids asked for
  MaxQueue,     \* bound: how many launches may wait for the one under way
  MaxRestarts,  \* bound: how often the supervisor may be started again
  DiskFails     \* may mkdir, open, read and write fail?

ASSUME SupervisorAssumption ==
  /\ MaxQueue \in Nat \ {0} /\ MaxRestarts \in Nat /\ DiskFails \in BOOLEAN
  /\ "none" \notin Ids

VARIABLES
  up,         \* "up", "stopping" after SIGTERM, "down"
  restarts,   \* how often it was started again
  rec,        \* entries, per id: the record in memory
  cancelled,  \* ids whose record has cancel_requested
  disk,       \* per id: no directory, a directory without status.json, or it
  saves,      \* per id: the saves under way, oldest first
  queue,      \* launches that wait for their turn
  launch,     \* the launch under way and where it is
  proc,       \* per id: the process started for it, ghost
  child,      \* ids whose entry has a child (e.child)
  signalled,  \* ids whose child was sent SIGTERM, with SIGKILL to follow
  reading,    \* ids whose close handler is reading the child's output
  overdue,    \* ids whose deadline has passed
  lease       \* Date.now() < leaseUntil

vars == <<up, restarts, rec, cancelled, disk, saves, queue, launch, proc, child,
          signalled, reading, overdue, lease>>

States  == {"registered", "running", "exited", "unknown"}
Records == [state : States, result : {"none", "set"}]   \* result: record.result

NoRecord == [state |-> "none", result |-> "none"]
BareDir  == [state |-> "dir", result |-> "none"]

\* Who awaits a save: launch() before the spawn, after it, or after a failure;
\* a cancel by request, or by timer or signal; or nobody.
Waiters == {"launch", "spawned", "failed", "cancel", "kill", "nobody"}
Saves   == [copy : Records, for : Waiters]

NoLaunch == [id |-> "none", at |-> "none"]

TypeOK ==
  /\ up \in {"up", "stopping", "down"}
  /\ restarts \in 0..MaxRestarts
  /\ rec \in [Ids -> Records \cup {NoRecord}]
  /\ cancelled \in SUBSET Ids
  /\ disk \in [Ids -> Records \cup {NoRecord, BareDir}]
  /\ saves \in [Ids -> Seq(Saves)]
  /\ queue \in Seq(Ids) /\ Len(queue) <= MaxQueue
  /\ launch \in [id : Ids, at : {"mkdir", "save", "files", "started"}] \cup {NoLaunch}
  /\ proc \in [Ids -> {"none", "alive", "failed", "ended"}]
  /\ child \in SUBSET Ids /\ signalled \in SUBSET Ids
  /\ reading \in SUBSET Ids /\ overdue \in SUBSET Ids
  /\ lease \in BOOLEAN

Init ==
  /\ up = "up" /\ restarts = 0
  /\ rec = [id \in Ids |-> NoRecord]
  /\ cancelled = {}
  /\ disk = [id \in Ids |-> NoRecord]
  /\ saves = [id \in Ids |-> <<>>]
  /\ queue = <<>> /\ launch = NoLaunch
  /\ proc = [id \in Ids |-> "none"]
  /\ child = {} /\ signalled = {} /\ reading = {} /\ overdue = {}
  /\ lease = FALSE

-----------------------------------------------------------------------------
(* Helpers *)

Known(id)  == rec[id] # NoRecord
OnDisk(id) == disk[id] \notin {NoRecord, BareDir}

\* save(): a copy of the record as it is now joins the chain of its id.
Save(id, record, waiter) ==
  saves' = [saves EXCEPT ![id] = Append(@, [copy |-> record, for |-> waiter])]

LaunchAt(id, place) == launch = [id |-> id, at |-> place]

life     == <<up, restarts>>
children == <<proc, child, signalled, reading>>

-----------------------------------------------------------------------------
(* PUT: launch() *)

Put(id) ==
  /\ up = "up" /\ Len(queue) < MaxQueue
  /\ queue' = Append(queue, id)
  /\ UNCHANGED <<life, rec, cancelled, disk, saves, launch, children, overdue, lease>>

\* launch() up to its first await.  An id that is known is answered from its
\* record; without a lease, or with a request that is wrong or too late, a new
\* one is refused.
LaunchCheck ==
  /\ up # "down" /\ launch = NoLaunch /\ queue # <<>>
  /\ queue' = Tail(queue)
  /\ \/ UNCHANGED launch
     \/ /\ ~Known(Head(queue)) /\ lease
        /\ launch' = [id |-> Head(queue), at |-> "mkdir"]
  /\ UNCHANGED <<life, rec, cancelled, disk, saves, children, overdue, lease>>

\* Fault: mkdir with `recursive`, which takes over what is there.
FreshOrLeft(id) == TRUE

\* mkdir without `recursive` is refused when the directory exists.
Fresh(id) == disk[id] = NoRecord

AfterMkdir == "save"

\* The directory is this id's claim: whoever made it launches it, now or never.
LaunchMkdir(id) ==
  /\ LaunchAt(id, "mkdir")
  /\ \/ /\ Fresh(id)
        /\ disk' = [disk EXCEPT ![id] = BareDir]
        /\ rec' = [rec EXCEPT ![id] = [state |-> "registered", result |-> "none"]]
        /\ cancelled' = cancelled \ {id}
        /\ overdue' = overdue \ {id}
        /\ Save(id, [state |-> "registered", result |-> "none"], "launch")
        /\ launch' = [launch EXCEPT !.at = AfterMkdir]
     \/ /\ ~Fresh(id) \/ DiskFails
        /\ launch' = NoLaunch
        /\ UNCHANGED <<disk, rec, cancelled, overdue, saves>>
  /\ UNCHANGED <<life, queue, children, lease>>

\* The child's files have been written and opened, and it is started.
LaunchSpawn(id) ==
  /\ LaunchAt(id, "files")
  /\ proc' = [proc EXCEPT ![id] = "alive"]
  /\ child' = child \cup {id}
  /\ rec' = [rec EXCEPT ![id].state = "running"]
  /\ Save(id, [rec[id] EXCEPT !.state = "running"], "spawned")
  /\ launch' = [launch EXCEPT !.at = "started"]
  /\ UNCHANGED <<life, cancelled, disk, queue, signalled, reading, overdue, lease>>

\* It cannot be started: there is a child object but no process, and before
\* anything else its error event has shown that as unknown.
LaunchError(id) ==
  /\ LaunchAt(id, "files")
  /\ proc' = [proc EXCEPT ![id] = "failed"]
  /\ child' = child \cup {id}
  /\ rec' = [rec EXCEPT ![id].state = "unknown"]
  /\ saves' = [saves EXCEPT ![id] = @ \o
                 << [copy |-> [rec[id] EXCEPT !.state = "running"], for |-> "spawned"],
                    [copy |-> [rec[id] EXCEPT !.state = "unknown"], for |-> "nobody"] >>]
  /\ launch' = [launch EXCEPT !.at = "started"]
  /\ UNCHANGED <<life, cancelled, disk, queue, signalled, reading, overdue, lease>>

\* spawn() throws, and there is no child object either.
LaunchThrows(id) ==
  /\ LaunchAt(id, "files")
  /\ rec' = [rec EXCEPT ![id].state = "unknown"]
  /\ Save(id, [rec[id] EXCEPT !.state = "unknown"], "failed")
  /\ launch' = [launch EXCEPT !.at = "started"]
  /\ UNCHANGED <<life, cancelled, disk, queue, children, overdue, lease>>

\* When the files cannot be written the entry is left as it is: registered.
LaunchFails(id) ==
  /\ LaunchAt(id, "files") /\ DiskFails
  /\ launch' = NoLaunch
  /\ UNCHANGED <<life, rec, cancelled, disk, saves, queue, children, overdue, lease>>

-----------------------------------------------------------------------------
(* Cancel, timers, and the end of a child *)

\* cancel() up to its await.  At most one request to cancel an id waits at a time.
Cancel(id) ==
  /\ up = "up" /\ Known(id)
  /\ \A i \in 1..Len(saves[id]) : saves[id][i].for # "cancel"
  /\ cancelled' = cancelled \cup {id}
  /\ Save(id, rec[id], "cancel")
  /\ UNCHANGED <<life, rec, disk, queue, launch, children, overdue, lease>>

\* Fault: only the lease is looked at.
MustStopByLease(id) == ~lease

\* The lease or the child's own deadline has run out.
MustStop(id) == ~lease \/ id \in overdue

\* Every 250 ms: a child that must stop is cancelled, unless it was before.
Timer(id) ==
  /\ up # "down" /\ id \in child \ cancelled
  /\ MustStop(id)
  /\ cancelled' = cancelled \cup {id}
  /\ Save(id, rec[id], "kill")
  /\ UNCHANGED <<life, rec, disk, queue, launch, children, overdue, lease>>

\* A child ends by itself or is killed.
ChildEnds(id) ==
  /\ proc[id] = "alive"
  /\ proc' = [proc EXCEPT ![id] = "ended"]
  /\ UNCHANGED <<life, rec, cancelled, disk, saves, queue, launch, child, signalled,
                 reading, overdue, lease>>

\* Fault: the record shows the exit when the kill was sent.
ExitSeenWhenSignalled(id) == proc[id] # "alive" \/ id \in signalled

ExitSeen(id) == proc[id] # "alive"

\* The close event up to its await.
Close(id) ==
  /\ up # "down" /\ id \in child /\ ExitSeen(id)
  /\ child' = child \ {id}
  /\ proc' = [proc EXCEPT ![id] = IF @ = "failed" THEN "ended" ELSE @]
  /\ rec' = [rec EXCEPT ![id].state = "exited"]
  /\ signalled' = signalled \ {id}
  /\ reading' = reading \cup {id}
  /\ UNCHANGED <<life, cancelled, disk, saves, queue, launch, overdue, lease>>

\* Its output has been read: the result is set and everything saved.
CloseRead(id) ==
  /\ up # "down" /\ id \in reading
  /\ reading' = reading \ {id}
  /\ rec' = [rec EXCEPT ![id].result = "set"]
  /\ Save(id, [rec[id] EXCEPT !.result = "set"], "nobody")
  /\ UNCHANGED <<life, cancelled, disk, queue, launch, proc, child, signalled, overdue,
                 lease>>

-----------------------------------------------------------------------------
(* Saves *)

\* Fault: saves of one id are not chained.
WrittenNextOfAny(chain) == DOMAIN chain

\* Which save of a chain is written next: the oldest.
WrittenNext(chain) == {1} \cap DOMAIN chain

Without(chain, i) == SubSeq(chain, 1, i - 1) \o SubSeq(chain, i + 1, Len(chain))

\* Fault: whatever save ends, the launch takes it for its own.
GoesOnAnyway(waiter) == IF waiter = "spawned" THEN NoLaunch ELSE [launch EXCEPT !.at = "files"]

\* Where the launch is when the save that `waiter` awaits is done.
GoesOn(waiter) ==
  CASE waiter = "launch" -> [launch EXCEPT !.at = "files"]
    [] waiter \in {"spawned", "failed"} -> NoLaunch
    [] OTHER -> launch

\* A save of an id is on disk, and whoever awaited it goes on: a cancel sends
\* SIGTERM if there is a child by now.
SaveDone(id) ==
  /\ up # "down"
  /\ \E i \in WrittenNext(saves[id]) :
       LET done == saves[id][i]
       IN /\ disk' = [disk EXCEPT ![id] = done.copy]
          /\ signalled' = IF done.for \in {"cancel", "kill"} THEN signalled \cup ({id} \cap child)
                          ELSE signalled
          /\ launch' = GoesOn(done.for)
          /\ saves' = [saves EXCEPT ![id] = Without(@, i)]
  /\ UNCHANGED <<life, rec, cancelled, queue, proc, child, reading, overdue, lease>>

\* A save of an id fails.  A launch gives up, leaving the entry; once it has
\* spawned it first shows the id as unknown and saves that; a cancel by request
\* does not get to its signal.  A failure that nobody handles ends the process.
SaveFails(id) ==
  /\ DiskFails /\ up # "down"
  /\ \E i \in WrittenNext(saves[id]) :
       LET rest == Without(saves[id], i) IN
       \/ /\ saves[id][i].for \in {"launch", "failed"}
          /\ launch' = NoLaunch
          /\ saves' = [saves EXCEPT ![id] = rest]
          /\ UNCHANGED rec
       \/ /\ saves[id][i].for = "spawned"
          /\ rec' = [rec EXCEPT ![id].state = "unknown"]
          /\ saves' = [saves EXCEPT ![id] =
                         Append(rest, [copy |-> [rec[id] EXCEPT !.state = "unknown"],
                                       for |-> "failed"])]
          /\ UNCHANGED launch
       \/ /\ saves[id][i].for = "cancel"
          /\ saves' = [saves EXCEPT ![id] = rest]
          /\ UNCHANGED <<rec, launch>>
  /\ UNCHANGED <<life, cancelled, disk, queue, children, overdue, lease>>

-----------------------------------------------------------------------------
(* Time: the lease is granted for at most 15 s, and a run has a deadline *)

LeaseChanges ==
  /\ up # "down"
  /\ lease' = ~lease
  /\ UNCHANGED <<life, rec, cancelled, disk, saves, queue, launch, children, overdue>>

DeadlinePasses(id) ==
  /\ Known(id) /\ id \notin overdue
  /\ overdue' = overdue \cup {id}
  /\ UNCHANGED <<life, rec, cancelled, disk, saves, queue, launch, children, lease>>

-----------------------------------------------------------------------------
(* SIGTERM, the end of the process, and its next start *)

\* No new requests; every entry is cancelled; the process ends 5.5 s later.
Sigterm ==
  /\ up = "up"
  /\ up' = "stopping"
  /\ lease' = FALSE
  /\ cancelled' = cancelled \cup {id \in Ids : Known(id)}
  /\ saves' = [id \in Ids |-> IF Known(id)
                              THEN Append(saves[id], [copy |-> rec[id], for |-> "kill"])
                              ELSE saves[id]]
  /\ UNCHANGED <<restarts, rec, disk, queue, launch, children, overdue>>

\* The container ends and its processes with it, at any moment.  An id whose
\* directory exists will not be launched again: its work has ended.
Exit ==
  /\ up # "down"
  /\ up' = "down"
  /\ rec' = [id \in Ids |-> NoRecord]
  /\ saves' = [id \in Ids |-> <<>>]
  /\ queue' = <<>> /\ launch' = NoLaunch
  /\ proc' = [id \in Ids |-> IF disk[id] = NoRecord THEN proc[id] ELSE "ended"]
  /\ cancelled' = {} /\ child' = {} /\ signalled' = {} /\ reading' = {} /\ overdue' = {}
  /\ lease' = FALSE
  /\ UNCHANGED <<restarts, disk>>

\* What a record says after a restart: exited, or else unknown.
Reloaded(r) == IF r.state = "exited" THEN r ELSE [r EXCEPT !.state = "unknown"]

\* Every readable record is loaded, and saved back, before requests are taken.
\* Whether a cancel was requested is loaded too, but there is no child to cancel.
Boot ==
  /\ up = "down" /\ restarts < MaxRestarts
  /\ up' = "up"
  /\ restarts' = restarts + 1
  /\ \E read \in SUBSET {id \in Ids : OnDisk(id)} : \E saved \in SUBSET read :
       /\ DiskFails \/ saved = {id \in Ids : OnDisk(id)}
       /\ rec' = [id \in Ids |-> IF id \in read THEN Reloaded(disk[id]) ELSE NoRecord]
       /\ disk' = [id \in Ids |-> IF id \in saved THEN Reloaded(disk[id]) ELSE disk[id]]
  /\ UNCHANGED <<cancelled, saves, queue, launch, children, overdue, lease>>

-----------------------------------------------------------------------------
Launch ==
  \/ LaunchCheck
  \/ \E id \in Ids : \/ LaunchMkdir(id) \/ LaunchSpawn(id) \/ LaunchError(id)
                     \/ LaunchThrows(id) \/ LaunchFails(id)

Next ==
  \/ Launch
  \/ \E id \in Ids : \/ Put(id) \/ Cancel(id) \/ Timer(id) \/ DeadlinePasses(id)
                     \/ ChildEnds(id) \/ Close(id) \/ CloseRead(id)
                     \/ SaveDone(id) \/ SaveFails(id)
  \/ LeaseChanges \/ Sigterm \/ Exit \/ Boot

Spec == Init /\ [][Next]_vars

\* The event loop serves every handler, timer and completed file operation; a
\* signalled child ends (SIGKILL cannot be ignored), and so does the process
\* 5.5 s after SIGTERM.
Fairness ==
  /\ WF_vars(Launch)
  /\ \A id \in Ids :
       /\ WF_vars(SaveDone(id)) /\ WF_vars(Timer(id)) /\ WF_vars(DeadlinePasses(id))
       /\ WF_vars(id \in signalled /\ ChildEnds(id))
       /\ WF_vars(Close(id)) /\ WF_vars(CloseRead(id))
  /\ WF_vars(up = "stopping" /\ Exit)

FairSpec == Spec /\ Fairness

-----------------------------------------------------------------------------
(* Properties *)

\* Write-ahead: by the time a child was spawned for an id, a record of the id is
\* on disk, so that a restart shows it as unknown and not as never heard of
\* (`await save(r)` in launch() and EEXIST in mkdir).
RecordedBeforeSpawn == \A id \in Ids : proc[id] \in {"alive", "failed"} => OnDisk(id)

\* An id is worked on at most once, across repeated PUTs, failures, crashes and
\* restarts, and is shown as exited only once its child has ended (README of the
\* task workers: "never rerun", "Only actual child close produces exited").
workOf(id) ==
  CASE disk[id] = NoRecord -> "new"
    [] disk[id] # NoRecord /\ proc[id] \in {"none", "failed"} -> "held"
    [] disk[id] # NoRecord /\ proc[id] = "alive" -> "working"
    [] disk[id] # NoRecord /\ proc[id] = "ended" -> "ended"

work  == [id \in Ids |-> workOf(id)]
shown == {id \in Ids : rec[id].state = "exited"}

Promise == INSTANCE Worker

ImplementsWorker == Promise!Spec

\* Once status.json says exited it never says anything else again, although
\* launch(), cancel(), timers and the close handler all save copies of the record
\* they took earlier (the chain in save(), and `r.state!=='exited'` on restart).
StatusIsFinal ==
  [][\A id \in Ids : disk[id].state = "exited" => disk'[id].state = "exited"]_vars

\* A child that was not cancelled when it was spawned does not outlive its lease
\* or deadline: it ends, whatever is asked for meanwhile (timer and cancel()).
ChildrenAreStopped ==
  \A id \in Ids : (proc[id] = "alive" /\ id \notin cancelled) ~> proc[id] # "alive"

\* "expiry denies new work and stops children" (README of the task workers): no
\* child runs on for ever after its deadline.  It fails for a child that was
\* cancelled before it was spawned: cancel() found no child to signal, and the
\* timer skips what was cancelled.
ExpiryStopsChildren ==
  \A id \in Ids : (proc[id] = "alive" /\ id \in overdue) ~> proc[id] # "alive"

\* "Kali adds result: {ok,...} or {ok:false,error}" (README of the task workers):
\* a record that says exited has its result.  It fails while the close handler
\* reads the output.
ExitedHasResult == \A id \in Ids : rec[id].state = "exited" => rec[id].result = "set"
=============================================================================
