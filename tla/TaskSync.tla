------------------------------- MODULE TaskSync -------------------------------
(***************************************************************************)
(* How the page of a task follows it (TaskDetail in tasks.tsx): a first   *)
(* load, then a timer that reads the events after the cursor, a page at a *)
(* time, and a new snapshot if they go beyond the one that is shown.      *)
(*                                                                        *)
(* Each change of a task gives it the next version and one event of that  *)
(* number, and a snapshot's cursor stands at its version.  Requests are   *)
(* answered some time after they are sent and taken notice of some time   *)
(* after that; they may fail instead.  The tab is hidden and shown.       *)
(*                                                                        *)
(* Its names leave those of PendingCommand free, the other half of the    *)
(* page, which TaskPageProofs extends as well.                            *)
(***************************************************************************)
EXTENDS Naturals

CONSTANTS
  PageSize,     \* events of a page
  MaxPages,     \* pages read in one go
  MaxVersion,   \* bound: the last version, with which the task is terminal
  MaxTrouble    \* bound: failures, changes of visibility and reloads

ASSUME TaskSyncAssumption ==
  /\ PageSize \in Nat \ {0} /\ MaxPages \in Nat \ {0}
  /\ MaxVersion \in Nat \ {0} /\ MaxTrouble \in Nat

VARIABLES
  version,   \* of the task, on the server
  hidden,    \* document.hidden
  shown,     \* version of the snapshot on the page, 0 without one
  latest,    \* latestVersion
  events,    \* the events on the page
  cursor,    \* the event behind which the next poll starts
  first,     \* the initial load: see Idle
  poll,      \* cycle, the re-synchronisation or the load on becoming visible
  holder,    \* whose controller is the current one: "first" or "poll"
  timer,     \* a poll is scheduled
  failures,  \* transientFailures
  paused,    \* polling waits for the user, who is told
  loadError, \* "none", "error" or "gone"
  trouble    \* bound

page == <<shown, latest, events, cursor>>
ops == <<first, poll, holder>>
control == <<timer, failures, paused, loadError>>
pageVars == <<version, hidden, page, ops, control, trouble>>

Operations == {"initialize", "visible", "cycle", "resync"}

\* What an operation waits for, the version its first snapshot had, where it
\* started to read events, how far it got and in how many pages, and the
\* version that the server answered at (0 while there is no answer).
Operation == [kind : Operations, at : {"idle", "snapshot", "events", "refresh"},
              base : 0..MaxVersion, from : 0..MaxVersion, upto : 0..MaxVersion,
              pages : 0..MaxPages, answer : 0..MaxVersion]

Waiting(kind, at, base, from) ==
  [kind |-> kind, at |-> at, base |-> base, from |-> from, upto |-> from,
   pages |-> 0, answer |-> 0]

Idle == Waiting("cycle", "idle", 0, 0)

PageTypeOK ==
  /\ version \in 1..MaxVersion
  /\ hidden \in BOOLEAN
  /\ shown \in 0..MaxVersion /\ latest \in 0..MaxVersion
  /\ events \subseteq 1..MaxVersion
  /\ cursor \in 0..MaxVersion
  /\ first \in Operation /\ poll \in Operation
  /\ first.at # "idle" => first.kind = "initialize"
  /\ poll.kind # "initialize"
  /\ holder \in {"first", "poll"}
  /\ timer \in BOOLEAN /\ paused \in BOOLEAN
  /\ failures \in 0..3
  /\ loadError \in {"none", "error", "gone"}
  /\ trouble \in 0..MaxTrouble

PageInit ==
  /\ version = 1
  /\ hidden \in BOOLEAN
  /\ shown = 0 /\ latest = 0 /\ events = {} /\ cursor = 0
  /\ first = Waiting("initialize", "snapshot", 0, 0)
  /\ poll = Idle
  /\ holder = "first"
  /\ timer = FALSE /\ failures = 0 /\ paused = FALSE /\ loadError = "none"
  /\ trouble = 0

Operating(o) == IF o = "first" THEN first ELSE poll

\* Operation o goes on as next.
Becomes(o, next) ==
  /\ first' = IF o = "first" THEN next ELSE first
  /\ poll' = IF o = "poll" THEN next ELSE poll

Trouble == trouble < MaxTrouble /\ trouble' = trouble + 1

\* Fault: whatever arrives is shown.
acceptAnySnapshot(v) == shown' = v /\ latest' = v

acceptSnapshot(v) ==
  IF v < latest THEN UNCHANGED <<shown, latest>> ELSE shown' = v /\ latest' = v

\* Not while hidden, while paused, or once a terminal task was seen.
schedule(isPaused) == timer' = (~hidden /\ ~isPaused /\ latest' # MaxVersion)

-----------------------------------------------------------------------------
(* The server *)

Change ==
  /\ version < MaxVersion
  /\ version' = version + 1
  /\ UNCHANGED <<hidden, page, ops, control, trouble>>

Serve(o) ==
  /\ Operating(o).at # "idle" /\ Operating(o).answer = 0
  /\ Becomes(o, [Operating(o) EXCEPT !.answer = version])
  /\ UNCHANGED <<version, hidden, page, holder, control, trouble>>

-----------------------------------------------------------------------------
(* Replies *)

\* The cursor an operation leaves: where it stopped reading, or that of the
\* snapshot it started with.
NextCursor(op) == IF op.kind = "cycle" THEN op.upto ELSE op.base

\* Fault: the cursor moves even for an operation that was superseded.
FinishSuperseded(o, op) ==
  /\ Becomes(o, Idle)
  /\ events' = IF holder = o THEN events \cup (op.from + 1)..op.upto ELSE events
  /\ cursor' = NextCursor(op)
  /\ IF holder = o THEN failures' = 0 /\ paused' = FALSE /\ schedule(FALSE)
                   ELSE UNCHANGED <<failures, paused, timer>>

\* Everything was read: it counts if nothing else has taken over.
Finish(o, op) ==
  /\ Becomes(o, Idle)
  /\ IF holder = o
     THEN /\ events' = events \cup (op.from + 1)..op.upto
          /\ cursor' = NextCursor(op)
          /\ failures' = 0 /\ paused' = FALSE
          /\ schedule(FALSE)
     ELSE UNCHANGED <<events, cursor, failures, paused, timer>>

\* The snapshot an operation begins with.
FirstSnapshot(o) ==
  LET op == Operating(o) IN
  /\ op.at = "snapshot" /\ op.answer > 0
  /\ acceptSnapshot(op.answer)
  /\ IF op.kind = "visible"
     THEN /\ Becomes(o, Waiting("cycle", "events", 0, cursor))
          /\ failures' = 0 /\ paused' = FALSE
     ELSE /\ Becomes(o, Waiting(op.kind, "events", op.answer, 0))
          /\ UNCHANGED <<failures, paused>>
  /\ UNCHANGED <<version, hidden, events, cursor, holder, timer, loadError, trouble>>

\* What the events that were read are compared with.
Known(op) == IF op.kind = "cycle" THEN latest ELSE op.base

\* Fault: one page more than is meant.
OneMore(pages) == pages <= MaxPages

\* Another page is read.
GoesOn(pages) == pages < MaxPages

EventPage(o) ==
  LET op == Operating(o)
      end == IF op.upto + PageSize < op.answer THEN op.upto + PageSize
             ELSE IF op.upto < op.answer THEN op.answer ELSE op.upto
      read == [op EXCEPT !.upto = end, !.pages = @ + 1, !.answer = 0] IN
  /\ op.at = "events" /\ op.answer > 0
  /\ UNCHANGED <<version, hidden, shown, latest, holder, loadError, trouble>>
  /\ IF end < op.answer /\ GoesOn(read.pages)
     THEN Becomes(o, read) /\ UNCHANGED <<events, cursor, timer, failures, paused>>
     ELSE IF end > op.from /\ end > Known(op)
     THEN /\ Becomes(o, [read EXCEPT !.at = "refresh"])
          /\ UNCHANGED <<events, cursor, timer, failures, paused>>
     ELSE Finish(o, read)

\* The snapshot that events beyond the one shown call for.
Refresh(o) ==
  /\ Operating(o).at = "refresh" /\ Operating(o).answer > 0
  /\ acceptSnapshot(Operating(o).answer)
  /\ Finish(o, Operating(o))
  /\ UNCHANGED <<version, hidden, holder, loadError, trouble>>

-----------------------------------------------------------------------------
(* Failures *)

\* The initial load leaves it to the user, if it is still the one that counts.
LoadFails(error) ==
  /\ first.at # "idle" /\ Trouble
  /\ first' = Idle
  /\ loadError' = IF holder = "first" THEN error ELSE loadError
  /\ UNCHANGED <<version, hidden, page, poll, holder, timer, failures, paused>>

\* handleFailure: a cursor that is no longer valid,
Expired ==
  /\ poll.at = "events" /\ Trouble
  /\ poll' = Waiting("resync", "snapshot", 0, 0)
  /\ UNCHANGED <<version, hidden, page, first, holder, control>>

\* a task that is not to be seen any more,
Gone ==
  /\ poll.at # "idle" /\ Trouble
  /\ poll' = Idle
  /\ loadError' = "gone" /\ shown' = 0 /\ timer' = FALSE
  /\ UNCHANGED <<version, hidden, latest, events, cursor, first, holder, failures, paused>>

\* an answer that another try will not change,
Refused ==
  /\ poll.at # "idle" /\ Trouble
  /\ poll' = Idle /\ paused' = TRUE
  /\ UNCHANGED <<version, hidden, page, first, holder, timer, failures, loadError>>

\* Fault: the third failure is passed over in silence.
TransientUntold ==
  /\ poll.at # "idle" /\ Trouble
  /\ poll' = Idle
  /\ failures' = IF failures < 3 THEN failures + 1 ELSE failures
  /\ UNCHANGED <<shown, latest, paused>> /\ schedule(paused \/ failures' = 3)
  /\ UNCHANGED <<version, hidden, events, cursor, first, holder, loadError>>

\* or no answer: again later, at most twice.
Transient ==
  /\ poll.at # "idle" /\ Trouble
  /\ poll' = Idle
  /\ failures' = IF failures < 3 THEN failures + 1 ELSE failures
  /\ paused' = (paused \/ failures' = 3)
  /\ UNCHANGED <<shown, latest>> /\ schedule(paused')
  /\ UNCHANGED <<version, hidden, events, cursor, first, holder, loadError>>

-----------------------------------------------------------------------------
(* The timer, the tab and the user *)

Tick ==
  /\ timer /\ timer' = FALSE
  /\ poll' = Waiting("cycle", "events", 0, cursor) /\ holder' = "poll"
  /\ UNCHANGED <<version, hidden, page, first, failures, paused, loadError, trouble>>

\* The current operation is aborted and says nothing, except a resync, which
\* takes it for a refusal.
Hide ==
  /\ ~hidden /\ Trouble
  /\ hidden' = TRUE /\ timer' = FALSE
  /\ Becomes(holder, Idle)
  /\ paused' = (paused \/ (holder = "poll" /\ poll.at # "idle" /\ poll.kind = "resync"))
  /\ UNCHANGED <<version, page, holder, failures, loadError>>

\* An initial load that began while hidden goes on beside this.
Show ==
  /\ hidden /\ Trouble
  /\ hidden' = FALSE
  /\ poll' = Waiting("visible", "snapshot", 0, 0) /\ holder' = "poll"
  /\ UNCHANGED <<version, page, first, control>>

\* The user asks for it, or a command of his has been accepted: all over again.
Resynchronize ==
  /\ Trouble
  /\ first' = Waiting("initialize", "snapshot", 0, 0) /\ poll' = Idle
  /\ holder' = "first" /\ timer' = FALSE
  /\ cursor' = 0 /\ failures' = 0 /\ paused' = FALSE /\ loadError' = "none"
  /\ UNCHANGED <<version, hidden, shown, latest, events>>

-----------------------------------------------------------------------------

Replies(o) == FirstSnapshot(o) \/ EventPage(o) \/ Refresh(o)

PageNext ==
  \/ Change
  \/ \E o \in {"first", "poll"} : Serve(o) \/ Replies(o)
  \/ \E error \in {"error", "gone"} : LoadFails(error)
  \/ Expired \/ Gone \/ Refused \/ Transient
  \/ Tick \/ Hide \/ Show \/ Resynchronize

PageSpec == PageInit /\ [][PageNext]_pageVars

\* Requests are answered and replies taken notice of; timers fire.
Fairness ==
  /\ \A o \in {"first", "poll"} : WF_pageVars(Serve(o)) /\ WF_pageVars(Replies(o))
  /\ WF_pageVars(Tick)

FairPageSpec == PageSpec /\ Fairness

-----------------------------------------------------------------------------
(* Properties *)

\* A slow reply never takes the page back to an earlier state of the task.
NeverGoesBack == [][shown' >= shown \/ loadError' = "gone"]_pageVars

\* What the cursor has passed and a first read can reach is on the page.
CursorIsEarned ==
  \A e \in 1..cursor : e <= PageSize * MaxPages => e \in events

\* All that the cursor has passed is on the page.  The code breaks this: the
\* cursor of the snapshot is taken over however much of the history was read.
NoEventIsSkipped == 1..cursor \subseteq events

\* The page catches up with the task whenever it is left alone, or tells the
\* user that it does not.
CatchesUp == []<>(hidden \/ shown = version \/ paused \/ loadError # "none")
=============================================================================
