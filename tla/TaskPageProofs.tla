--------------------------- MODULE TaskPageProofs ---------------------------
(***************************************************************************)
(* The page of a task.  First PendingCommand for any users and commands:   *)
(* what the tab keeps belongs to an open command of its user, and the      *)
(* pages keep the promise of Submission.  Then TaskSync for any sizes:     *)
(* what is shown only gets newer, and the cursor passes nothing within the *)
(* reach of a first read that is not on the page.  The two share no state, *)
(* and each theorem is about one of them.                                  *)
(***************************************************************************)
EXTENDS PendingCommand, TaskSync, TLAPS

\* Only the command of the marker is open, and what the user was told is true, also
\* of requests that are yet to come.
KeyInv(k) ==
  /\ told[k] = "open" => marker = k
  /\ told[k] = "unsubmitted" => k \notin late
  /\ told[k] = "settled" => effects[k] = 1
  /\ told[k] = "refused" => k \in outdated
  /\ k \in outdated => effects[k] = 0

\* A handler is at work on a command that was submitted, and has a true answer.
HandlerInv(h) ==
  at[h] # "idle" =>
    /\ told[key[h]] # "unsubmitted"
    /\ reply[h] \in {"receipt", "found"} => effects[key[h]] = 1
    /\ reply[h] = "refused" => key[h] \in outdated

CommandInv ==
  /\ TypeOK
  /\ NothingLeftBehind
  /\ \A k \in Keys : KeyInv(k)
  /\ \A h \in Handlers : HandlerInv(h)

\* A step of the promise, or none.
Answers == Rejections \cup {"dropped", "settled"}
ToldAsPromised ==
  [k \in Keys |-> IF told[k] \in {"denied", "unready"} THEN "dropped" ELSE told[k]]
PromiseStep == Promise!Next \/ UNCHANGED <<ToldAsPromised, effects>>

-----------------------------------------------------------------------------
(* The parts of a state *)

StorageTyped ==
  /\ marker \in Keys \cup {None} /\ owner \in Users \cup {None}
  /\ inspected \in BOOLEAN /\ frozen \in SUBSET Keys

HandlersTyped ==
  /\ at \in [Handlers -> {"idle", "finding", "posting", "reading"}]
  /\ key \in [Handlers -> Keys \cup {None}]
  /\ \A h \in Handlers : at[h] # "idle" => key[h] \in Keys
  /\ fresh \in [Handlers -> BOOLEAN]
  /\ reply \in [Handlers -> Rejections \cup {"awaited", "receipt", "missing", "found"}]

ServerTyped ==
  /\ late \in SUBSET Keys /\ allowed \in BOOLEAN
  /\ outdated \in SUBSET Keys /\ unready \in SUBSET Starts
  /\ effects \in [Keys -> 0..1]

ToldTyped ==
  told \in [Keys -> Rejections \cup {"unsubmitted", "open", "settled", "dropped"}]

LEMMA Parts ==
  TypeOK <=> /\ user \in Users \cup {None}
             /\ StorageTyped /\ HandlersTyped /\ ServerTyped /\ ToldTyped
  BY Zenon DEF TypeOK, StorageTyped, HandlersTyped, ServerTyped, ToldTyped

\* What the user was told does not become unsubmitted again, nothing is undone, and
\* what is out of date stays so.
Onward ==
  \A k \in Keys : /\ told[k] # "unsubmitted" => told'[k] # "unsubmitted"
                  /\ effects[k] = 1 => effects'[k] = 1
                  /\ k \in outdated => k \in outdated'

\* A handler that does not move keeps what it knows.
LEMMA HandlerStays ==
  ASSUME CommandInv, Onward, NEW h \in Handlers,
         at'[h] = at[h], key'[h] = key[h], reply'[h] = reply[h]
  PROVE  HandlerInv(h)'
<1>1. at[h] # "idle" => key[h] \in Keys
  BY DEF CommandInv, TypeOK
<1> QED
  BY <1>1 DEF CommandInv, HandlerInv, Onward

\* Handlers that stop are idle, and the others do not move.
LEMMA HandlersStop ==
  ASSUME CommandInv, Onward, NEW hs \in SUBSET Handlers, Stops(hs)
  PROVE  HandlersTyped' /\ \A h \in Handlers : HandlerInv(h)'
<1>1. HandlersTyped
  BY Parts DEF CommandInv
<1>2. ASSUME NEW h \in Handlers
      PROVE  /\ h \in hs => at'[h] = "idle"
             /\ h \notin hs => at'[h] = at[h] /\ key'[h] = key[h] /\ reply'[h] = reply[h]
  BY DEF Stops
<1>3. HandlersTyped'
  <2>1. fresh' \in [Handlers -> BOOLEAN]
    BY DEF Stops
  <2>2. /\ at' \in [Handlers -> {"idle", "finding", "posting", "reading"}]
        /\ key' \in [Handlers -> Keys \cup {None}]
        /\ reply' \in [Handlers -> Rejections \cup {"awaited", "receipt", "missing", "found"}]
    BY <1>1 DEF Stops, HandlersTyped
  <2>3. \A h \in Handlers : at'[h] # "idle" => key'[h] \in Keys
    BY <1>1, <1>2 DEF HandlersTyped
  <2> QED
    BY <2>1, <2>2, <2>3 DEF HandlersTyped
<1>4. ASSUME NEW h \in Handlers
      PROVE  HandlerInv(h)'
  <2>1. CASE h \in hs
    BY <1>2, <2>1 DEF HandlerInv
  <2>2. CASE h \notin hs
    BY <1>2, <2>2, HandlerStays
  <2> QED
    BY <2>1, <2>2
<1> QED
  BY <1>3, <1>4

\* A handler that sends a request knows nothing new.
LEMMA HandlerSends ==
  ASSUME CommandInv, Onward, NEW h \in Handlers, NEW k \in Keys,
         NEW what \in {"finding", "posting", "reading"},
         Sends(h, what, k), Captures(h), told'[k] # "unsubmitted"
  PROVE  HandlersTyped' /\ \A g \in Handlers : HandlerInv(g)'
<1>1. HandlersTyped
  BY Parts DEF CommandInv
<1>2. /\ at'[h] = what /\ key'[h] = k /\ reply'[h] = "awaited"
      /\ \A g \in Handlers : g # h => at'[g] = at[g] /\ key'[g] = key[g] /\ reply'[g] = reply[g]
  BY <1>1 DEF Sends, HandlersTyped
<1>3. HandlersTyped'
  <2>1. fresh' \in [Handlers -> BOOLEAN]
    BY <1>1 DEF Captures, HandlersTyped
  <2>2. /\ at' \in [Handlers -> {"idle", "finding", "posting", "reading"}]
        /\ key' \in [Handlers -> Keys \cup {None}]
        /\ reply' \in [Handlers -> Rejections \cup {"awaited", "receipt", "missing", "found"}]
    BY <1>1 DEF Sends, HandlersTyped
  <2>3. \A g \in Handlers : at'[g] # "idle" => key'[g] \in Keys
    BY <1>1, <1>2 DEF HandlersTyped
  <2> QED
    BY <2>1, <2>2, <2>3 DEF HandlersTyped
<1>4. ASSUME NEW g \in Handlers
      PROVE  HandlerInv(g)'
  <2>1. CASE g = h
    BY <1>2, <2>1 DEF HandlerInv
  <2>2. CASE g # h
    BY <1>2, <2>2, HandlerStays
  <2> QED
    BY <2>1, <2>2
<1> QED
  BY <1>3, <1>4

\* Nobody moves, whether or not the contexts pass.
LEMMA HandlersStay ==
  ASSUME CommandInv, Onward, UNCHANGED <<at, key, reply>>,
         fresh' \in [Handlers -> BOOLEAN]
  PROVE  HandlersTyped' /\ \A h \in Handlers : HandlerInv(h)'
<1>1. HandlersTyped
  BY Parts DEF CommandInv
<1>2. HandlersTyped'
  BY <1>1 DEF HandlersTyped
<1> QED
  BY <1>2, HandlerStays

\* A handler has its answer.
LEMMA HandlerAnswered ==
  ASSUME CommandInv, Onward, NEW h \in Handlers, at[h] # "idle",
         NEW answer \in Rejections \cup {"receipt", "missing", "found"},
         Answer(h, answer), UNCHANGED <<at, key, fresh>>,
         answer \in {"receipt", "found"} => effects'[key[h]] = 1,
         answer = "refused" => key[h] \in outdated'
  PROVE  HandlersTyped' /\ \A g \in Handlers : HandlerInv(g)'
<1>1. HandlersTyped
  BY Parts DEF CommandInv
<1>2. reply'[h] = answer /\ \A g \in Handlers : g # h => reply'[g] = reply[g]
  BY <1>1 DEF Answer, HandlersTyped
<1>3. HandlersTyped'
  BY <1>1 DEF Answer, HandlersTyped
<1>4. ASSUME NEW g \in Handlers
      PROVE  HandlerInv(g)'
  <2>1. CASE g = h
    <3>1. key[h] \in Keys /\ told'[key[h]] # "unsubmitted"
      BY <1>1 DEF HandlersTyped, CommandInv, HandlerInv, Onward
    <3> QED
      BY <1>2, <2>1, <3>1 DEF HandlerInv
  <2>2. CASE g # h
    BY <1>2, <2>2, HandlerStays
  <2> QED
    BY <2>1, <2>2
<1> QED
  BY <1>3, <1>4

-----------------------------------------------------------------------------
(* What is told and kept *)

\* What is dealt with is the command of the marker, or nothing changes.
LEMMA ClearedAndTold ==
  ASSUME CommandInv, NEW k \in Keys \cup {None}, NEW what \in Answers,
         clearPendingCommand(k), Tell({k}, what)
  PROVE  \/ /\ marker = k /\ k \in Keys /\ told[k] = "open"
            /\ marker' = None /\ owner' = None /\ inspected' = FALSE /\ frozen' = {}
            /\ told' = [told EXCEPT ![k] = what]
         \/ /\ UNCHANGED <<marker, frozen, told>> /\ StorageTyped'
            /\ marker # None => owner' = owner
<1>1. /\ told \in [Keys -> Rejections \cup {"unsubmitted", "open", "settled", "dropped"}]
      /\ None \notin Keys /\ frozen \subseteq {marker} /\ frozen \in SUBSET Keys
      /\ \A j \in Keys : told[j] = "open" => marker = j
      /\ marker # None => told[marker] = "open"
      /\ StorageTyped /\ marker \in Keys \cup {None}
  BY Parts, PendingCommandAssumption DEF CommandInv, TypeOK, KeyInv, NothingLeftBehind
<1>2. CASE marker = k /\ k # None
  <2>1. frozen' = {} /\ NoMarker
    BY <1>1, <1>2 DEF clearPendingCommand
  <2>2. told' = [told EXCEPT ![k] = what]
    BY <1>1, <1>2 DEF Tell
  <2> QED
    BY <1>1, <1>2, <2>1, <2>2 DEF NoMarker
<1>3. CASE ~(marker = k /\ k # None)
  <2>1. ASSUME NEW j \in Keys
        PROVE  ~(j \in {k} /\ told[j] = "open")
    BY <1>1, <1>3
  <2>2. told' = told
    BY <1>1, <2>1 DEF Tell
  <2>3. CASE marker # k
    <3>1. UNCHANGED storage /\ frozen' = frozen
      BY <1>1, <2>3 DEF clearPendingCommand
    <3>2. UNCHANGED <<marker, owner, inspected, frozen>>
      BY <3>1 DEF storage
    <3> QED
      BY <1>1, <2>2, <3>2 DEF StorageTyped
  <2>4. CASE marker = k
    <3>1. k = None /\ frozen = {} /\ NoMarker /\ frozen' = {}
      BY <1>1, <1>3, <2>4 DEF clearPendingCommand
    <3> QED
      BY <2>2, <2>4, <3>1 DEF NoMarker, StorageTyped
  <2> QED
    BY <2>3, <2>4
<1> QED
  BY <1>2, <1>3

\* The promise lets a command be dealt with as it is here.
LEMMA ToldStep ==
  ASSUME CommandInv, NEW k \in Keys, NEW what \in Answers, told[k] = "open",
         told' = [told EXCEPT ![k] = what], UNCHANGED effects,
         what = "settled" => effects[k] = 1, what = "refused" => effects[k] = 0
  PROVE  PromiseStep
<1>1. told \in [Keys -> Rejections \cup {"unsubmitted", "open", "settled", "dropped"}]
  BY DEF CommandInv, TypeOK
<1> DEFINE as == ToldAsPromised
<1>2. as[k] = "open" /\ as \in [Keys -> {"unsubmitted", "open", "settled", "refused", "dropped"}]
  BY <1>1 DEF ToldAsPromised, Rejections
<1>3. as' = [as EXCEPT ![k] = IF what \in {"denied", "unready"} THEN "dropped" ELSE what]
  BY <1>1 DEF ToldAsPromised, Answers, Rejections
<1>4. CASE what \in {"dropped", "denied", "unready"}
  <2>1. as' = [as EXCEPT ![k] = "dropped"]
    BY <1>3, <1>4
  <2> QED
    BY <1>2, <2>1 DEF PromiseStep, ToldAsPromised, Promise!Next, Promise!Drop
<1>5. CASE what = "settled"
  BY <1>2, <1>3, <1>5 DEF PromiseStep, ToldAsPromised, Promise!Next, Promise!Settle
<1>6. CASE what = "refused"
  BY <1>2, <1>3, <1>6 DEF PromiseStep, ToldAsPromised, Promise!Next, Promise!Refuse
<1> QED
  BY <1>4, <1>5, <1>6 DEF Answers, Rejections

LEMMA NothingTold ==
  ASSUME UNCHANGED <<told, effects>>
  PROVE  PromiseStep
  BY DEF PromiseStep, ToldAsPromised

\* A command that is carried out takes effect once, and only one that may.
LEMMA Executed ==
  ASSUME CommandInv, NEW k \in Keys, told[k] # "unsubmitted", Execute(k),
         UNCHANGED <<told, outdated, marker>>, late' \in SUBSET late
  PROVE  /\ effects' \in [Keys -> 0..1] /\ Onward /\ PromiseStep
         /\ \A j \in Keys : KeyInv(j)'
<1>1. /\ told \in [Keys -> Rejections \cup {"unsubmitted", "open", "settled", "dropped"}]
      /\ effects \in [Keys -> 0..1] /\ \A j \in Keys : KeyInv(j)
  BY DEF CommandInv, TypeOK
<1>2. CASE UNCHANGED effects
  <2>1. \A j \in Keys : KeyInv(j)'
    BY <1>1, <1>2 DEF KeyInv
  <2> QED
    BY <1>1, <1>2, <2>1, NothingTold DEF Onward
<1>3. CASE effects[k] = 0 /\ Refusals(k) = {} /\ effects' = [effects EXCEPT ![k] = 1]
  <2>1. effects' \in [Keys -> 0..1] /\ \A j \in Keys : effects'[j] = IF j = k THEN 1 ELSE effects[j]
    BY <1>1, <1>3
  <2>2. k \notin outdated /\ \A j \in Keys : KeyInv(j)'
    BY <1>1, <1>3, <2>1 DEF KeyInv, Refusals
  <2>3. told[k] \in {"open", "denied", "unready", "dropped"}
    BY <1>1, <1>3, <2>2 DEF KeyInv, Rejections
  <2>4. ToldAsPromised[k] \in {"open", "dropped"} /\ UNCHANGED ToldAsPromised
    BY <1>1, <2>3 DEF ToldAsPromised
  <2>5. PromiseStep
    BY <1>3, <2>4 DEF PromiseStep, ToldAsPromised, Promise!Next, Promise!TakeEffect
  <2> QED
    BY <1>1, <2>1, <2>2, <2>5 DEF Onward
<1> QED
  BY <1>2, <1>3 DEF Execute

\* A POST that nobody waits for is of a command that was submitted.
LEMMA PostsLeft ==
  ASSUME CommandInv, NEW hs \in SUBSET Handlers, LeavesPosts(hs)
  PROVE  late' \in SUBSET Keys /\ \A k \in Keys : told[k] = "unsubmitted" => k \notin late'
<1>1. ASSUME NEW h \in Handlers, at[h] = "posting"
      PROVE  key[h] \in Keys /\ told[key[h]] # "unsubmitted"
  BY <1>1 DEF CommandInv, TypeOK, HandlerInv
<1>2. late \in SUBSET Keys /\ \A k \in Keys : told[k] = "unsubmitted" => k \notin late
  BY DEF CommandInv, TypeOK, KeyInv
<1> QED
  BY <1>1, <1>2 DEF LeavesPosts

\* Nothing is told or carried out, and the marker stays.
LEMMA NothingDealt ==
  ASSUME CommandInv, UNCHANGED <<told, effects, outdated, marker, owner>>,
         frozen' \in SUBSET frozen, user' = user \/ user' = None,
         \A k \in Keys : told[k] = "unsubmitted" => k \notin late'
  PROVE  /\ ToldTyped' /\ NothingLeftBehind' /\ Onward /\ PromiseStep
         /\ \A k \in Keys : KeyInv(k)'
<1>1. ToldTyped' /\ Onward
  BY DEF CommandInv, TypeOK, ToldTyped, Onward
<1>2. NothingLeftBehind'
  BY DEF CommandInv, NothingLeftBehind
<1>3. \A k \in Keys : KeyInv(k)'
  BY DEF CommandInv, KeyInv
<1> QED
  BY <1>1, <1>2, <1>3, NothingTold

\* A command is dealt with.
LEMMA Dealt ==
  ASSUME CommandInv, NEW k \in Keys \cup {None}, NEW what \in Answers,
         clearPendingCommand(k), Tell({k}, what), UNCHANGED <<effects, outdated, late>>,
         user' = user \/ k = marker,
         what = "settled" => k \in Keys /\ effects[k] = 1,
         what = "refused" => k \in outdated
  PROVE  /\ StorageTyped' /\ ToldTyped' /\ NothingLeftBehind' /\ Onward /\ PromiseStep
         /\ \A j \in Keys : KeyInv(j)'
<1>1. /\ told \in [Keys -> Rejections \cup {"unsubmitted", "open", "settled", "dropped"}]
      /\ None \notin Keys /\ \A j \in Keys : KeyInv(j)
  BY PendingCommandAssumption DEF CommandInv, TypeOK
<1>2. CASE /\ marker = k /\ k \in Keys /\ told[k] = "open"
           /\ marker' = None /\ owner' = None /\ inspected' = FALSE /\ frozen' = {}
           /\ told' = [told EXCEPT ![k] = what]
  <2>1. \A j \in Keys : told'[j] = IF j = k THEN what ELSE told[j]
    BY <1>1, <1>2
  <2>2. StorageTyped' /\ NothingLeftBehind'
    BY <1>2 DEF StorageTyped, NothingLeftBehind
  <2>3. ToldTyped' /\ Onward
    BY <1>1, <1>2, <2>1 DEF ToldTyped, Onward, Answers, Rejections
  <2>4. \A j \in Keys : KeyInv(j)'
    BY <1>1, <1>2, <2>1 DEF KeyInv, Answers, Rejections
  <2>5. PromiseStep
    BY <1>1, <1>2, ToldStep DEF KeyInv
  <2> QED
    BY <2>2, <2>3, <2>4, <2>5
<1>3. CASE /\ UNCHANGED <<marker, frozen, told>> /\ StorageTyped'
           /\ marker # None => owner' = owner
  <2>1. NothingLeftBehind'
    <3>1. CASE user' = user
      BY <1>3, <3>1 DEF CommandInv, NothingLeftBehind
    <3>2. CASE k = marker /\ marker # None
      <4>1. marker \in Keys /\ marker' = None
        BY <1>1, <3>2 DEF clearPendingCommand, NoMarker
      <4> QED
        BY <1>3, <3>2, <4>1
    <3>3. CASE marker = None
      BY <1>3, <3>3 DEF CommandInv, NothingLeftBehind
    <3> QED
      BY <3>1, <3>2, <3>3
  <2>2. ToldTyped' /\ Onward /\ PromiseStep
    BY <1>1, <1>3, NothingTold DEF ToldTyped, Onward
  <2>3. \A j \in Keys : KeyInv(j)'
    BY <1>1, <1>3 DEF KeyInv
  <2> QED
    BY <1>3, <2>1, <2>2, <2>3
<1> QED
  BY <1>2, <1>3, ClearedAndTold

-----------------------------------------------------------------------------
(* Each action keeps the invariant, and the promise *)

LEMMA Whole ==
  ASSUME user' \in Users \cup {None}, StorageTyped', HandlersTyped', ServerTyped', ToldTyped',
         NothingLeftBehind', \A k \in Keys : KeyInv(k)', \A h \in Handlers : HandlerInv(h)'
  PROVE  CommandInv'
<1>1. TypeOK'
  BY Zenon DEF TypeOK, StorageTyped, HandlersTyped, ServerTyped, ToldTyped
<1> QED
  BY <1>1 DEF CommandInv

\* Where what the server knows is left alone.
LEMMA ServerStays ==
  ASSUME CommandInv, UNCHANGED server, late' \in SUBSET Keys
  PROVE  ServerTyped' /\ UNCHANGED <<allowed, outdated, unready, effects>>
<1>1. ServerTyped
  BY Parts DEF CommandInv
<1> QED
  BY <1>1 DEF ServerTyped, server

LEMMA StorageStays ==
  ASSUME CommandInv, UNCHANGED <<storage, frozen>>
  PROVE  StorageTyped' /\ UNCHANGED <<marker, owner, inspected>>
<1>1. StorageTyped
  BY Parts DEF CommandInv
<1> QED
  BY <1>1 DEF StorageTyped, storage

\* What is typed and known before.
LEMMA Before ==
  ASSUME CommandInv
  PROVE  /\ user \in Users \cup {None} /\ late \in SUBSET Keys
         /\ StorageTyped /\ HandlersTyped /\ ServerTyped /\ ToldTyped
         /\ None \notin Keys /\ None \notin Users
         /\ \A k \in Keys : KeyInv(k) /\ (told[k] = "unsubmitted" => k \notin late)
  BY Parts, PendingCommandAssumption DEF CommandInv, KeyInv, ServerTyped

\* The user asks for the receipt, or sends the frozen command again; or a handler
\* goes on to read the task.
LEMMA SendsKeep ==
  ASSUME CommandInv, NEW h \in Handlers, NEW k \in Keys,
         NEW what \in {"finding", "posting", "reading"}, Sends(h, what, k), Captures(h),
         told[k] # "unsubmitted", UNCHANGED <<user, storage, frozen, late, server, told>>
  PROVE  CommandInv' /\ PromiseStep
<1>1. StorageTyped' /\ UNCHANGED <<marker, owner, inspected>>
  BY StorageStays
<1>2. ServerTyped' /\ UNCHANGED <<allowed, outdated, unready, effects>>
  BY Before, ServerStays
<1>3. /\ ToldTyped' /\ NothingLeftBehind' /\ Onward /\ PromiseStep
      /\ \A j \in Keys : KeyInv(j)'
  BY <1>1, <1>2, Before, NothingDealt
<1>4. HandlersTyped' /\ \A g \in Handlers : HandlerInv(g)'
  BY <1>3, HandlerSends
<1>5. user' \in Users \cup {None}
  BY Before
<1> QED
  BY <1>1, <1>2, <1>3, <1>4, <1>5, Whole

LEMMA NoticeKeeps ==
  ASSUME CommandInv, reconcile \/ retryOriginal
  PROVE  CommandInv' /\ PromiseStep
<1>1. PICK what \in {"finding", "posting"} : Sends("notice", what, marker)
  BY DEF reconcile, retryOriginal
<1>2. /\ Captures("notice") /\ marker # None
      /\ UNCHANGED <<user, storage, frozen, late, server, told>>
  BY DEF reconcile, retryOriginal, Pending
<1>3. marker \in Keys /\ told[marker] # "unsubmitted" /\ "notice" \in Handlers
  BY <1>2 DEF CommandInv, TypeOK, NothingLeftBehind, Handlers
<1> QED
  BY <1>1, <1>2, <1>3, SendsKeep

LEMMA AcceptedKeeps ==
  ASSUME CommandInv, NEW h \in Handlers, Accepted(h)
  PROVE  CommandInv' /\ PromiseStep
<1>1. key[h] \in Keys /\ told[key[h]] # "unsubmitted"
  BY DEF Accepted, CommandInv, TypeOK, HandlerInv
<1> QED
  BY <1>1, SendsKeep DEF Accepted

\* Handlers stop; what they have sent may yet arrive.
LEMMA StopsKeep ==
  ASSUME CommandInv, NEW hs \in SUBSET Handlers, Stops(hs), LeavesPosts(hs),
         UNCHANGED <<marker, owner, server, told>>,
         frozen' \in SUBSET frozen, inspected' \in BOOLEAN, user' = user \/ user' = None
  PROVE  CommandInv' /\ PromiseStep
<1>1. late' \in SUBSET Keys /\ \A k \in Keys : told[k] = "unsubmitted" => k \notin late'
  BY PostsLeft
<1>2. ServerTyped' /\ UNCHANGED <<allowed, outdated, unready, effects>>
  BY <1>1, ServerStays
<1>3. /\ ToldTyped' /\ NothingLeftBehind' /\ Onward /\ PromiseStep
      /\ \A k \in Keys : KeyInv(k)'
  BY <1>1, <1>2, NothingDealt
<1>4. HandlersTyped' /\ \A h \in Handlers : HandlerInv(h)'
  BY <1>3, HandlersStop
<1>5. StorageTyped' /\ user' \in Users \cup {None}
  BY Before DEF StorageTyped
<1> QED
  BY <1>2, <1>3, <1>4, <1>5, Whole

LEMMA StoppedKeeps ==
  ASSUME CommandInv, NEW h \in Handlers, Stale(h) \/ Undecided(h)
  PROVE  CommandInv' /\ PromiseStep
<1>1. /\ Stops({h}) /\ LeavesPosts({h}) /\ UNCHANGED <<storage, frozen>>
      /\ UNCHANGED <<user, server, told>> /\ {h} \in SUBSET Handlers
  BY DEF Stale, Undecided
<1>2. UNCHANGED <<marker, owner, inspected>> /\ inspected \in BOOLEAN
  BY <1>1, StorageStays, Before DEF StorageTyped
<1> QED
  BY <1>1, <1>2, StopsKeep

LEMMA LeaveKeeps ==
  ASSUME CommandInv, NEW list \in BOOLEAN, Leave(list)
  PROVE  CommandInv' /\ PromiseStep
<1>1. /\ Stops(Handlers) /\ LeavesPosts(Handlers) /\ Handlers \in SUBSET Handlers
      /\ UNCHANGED <<user, marker, owner, frozen, server, told>>
  BY DEF Leave
<1>2. inspected' \in BOOLEAN
  BY DEF Leave
<1> QED
  BY <1>1, <1>2, StopsKeep

LEMMA ReloadKeeps ==
  ASSUME CommandInv, Reload
  PROVE  CommandInv' /\ PromiseStep
<1>1. /\ Stops(Handlers) /\ LeavesPosts(Handlers) /\ Handlers \in SUBSET Handlers
      /\ UNCHANGED <<server, told>> /\ user' = None /\ frozen' = {}
      /\ UNCHANGED <<marker, owner, inspected>>
  BY DEF Reload, storage
<1>2. inspected' \in BOOLEAN
  BY <1>1, Before DEF StorageTyped
<1> QED
  BY <1>1, <1>2, StopsKeep

\* What was sent is rejected, or its task has been read.
LEMMA DealtWithKeeps ==
  ASSUME CommandInv, NEW h \in Handlers, Rejected(h) \/ Settled(h)
  PROVE  CommandInv' /\ PromiseStep
<1>1. PICK what \in Rejections \cup {"settled"} :
        /\ clearPendingCommand(key[h]) /\ Tell({key[h]}, what)
        /\ what = "settled" => reply[h] = "found"
        /\ what = "refused" => reply[h] = "refused"
  <2>1. CASE Rejected(h)
    <3>1. reply[h] \in Rejections /\ clearPendingCommand(key[h]) /\ Tell({key[h]}, reply[h])
      BY <2>1 DEF Rejected
    <3> QED
      BY <3>1 DEF Rejections
  <2>2. CASE Settled(h)
    <3>1. reply[h] = "found" /\ clearPendingCommand(key[h]) /\ Tell({key[h]}, "settled")
      BY <2>2 DEF Settled
    <3> QED
      BY <3>1
  <2> QED
    BY <2>1, <2>2
<1>2. /\ at[h] # "idle" /\ Stops({h}) /\ UNCHANGED <<user, late, server>>
      /\ {h} \in SUBSET Handlers
  BY DEF Rejected, Settled
<1>3. /\ key[h] \in Keys
      /\ reply[h] = "found" => effects[key[h]] = 1
      /\ reply[h] = "refused" => key[h] \in outdated
  BY <1>2 DEF CommandInv, TypeOK, HandlerInv
<1>4. ServerTyped' /\ UNCHANGED <<allowed, outdated, unready, effects>>
  BY <1>2, Before, ServerStays
<1>5. /\ StorageTyped' /\ ToldTyped' /\ NothingLeftBehind' /\ Onward /\ PromiseStep
      /\ \A j \in Keys : KeyInv(j)'
  BY <1>1, <1>2, <1>3, <1>4, Dealt DEF Answers, Rejections
<1>6. HandlersTyped' /\ \A g \in Handlers : HandlerInv(g)'
  BY <1>2, <1>5, HandlersStop
<1>7. user' \in Users \cup {None}
  BY <1>2, Before
<1> QED
  BY <1>4, <1>5, <1>6, <1>7, Whole

LEMMA AbandonKeeps ==
  ASSUME CommandInv, abandon
  PROVE  CommandInv' /\ PromiseStep
<1>1. /\ clearPendingCommand(marker) /\ Tell({marker}, "dropped")
      /\ UNCHANGED <<user, late, server>> /\ UNCHANGED <<at, key, fresh, reply>>
  BY DEF abandon, handlers
<1>2. ServerTyped' /\ UNCHANGED <<allowed, outdated, unready, effects>>
  BY <1>1, Before, ServerStays
<1>3. marker \in Keys \cup {None}
  BY Before DEF StorageTyped
<1>4. /\ StorageTyped' /\ ToldTyped' /\ NothingLeftBehind' /\ Onward /\ PromiseStep
      /\ \A j \in Keys : KeyInv(j)'
  BY <1>1, <1>2, <1>3, Dealt DEF Answers, Rejections
<1>5. HandlersTyped' /\ \A g \in Handlers : HandlerInv(g)'
  BY <1>1, <1>4, Before, HandlersStay DEF HandlersTyped
<1>6. user' \in Users \cup {None}
  BY <1>1, Before
<1> QED
  BY <1>2, <1>4, <1>5, <1>6, Whole

\* A command is submitted when nothing is pending.
LEMMA BeginKeeps ==
  ASSUME CommandInv, NEW k \in Keys, beginCommand(k)
  PROVE  CommandInv' /\ PromiseStep
<1>1. /\ told[k] = "unsubmitted" /\ user # None /\ ~Pending
      /\ marker' = k /\ owner' = user /\ inspected' = FALSE /\ frozen' = frozen \cup {k}
      /\ Sends("page", "posting", k) /\ Captures("page")
      /\ told' = [told EXCEPT ![k] = "open"] /\ UNCHANGED <<user, late, server>>
  BY DEF beginCommand
<1>2. marker = None /\ frozen = {} /\ \A j \in Keys : told[j] # "open"
  <2>1. marker = None
    BY <1>1 DEF Pending, CommandInv, NothingLeftBehind
  <2> QED
    BY <2>1, Before DEF CommandInv, NothingLeftBehind, KeyInv, StorageTyped
<1>3. ServerTyped' /\ UNCHANGED <<allowed, outdated, unready, effects>>
  BY <1>1, Before, ServerStays
<1>4. ToldTyped' /\ \A j \in Keys : told'[j] = IF j = k THEN "open" ELSE told[j]
  BY <1>1, Before DEF ToldTyped
<1>5. Onward
  BY <1>3, <1>4 DEF Onward
<1>6. \A j \in Keys : KeyInv(j)'
  <2>1. \A j \in Keys : KeyInv(j)
    BY Before
  <2> QED
    BY <1>1, <1>2, <1>3, <1>4, <2>1 DEF KeyInv
<1>7. StorageTyped' /\ NothingLeftBehind' /\ user' \in Users \cup {None}
  BY <1>1, <1>2, <1>4, Before DEF StorageTyped, NothingLeftBehind
<1>8. HandlersTyped' /\ \A g \in Handlers : HandlerInv(g)'
  BY <1>1, <1>4, <1>5, HandlerSends DEF Handlers
<1>9. PromiseStep
  <2> DEFINE as == ToldAsPromised
  <2>1. as[k] = "unsubmitted" /\ \A j \in Keys : as[j] # "open"
    BY <1>1, <1>2, Before DEF ToldAsPromised, ToldTyped
  <2>2. as' = [as EXCEPT ![k] = "open"]
    BY <1>1, <1>4, Before DEF ToldAsPromised, ToldTyped
  <2> QED
    BY <1>3, <2>1, <2>2 DEF PromiseStep, ToldAsPromised, Promise!Next, Promise!Submit
<1> QED
  BY <1>3, <1>4, <1>6, <1>7, <1>8, <1>9, Whole

LEMMA NewContextKeeps ==
  ASSUME CommandInv, NewContext
  PROVE  CommandInv' /\ PromiseStep
<1>1. /\ UNCHANGED <<storage, frozen>> /\ UNCHANGED <<user, at, key, reply, late, server, told>>
      /\ fresh' \in [Handlers -> BOOLEAN]
  BY DEF NewContext
<1>2. StorageTyped' /\ UNCHANGED <<marker, owner, inspected>>
  BY <1>1, StorageStays
<1>3. ServerTyped' /\ UNCHANGED <<allowed, outdated, unready, effects>>
  BY <1>1, Before, ServerStays
<1>4. /\ ToldTyped' /\ NothingLeftBehind' /\ Onward /\ PromiseStep
      /\ \A j \in Keys : KeyInv(j)'
  BY <1>1, <1>2, <1>3, Before, NothingDealt
<1>5. HandlersTyped' /\ \A g \in Handlers : HandlerInv(g)'
  BY <1>1, <1>4, HandlersStay
<1>6. user' \in Users \cup {None}
  BY <1>1, Before
<1> QED
  BY <1>2, <1>3, <1>4, <1>5, <1>6, Whole

\* Only a marker of the user who signs in is kept.
LEMMA SignInKeeps ==
  ASSUME CommandInv, NEW u \in Users, SignIn(u)
  PROVE  CommandInv' /\ PromiseStep
<1>1. /\ user' = u /\ UNCHANGED <<late, server, at, key, fresh, reply>>
  BY DEF SignIn, handlers
<1>2. ServerTyped' /\ UNCHANGED <<allowed, outdated, unready, effects>>
  BY <1>1, Before, ServerStays
<1>3. /\ StorageTyped' /\ ToldTyped' /\ NothingLeftBehind' /\ Onward /\ PromiseStep
      /\ \A j \in Keys : KeyInv(j)'
  <2>1. CASE owner = u
    <3>1. UNCHANGED <<storage, frozen>> /\ UNCHANGED told
      BY <2>1 DEF SignIn
    <3>2. StorageTyped' /\ UNCHANGED <<marker, owner, inspected>>
      BY <3>1, StorageStays
    <3>3. ToldTyped' /\ Onward /\ PromiseStep
      BY <1>2, <3>1, Before, NothingTold DEF ToldTyped, Onward
    <3>4. \A j \in Keys : KeyInv(j)'
      BY <1>1, <1>2, <3>1, <3>2, Before DEF KeyInv
    <3>5. NothingLeftBehind'
      BY <1>1, <2>1, <3>1, <3>2 DEF CommandInv, NothingLeftBehind
    <3> QED
      BY <3>2, <3>3, <3>4, <3>5
  <2>2. CASE owner # u
    <3>1. clearPendingCommand(marker) /\ Tell({marker}, "dropped")
      BY <2>2 DEF SignIn
    <3>2. marker \in Keys \cup {None}
      BY Before DEF StorageTyped
    <3> QED
      BY <1>1, <1>2, <3>1, <3>2, Dealt DEF Answers, Rejections
  <2> QED
    BY <2>1, <2>2
<1>4. HandlersTyped' /\ \A g \in Handlers : HandlerInv(g)'
  BY <1>1, <1>3, Before, HandlersStay DEF HandlersTyped
<1>5. user' \in Users \cup {None}
  BY <1>1
<1> QED
  BY <1>2, <1>3, <1>4, <1>5, Whole

\* What was open is given up, with everything that is kept.
LEMMA SignOutKeeps ==
  ASSUME CommandInv, SignOut
  PROVE  CommandInv' /\ PromiseStep
<1>1. /\ user' \in Users \cup {None} /\ UNCHANGED <<at, key, reply, late, server>>
      /\ marker' = None /\ owner' = None /\ inspected' = FALSE /\ frozen' = {}
      /\ fresh' \in [Handlers -> BOOLEAN]
      /\ told' = [k \in Keys |-> IF told[k] = "open" THEN "dropped" ELSE told[k]]
  BY DEF SignOut, clearAllPendingCommands, NoMarker, Tell
<1>2. ServerTyped' /\ UNCHANGED <<allowed, outdated, unready, effects>>
  BY <1>1, Before, ServerStays
<1>3. ToldTyped' /\ Onward
  BY <1>1, <1>2, Before DEF ToldTyped, Onward
<1>4. \A j \in Keys : KeyInv(j)'
  BY <1>1, <1>2, Before DEF KeyInv
<1>5. StorageTyped' /\ NothingLeftBehind'
  BY <1>1 DEF StorageTyped, NothingLeftBehind
<1>6. HandlersTyped' /\ \A g \in Handlers : HandlerInv(g)'
  BY <1>1, <1>3, HandlersStay
<1>7. PromiseStep
  <2>1. \A j \in Keys : told[j] = "open" => marker = j
    BY Before DEF KeyInv
  <2>2. CASE marker \in Keys /\ told[marker] = "open"
    <3>1. told' = [told EXCEPT ![marker] = "dropped"]
      BY <1>1, <2>1, <2>2, Before DEF ToldTyped
    <3> QED
      BY <1>2, <2>2, <3>1, ToldStep DEF Answers, Rejections
  <2>3. CASE ~(marker \in Keys /\ told[marker] = "open")
    <3>1. told' = told
      BY <1>1, <2>1, <2>3, Before DEF ToldTyped
    <3> QED
      BY <1>2, <3>1, NothingTold
  <2> QED
    BY <2>2, <2>3
<1> QED
  BY <1>1, <1>2, <1>3, <1>4, <1>5, <1>6, <1>7, Whole

\* What the server does leaves the tab alone, but for an answer.
LEMMA ServerKeeps ==
  ASSUME CommandInv, UNCHANGED <<user, storage, frozen, told>>, ServerTyped', PromiseStep,
         \A k \in Keys : KeyInv(k)',
         HandlersTyped', \A h \in Handlers : HandlerInv(h)'
  PROVE  CommandInv' /\ PromiseStep
<1>1. StorageTyped' /\ UNCHANGED <<marker, owner, inspected>>
  BY StorageStays
<1>2. ToldTyped' /\ NothingLeftBehind' /\ user' \in Users \cup {None}
  BY <1>1, Before DEF CommandInv, ToldTyped, NothingLeftBehind
<1> QED
  BY <1>1, <1>2, Whole

LEMMA PostKeeps ==
  ASSUME CommandInv, NEW h \in Handlers, Post(h)
  PROVE  CommandInv' /\ PromiseStep
<1> DEFINE k == key[h]
<1>1. /\ at[h] = "posting" /\ Execute(k)
      /\ UNCHANGED <<user, storage, frozen, told>>
      /\ UNCHANGED <<at, key, fresh, late, allowed, outdated, unready>>
      /\ \E answer \in IF ~allowed THEN {"denied"}
                      ELSE IF effects'[k] > 0 THEN {"receipt"} ELSE Refusals(k) :
           Answer(h, answer)
  BY DEF Post
<1>2. k \in Keys /\ told[k] # "unsubmitted"
  BY <1>1 DEF CommandInv, TypeOK, HandlerInv
<1>3. UNCHANGED <<marker, owner, inspected>>
  BY <1>1, StorageStays
<1>4. /\ effects' \in [Keys -> 0..1] /\ Onward /\ PromiseStep
      /\ \A j \in Keys : KeyInv(j)'
  BY <1>1, <1>2, <1>3, Executed
<1>5. ServerTyped'
  BY <1>1, <1>4, Before DEF ServerTyped
<1>6. effects[k] \in 0..1 /\ effects'[k] \in 0..1
  BY <1>2, <1>4, Before DEF ServerTyped
<1>7. Refusals(k) \subseteq {"refused", "unready"} /\ ("refused" \in Refusals(k) => k \in outdated)
  BY DEF Refusals
<1>8. PICK answer \in Rejections \cup {"receipt"} :
        /\ Answer(h, answer)
        /\ answer = "receipt" => effects'[k] = 1
        /\ answer = "refused" => k \in outdated'
  <2>1. CASE ~allowed
    BY <1>1, <2>1 DEF Rejections
  <2>2. CASE allowed /\ effects'[k] > 0
    BY <1>1, <1>6, <2>2
  <2>3. CASE allowed /\ ~(effects'[k] > 0)
    BY <1>1, <1>7, <2>3 DEF Rejections
  <2> QED
    BY <2>1, <2>2, <2>3
<1>9. HandlersTyped' /\ \A g \in Handlers : HandlerInv(g)'
  BY <1>1, <1>4, <1>8, HandlerAnswered DEF Rejections
<1> QED
  BY <1>1, <1>4, <1>5, <1>9, ServerKeeps

\* An answer that carries nothing out.
LEMMA AnswersKeep ==
  ASSUME CommandInv, NEW h \in Handlers, PostOvertaken(h) \/ Query(h)
  PROVE  CommandInv' /\ PromiseStep
<1>1. /\ at[h] # "idle" /\ UNCHANGED <<user, storage, frozen, told>>
      /\ UNCHANGED <<at, key, fresh, late, server>>
  BY DEF PostOvertaken, Query
<1>2. ServerTyped' /\ UNCHANGED <<allowed, outdated, unready, effects>>
  BY <1>1, Before, ServerStays
<1>3. UNCHANGED <<marker, owner, inspected>>
  BY <1>1, StorageStays
<1>4. /\ ToldTyped' /\ NothingLeftBehind' /\ Onward /\ PromiseStep
      /\ \A j \in Keys : KeyInv(j)'
  BY <1>1, <1>2, <1>3, Before, NothingDealt
<1>5. effects[key[h]] \in 0..1
  BY <1>1, Before DEF HandlersTyped, ServerTyped
<1>6. PICK answer \in {"denied", "missing", "receipt", "found"} :
        /\ Answer(h, answer)
        /\ answer \in {"receipt", "found"} => effects'[key[h]] = 1
  <2>1. CASE PostOvertaken(h)
    BY <2>1 DEF PostOvertaken
  <2>2. CASE Query(h)
    <3>1. PICK answer \in {"missing", "receipt", "found"} :
            Answer(h, answer) /\ (answer # "missing" => effects[key[h]] # 0)
      <4>1. CASE ~allowed \/ effects[key[h]] = 0
        BY <2>2, <4>1 DEF Query
      <4>2. CASE ~(~allowed \/ effects[key[h]] = 0) /\ at[h] = "finding"
        <5>1. Answer(h, "receipt") /\ effects[key[h]] # 0
          BY <2>2, <4>2 DEF Query
        <5> QED
          BY <5>1
      <4>3. CASE ~(~allowed \/ effects[key[h]] = 0) /\ at[h] # "finding"
        <5>1. Answer(h, "found") /\ effects[key[h]] # 0
          BY <2>2, <4>3 DEF Query
        <5> QED
          BY <5>1
      <4> QED
        BY <4>1, <4>2, <4>3
    <3>2. answer # "missing" => effects'[key[h]] = 1
      BY <1>2, <1>5, <3>1
    <3> QED
      BY <3>1, <3>2
  <2> QED
    BY <2>1, <2>2
<1>7. HandlersTyped' /\ \A g \in Handlers : HandlerInv(g)'
  BY <1>1, <1>4, <1>6, HandlerAnswered DEF Rejections
<1> QED
  BY <1>1, <1>2, <1>4, <1>7, ServerKeeps

LEMMA ArrivesKeeps ==
  ASSUME CommandInv, NEW k \in Keys, Arrives(k)
  PROVE  CommandInv' /\ PromiseStep
<1>1. /\ k \in late /\ late' = late \ {k} /\ Execute(k)
      /\ UNCHANGED <<user, storage, frozen, told>>
      /\ UNCHANGED <<at, key, fresh, reply, allowed, outdated, unready>>
  BY DEF Arrives, handlers
<1>2. told[k] # "unsubmitted"
  BY <1>1, Before
<1>3. UNCHANGED <<marker, owner, inspected>>
  BY <1>1, StorageStays
<1>4. /\ effects' \in [Keys -> 0..1] /\ Onward /\ PromiseStep
      /\ \A j \in Keys : KeyInv(j)'
  BY <1>1, <1>2, <1>3, Executed
<1>5. ServerTyped'
  BY <1>1, <1>4, Before DEF ServerTyped
<1>6. HandlersTyped' /\ \A g \in Handlers : HandlerInv(g)'
  BY <1>1, <1>4, Before, HandlersStay DEF HandlersTyped
<1> QED
  BY <1>1, <1>4, <1>5, <1>6, ServerKeeps

LEMMA OutdateKeeps ==
  ASSUME CommandInv, NEW k \in Keys, Outdate(k)
  PROVE  CommandInv' /\ PromiseStep
<1>1. /\ effects[k] = 0 /\ outdated' = outdated \cup {k}
      /\ UNCHANGED <<user, storage, frozen, told>>
      /\ UNCHANGED <<at, key, fresh, reply, late, allowed, unready, effects>>
  BY DEF Outdate, handlers
<1>2. ServerTyped'
  BY <1>1, Before DEF ServerTyped
<1>3. Onward /\ PromiseStep
  BY <1>1, NothingTold DEF Onward
<1>4. UNCHANGED <<marker, owner, inspected>>
  BY <1>1, StorageStays
<1>5. \A j \in Keys : KeyInv(j)'
  BY <1>1, <1>4, Before DEF KeyInv
<1>6. HandlersTyped' /\ \A g \in Handlers : HandlerInv(g)'
  BY <1>1, <1>3, Before, HandlersStay DEF HandlersTyped
<1> QED
  BY <1>1, <1>2, <1>3, <1>5, <1>6, ServerKeeps

LEMMA ServiceChangesKeeps ==
  ASSUME CommandInv, ServiceChanges
  PROVE  CommandInv' /\ PromiseStep
<1>1. /\ UNCHANGED <<user, storage, frozen, told>>
      /\ UNCHANGED <<at, key, fresh, reply, late, allowed, outdated, effects>>
      /\ unready' \in SUBSET Starts
  BY DEF ServiceChanges, handlers
<1>2. ServerTyped'
  BY <1>1, Before DEF ServerTyped
<1>3. Onward /\ PromiseStep
  BY <1>1, NothingTold DEF Onward
<1>4. UNCHANGED <<marker, owner, inspected>>
  BY <1>1, StorageStays
<1>5. \A j \in Keys : KeyInv(j)'
  BY <1>1, <1>4, Before DEF KeyInv
<1>6. HandlersTyped' /\ \A g \in Handlers : HandlerInv(g)'
  BY <1>1, <1>3, Before, HandlersStay DEF HandlersTyped
<1> QED
  BY <1>1, <1>2, <1>3, <1>5, <1>6, ServerKeeps

LEMMA ChangePermissionKeeps ==
  ASSUME CommandInv, ChangePermission
  PROVE  CommandInv' /\ PromiseStep
<1>1. /\ UNCHANGED <<user, storage, frozen, told>>
      /\ UNCHANGED <<at, key, fresh, reply, late, outdated, unready, effects>>
      /\ allowed' \in BOOLEAN
  BY DEF ChangePermission, handlers
<1>2. ServerTyped'
  BY <1>1, Before DEF ServerTyped
<1>3. Onward /\ PromiseStep
  BY <1>1, NothingTold DEF Onward
<1>4. UNCHANGED <<marker, owner, inspected>>
  BY <1>1, StorageStays
<1>5. \A j \in Keys : KeyInv(j)'
  BY <1>1, <1>4, Before DEF KeyInv
<1>6. HandlersTyped' /\ \A g \in Handlers : HandlerInv(g)'
  BY <1>1, <1>3, Before, HandlersStay DEF HandlersTyped
<1> QED
  BY <1>1, <1>2, <1>3, <1>5, <1>6, ServerKeeps

-----------------------------------------------------------------------------
(* The theorems *)

LEMMA CommandInit == Init => CommandInv
<1> SUFFICES ASSUME Init PROVE CommandInv
  OBVIOUS
<1>1. StorageTyped /\ ServerTyped /\ ToldTyped
  <2>1. inspected \in BOOLEAN /\ allowed \in BOOLEAN
    BY Zenon DEF Init
  <2>2. StorageTyped
    BY <2>1 DEF Init, StorageTyped
  <2>3. ServerTyped
    BY <2>1 DEF Init, ServerTyped
  <2>4. ToldTyped
    BY DEF Init, ToldTyped
  <2> QED
    BY <2>2, <2>3, <2>4
<1>2. HandlersTyped /\ \A h \in Handlers : HandlerInv(h)
  BY DEF Init, HandlersTyped, HandlerInv
<1>3. TypeOK
  BY <1>1, <1>2, Parts DEF Init
<1>4. NothingLeftBehind /\ \A k \in Keys : KeyInv(k)
  BY DEF Init, NothingLeftBehind, KeyInv
<1> QED
  BY <1>2, <1>3, <1>4 DEF CommandInv

LEMMA CommandNext == CommandInv /\ [Next]_vars => CommandInv' /\ PromiseStep
<1> SUFFICES ASSUME CommandInv, [Next]_vars PROVE CommandInv' /\ PromiseStep
  OBVIOUS
<1>1. ASSUME NEW k \in Keys, beginCommand(k) \/ Arrives(k) \/ Outdate(k)
      PROVE  CommandInv' /\ PromiseStep
  BY <1>1, BeginKeeps, ArrivesKeeps, OutdateKeeps
<1>2. CASE reconcile \/ retryOriginal \/ abandon
  BY <1>2, NoticeKeeps, AbandonKeeps
<1>3. ASSUME NEW list \in BOOLEAN, Leave(list)
      PROVE  CommandInv' /\ PromiseStep
  BY <1>3, LeaveKeeps
<1>4. ASSUME NEW h \in Handlers,
             \/ Stale(h) \/ Accepted(h) \/ Rejected(h) \/ Settled(h)
             \/ Undecided(h) \/ Post(h) \/ PostOvertaken(h) \/ Query(h)
      PROVE  CommandInv' /\ PromiseStep
  BY <1>4, StoppedKeeps, AcceptedKeeps, DealtWithKeeps, PostKeeps, AnswersKeep
<1>5. CASE NewContext \/ SignOut \/ Reload \/ ServiceChanges \/ ChangePermission
  BY <1>5, NewContextKeeps, SignOutKeeps, ReloadKeeps, ServiceChangesKeeps, ChangePermissionKeeps
<1>6. ASSUME NEW u \in Users, SignIn(u)
      PROVE  CommandInv' /\ PromiseStep
  BY <1>6, SignInKeeps
<1>7. CASE UNCHANGED vars
  <2>1. /\ UNCHANGED <<user, storage, frozen, told>>
        /\ UNCHANGED <<at, key, fresh, reply, late, allowed, outdated, unready, effects>>
    BY <1>7 DEF vars, handlers, server
  <2>2. ServerTyped' /\ Onward /\ PromiseStep
    BY <2>1, Before, NothingTold DEF ServerTyped, Onward
  <2>3. UNCHANGED <<marker, owner, inspected>>
    BY <2>1, StorageStays
  <2>4. \A j \in Keys : KeyInv(j)'
    BY <2>1, <2>3, Before DEF KeyInv
  <2>5. HandlersTyped' /\ \A g \in Handlers : HandlerInv(g)'
    BY <2>1, <2>2, Before, HandlersStay DEF HandlersTyped
  <2> QED
    BY <2>1, <2>2, <2>4, <2>5, ServerKeeps
<1> QED
  BY <1>1, <1>2, <1>3, <1>4, <1>5, <1>6, <1>7 DEF Next

LEMMA CommandAlways == Spec => []CommandInv
<1>1. CommandInv /\ [Next]_vars => CommandInv'
  BY CommandNext
<1> QED
  BY <1>1, CommandInit, PTL DEF Spec

\* The variables keep their types.
THEOREM CommandTypeCorrect == Spec => []TypeOK
<1>1. CommandInv => TypeOK
  BY DEF CommandInv
<1> QED
  BY <1>1, CommandAlways, PTL

\* What the tab keeps belongs to its user's own command whose outcome is open.
THEOREM TabIsClean == Spec => []NothingLeftBehind
<1>1. CommandInv => NothingLeftBehind
  BY DEF CommandInv
<1> QED
  BY <1>1, CommandAlways, PTL

\* The pages, the notice and the server keep the promise of Submission: a command takes
\* effect at most once, is settled only if it has, and is refused as out of date only if
\* it never will.  Of a denial, or of a start refused while the service is not ready,
\* nothing is promised: the command may take effect before or after it.
THEOREM PagesKeepThePromise == Spec => ImplementsSubmission
<1>1. Init => Promise!Init
  BY DEF Init, Promise!Init
<1>2. CommandInv /\ [Next]_vars => [Promise!Next]_<<ToldAsPromised, effects>>
  BY CommandNext DEF PromiseStep
<1> QED
  BY <1>1, <1>2, CommandAlways, PTL
  DEF Spec, ImplementsSubmission, Promise!Spec, ToldAsPromised

-----------------------------------------------------------------------------
(* How the page follows its task *)

\* An operation that is under way knows how much of the history it has read: whole
\* pages, until it reaches the end or has read as many as it may.
OpInv(op) ==
  /\ op.base <= version /\ op.answer <= version /\ op.from <= op.upto
  /\ op.kind # "cycle" => op.from = 0
  /\ op.at = "snapshot" => op.kind # "cycle"
  /\ op.at = "events" =>
       /\ op.pages < MaxPages /\ op.upto = op.from + PageSize * op.pages
       /\ op.answer > 0 => op.base <= op.answer
  /\ op.at = "refresh" /\ op.kind # "cycle" =>
       op.base <= op.upto \/ PageSize * MaxPages <= op.upto

\* A poll is always the current operation, and nothing else moves the cursor then.
PollInv ==
  /\ poll.at # "idle" => holder = "poll"
  /\ poll.at # "idle" /\ poll.kind = "cycle" => poll.from = cursor

PageInv ==
  /\ PageTypeOK
  /\ shown <= latest
  /\ OpInv(first) /\ OpInv(poll) /\ PollInv
  /\ CursorIsEarned

\* Pages add up.
LEMMA PagesAddUp ==
  ASSUME NEW n \in Nat
  PROVE  PageSize * n \in Nat /\ PageSize * (n + 1) = PageSize * n + PageSize
BY TaskSyncAssumption

\* A new operation.
LEMMA WaitingFacts ==
  ASSUME NEW kind \in Operations,
         NEW phase \in {"idle", "snapshot", "events", "refresh"},
         NEW base \in 0..MaxVersion, NEW from \in 0..MaxVersion
  PROVE  LET w == Waiting(kind, phase, base, from)
         IN /\ w \in Operation
            /\ w.kind = kind /\ w.at = phase /\ w.base = base /\ w.from = from /\ w.upto = from
            /\ w.pages = 0 /\ w.answer = 0
BY TaskSyncAssumption DEF Waiting, Operation

LEMMA IdleFacts ==
  /\ Idle \in Operation /\ Idle.at = "idle" /\ Idle.kind = "cycle"
  /\ Idle.from = 0 /\ Idle.upto = 0 /\ Idle.base = 0 /\ Idle.answer = 0
BY WaitingFacts, TaskSyncAssumption DEF Idle, Operations

LEMMA BeginsWell ==
  ASSUME PageInv, NEW kind \in Operations,
         NEW phase \in {"idle", "snapshot", "events"},
         NEW base \in 0..version, NEW from \in 0..MaxVersion, kind # "cycle" => from = 0,
         phase = "snapshot" => kind # "cycle"
  PROVE  /\ OpInv(Waiting(kind, phase, base, from))
         /\ Waiting(kind, phase, base, from) \in Operation
<1>1. base \in 0..MaxVersion /\ 0 < MaxPages /\ PageSize * 0 = 0 /\ version \in 0..MaxVersion
  BY TaskSyncAssumption DEF PageInv, PageTypeOK
<1> DEFINE w == Waiting(kind, phase, base, from)
<1>2. /\ w \in Operation
      /\ w.kind = kind /\ w.at = phase /\ w.base = base /\ w.from = from /\ w.upto = from
      /\ w.pages = 0 /\ w.answer = 0
  BY <1>1, WaitingFacts
<1> HIDE DEF w
<1>3. OpInv(w)
  BY <1>1, <1>2 DEF OpInv
<1> QED BY <1>2, <1>3 DEF w

LEMMA PageStarts == PageInit => PageInv
<1> SUFFICES ASSUME PageInit PROVE PageInv
  OBVIOUS
<1> DEFINE w == Waiting("initialize", "snapshot", 0, 0)
<1>1. /\ w \in Operation /\ w.kind = "initialize" /\ w.at = "snapshot" /\ w.base = 0
      /\ w.from = 0 /\ w.upto = 0 /\ w.answer = 0
  BY WaitingFacts, TaskSyncAssumption DEF Operations
<1>2. first = w
  BY DEF PageInit
<1> HIDE DEF w
<1>3. /\ version = 1 /\ hidden \in BOOLEAN /\ shown = 0 /\ latest = 0 /\ events = {}
      /\ cursor = 0 /\ poll = Idle /\ holder = "first" /\ timer = FALSE /\ failures = 0
      /\ paused = FALSE /\ loadError = "none" /\ trouble = 0
  BY DEF PageInit
<1>4. PageTypeOK
  <2>1. /\ version \in 1..MaxVersion /\ shown \in 0..MaxVersion /\ latest \in 0..MaxVersion
        /\ cursor \in 0..MaxVersion /\ failures \in 0..3 /\ trouble \in 0..MaxTrouble
    BY <1>3, TaskSyncAssumption
  <2>2. events \subseteq 1..MaxVersion /\ timer \in BOOLEAN /\ paused \in BOOLEAN
    BY <1>3
  <2> QED BY <1>1, <1>2, <1>3, <2>1, <2>2, IdleFacts DEF PageTypeOK
<1>5. OpInv(first) /\ OpInv(poll) /\ PollInv
  BY <1>1, <1>2, <1>3, IdleFacts DEF OpInv, PollInv
<1>6. CursorIsEarned
  BY <1>3 DEF CursorIsEarned
<1> QED
  BY <1>3, <1>4, <1>5, <1>6 DEF PageInv

\* What an operation that is not idle may count on.
LEMMA OperatingFacts ==
  ASSUME PageInv, NEW o \in {"first", "poll"}
  PROVE  LET op == Operating(o)
         IN /\ op \in Operation /\ OpInv(op)
            /\ op.at # "idle" /\ op.kind = "cycle" => o = "poll" /\ op.from = cursor
            /\ op.at # "idle" /\ o = "first" => op.kind = "initialize"
            /\ o = "poll" => op.kind # "initialize"
BY DEF PageInv, PageTypeOK, PollInv, Operating

\* An operation that goes on, or ends, with the other one left alone.
LEMMA BecomesWell ==
  ASSUME PageInv, NEW o \in {"first", "poll"}, NEW next, Becomes(o, next),
         UNCHANGED <<version, holder>>,
         next \in Operation, OpInv(next),
         next.at # "idle" => Operating(o).at # "idle",
         next.at # "idle" /\ next.kind = "cycle" => o = "poll" /\ next.from = cursor',
         next.at # "idle" /\ o = "first" => next.kind = "initialize",
         o = "poll" => next.kind # "initialize",
         o = "first" /\ poll.at # "idle" => cursor' = cursor
  PROVE  /\ first' \in Operation /\ poll' \in Operation
         /\ first'.at # "idle" => first'.kind = "initialize"
         /\ poll'.kind # "initialize"
         /\ OpInv(first)' /\ OpInv(poll)' /\ PollInv'
BY DEF PageInv, PageTypeOK, OpInv, PollInv, Becomes, Operating

\* When it has read everything, or as much as it may, an operation leaves the cursor
\* where all that a first read reaches is on the page.
LEMMA FinishedWell ==
  ASSUME PageInv, NEW o \in {"first", "poll"}, NEW op \in Operation,
         Finish(o, op),
         op.from <= op.upto, op.kind # "cycle" => op.from = 0,
         op.kind = "cycle" => op.from = cursor,
         op.kind # "cycle" => op.base <= op.upto \/ PageSize * MaxPages <= op.upto
  PROVE  /\ CursorIsEarned' /\ cursor' \in 0..MaxVersion /\ events' \subseteq 1..MaxVersion
         /\ failures' \in 0..3 /\ paused' \in BOOLEAN /\ timer' \in BOOLEAN
         /\ o # holder => cursor' = cursor
<1>1. /\ op.upto \in 0..MaxVersion /\ op.base \in 0..MaxVersion /\ op.from \in 0..MaxVersion
      /\ PageSize * MaxPages \in Nat /\ MaxVersion \in Nat
  BY TaskSyncAssumption DEF Operation
<1>2. CASE holder # o
  BY <1>2 DEF Finish, PageInv, PageTypeOK, CursorIsEarned
<1>3. CASE holder = o
  <2>1. /\ events' = events \cup (op.from + 1)..op.upto
        /\ cursor' = IF op.kind = "cycle" THEN op.upto ELSE op.base
        /\ failures' = 0 /\ paused' = FALSE /\ timer' \in BOOLEAN
    BY <1>3 DEF Finish, NextCursor, schedule
  <2>2. cursor \in 0..MaxVersion /\ events \subseteq 1..MaxVersion /\ CursorIsEarned
    BY DEF PageInv, PageTypeOK
  <2>3. events' \subseteq 1..MaxVersion /\ cursor' \in 0..MaxVersion
    <3>1. (op.from + 1)..op.upto \subseteq 1..MaxVersion
      BY <1>1
    <3> QED BY <1>1, <2>1, <2>2, <3>1
  <2>4. ASSUME NEW e \in 1..cursor', e <= PageSize * MaxPages PROVE e \in events'
    <3>1. CASE op.kind = "cycle"
      BY <1>1, <2>1, <2>2, <2>4, <3>1 DEF CursorIsEarned
    <3>2. CASE op.kind # "cycle"
      BY <1>1, <2>1, <2>2, <2>4, <3>2
    <3> QED BY <3>1, <3>2
  <2>5. CursorIsEarned'
    BY <2>4 DEF CursorIsEarned
  <2>6. failures' \in 0..3
    BY <2>1
  <2>7. paused' \in BOOLEAN
    BY <2>1
  <2> QED BY <1>3, <2>1, <2>3, <2>5, <2>6, <2>7
<1> QED BY <1>2, <1>3

LEMMA FinishKeeps ==
  ASSUME PageInv, NEW o \in {"first", "poll"}, NEW op \in Operation,
         Finish(o, op),
         UNCHANGED <<version, hidden, holder, loadError, trouble>>,
         shown' \in 0..MaxVersion, latest' \in 0..MaxVersion, shown' <= latest',
         op.from <= op.upto, op.kind # "cycle" => op.from = 0,
         op.kind = "cycle" => op.from = cursor,
         op.kind # "cycle" => op.base <= op.upto \/ PageSize * MaxPages <= op.upto
  PROVE  PageInv'
<1>1. /\ CursorIsEarned' /\ cursor' \in 0..MaxVersion /\ events' \subseteq 1..MaxVersion
      /\ failures' \in 0..3 /\ paused' \in BOOLEAN /\ timer' \in BOOLEAN
      /\ o # holder => cursor' = cursor
  BY FinishedWell
<1>2. Becomes(o, Idle)
  BY DEF Finish
<1>3. OpInv(Idle)
  BY IdleFacts DEF OpInv, PageInv, PageTypeOK
<1>4. o = "first" /\ poll.at # "idle" => cursor' = cursor
  BY <1>1 DEF PageInv, PollInv
<1>5. /\ first' \in Operation /\ poll' \in Operation
      /\ first'.at # "idle" => first'.kind = "initialize"
      /\ poll'.kind # "initialize"
      /\ OpInv(first)' /\ OpInv(poll)' /\ PollInv'
  BY <1>2, <1>3, <1>4, IdleFacts, BecomesWell
<1>6. PageTypeOK'
  BY <1>1, <1>5 DEF PageInv, PageTypeOK
<1> QED BY <1>1, <1>5, <1>6 DEF PageInv

\* The whole of what is kept while an operation goes on.
LEMMA NextReply ==
  ASSUME PageInv, NEW o \in {"first", "poll"}, Serve(o) \/ Replies(o)
  PROVE  PageInv'
<1> DEFINE op == Operating(o)
<1>0. /\ op \in Operation /\ OpInv(op)
      /\ op.at # "idle" /\ op.kind = "cycle" => o = "poll" /\ op.from = cursor
      /\ op.at # "idle" /\ o = "first" => op.kind = "initialize"
      /\ o = "poll" => op.kind # "initialize"
      /\ op.base \in 0..MaxVersion /\ op.upto \in 0..MaxVersion /\ op.from \in 0..MaxVersion
      /\ op.pages \in 0..MaxPages /\ op.answer \in 0..MaxVersion
      /\ version \in 1..MaxVersion /\ MaxVersion \in Nat /\ PageSize \in Nat \ {0}
      /\ MaxPages \in Nat \ {0} /\ cursor \in 0..MaxVersion
  BY OperatingFacts, TaskSyncAssumption DEF PageInv, PageTypeOK, Operation
<1>1. CASE Serve(o)
  <2> DEFINE next == [op EXCEPT !.answer = version]
  <2>1. /\ op.at # "idle" /\ Becomes(o, next)
        /\ UNCHANGED <<version, hidden, page, holder, control, trouble>>
    BY <1>1 DEF Serve
  <2>2. /\ next \in Operation /\ next.kind = op.kind /\ next.at = op.at /\ next.base = op.base
        /\ next.from = op.from /\ next.upto = op.upto /\ next.pages = op.pages
        /\ next.answer = version
    BY <1>0 DEF Operation
  <2> HIDE DEF next
  <2>3. OpInv(next)
    BY <1>0, <2>2 DEF OpInv
  <2>4. cursor' = cursor
    BY <2>1 DEF page
  <2> HIDE DEF op
  <2>5. /\ first' \in Operation /\ poll' \in Operation
        /\ first'.at # "idle" => first'.kind = "initialize"
        /\ poll'.kind # "initialize"
        /\ OpInv(first)' /\ OpInv(poll)' /\ PollInv'
    BY <1>0, <2>1, <2>2, <2>3, <2>4, BecomesWell DEF op
  <2> QED BY <2>1, <2>5 DEF PageInv, PageTypeOK, CursorIsEarned, page, control
<1>2. ASSUME op.answer > 0, acceptSnapshot(op.answer)
      PROVE  shown' \in 0..MaxVersion /\ latest' \in 0..MaxVersion /\ shown' <= latest'
  BY <1>0, <1>2 DEF acceptSnapshot, PageInv, PageTypeOK
<1>3. CASE FirstSnapshot(o)
  <2>1. /\ op.at = "snapshot" /\ op.answer > 0 /\ acceptSnapshot(op.answer)
        /\ UNCHANGED <<version, hidden, events, cursor, holder, timer, loadError, trouble>>
        /\ failures' \in {failures, 0} /\ paused' \in {paused, FALSE}
    BY <1>3 DEF FirstSnapshot
  <2>2. PICK next \in Operation :
          /\ Becomes(o, next) /\ OpInv(next) /\ next.at = "events"
          /\ next.kind = "cycle" => op.kind \in {"visible", "cycle"}
          /\ next.from = IF op.kind = "visible" THEN cursor ELSE 0
          /\ next.kind = IF op.kind = "visible" THEN "cycle" ELSE op.kind
    <3>1. CASE op.kind = "visible"
      <4> DEFINE w == Waiting("cycle", "events", 0, cursor)
      <4>1. "cycle" \in Operations /\ 0 \in 0..version /\ 0 \in 0..MaxVersion
        BY <1>0 DEF Operations
      <4>2. /\ w \in Operation /\ OpInv(w) /\ w.at = "events" /\ w.kind = "cycle"
            /\ w.from = cursor
        BY <1>0, <4>1, BeginsWell, WaitingFacts
      <4>3. Becomes(o, w)
        BY <1>3, <3>1 DEF FirstSnapshot
      <4> HIDE DEF w
      <4> QED BY <3>1, <4>2, <4>3
    <3>2. CASE op.kind # "visible"
      <4> DEFINE w == Waiting(op.kind, "events", op.answer, 0)
      <4>1. op.kind \in Operations /\ op.answer \in 0..version
        BY <1>0 DEF Operation, OpInv
      <4>2. w \in Operation /\ OpInv(w) /\ w.at = "events" /\ w.kind = op.kind /\ w.from = 0
        BY <1>0, <4>1, BeginsWell, WaitingFacts
      <4>3. Becomes(o, w)
        BY <1>3, <3>2 DEF FirstSnapshot
      <4> HIDE DEF w
      <4> QED BY <3>2, <4>2, <4>3
    <3> QED BY <3>1, <3>2
  <2>3. /\ first' \in Operation /\ poll' \in Operation
        /\ first'.at # "idle" => first'.kind = "initialize"
        /\ poll'.kind # "initialize"
        /\ OpInv(first)' /\ OpInv(poll)' /\ PollInv'
    <3>1. o = "first" => op.kind = "initialize"
      BY <1>0, <2>1
    <3>2. op.kind # "cycle"
      BY <1>0, <2>1 DEF OpInv
    <3> HIDE DEF op
    <3>3. next.at # "idle" /\ next.kind = "cycle" => o = "poll" /\ next.from = cursor'
      BY <2>1, <2>2, <3>1, <3>2
    <3>4. /\ next.at # "idle" /\ o = "first" => next.kind = "initialize"
          /\ o = "poll" => next.kind # "initialize"
      BY <1>0, <2>2, <3>1
    <3>5. Operating(o).at # "idle"
      BY <2>1 DEF op
    <3> QED BY <2>1, <2>2, <3>3, <3>4, <3>5, BecomesWell
  <2>4. failures' \in 0..3
    BY <2>1 DEF PageInv, PageTypeOK
  <2>5. paused' \in BOOLEAN
    BY <2>1 DEF PageInv, PageTypeOK
  <2>6. PageTypeOK'
    BY <1>2, <2>1, <2>3, <2>4, <2>5 DEF PageInv, PageTypeOK
  <2>7. CursorIsEarned'
    BY <2>1 DEF PageInv, CursorIsEarned
  <2> QED BY <1>2, <2>1, <2>3, <2>6, <2>7 DEF PageInv
<1>4. CASE EventPage(o)
  <2> DEFINE end == IF op.upto + PageSize < op.answer THEN op.upto + PageSize
                    ELSE IF op.upto < op.answer THEN op.answer ELSE op.upto
             read == [op EXCEPT !.upto = end, !.pages = @ + 1, !.answer = 0]
             refresh == [read EXCEPT !.at = "refresh"]
             more == end < op.answer /\ GoesOn(read.pages)
  <2>1. /\ op.at = "events" /\ op.answer > 0
        /\ UNCHANGED <<version, hidden, shown, latest, holder, loadError, trouble>>
        /\ \/ more /\ Becomes(o, read) /\ UNCHANGED <<events, cursor, timer, failures, paused>>
           \/ /\ ~more /\ Becomes(o, refresh)
              /\ UNCHANGED <<events, cursor, timer, failures, paused>>
           \/ ~more /\ Finish(o, read)
    BY <1>4 DEF EventPage
  <2>2. /\ op.pages < MaxPages /\ op.upto = op.from + PageSize * op.pages
        /\ op.base <= op.answer /\ op.answer <= version /\ op.base <= version
        /\ op.from <= op.upto /\ (op.kind # "cycle" => op.from = 0)
        /\ PageSize * op.pages \in Nat
        /\ PageSize * (op.pages + 1) = PageSize * op.pages + PageSize
    BY <1>0, <2>1, PagesAddUp DEF OpInv
  <2>3. end \in 0..MaxVersion /\ op.upto <= end /\ (end < op.answer => end = op.upto + PageSize)
    BY <1>0
  <2> HIDE DEF end, op
  <2>4. /\ read \in Operation /\ read.kind = op.kind /\ read.at = op.at /\ read.base = op.base
        /\ read.from = op.from /\ read.upto = end /\ read.pages = op.pages + 1
        /\ read.answer = 0
    <3>1. op.pages + 1 \in 0..MaxPages /\ 0 \in 0..MaxVersion /\ op \in Operation
      BY <1>0, <2>2
    <3> DEFINE n == op.pages + 1
    <3>2. read = [op EXCEPT !.upto = end, !.pages = n, !.answer = 0] /\ n \in 0..MaxPages
      BY <3>1
    <3> HIDE DEF read, n
    <3>3. /\ read \in Operation /\ read.kind = op.kind /\ read.at = op.at
          /\ read.base = op.base /\ read.from = op.from /\ read.upto = end /\ read.pages = n
          /\ read.answer = 0
      BY <2>3, <3>1, <3>2 DEF Operation
    <3> QED BY <3>3 DEF n
  <2>5. /\ refresh \in Operation /\ refresh.kind = op.kind /\ refresh.at = "refresh"
        /\ refresh.base = op.base /\ refresh.from = op.from /\ refresh.upto = end
        /\ refresh.answer = 0
    BY <2>4 DEF Operation
  <2>6. ~more => end >= op.answer \/ read.pages = MaxPages
    BY <1>0, <2>2, <2>3, <2>4 DEF GoesOn
  <2>7. ~more /\ op.kind # "cycle" => op.base <= end \/ PageSize * MaxPages <= end
    <3>1. CASE end >= op.answer
      BY <1>0, <2>2, <2>3, <3>1
    <3>2. CASE end < op.answer /\ op.pages + 1 = MaxPages
      BY <1>0, <2>2, <2>3, <3>2
    <3> QED BY <1>0, <2>3, <2>4, <2>6, <3>1, <3>2
  <2>8. op.kind = "cycle" => o = "poll" /\ op.from = cursor
    BY <1>0, <2>1
  <2>9. op.from <= end
    BY <1>0, <2>2, <2>3
  <2>10. CASE more /\ Becomes(o, read) /\ UNCHANGED <<events, cursor, timer, failures, paused>>
    <3>1. read.pages < MaxPages /\ read.upto = read.from + PageSize * read.pages
      BY <1>0, <2>2, <2>3, <2>4, <2>10 DEF GoesOn
    <3>2. OpInv(read)
      BY <1>0, <2>1, <2>2, <2>4, <2>9, <3>1 DEF OpInv
    <3> HIDE DEF read, more
    <3>3. Operating(o).at # "idle"
      BY <2>1 DEF op
    <3>4. /\ first' \in Operation /\ poll' \in Operation
          /\ first'.at # "idle" => first'.kind = "initialize"
          /\ poll'.kind # "initialize"
          /\ OpInv(first)' /\ OpInv(poll)' /\ PollInv'
      BY <1>0, <2>1, <2>4, <2>8, <2>10, <3>2, <3>3, BecomesWell
    <3>5. PageTypeOK'
      BY <2>1, <2>10, <3>4 DEF PageInv, PageTypeOK
    <3> QED BY <2>1, <2>10, <3>4, <3>5 DEF PageInv, CursorIsEarned
  <2>11. CASE /\ ~more /\ Becomes(o, refresh)
              /\ UNCHANGED <<events, cursor, timer, failures, paused>>
    <3>1. OpInv(refresh)
      BY <1>0, <2>1, <2>2, <2>5, <2>7, <2>9, <2>11 DEF OpInv
    <3> HIDE DEF refresh, read, more
    <3>2. Operating(o).at # "idle"
      BY <2>1 DEF op
    <3>3. /\ first' \in Operation /\ poll' \in Operation
          /\ first'.at # "idle" => first'.kind = "initialize"
          /\ poll'.kind # "initialize"
          /\ OpInv(first)' /\ OpInv(poll)' /\ PollInv'
      BY <1>0, <2>1, <2>5, <2>8, <2>11, <3>1, <3>2, BecomesWell
    <3>4. PageTypeOK'
      BY <2>1, <2>11, <3>3 DEF PageInv, PageTypeOK
    <3> QED BY <2>1, <2>11, <3>3, <3>4 DEF PageInv, CursorIsEarned
  <2>12. CASE ~more /\ Finish(o, read)
    <3> HIDE DEF read, more
    <3>1. shown' \in 0..MaxVersion /\ latest' \in 0..MaxVersion /\ shown' <= latest'
      BY <2>1 DEF PageInv, PageTypeOK
    <3> QED BY <2>1, <2>2, <2>4, <2>7, <2>8, <2>9, <2>12, <3>1, FinishKeeps
  <2> QED BY <2>1, <2>10, <2>11, <2>12
<1>5. CASE Refresh(o)
  <2>1. /\ op.at = "refresh" /\ op.answer > 0
        /\ acceptSnapshot(op.answer) /\ Finish(o, op)
        /\ UNCHANGED <<version, hidden, holder, loadError, trouble>>
    BY <1>5 DEF Refresh
  <2>2. shown' \in 0..MaxVersion /\ latest' \in 0..MaxVersion /\ shown' <= latest'
    BY <1>2, <2>1
  <2>3. /\ op.from <= op.upto /\ (op.kind # "cycle" => op.from = 0)
        /\ op.kind = "cycle" => op.from = cursor
        /\ op.kind # "cycle" => op.base <= op.upto \/ PageSize * MaxPages <= op.upto
    BY <1>0, <2>1 DEF OpInv
  <2> HIDE DEF op
  <2> QED BY <1>0, <2>1, <2>2, <2>3, FinishKeeps
<1> QED BY <1>1, <1>3, <1>4, <1>5 DEF Replies

\* A first load or a poll begins, or is given up.
LEMMA OperationKeeps ==
  ASSUME PageInv, UNCHANGED <<version, events>>, PageTypeOK',
         first' \in {first, Idle, Waiting("initialize", "snapshot", 0, 0)},
         poll' \in {poll, Idle, Waiting("visible", "snapshot", 0, 0),
                    Waiting("resync", "snapshot", 0, 0),
                    Waiting("cycle", "events", 0, cursor)},
         \/ cursor' = cursor
         \/ cursor' = 0 /\ poll' = Idle,
         \/ holder' = "poll"
         \/ poll' = Idle
         \/ holder' = holder /\ poll' = poll,
         shown' <= latest'
  PROVE  PageInv'
<1>1. /\ 0 \in 0..version /\ 0 \in 0..MaxVersion /\ cursor \in 0..MaxVersion
      /\ version \in 1..MaxVersion
  BY TaskSyncAssumption DEF PageInv, PageTypeOK
<1> DEFINE load == Waiting("initialize", "snapshot", 0, 0)
           visible == Waiting("visible", "snapshot", 0, 0)
           resync == Waiting("resync", "snapshot", 0, 0)
           cycle == Waiting("cycle", "events", 0, cursor)
<1>2. OpInv(load) /\ OpInv(visible) /\ OpInv(resync) /\ OpInv(cycle)
  BY <1>1, BeginsWell DEF Operations
<1>3. visible.kind = "visible" /\ resync.kind = "resync" /\ cycle.from = cursor
  BY <1>1, WaitingFacts DEF Operations
<1>4. OpInv(Idle)
  BY <1>1, IdleFacts DEF OpInv
<1>5. OpInv(first) /\ OpInv(poll) /\ PollInv /\ CursorIsEarned
  BY DEF PageInv
<1>6. first' \in {first, Idle, load} /\ poll' \in {poll, Idle, visible, resync, cycle}
  OBVIOUS
<1> HIDE DEF load, visible, resync, cycle
<1>7. OpInv(first)' /\ OpInv(poll)'
  BY <1>2, <1>4, <1>5, <1>6 DEF OpInv
<1>8. PollInv'
  BY <1>3, <1>5, <1>6, IdleFacts DEF PollInv
<1>9. CursorIsEarned'
  BY <1>5 DEF CursorIsEarned
<1> QED BY <1>7, <1>8, <1>9 DEF PageInv

LEMMA PageKeeps == PageInv /\ [PageNext]_pageVars => PageInv'
<1> SUFFICES ASSUME PageInv, [PageNext]_pageVars PROVE PageInv'
  OBVIOUS
<1>0. PageTypeOK /\ shown <= latest
  BY DEF PageInv
<1>1. CASE UNCHANGED pageVars
  BY <1>1 DEF pageVars, page, ops, control, PageInv, PageTypeOK, OpInv, PollInv,
     CursorIsEarned
<1>2. CASE Change
  <2>1. /\ version' = version + 1 /\ version < MaxVersion
        /\ UNCHANGED <<hidden, page, ops, control, trouble>>
    BY <1>2 DEF Change
  <2>2. OpInv(first)' /\ OpInv(poll)'
    BY <2>1, TaskSyncAssumption DEF PageInv, PageTypeOK, OpInv, Operation, ops
  <2>3. version' \in 1..MaxVersion
    BY <2>1, <1>0, TaskSyncAssumption DEF PageTypeOK
  <2> QED
    BY <2>1, <2>2, <2>3
    DEF PageInv, PageTypeOK, PollInv, CursorIsEarned, page, ops, control
<1>3. ASSUME NEW o \in {"first", "poll"}, Serve(o) \/ Replies(o) PROVE PageInv'
  BY <1>3, NextReply
<1> DEFINE load == Waiting("initialize", "snapshot", 0, 0)
           visible == Waiting("visible", "snapshot", 0, 0)
           resync == Waiting("resync", "snapshot", 0, 0)
           cycle == Waiting("cycle", "events", 0, cursor)
<1>4. /\ load \in Operation /\ load.kind = "initialize"
      /\ visible \in Operation /\ visible.kind = "visible"
      /\ resync \in Operation /\ resync.kind = "resync"
      /\ cycle \in Operation /\ cycle.kind = "cycle"
  BY <1>0, WaitingFacts, TaskSyncAssumption DEF Operations, PageTypeOK
<1>5. /\ trouble < MaxTrouble => trouble + 1 \in 0..MaxTrouble
      /\ 0 \in 0..MaxVersion /\ 0 \in 0..3
  BY <1>0, TaskSyncAssumption DEF PageTypeOK
<1>6. ASSUME NEW error \in {"error", "gone"}, LoadFails(error) PROVE PageInv'
  <2>1. PageTypeOK'
    BY <1>0, <1>5, <1>6, IdleFacts DEF LoadFails, Trouble, PageTypeOK, page
  <2> QED BY <1>0, <1>6, <2>1, OperationKeeps DEF LoadFails, page
<1>7. CASE Expired
  <2>1. holder = "poll"
    BY <1>7 DEF Expired, PageInv, PollInv
  <2>2. PageTypeOK'
    BY <1>0, <1>4, <1>5, <1>7 DEF Expired, Trouble, PageTypeOK, page, control
  <2> QED BY <1>0, <1>7, <2>1, <2>2, OperationKeeps DEF Expired, page
<1>8. CASE Gone \/ Refused
  <2>1. PageTypeOK'
    <3>1. CASE Gone
      BY <1>0, <1>5, <3>1, IdleFacts DEF Gone, Trouble, PageTypeOK
    <3>2. CASE Refused
      BY <1>0, <1>5, <3>2, IdleFacts DEF Refused, Trouble, PageTypeOK, page
    <3> QED BY <1>8, <3>1, <3>2
  <2>2. shown' <= latest'
    BY <1>0, <1>8 DEF Gone, Refused, PageTypeOK, page
  <2> QED BY <1>8, <2>1, <2>2, OperationKeeps DEF Gone, Refused, page
<1>9. CASE Transient
  <2>1. failures' \in 0..3
    BY <1>0, <1>9 DEF Transient, PageTypeOK
  <2>2. paused' \in BOOLEAN /\ timer' \in BOOLEAN
    BY <1>0, <1>9 DEF Transient, PageTypeOK, schedule
  <2>3. PageTypeOK'
    BY <1>0, <1>5, <1>9, <2>1, <2>2, IdleFacts DEF Transient, Trouble, PageTypeOK
  <2> QED BY <1>0, <1>9, <2>3, OperationKeeps DEF Transient
<1>10. CASE Tick
  <2>1. PageTypeOK'
    BY <1>0, <1>4, <1>10 DEF Tick, PageTypeOK, page
  <2> QED BY <1>0, <1>10, <2>1, OperationKeeps DEF Tick, page
<1>11. CASE Hide
  <2>1. /\ first' \in {first, Idle} /\ poll' \in {poll, Idle}
        /\ holder' = holder /\ UNCHANGED <<version, shown, latest, events, cursor>>
    BY <1>11 DEF Hide, Becomes, page
  <2>2. paused' \in BOOLEAN
    BY <1>11 DEF Hide
  <2>3. PageTypeOK'
    BY <1>0, <1>5, <1>11, <2>1, <2>2, IdleFacts DEF Hide, Trouble, PageTypeOK
  <2> QED BY <1>0, <2>1, <2>3, OperationKeeps
<1>12. CASE Show
  <2>1. PageTypeOK'
    BY <1>0, <1>4, <1>5, <1>12 DEF Show, Trouble, PageTypeOK, page, control
  <2> QED BY <1>0, <1>12, <2>1, OperationKeeps DEF Show, page
<1>13. CASE Resynchronize
  <2>1. PageTypeOK'
    BY <1>0, <1>4, <1>5, <1>13, IdleFacts DEF Resynchronize, Trouble, PageTypeOK
  <2> QED BY <1>0, <1>13, <2>1, OperationKeeps DEF Resynchronize
<1> QED
  BY <1>1, <1>2, <1>3, <1>6, <1>7, <1>8, <1>9, <1>10, <1>11, <1>12, <1>13 DEF PageNext

LEMMA AlwaysPage == PageSpec => []PageInv
BY PageStarts, PageKeeps, PTL DEF PageSpec

\* A step that shows another snapshot shows a later one.
LEMMA StepForward ==
  ASSUME PageInv, [PageNext]_pageVars
  PROVE  shown' >= shown \/ loadError' = "gone"
<1>1. /\ shown \in Nat /\ latest \in Nat /\ shown <= latest
      /\ first \in Operation /\ poll \in Operation
  BY DEF PageInv, PageTypeOK
<1>2. ASSUME NEW v \in 0..MaxVersion, acceptSnapshot(v) PROVE shown' >= shown
  BY <1>1, <1>2 DEF acceptSnapshot
<1>3. ASSUME NEW o \in {"first", "poll"}, Serve(o) \/ Replies(o) PROVE shown' >= shown
  <2>1. Operating(o).answer \in 0..MaxVersion
    BY <1>1 DEF Operating, Operation
  <2>2. shown' = shown \/ acceptSnapshot(Operating(o).answer)
    BY <1>3
    DEF Serve, Replies, FirstSnapshot, EventPage, Refresh, page
  <2> QED BY <1>1, <1>2, <2>1, <2>2
<1>4. CASE Gone
  BY <1>4 DEF Gone
<1>5. CASE \/ UNCHANGED pageVars \/ Change \/ Expired \/ Refused \/ Transient
           \/ Tick \/ Hide \/ Show \/ Resynchronize
           \/ \E error \in {"error", "gone"} : LoadFails(error)
  BY <1>1, <1>5
  DEF pageVars, Change, LoadFails, Expired, Refused, Transient,
      Tick, Hide, Show, Resynchronize, page
<1> QED BY <1>3, <1>4, <1>5 DEF PageNext

\* Every part of the page keeps its type through failures, superseded requests,
\* changes of visibility and reloads: an initial load never ends up among the polls,
\* and none reads more pages than it may (TaskDetail, tasks.tsx).
THEOREM FollowingTypeCorrect == PageSpec => []PageTypeOK
<1>1. PageSpec => []PageInv
  BY AlwaysPage
<1> QED BY <1>1, PTL DEF PageInv

\* The cursor only passes events that are on the page, but for those beyond the pages
\* of a first read: neither an operation that is superseded while its answer is on
\* the way, nor one that starts over, takes it further (cycle, initialize, tasks.tsx).
THEOREM CursorAlwaysEarned == PageSpec => []CursorIsEarned
<1>1. PageSpec => []PageInv
  BY AlwaysPage
<1> QED BY <1>1, PTL DEF PageInv

\* A slow reply never takes the page back to an earlier state of the task, however
\* the loads and polls overtake each other (acceptSnapshot, tasks.tsx).
THEOREM PageNeverGoesBack == PageSpec => NeverGoesBack
<1>1. PageInv /\ [PageNext]_pageVars => [shown' >= shown \/ loadError' = "gone"]_pageVars
  BY StepForward
<1>2. PageSpec => []PageInv
  BY AlwaysPage
<1> QED BY <1>1, <1>2, PTL DEF PageSpec, NeverGoesBack
=============================================================================
