---------------------------- MODULE PendingCommand ----------------------------
(***************************************************************************)
(* The commands of one project in one browser tab (pendingCommand.ts and  *)
(* its users), to create, start or cancel a task: a page freezes the      *)
(* command in memory, puts a marker with its key into the tab's storage   *)
(* and sends it; while the marker is there a notice lets the user ask for *)
(* the receipt, send the frozen command again or give it up.  Handlers    *)
(* run between awaits without interruption.                               *)
(*                                                                        *)
(* Requests and replies may be lost or late, a POST may arrive after its  *)
(* sender has stopped waiting, and the tab may be reloaded.  A storage    *)
(* that fails and a damaged marker are left out: the command is not sent, *)
(* or the marker is taken away unread.                                    *)
(***************************************************************************)
EXTENDS Naturals

CONSTANTS
  Users,
  Keys,    \* idempotency keys, one for each command submitted
  Starts   \* those of commands to start a task

None == "none"
ASSUME PendingCommandAssumption == None \notin Users \cup Keys /\ Starts \subseteq Keys

VARIABLES
  user,      \* whose session the tab has accepted, or None
  marker,    \* the key in the project's marker, or None
  owner,     \* the user in the marker, or None
  inspected, \* listInspectedAt is set in the marker
  frozen,    \* keys whose command is held in memory
  at,        \* per handler: "idle", "finding", "posting" or "reading"
  key,       \* per handler: the key it works on
  fresh,     \* per handler: the context it captured is still the current one
  reply,     \* per handler: "awaited", or what the server answered
  late,      \* keys with a POST under way that nobody waits for
  allowed,   \* the server lets the user command in the project
  outdated,  \* keys whose command the server's state no longer admits
  unready,   \* keys of starts that the execution service is not ready for
  effects,   \* per key: how often the server has carried it out
  told       \* per key: what the user was told, see Submission; "denied" is a
             \* refusal for want of permission, "unready" one of a start that
             \* the service was not ready for

storage == <<marker, owner, inspected>>
handlers == <<at, key, fresh, reply>>
server == <<allowed, outdated, unready, effects>>
vars == <<user, storage, frozen, handlers, late, server, told>>

\* The page that submits commands, and the notice.
Handlers == {"page", "notice"}

\* The refusals that a handler may get: out of date, without permission, or for now.
Rejections == {"refused", "denied", "unready"}

TypeOK ==
  /\ user \in Users \cup {None}
  /\ marker \in Keys \cup {None} /\ owner \in Users \cup {None}
  /\ inspected \in BOOLEAN
  /\ frozen \in SUBSET Keys
  /\ at \in [Handlers -> {"idle", "finding", "posting", "reading"}]
  /\ key \in [Handlers -> Keys \cup {None}]
  /\ \A h \in Handlers : at[h] # "idle" => key[h] \in Keys
  /\ fresh \in [Handlers -> BOOLEAN]
  /\ reply \in [Handlers -> Rejections \cup {"awaited", "receipt", "missing", "found"}]
  /\ late \in SUBSET Keys
  /\ allowed \in BOOLEAN
  /\ outdated \in SUBSET Keys /\ unready \in SUBSET Starts
  /\ effects \in [Keys -> 0..1]
  /\ told \in [Keys -> Rejections \cup {"unsubmitted", "open", "settled", "dropped"}]

Init ==
  /\ user = None
  /\ marker = None /\ owner = None /\ inspected = FALSE
  /\ frozen = {}
  /\ at = [h \in Handlers |-> "idle"]
  /\ key = [h \in Handlers |-> None]
  /\ fresh = [h \in Handlers |-> TRUE]
  /\ reply = [h \in Handlers |-> "awaited"]
  /\ late = {}
  /\ allowed = TRUE /\ outdated = {} /\ unready = {}
  /\ effects = [k \in Keys |-> 0]
  /\ told = [k \in Keys |-> "unsubmitted"]

\* getPendingCommand: the marker, if it is the user's own.
Pending == marker # None /\ owner = user

\* What told becomes when the keys in ks are dealt with.
Tell(ks, what) ==
  told' = [k \in Keys |-> IF k \in ks /\ told[k] = "open" THEN what ELSE told[k]]

NoMarker == marker' = None /\ owner' = None /\ inspected' = FALSE

\* The marker goes only if it is still the one of this command.
clearPendingCommand(k) ==
  /\ IF marker = k THEN NoMarker ELSE UNCHANGED storage
  /\ frozen' = frozen \ {k}

clearAllPendingCommands == NoMarker /\ frozen' = {}

\* A handler moves on to send a request, or stops.
Sends(h, what, k) ==
  /\ at' = [at EXCEPT ![h] = what]
  /\ key' = [key EXCEPT ![h] = k]
  /\ reply' = [reply EXCEPT ![h] = "awaited"]

Captures(h) == fresh' = [fresh EXCEPT ![h] = TRUE]

Stops(hs) ==
  /\ at' = [h \in Handlers |-> IF h \in hs THEN "idle" ELSE at[h]]
  /\ key' = [h \in Handlers |-> IF h \in hs THEN None ELSE key[h]]
  /\ reply' = [h \in Handlers |-> IF h \in hs THEN "awaited" ELSE reply[h]]
  /\ fresh' = [h \in Handlers |-> h \in hs \/ fresh[h]]

\* The POSTs of these handlers that the server has not seen may yet get there.
LeavesPosts(hs) ==
  late' = late \cup {key[h] : h \in {g \in hs : at[g] = "posting" /\ reply[g] = "awaited"}}

-----------------------------------------------------------------------------
(* What the user does *)

\* issueControl or create: the marker first, then the request.
beginCommand(k) ==
  /\ told[k] = "unsubmitted" /\ user # None
  /\ ~Pending /\ at["page"] = "idle"
  /\ marker' = k /\ owner' = user /\ inspected' = FALSE
  /\ frozen' = frozen \cup {k}
  /\ Sends("page", "posting", k) /\ Captures("page")
  /\ told' = [told EXCEPT ![k] = "open"]
  /\ UNCHANGED <<user, late, server>>

\* The notice asks for the receipt by key.
reconcile ==
  /\ Pending /\ at["notice"] = "idle"
  /\ Sends("notice", "finding", marker) /\ Captures("notice")
  /\ UNCHANGED <<user, storage, frozen, late, server, told>>

\* It sends the frozen command once more, under its own key.
retryOriginal ==
  /\ Pending /\ marker \in frozen /\ at["notice"] = "idle"
  /\ Sends("notice", "posting", marker) /\ Captures("notice")
  /\ UNCHANGED <<user, storage, frozen, late, server, told>>

abandon ==
  /\ Pending /\ inspected /\ at["notice"] = "idle"
  /\ clearPendingCommand(marker)
  /\ Tell({marker}, "dropped")
  /\ UNCHANGED <<user, handlers, late, server>>

\* The user leaves the page, which aborts what it waits for; the list of tasks
\* marks the command as inspected.
Leave(list) ==
  /\ user # None
  /\ Stops(Handlers) /\ LeavesPosts(Handlers)
  /\ inspected' = (inspected \/ (list /\ Pending))
  /\ UNCHANGED <<user, marker, owner, frozen, server, told>>

-----------------------------------------------------------------------------
(* Replies *)

\* A handler whose context is no longer the current one stops (projectRequest).
Stale(h) ==
  /\ at[h] # "idle" /\ ~fresh[h]
  /\ Stops({h}) /\ LeavesPosts({h})
  /\ UNCHANGED <<user, storage, frozen, server, told>>

\* The receipt: the task is read before anything is cleared.
Accepted(h) ==
  /\ at[h] \in {"posting", "finding"} /\ fresh[h] /\ reply[h] = "receipt"
  /\ Sends(h, "reading", key[h]) /\ Captures(h)
  /\ UNCHANGED <<user, storage, frozen, late, server, told>>

\* Any explicit rejection of the POST ends the matter, whatever its reason.
Rejected(h) ==
  /\ at[h] = "posting" /\ fresh[h] /\ reply[h] \in Rejections
  /\ clearPendingCommand(key[h])
  /\ Tell({key[h]}, reply[h])
  /\ Stops({h})
  /\ UNCHANGED <<user, late, server>>

\* The task was read.
Settled(h) ==
  /\ at[h] = "reading" /\ fresh[h] /\ reply[h] = "found"
  /\ clearPendingCommand(key[h])
  /\ Tell({key[h]}, "settled")
  /\ Stops({h})
  /\ UNCHANGED <<user, late, server>>

\* Fault: a receipt that is not found counts as a refusal.
MissingIsRefusal(h) ==
  /\ at[h] # "idle" /\ fresh[h] /\ reply[h] \notin Rejections
  /\ Stops({h}) /\ LeavesPosts({h})
  /\ IF at[h] = "finding" /\ reply[h] = "missing"
     THEN clearPendingCommand(key[h]) /\ Tell({key[h]}, "refused")
     ELSE UNCHANGED <<storage, frozen, told>>
  /\ UNCHANGED <<user, server>>

\* Anything else leaves the marker: no answer, an answer that cannot be read,
\* no receipt found, a task that is not shown.
Undecided(h) ==
  /\ at[h] # "idle" /\ fresh[h]
  /\ reply[h] \notin Rejections
  /\ Stops({h}) /\ LeavesPosts({h})
  /\ UNCHANGED <<user, storage, frozen, server, told>>

-----------------------------------------------------------------------------
(* The session of the tab *)

\* The permissions changed, or another project was selected and this one again.
NewContext ==
  /\ user # None
  /\ fresh' = [h \in Handlers |-> at[h] = "idle"]
  /\ UNCHANGED <<user, storage, frozen, at, key, reply, late, server, told>>

\* Fault: a marker survives the change of user.
SignInKeeping(u) ==
  /\ user = None
  /\ user' = u
  /\ UNCHANGED <<storage, frozen, handlers, late, server, told>>

\* acceptSession of u, after nobody: only a marker of u is kept.
SignIn(u) ==
  /\ user = None
  /\ user' = u
  /\ IF owner = u THEN UNCHANGED <<storage, frozen, told>>
     ELSE clearPendingCommand(marker) /\ Tell({marker}, "dropped")
  /\ UNCHANGED <<handlers, late, server>>

\* acceptSession of somebody else, a 401, or the start of a logout.
SignOut ==
  /\ user # None
  /\ user' \in (Users \cup {None}) \ {user}
  /\ clearAllPendingCommands
  /\ Tell(Keys, "dropped")
  /\ fresh' = [h \in Handlers |-> at[h] = "idle"]
  /\ UNCHANGED <<at, key, reply, late, server>>

\* The memory of the tab is gone, its storage is not.
Reload ==
  /\ user' = None
  /\ frozen' = {}
  /\ Stops(Handlers) /\ LeavesPosts(Handlers)
  /\ UNCHANGED <<storage, server, told>>

-----------------------------------------------------------------------------
(* The server *)

\* Why a new command is refused.  The version of the task is compared before the
\* service is asked after, the time its authorization ends after that.
Refusals(k) ==
  (IF k \in outdated THEN {"refused"} ELSE {}) \cup (IF k \in unready THEN {"unready"} ELSE {})

\* Fault: the receipts are not looked at.
ExecuteAgain(k) ==
  IF allowed /\ Refusals(k) = {} /\ effects[k] < 2
  THEN effects' = [effects EXCEPT ![k] = @ + 1] ELSE UNCHANGED effects

\* create_task_command, start_command or control_task_command, one transaction under
\* the user's lock: who is allowed in, an existing receipt, then what refuses it.
Execute(k) ==
  IF allowed /\ effects[k] = 0 /\ Refusals(k) = {}
  THEN effects' = [effects EXCEPT ![k] = 1] ELSE UNCHANGED effects

Answer(h, answer) == reply' = [reply EXCEPT ![h] = answer]

Post(h) ==
  /\ at[h] = "posting" /\ reply[h] = "awaited"
  /\ Execute(key[h])
  /\ \E answer \in IF ~allowed THEN {"denied"}
                  ELSE IF effects'[key[h]] > 0 THEN {"receipt"} ELSE Refusals(key[h]) :
       Answer(h, answer)
  /\ UNCHANGED <<user, storage, frozen, at, key, fresh, late, allowed, outdated, unready, told>>

\* The permissions changed between the authentication of a request and the
\* transaction: a new command is denied.
PostOvertaken(h) ==
  /\ at[h] = "posting" /\ reply[h] = "awaited" /\ effects[key[h]] = 0
  /\ Answer(h, "denied")
  /\ UNCHANGED <<user, storage, frozen, at, key, fresh, late, server, told>>

\* The receipt of a key, or the task in it, is asked for.
Query(h) ==
  /\ at[h] \in {"finding", "reading"} /\ reply[h] = "awaited"
  /\ Answer(h, IF ~allowed \/ effects[key[h]] = 0 THEN "missing"
               ELSE IF at[h] = "finding" THEN "receipt" ELSE "found")
  /\ UNCHANGED <<user, storage, frozen, at, key, fresh, late, server, told>>

\* A POST arrives that nobody waits for any more.
Arrives(k) ==
  /\ k \in late
  /\ late' = late \ {k}
  /\ Execute(k)
  /\ UNCHANGED <<user, storage, frozen, handlers, allowed, outdated, unready, told>>

\* The task, its preview or its model change, or an authorization ends: versions and
\* clocks only advance, so the command is out of date for good.
Outdate(k) ==
  /\ k \notin outdated /\ effects[k] = 0
  /\ outdated' = outdated \cup {k}
  /\ UNCHANGED <<user, storage, frozen, handlers, late, allowed, unready, effects, told>>

\* execution-control misses its heartbeats or finds a service down, is replaced or
\* configured otherwise, and is back again: what start_command asks of it comes and goes.
ServiceChanges ==
  /\ unready' \in SUBSET Starts \ {unready}
  /\ UNCHANGED <<user, storage, frozen, handlers, late, allowed, outdated, effects, told>>

ChangePermission ==
  /\ allowed' = ~allowed
  /\ UNCHANGED <<user, storage, frozen, handlers, late, outdated, unready, effects, told>>

Next ==
  \/ \E k \in Keys : beginCommand(k) \/ Arrives(k) \/ Outdate(k)
  \/ reconcile \/ retryOriginal \/ abandon
  \/ \E list \in BOOLEAN : Leave(list)
  \/ \E h \in Handlers : Stale(h) \/ Accepted(h) \/ Rejected(h) \/ Settled(h)
                          \/ Undecided(h) \/ Post(h) \/ PostOvertaken(h) \/ Query(h)
  \/ NewContext \/ SignOut \/ Reload
  \/ \E u \in Users : SignIn(u)
  \/ ServiceChanges \/ ChangePermission

Spec == Init /\ [][Next]_vars

-----------------------------------------------------------------------------
(* Properties *)

\* The marker and what is held in memory belong to the user's own command whose
\* outcome is open: a later command is never held back, nor an old one sent
\* again, by what an earlier user or command has left.
NothingLeftBehind ==
  /\ frozen \subseteq {marker}
  /\ marker # None => told[marker] = "open" /\ (user # None => owner = user)

\* The marker of a command that was carried out stays until its task was shown,
\* or the user gave it up or left.  The code breaks this: a retry that is denied
\* clears it, or one refused for now whose first POST is carried out meanwhile.
AcceptedStaysPending ==
  [][\A k \in Keys : marker = k /\ effects[k] > 0 /\ marker' # k
                      => told'[k] \in {"settled", "dropped"}]_vars

\* An explicit rejection leaves no receipt.  The code breaks this for a start: it is
\* refused while the service is not ready, which clears its marker, and an earlier
\* POST of the same key that is still on its way is carried out once the service is.
RefusedHasNoEffect ==
  \A k \in Keys : told[k] \in {"refused", "unready"} => effects[k] = 0

\* The pages keep the promise made about submitted commands: one at a time, each
\* carried out at most once, called settled only if it was and refused as out of date
\* only if it never will be.  A refusal for want of permission, or of a start while
\* the service is not ready, says nothing of that: it counts as giving the command up.
Promise == INSTANCE Submission
  WITH told <- [k \in Keys |-> IF told[k] \in {"denied", "unready"} THEN "dropped" ELSE told[k]]
ImplementsSubmission == Promise!Spec
=============================================================================
