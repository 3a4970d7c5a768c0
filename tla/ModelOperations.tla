--------------------------- MODULE ModelOperations ---------------------------
(***************************************************************************)
(* The model configuration of a tenant: administrators save versions of   *)
(* services and profiles, check, publish, retire and revoke profiles, and *)
(* each write to the model gateway is a durable operation that is claimed *)
(* once and afterwards only read back (model_workflow.py, model_store.py).*)
(*                                                                        *)
(* A handler works in short transactions with gateway requests between    *)
(* them: a transaction, or a request's answer, is one action.  A handler  *)
(* may die in every state, and a request may be lost, answered in vain or *)
(* take effect after its sender gave it up.  Handlers of one user exclude *)
(* each other only while a connection holds the user's lock, which may be *)
(* lost: all interleavings of handlers are allowed here.                  *)
(*                                                                        *)
(* Left out: permissions, names, numbers, prices (a profile that may not  *)
(* be published for lack of them), and a change of the gateway instance.  *)
(***************************************************************************)
EXTENDS Naturals, Sequences

CONSTANTS
  Services,     \* the versions of services that may be saved
  Profiles,     \* the versions of profiles that may be saved
  ServiceOf,    \* the service version each profile version names
  Handlers,     \* handlers at work at a time
  MaxOps,       \* bound: operations that call the gateway
  MaxRevision   \* bound: commands to one version

Versions == Services \cup Profiles

ASSUME ModelOperationsAssumption ==
  /\ Services \cap Profiles = {}
  /\ ServiceOf \in [Profiles -> Services]
  /\ MaxOps \in Nat /\ MaxRevision \in Nat \ {0}

VARIABLES
  state,     \* per version: model_versions.state
  sync,      \* and sync_state
  revision,  \* and state_revision
  ops,       \* model_operations that call the gateway, in the order of created_at
  hand,      \* what each handler is doing
  flight,    \* operations whose request is on its way to the gateway
  answer,    \* per operation: what the gateway answered
  asked,     \* per operation: how many requests were sent, 2 for more than one
  native     \* per version: the object at the gateway

rows    == <<state, sync, revision>>
gateway == <<flight, answer, asked, native>>
vars    == <<rows, ops, hand, gateway>>

OpIds  == 1..MaxOps
Kinds  == {"create", "check", "revoke"}
Ended  == {"succeeded", "failed"}
Open   == {"sent", "unknown"}

Operations == [kind : Kinds, version : Versions, state : {"prepared"} \cup Open \cup Ended]

Idle == [at |-> "idle"]

Works ==
  [at : {"ready", "waiting", "confirming", "rereading"}, op : OpIds]
  \cup [at : {"finishing"}, op : OpIds, with : Ended \cup {"unknown"}]
  \cup [at : {"publishing"}, version : Profiles, expected : 1..MaxRevision]

TypeOK ==
  /\ state \in [Versions -> {"none", "draft", "published", "retired", "revoked"}]
  /\ sync \in [Versions -> {"pending", "synced", "failed", "unknown"}]
  /\ revision \in [Versions -> 1..MaxRevision]
  /\ ops \in Seq(Operations) /\ Len(ops) <= MaxOps
  /\ hand \in [Handlers -> Works \cup {Idle}]
  /\ \A h \in Handlers :
       hand[h].at \notin {"idle", "publishing"} => hand[h].op \in 1..Len(ops)
  /\ flight \in SUBSET OpIds
  /\ answer \in [OpIds -> {"none", "done", "rejected", "unhealthy"}]
  /\ asked \in [OpIds -> 0..2]
  /\ native \in [Versions -> {"absent", "present", "blocked"}]

Init ==
  /\ state = [v \in Versions |-> "none"]
  /\ sync = [v \in Versions |-> "pending"]
  /\ revision = [v \in Versions |-> 1]
  /\ ops = <<>>
  /\ hand = [h \in Handlers |-> Idle]
  /\ flight = {}
  /\ answer = [o \in OpIds |-> "none"]
  /\ asked = [o \in OpIds |-> 0]
  /\ native = [v \in Versions |-> "absent"]

-----------------------------------------------------------------------------
(* Helpers *)

At(h, place) == hand[h].at = place
OpOf(h)      == ops[hand[h].op]

Goes(h, work) == hand' = [hand EXCEPT ![h] = work]

\* A new operation, with the handler that goes on to execute it.
Prepares(h, kind, v) ==
  /\ Len(ops) < MaxOps
  /\ ops' = Append(ops, [kind |-> kind, version |-> v, state |-> "prepared"])
  /\ Goes(h, [at |-> "ready", op |-> Len(ops) + 1])

\* ORDER BY created_at DESC LIMIT 1: how the latest check of v stands.
Checks(v)      == {o \in DOMAIN ops : ops[o].kind = "check" /\ ops[o].version = v}
LatestCheck(v) == {ops[o].state : o \in {o \in Checks(v) : \A p \in Checks(v) : p <= o}}

\* Only a synced service may be named by a profile.
ServiceReady(v) == v \in Profiles => sync[ServiceOf[v]] = "synced"

\* Is the object of v read back at the gateway?
IsNative(v) == native[v] # "absent"

-----------------------------------------------------------------------------
(* The requests of administrators *)

\* prepare_version: the new version and its operation.
Save(h, v) ==
  /\ At(h, "idle") /\ state[v] = "none"
  /\ ServiceReady(v)
  /\ Prepares(h, "create", v)
  /\ state' = [state EXCEPT ![v] = "draft"]
  /\ UNCHANGED <<sync, revision, gateway>>

\* prepare_action, "check".
Check(h, v) ==
  /\ At(h, "idle") /\ state[v] \notin {"none", "revoked"} /\ sync[v] = "synced"
  /\ Prepares(h, "check", v)
  /\ UNCHANGED <<rows, gateway>>

\* Before it is published a version is read back at the gateway.
PublishAsked(h, v) ==
  /\ At(h, "idle") /\ state[v] # "none"
  /\ IsNative(v)
  /\ \E expected \in 1..revision[v] :
       Goes(h, [at |-> "publishing", version |-> v, expected |-> expected])
  /\ UNCHANGED <<rows, ops, gateway>>

\* Fault: what was read before the request is not looked at again.
MayBePublishedBlindly(h, v) == sync[v] = "synced" /\ LatestCheck(v) = {"succeeded"}

MayBePublished(h, v) ==
  /\ revision[v] = hand[h].expected
  /\ state[v] \in {"draft", "retired"} /\ sync[v] = "synced"
  /\ LatestCheck(v) = {"succeeded"}

\* prepare_action, "publish", which calls nobody.
Publish(h, v) ==
  /\ At(h, "publishing") /\ hand[h].version = v
  /\ Goes(h, Idle)
  /\ \/ /\ MayBePublished(h, v) /\ revision[v] < MaxRevision
        /\ state' = [state EXCEPT ![v] = "published"]
        /\ revision' = [revision EXCEPT ![v] = @ + 1]
     \/ /\ ~MayBePublished(h, v)
        /\ UNCHANGED <<state, revision>>
  /\ UNCHANGED <<sync, ops, gateway>>

\* prepare_action, "retire": only new selections are prevented.
Retire(h, v) ==
  /\ At(h, "idle") /\ state[v] = "published" /\ revision[v] < MaxRevision
  /\ state' = [state EXCEPT ![v] = "retired"]
  /\ revision' = [revision EXCEPT ![v] = @ + 1]
  /\ UNCHANGED <<sync, ops, hand, gateway>>

\* prepare_action, "revoke": revoked here before the gateway is asked, and again
\* as long as the gateway has not confirmed it.
Revoke(h, v) ==
  /\ At(h, "idle") /\ state[v] # "none" /\ revision[v] < MaxRevision
  /\ state[v] # "revoked" \/ sync[v] # "synced"
  /\ Prepares(h, "revoke", v)
  /\ state' = [state EXCEPT ![v] = "revoked"]
  /\ revision' = [revision EXCEPT ![v] = @ + 1]
  /\ sync' = [sync EXCEPT ![v] = "pending"]
  /\ UNCHANGED gateway

\* _operation: a claim older than 45 seconds is shown as unknown.
Shown(o) == {ops[o].state} \cup (IF ops[o].state = "sent" THEN {"unknown"} ELSE {})

\* An operation is asked for again, by its key or its id: one that was prepared
\* goes on, a create in doubt is read back, and nothing else is done twice.
AskAgain(h, o) ==
  /\ At(h, "idle") /\ o \in DOMAIN ops
  /\ \E shown \in Shown(o) : ops' = [ops EXCEPT ![o].state = shown]
  /\ \/ /\ ops[o].state = "prepared"
        /\ Goes(h, [at |-> "ready", op |-> o])
     \/ /\ ops[o].state \in Open /\ ops[o].kind = "create"
        /\ Goes(h, [at |-> "rereading", op |-> o])
     \/ /\ ops[o].state \in Open /\ ops[o].kind # "create"
        /\ UNCHANGED hand
  /\ UNCHANGED <<rows, gateway>>

-----------------------------------------------------------------------------
(* _execute and _reconcile *)

\* Fault: the state that was read when the handler began is relied upon.
MayBeClaimedAsRead(o) == ServiceReady(ops[o].version)

MayBeClaimed(o) == ops[o].state = "prepared" /\ ServiceReady(ops[o].version)

\* claim: whoever moves the operation from prepared to sent sends its request.
Claim(h) ==
  /\ At(h, "ready")
  /\ LET o == hand[h].op IN
       \/ /\ MayBeClaimed(o)
          /\ ops' = [ops EXCEPT ![o].state = "sent"]
          /\ flight' = flight \cup {o}
          /\ asked' = [asked EXCEPT ![o] = IF @ = 2 THEN 2 ELSE @ + 1]
          /\ Goes(h, [at |-> "waiting", op |-> o])
       \/ /\ ~MayBeClaimed(o)
          /\ Goes(h, Idle)
          /\ UNCHANGED <<ops, flight, asked>>
  /\ UNCHANGED <<rows, answer, native>>

Finishing(h, outcome) == Goes(h, [at |-> "finishing", op |-> hand[h].op, with |-> outcome])

\* The answer to a write or check: a create is confirmed by reading it back.
Answered(h) ==
  /\ At(h, "waiting")
  /\ LET said == answer[hand[h].op] IN
       \/ /\ said = "done" /\ OpOf(h).kind = "create"
          /\ Goes(h, [at |-> "confirming", op |-> hand[h].op])
       \/ /\ said = "done" /\ OpOf(h).kind # "create"
          /\ Finishing(h, "succeeded")
       \/ /\ said \in {"rejected", "unhealthy"}
          /\ Finishing(h, "failed")
  /\ UNCHANGED <<rows, ops, gateway>>

\* No answer, or one that says nothing, in time: GatewayUnknown.
GivesUp(h) ==
  /\ At(h, "waiting") \/ At(h, "confirming")
  /\ Finishing(h, "unknown")
  /\ UNCHANGED <<rows, ops, gateway>>

\* The object is read back, or the read is refused, which counts as a refusal of
\* the write.
Confirmed(h) ==
  /\ At(h, "confirming")
  /\ \/ Finishing(h, IF IsNative(OpOf(h).version) THEN "succeeded" ELSE "unknown")
     \/ Finishing(h, "failed")
  /\ UNCHANGED <<rows, ops, gateway>>

\* _reconcile: only an object that is there says anything.
Reread(h) ==
  /\ At(h, "rereading")
  /\ \/ /\ IsNative(OpOf(h).version)
        /\ Finishing(h, "succeeded")
     \/ Goes(h, Idle)
  /\ UNCHANGED <<rows, ops, gateway>>

MayBeFinished(o) == ops[o].state \in Open

\* Fault: sync_state is set to the state of the operation.
SyncedAsTheOperation(o, outcome) == outcome

\* What a write makes of sync_state.  Alone, it lets a create sync a version that
\* was revoked meanwhile.
SyncedByWrite(o, outcome) ==
  CASE outcome = "succeeded" -> "synced"
    [] outcome = "failed" /\ ops[o].kind = "create" -> "failed"
    [] OTHER -> "unknown"

\* sync_state after operation o: a create leaves a revoked version alone.
Synced(o, outcome) ==
  LET v == ops[o].version
  IN IF ops[o].kind = "check" \/ (ops[o].kind = "create" /\ state[v] = "revoked")
     THEN sync[v] ELSE SyncedByWrite(o, outcome)

\* finish: what was settled meanwhile stays.
Finish(h) ==
  /\ At(h, "finishing")
  /\ LET o == hand[h].op
         v == ops[o].version
     IN \/ /\ MayBeFinished(o)
           /\ ops' = [ops EXCEPT ![o].state = hand[h].with]
           /\ sync' = [sync EXCEPT ![v] = Synced(o, hand[h].with)]
        \/ /\ ~MayBeFinished(o)
           /\ UNCHANGED <<ops, sync>>
  /\ Goes(h, Idle)
  /\ UNCHANGED <<state, revision, gateway>>

\* The process of a handler, or its connection to the database, is lost.
Dies(h) ==
  /\ ~At(h, "idle")
  /\ Goes(h, Idle)
  /\ UNCHANGED <<rows, ops, gateway>>

-----------------------------------------------------------------------------
(* The gateway.  It refuses what it will, and what is not there cannot be blocked. *)

Effect(o) ==
  LET v == ops[o].version
  IN CASE ops[o].kind = "create" /\ native[v] = "absent"  -> "present"
       [] ops[o].kind = "revoke" /\ native[v] = "present" -> "blocked"
       [] OTHER -> native[v]

Refusals(kind) == {"rejected"} \cup (IF kind = "check" THEN {"unhealthy"} ELSE {})

\* A request is carried out, and answered, whether or not anybody waits for it.
GatewayServes(o) ==
  /\ o \in flight
  /\ flight' = flight \ {o}
  /\ \/ /\ ops[o].kind = "create" \/ IsNative(ops[o].version)
        /\ native' = [native EXCEPT ![ops[o].version] = Effect(o)]
        /\ answer' = [answer EXCEPT ![o] = "done"]
     \/ /\ \E refusal \in Refusals(ops[o].kind) : answer' = [answer EXCEPT ![o] = refusal]
        /\ UNCHANGED native
  /\ UNCHANGED <<rows, ops, hand, asked>>

\* It never gets there.
RequestLost(o) ==
  /\ o \in flight
  /\ flight' = flight \ {o}
  /\ UNCHANGED <<rows, ops, hand, answer, asked, native>>

-----------------------------------------------------------------------------
Next ==
  \/ \E h \in Handlers :
       \/ \E v \in Versions : Save(h, v)
       \/ \E v \in Profiles : Check(h, v) \/ PublishAsked(h, v) \/ Publish(h, v)
                              \/ Retire(h, v) \/ Revoke(h, v)
       \/ \E o \in OpIds : AskAgain(h, o)
       \/ Claim(h) \/ Answered(h) \/ GivesUp(h) \/ Confirmed(h) \/ Reread(h)
       \/ Finish(h) \/ Dies(h)
  \/ \E o \in OpIds : GatewayServes(o) \/ RequestLost(o)

Spec == Init /\ [][Next]_vars

-----------------------------------------------------------------------------
(* Properties *)

\* However often an operation is asked for again, by whom, and wherever a handler
\* died: its request is sent to the gateway at most once ("prepared->sent CAS",
\* claim() and _execute()).
AskedOnce == \A o \in OpIds : asked[o] <= 1

\* What projects are offered (project_profiles, selectable_model) is at the gateway
\* and not blocked, and so is the service it names: no reply in doubt, late create,
\* revocation under way or stale publish makes it otherwise.
OfferedIsThere ==
  \A v \in Profiles :
    state[v] = "published" /\ sync[v] = "synced" =>
      native[v] = "present" /\ IsNative(ServiceOf[v])

\* A revoked version is shown as synced only when the gateway has blocked it:
\* revoking it again is offered until then (prepare_action, finish), also when its
\* create is settled after the revocation.
RevokedIsBlocked ==
  \A v \in Profiles : state[v] = "revoked" /\ sync[v] = "synced" => native[v] = "blocked"

\* An operation that has succeeded or failed is never settled otherwise, although
\* handlers that read it earlier still finish it (finish()).
OutcomeIsFinal ==
  [][\A o \in DOMAIN ops : ops[o].state \in Ended => ops'[o].state = ops[o].state]_vars

\* "explicit 4xx of the native write: failed; what cannot be matched stays unknown"
\* (model configuration spec): a create that failed left nothing at the gateway.  It
\* fails when the request that reads a created object back is refused.
FailedLeftNothing ==
  \A o \in DOMAIN ops :
    ops[o].kind = "create" /\ ops[o].state = "failed" => ~IsNative(ops[o].version)
=============================================================================
