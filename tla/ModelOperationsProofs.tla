------------------------ MODULE ModelOperationsProofs ------------------------
(***************************************************************************)
(* ModelOperations for any versions, handlers and bounds: what the rows    *)
(* say of the gateway is true.                                             *)
(***************************************************************************)
EXTENDS ModelOperations, SequenceTheorems, TLAPS

\* What operation o asks for is the case at the gateway.
Did(o) ==
  /\ ops[o].kind = "create" => IsNative(ops[o].version)
  /\ ops[o].kind = "revoke" => native[ops[o].version] = "blocked"

\* Nothing is known of an operation before it is on record, and its request is
\* sent in the step in which it leaves "prepared".
OpInv(o) ==
  /\ asked[o] <= 1
  /\ o > Len(ops) => asked[o] = 0 /\ o \notin flight /\ answer[o] = "none"
  /\ o <= Len(ops) =>
       /\ ops[o].state = "prepared" => asked[o] = 0
       /\ answer[o] = "done" \/ ops[o].state = "succeeded" => Did(o)
       /\ ops[o].kind = "revoke" => state[ops[o].version] = "revoked"

\* A handler says that an operation succeeded only when it did.
HandInv(h) ==
  /\ At(h, "finishing") /\ hand[h].with = "succeeded" => Did(hand[h].op)
  /\ At(h, "confirming") \/ At(h, "rereading") => OpOf(h).kind = "create"

\* What is synced is there, or blocked once it is revoked; only what is revoked is
\* blocked; and a profile was saved when its service was there.
VersionInv(v) ==
  /\ sync[v] = "synced" => IsNative(v)
  /\ sync[v] = "synced" /\ state[v] = "revoked" => native[v] = "blocked"
  /\ native[v] = "blocked" => state[v] = "revoked"
  /\ v \in Profiles /\ state[v] # "none" => IsNative(ServiceOf[v])

ModelInv ==
  /\ TypeOK
  /\ \A o \in OpIds : OpInv(o)
  /\ \A h \in Handlers : HandInv(h)
  /\ \A v \in Versions : VersionInv(v)

-----------------------------------------------------------------------------
(* What every step keeps *)

States == {"prepared"} \cup Open \cup Ended

\* Operations are neither dropped nor changed in what they are for, objects do not
\* vanish from the gateway nor get free again, and a revocation is for good.
Kept ==
  /\ Len(ops') \in Nat /\ Len(ops) <= Len(ops')
  /\ \A o \in 1..Len(ops) : ops'[o].kind = ops[o].kind /\ ops'[o].version = ops[o].version
  /\ \A v \in Versions : /\ native[v] # "absent" => native'[v] # "absent"
                         /\ native[v] = "blocked" => native'[v] = "blocked"
                         /\ state[v] = "revoked" => state'[v] = "revoked"

\* An operation on record is one, and its version is a version.
LEMMA OnRecord ==
  ASSUME TypeOK, NEW o \in 1..Len(ops)
  PROVE  /\ ops[o] \in Operations /\ o \in OpIds /\ o \in DOMAIN ops /\ Len(ops) \in Nat
         /\ ops[o].kind \in Kinds /\ ops[o].version \in Versions /\ ops[o].state \in States
<1>1. ops \in Seq(Operations) /\ Len(ops) <= MaxOps
  BY DEF TypeOK
<1>2. ops[o] \in Operations /\ o \in DOMAIN ops /\ Len(ops) \in Nat
  BY <1>1, ElementOfSeq, LenProperties, Zenon
<1>3. ops[o].kind \in Kinds /\ ops[o].version \in Versions /\ ops[o].state \in States
  BY <1>2 DEF Operations, States
<1>4. o \in OpIds
  BY <1>1, <1>2, ModelOperationsAssumption DEF OpIds
<1> QED
  BY <1>2, <1>3, <1>4

\* A new operation is put at the end of the record.
LEMMA Prepared ==
  ASSUME TypeOK, NEW h \in Handlers, NEW kind \in Kinds, NEW v \in Versions,
         Prepares(h, kind, v)
  PROVE  /\ ops' \in Seq(Operations) /\ Len(ops') = Len(ops) + 1 /\ Len(ops') <= MaxOps
         /\ Len(ops) \in Nat
         /\ \A o \in 1..Len(ops) : ops'[o] = ops[o]
         /\ ops'[Len(ops')] = [kind |-> kind, version |-> v, state |-> "prepared"]
<1> DEFINE new == [kind |-> kind, version |-> v, state |-> "prepared"]
<1>1. ops \in Seq(Operations)
  BY DEF TypeOK
<1>2. new \in Operations
  BY DEF Operations
<1>3. ops' = Append(ops, new) /\ Len(ops) < MaxOps
  BY DEF Prepares
<1> HIDE DEF new
<1>4. /\ ops' \in Seq(Operations) /\ Len(ops') = Len(ops) + 1
      /\ \A o \in 1..Len(ops) : ops'[o] = ops[o]
      /\ ops'[Len(ops) + 1] = new
  <2>1. /\ Append(ops, new) \in Seq(Operations)
        /\ Len(Append(ops, new)) = Len(ops) + 1
        /\ \A o \in 1..Len(ops) : Append(ops, new)[o] = ops[o]
        /\ Append(ops, new)[Len(ops) + 1] = new
    BY <1>1, <1>2
  <2> QED
    BY <2>1, <1>3
<1>5. Len(ops) \in Nat
  BY <1>1, LenProperties, Zenon
<1>6. Len(ops') <= MaxOps
  BY <1>3, <1>4, <1>5, ModelOperationsAssumption
<1> QED
  BY <1>4, <1>5, <1>6 DEF new

\* An element of a sequence is replaced.
LEMMA ReplacedInSeq ==
  ASSUME NEW S, NEW s \in Seq(S), NEW i \in 1..Len(s), NEW e \in S,
         NEW t, t = [s EXCEPT ![i] = e]
  PROVE  /\ t \in Seq(S) /\ Len(t) = Len(s)
         /\ t[i] = e /\ \A p \in 1..Len(s) : p # i => t[p] = s[p]
<1>1. /\ t \in Seq(S) /\ Len(t) = Len(s)
      /\ \A p \in 1..Len(s) : t[p] = IF p = i THEN e ELSE s[p]
  BY ExceptSeq
<1> QED
  BY <1>1

\* The state of an operation is all that is changed of the record.
LEMMA Restated ==
  ASSUME TypeOK, NEW o \in 1..Len(ops), NEW s \in States,
         ops' = [ops EXCEPT ![o].state = s]
  PROVE  /\ ops' \in Seq(Operations) /\ Len(ops') = Len(ops) /\ Len(ops') <= MaxOps
         /\ Len(ops) \in Nat
         /\ \A p \in 1..Len(ops) : p # o => ops'[p] = ops[p]
         /\ ops'[o].state = s /\ ops'[o].kind = ops[o].kind
         /\ ops'[o].version = ops[o].version
<1> DEFINE new == [ops[o] EXCEPT !.state = s]
<1>1. ops \in Seq(Operations) /\ Len(ops) <= MaxOps
  BY DEF TypeOK
<1>2. ops[o] \in Operations
  BY OnRecord
<1>3. /\ new \in Operations
      /\ new.state = s /\ new.kind = ops[o].kind /\ new.version = ops[o].version
  BY <1>2 DEF Operations, States
<1>4. ops' = [ops EXCEPT ![o] = new]
  OBVIOUS
<1> HIDE DEF new
<1>5. /\ ops' \in Seq(Operations) /\ Len(ops') = Len(ops)
      /\ ops'[o] = new /\ \A p \in 1..Len(ops) : p # o => ops'[p] = ops[p]
  <2>1. ops \in Seq(Operations) /\ o \in 1..Len(ops) /\ new \in Operations
    BY <1>1, <1>3
  <2> QED
    BY <1>4, <2>1, ReplacedInSeq
<1>6. Len(ops) \in Nat
  BY <1>1, LenProperties, Zenon
<1> QED
  BY <1>1, <1>3, <1>4, <1>5, <1>6

\* What an operation asks for stays the case.
LEMMA DidStays ==
  ASSUME TypeOK, Kept, NEW o \in 1..Len(ops), Did(o)
  PROVE  Did(o)'
<1>1. ops[o].version \in Versions
  BY OnRecord
<1> QED
  BY <1>1 DEF Did, IsNative, Kept

\* An operation that is not touched stays as it is.
LEMMA OpStays ==
  ASSUME TypeOK, Kept, NEW o \in OpIds, OpInv(o),
         asked'[o] = asked[o], answer'[o] = answer[o], o \in flight' => o \in flight,
         o <= Len(ops) => ops'[o].state = ops[o].state,
         o > Len(ops) => o > Len(ops')
  PROVE  OpInv(o)'
<1>1. o \in Nat \ {0} /\ Len(ops) \in Nat /\ Len(ops') \in Nat
  BY LenProperties, ModelOperationsAssumption DEF TypeOK, Kept, OpIds
<1>2. ASSUME o <= Len(ops)
      PROVE  o \in 1..Len(ops)
  BY <1>1, <1>2
<1>3. ASSUME o <= Len(ops)
      PROVE  /\ ops[o].version \in Versions /\ (Did(o) => Did(o)')
             /\ ops'[o].kind = ops[o].kind /\ ops'[o].version = ops[o].version
  BY <1>2, <1>3, OnRecord, DidStays DEF Kept
<1>4. ASSUME o <= Len(ops)
      PROVE  OpInv(o)'
  <2>1. state[ops[o].version] = "revoked" => state'[ops'[o].version] = "revoked"
    BY <1>3, <1>4 DEF Kept
  <2>2. ~(o > Len(ops'))
    BY <1>1, <1>4 DEF Kept
  <2> QED
    BY <1>3, <1>4, <2>1, <2>2 DEF OpInv
<1>5. ASSUME ~(o <= Len(ops))
      PROVE  OpInv(o)'
  <2>1. o > Len(ops) /\ o > Len(ops') /\ ~(o <= Len(ops'))
    BY <1>1, <1>5
  <2> QED
    BY <2>1 DEF OpInv
<1> QED
  BY <1>4, <1>5

\* Handler h goes on to work, and the others stay where they are.
LEMMA HandGoes ==
  ASSUME TypeOK, Kept, NEW h \in Handlers, NEW work \in Works \cup {Idle}, Goes(h, work),
         \A k \in Handlers : HandInv(k),
         work.at \notin {"idle", "publishing"} => work.op \in 1..Len(ops'),
         work.at = "finishing" /\ work.with = "succeeded" => Did(work.op)',
         work.at \in {"confirming", "rereading"} => ops'[work.op].kind = "create"
  PROVE  /\ hand' \in [Handlers -> Works \cup {Idle}]
         /\ \A k \in Handlers :
              hand'[k].at \notin {"idle", "publishing"} => hand'[k].op \in 1..Len(ops')
         /\ \A k \in Handlers : HandInv(k)'
<1> DEFINE All == Works \cup {Idle}
<1>1. hand \in [Handlers -> All] /\ Len(ops) \in Nat /\ Len(ops') \in Nat
  BY LenProperties DEF TypeOK, Kept
<1> HIDE DEF All
<1>2. work \in All
  BY DEF All
<1>3. /\ hand' \in [Handlers -> All] /\ hand'[h] = work
      /\ \A k \in Handlers : k # h => hand'[k] = hand[k]
  BY <1>1, <1>2 DEF Goes
<1>4. ASSUME NEW k \in Handlers
      PROVE  /\ hand'[k].at \notin {"idle", "publishing"} => hand'[k].op \in 1..Len(ops')
             /\ HandInv(k)'
  <2>1. ASSUME k = h
        PROVE  /\ hand'[k].at \notin {"idle", "publishing"} => hand'[k].op \in 1..Len(ops')
               /\ HandInv(k)'
    <3>1. hand'[k] = work
      BY <1>3, <2>1
    <3> QED
      BY <3>1, Zenon DEF HandInv, At, OpOf
  <2>2. ASSUME k # h
        PROVE  /\ hand'[k].at \notin {"idle", "publishing"} => hand'[k].op \in 1..Len(ops')
               /\ HandInv(k)'
    <3>1. hand'[k] = hand[k]
      BY <1>3, <2>2
    <3>2. \A o \in 1..Len(ops) : /\ o \in 1..Len(ops')
                                 /\ ops'[o].kind = ops[o].kind
                                 /\ Did(o) => Did(o)'
      BY <1>1, DidStays DEF Kept
    <3>4. hand[k].at \notin {"idle", "publishing"} => hand[k].op \in 1..Len(ops)
      BY DEF TypeOK
    <3>3. HandInv(k)
      OBVIOUS
    <3>5. hand'[k].at \notin {"idle", "publishing"} => hand'[k].op \in 1..Len(ops')
      BY <3>1, <3>2, <3>4
    <3> QED
      BY <3>1, <3>2, <3>3, <3>4, <3>5 DEF HandInv, At, OpOf
  <2> QED
    BY <2>1, <2>2
<1> QED
  BY <1>3, <1>4 DEF All

\* Nobody moves.
LEMMA HandStays ==
  ASSUME TypeOK, Kept, UNCHANGED hand, \A k \in Handlers : HandInv(k)
  PROVE  /\ hand' \in [Handlers -> Works \cup {Idle}]
         /\ \A k \in Handlers :
              hand'[k].at \notin {"idle", "publishing"} => hand'[k].op \in 1..Len(ops')
         /\ \A k \in Handlers : HandInv(k)'
<1>1. Len(ops) \in Nat /\ Len(ops') \in Nat
  BY LenProperties DEF TypeOK, Kept
<1>2. \A o \in 1..Len(ops) : /\ o \in 1..Len(ops')
                             /\ ops'[o].kind = ops[o].kind
                             /\ Did(o) => Did(o)'
  BY <1>1, DidStays DEF Kept
<1>3. \A k \in Handlers :
        hand[k].at \notin {"idle", "publishing"} => hand[k].op \in 1..Len(ops)
  BY DEF TypeOK
<1>4. hand \in [Handlers -> Works \cup {Idle}]
  BY DEF TypeOK
<1>5. ASSUME NEW k \in Handlers
      PROVE  HandInv(k)'
  BY <1>2, <1>3 DEF HandInv, At, OpOf
<1> QED
  BY <1>2, <1>3, <1>4, <1>5

-----------------------------------------------------------------------------
(* Each action keeps the invariant *)

\* The constants and the rows the invariant relies on.
LEMMA Given ==
  ASSUME ModelInv
  PROVE  /\ TypeOK /\ Len(ops) \in Nat /\ MaxOps \in Nat
         /\ \A o \in OpIds : OpInv(o)
         /\ \A o \in 1..Len(ops) : o \in OpIds /\ OpInv(o)
         /\ \A k \in Handlers : HandInv(k)
         /\ \A v \in Versions : VersionInv(v)
         /\ \A v \in Profiles : v \in Versions /\ ServiceOf[v] \in Versions
<1>1. TypeOK /\ (\A o \in OpIds : OpInv(o)) /\ MaxOps \in Nat
  BY ModelOperationsAssumption DEF ModelInv
<1>2. Len(ops) \in Nat
  BY <1>1, LenProperties, Zenon DEF TypeOK
<1>3. \A o \in 1..Len(ops) : o \in OpIds
  BY <1>1, OnRecord
<1>4. \A v \in Profiles : v \in Versions /\ ServiceOf[v] \in Versions
  BY ModelOperationsAssumption DEF Versions
<1> QED
  BY <1>1, <1>2, <1>3, <1>4 DEF ModelInv

\* A step that writes no row: a handler goes on.
LEMMA OnlyHand ==
  ASSUME ModelInv, NEW h \in Handlers, NEW work \in Works \cup {Idle}, Goes(h, work),
         UNCHANGED <<rows, ops, gateway>>,
         work.at \notin {"idle", "publishing"} => work.op \in 1..Len(ops),
         work.at = "finishing" /\ work.with = "succeeded" => Did(work.op),
         work.at \in {"confirming", "rereading"} => ops[work.op].kind = "create"
  PROVE  ModelInv'
<1>1. UNCHANGED <<state, sync, revision, ops, flight, answer, asked, native>>
  BY DEF rows, gateway
<1>2. Kept
  BY <1>1, Given DEF Kept
<1>3. Did(work.op)' <=> Did(work.op)
  BY <1>1 DEF Did, IsNative
<1>4. /\ hand' \in [Handlers -> Works \cup {Idle}]
      /\ \A k \in Handlers :
           hand'[k].at \notin {"idle", "publishing"} => hand'[k].op \in 1..Len(ops')
      /\ \A k \in Handlers : HandInv(k)'
  <2>1. work.at \notin {"idle", "publishing"} => work.op \in 1..Len(ops')
    BY <1>1
  <2>2. work.at \in {"confirming", "rereading"} => ops'[work.op].kind = "create"
    BY <1>1
  <2>3. work.at = "finishing" /\ work.with = "succeeded" => Did(work.op)'
    BY <1>3
  <2>4. TypeOK /\ \A k \in Handlers : HandInv(k)
    BY Given
  <2> QED
    BY <1>2, <2>1, <2>2, <2>3, <2>4, HandGoes
<1>5. TypeOK'
  BY <1>1, <1>4, Given DEF TypeOK
<1>6. (\A o \in OpIds : OpInv(o)) <=> (\A o \in OpIds : OpInv(o))'
  BY <1>1 DEF OpInv, Did, IsNative
<1>7. (\A v \in Versions : VersionInv(v)) <=> (\A v \in Versions : VersionInv(v))'
  BY <1>1 DEF VersionInv, IsNative
<1> QED
  BY <1>4, <1>5, <1>6, <1>7, Given DEF ModelInv

\* A handler that is done, or dies.
LEMMA IdleIsWork == Idle \in Works \cup {Idle} /\ Idle.at = "idle"
  BY DEF Idle

LEMMA PublishAskedKeeps ==
  ASSUME ModelInv, NEW h \in Handlers, NEW v \in Profiles, PublishAsked(h, v)
  PROVE  ModelInv'
<1>1. PICK expected \in 1..revision[v] :
        Goes(h, [at |-> "publishing", version |-> v, expected |-> expected])
  BY DEF PublishAsked
<1> DEFINE work == [at |-> "publishing", version |-> v, expected |-> expected]
<1>2. expected \in 1..MaxRevision
  BY Given, ModelOperationsAssumption DEF TypeOK
<1>3. work \in Works /\ work.at = "publishing"
  BY <1>2 DEF Works
<1>4. UNCHANGED <<rows, ops, gateway>>
  BY DEF PublishAsked
<1>5. Goes(h, work)
  BY <1>1
<1> HIDE DEF work
<1> QED
  BY <1>3, <1>4, <1>5, OnlyHand

\* Where a handler is, it is with an operation on record.
LEMMA WorksOn ==
  ASSUME ModelInv, NEW h \in Handlers, hand[h].at \notin {"idle", "publishing"}
  PROVE  /\ hand[h].op \in 1..Len(ops) /\ hand[h].op \in OpIds
         /\ OpInv(hand[h].op) /\ HandInv(h)
  BY Given DEF TypeOK

LEMMA FinishingKeeps ==
  ASSUME ModelInv, NEW h \in Handlers, hand[h].at \notin {"idle", "publishing"},
         NEW outcome \in Ended \cup {"unknown"}, Finishing(h, outcome),
         outcome = "succeeded" => Did(hand[h].op),
         UNCHANGED <<rows, ops, gateway>>
  PROVE  ModelInv'
<1> DEFINE work == [at |-> "finishing", op |-> hand[h].op, with |-> outcome]
<1>1. hand[h].op \in 1..Len(ops) /\ hand[h].op \in OpIds
  BY WorksOn
<1>2. /\ work \in Works
      /\ work.at = "finishing" /\ work.op = hand[h].op /\ work.with = outcome
  BY <1>1 DEF Works
<1>3. Goes(h, work)
  BY DEF Finishing
<1> HIDE DEF work
<1> QED
  BY <1>1, <1>2, <1>3, OnlyHand

LEMMA AnsweredKeeps ==
  ASSUME ModelInv, NEW h \in Handlers, Answered(h)
  PROVE  ModelInv'
<1> DEFINE o == hand[h].op
<1>1. /\ hand[h].at = "waiting" /\ o \in 1..Len(ops) /\ o \in OpIds /\ OpInv(o)
      /\ Len(ops) \in Nat
  BY WorksOn, Given DEF Answered, At
<1>2. answer[o] = "done" => Did(o)
  BY <1>1 DEF OpInv
<1>3. UNCHANGED <<rows, ops, gateway>>
  BY DEF Answered
<1>4. CASE answer[o] = "done" /\ OpOf(h).kind = "create"
             /\ Goes(h, [at |-> "confirming", op |-> o])
  <2> DEFINE work == [at |-> "confirming", op |-> o]
  <2>1. work \in Works /\ work.at = "confirming" /\ work.op = o
    BY <1>1 DEF Works
  <2>2. ops[o].kind = "create"
    BY <1>4 DEF OpOf
  <2>3. Goes(h, work)
    BY <1>4
  <2> HIDE DEF work, o
  <2> QED
    BY <1>1, <1>3, <2>1, <2>2, <2>3, OnlyHand
<1>5. CASE answer[o] = "done" /\ Finishing(h, "succeeded")
  BY <1>1, <1>2, <1>3, <1>5, FinishingKeeps DEF Ended
<1>6. CASE Finishing(h, "failed")
  BY <1>1, <1>3, <1>6, FinishingKeeps DEF Ended
<1> QED
  BY <1>4, <1>5, <1>6 DEF Answered

LEMMA GivesUpKeeps ==
  ASSUME ModelInv, NEW h \in Handlers, GivesUp(h)
  PROVE  ModelInv'
  BY FinishingKeeps DEF GivesUp, At, Ended

\* An object that is read back is what a create asks for.
LEMMA ReadBack ==
  ASSUME ModelInv, NEW h \in Handlers, At(h, "confirming") \/ At(h, "rereading"),
         IsNative(OpOf(h).version)
  PROVE  Did(hand[h].op)
<1>1. HandInv(h)
  BY WorksOn DEF At
<1> QED
  BY <1>1 DEF HandInv, Did, OpOf

LEMMA ConfirmedKeeps ==
  ASSUME ModelInv, NEW h \in Handlers, Confirmed(h)
  PROVE  ModelInv'
<1>1. hand[h].at = "confirming" /\ At(h, "confirming") /\ UNCHANGED <<rows, ops, gateway>>
  BY DEF Confirmed, At
<1>2. CASE Finishing(h, "failed") \/ Finishing(h, "unknown")
  BY <1>1, <1>2, FinishingKeeps DEF Ended
<1>3. CASE IsNative(OpOf(h).version) /\ Finishing(h, "succeeded")
  BY <1>1, <1>3, ReadBack, FinishingKeeps DEF Ended
<1> QED
  BY <1>2, <1>3 DEF Confirmed

LEMMA RereadKeeps ==
  ASSUME ModelInv, NEW h \in Handlers, Reread(h)
  PROVE  ModelInv'
<1>1. hand[h].at = "rereading" /\ At(h, "rereading") /\ UNCHANGED <<rows, ops, gateway>>
  BY DEF Reread, At
<1>2. CASE IsNative(OpOf(h).version) /\ Finishing(h, "succeeded")
  BY <1>1, <1>2, ReadBack, FinishingKeeps DEF Ended
<1>3. CASE Goes(h, Idle)
  BY <1>1, <1>3, IdleIsWork, OnlyHand
<1> QED
  BY <1>2, <1>3 DEF Reread

LEMMA DiesKeeps ==
  ASSUME ModelInv, NEW h \in Handlers, Dies(h)
  PROVE  ModelInv'
  BY IdleIsWork, OnlyHand DEF Dies

\* A new operation is as yet unknown to everybody but the handler that goes on.
LEMMA PreparesKeeps ==
  ASSUME ModelInv, NEW h \in Handlers, NEW kind \in Kinds, NEW v \in Versions,
         Prepares(h, kind, v), UNCHANGED gateway,
         state' \in [Versions -> {"none", "draft", "published", "retired", "revoked"}],
         sync' \in [Versions -> {"pending", "synced", "failed", "unknown"}],
         revision' \in [Versions -> 1..MaxRevision],
         \A u \in Versions : state[u] = "revoked" => state'[u] = "revoked",
         kind = "revoke" => state'[v] = "revoked",
         \A u \in Versions : VersionInv(u)'
  PROVE  ModelInv'
<1> DEFINE work == [at |-> "ready", op |-> Len(ops) + 1]
<1>1. /\ ops' \in Seq(Operations) /\ Len(ops') = Len(ops) + 1 /\ Len(ops') <= MaxOps
      /\ Len(ops) \in Nat
      /\ \A o \in 1..Len(ops) : ops'[o] = ops[o]
      /\ ops'[Len(ops')] = [kind |-> kind, version |-> v, state |-> "prepared"]
  BY Given, Prepared
<1>2. UNCHANGED <<flight, answer, asked, native>>
  BY DEF gateway
<1>3. Kept
  BY <1>1, <1>2 DEF Kept
<1>4. /\ hand' \in [Handlers -> Works \cup {Idle}]
      /\ \A k \in Handlers :
           hand'[k].at \notin {"idle", "publishing"} => hand'[k].op \in 1..Len(ops')
      /\ \A k \in Handlers : HandInv(k)'
  <2>1. Len(ops) + 1 \in OpIds /\ Len(ops) + 1 \in 1..Len(ops')
    BY <1>1, Given DEF OpIds
  <2>2. /\ work \in Works /\ work.at = "ready" /\ work.op \in 1..Len(ops')
    BY <2>1 DEF Works
  <2>3. Goes(h, work)
    BY DEF Prepares
  <2>4. TypeOK /\ \A k \in Handlers : HandInv(k)
    BY Given
  <2> HIDE DEF work
  <2> QED
    BY <1>3, <2>2, <2>3, <2>4, HandGoes
<1>5. TypeOK'
  BY <1>1, <1>2, <1>4, Given DEF TypeOK
<1>6. ASSUME NEW o \in OpIds
      PROVE  OpInv(o)'
  <2>1. OpInv(o) /\ TypeOK /\ o \in Nat
    BY Given DEF OpIds
  <2>2. CASE o = Len(ops')
    <3>1. o > Len(ops) /\ ~(o > Len(ops'))
      BY <1>1, <2>2
    <3>2. asked[o] = 0 /\ answer[o] = "none"
      BY <2>1, <3>1 DEF OpInv
    <3>3. ops'[o].kind = kind /\ ops'[o].version = v /\ ops'[o].state = "prepared"
      BY <1>1, <2>2
    <3> QED
      BY <1>2, <3>1, <3>2, <3>3 DEF OpInv
  <2>3. CASE o # Len(ops')
    <3>1. o <= Len(ops) => ops'[o].state = ops[o].state
      BY <1>1, <2>1 DEF OpIds
    <3>2. o > Len(ops) => o > Len(ops')
      BY <1>1, <2>1, <2>3
    <3> QED
      BY <1>2, <1>3, <2>1, <3>1, <3>2, OpStays
  <2> QED
    BY <2>2, <2>3
<1> QED
  BY <1>4, <1>5, <1>6 DEF ModelInv

LEMMA SaveKeeps ==
  ASSUME ModelInv, NEW h \in Handlers, NEW v \in Versions, Save(h, v)
  PROVE  ModelInv'
<1>1. /\ Prepares(h, "create", v) /\ UNCHANGED <<sync, revision, native>> /\ UNCHANGED gateway
      /\ state[v] = "none" /\ state' = [state EXCEPT ![v] = "draft"] /\ ServiceReady(v)
  BY DEF Save, gateway
<1>2. TypeOK
  BY Given
<1>3. /\ state' \in [Versions -> {"none", "draft", "published", "retired", "revoked"}]
      /\ sync' \in [Versions -> {"pending", "synced", "failed", "unknown"}]
      /\ revision' \in [Versions -> 1..MaxRevision]
      /\ \A u \in Versions : state'[u] = IF u = v THEN "draft" ELSE state[u]
  BY <1>1, <1>2 DEF TypeOK
<1>4. ASSUME NEW u \in Versions
      PROVE  VersionInv(u)'
  <2>1. VersionInv(u)
    BY Given
  <2>2. v \in Profiles => IsNative(ServiceOf[v])
    BY <1>1, Given DEF ServiceReady, VersionInv
  <2> QED
    BY <1>1, <1>3, <2>1, <2>2 DEF VersionInv, IsNative
<1> QED
  BY <1>1, <1>3, <1>4, PreparesKeeps DEF Kinds

LEMMA CheckKeeps ==
  ASSUME ModelInv, NEW h \in Handlers, NEW v \in Profiles, Check(h, v)
  PROVE  ModelInv'
<1>1. /\ Prepares(h, "check", v) /\ UNCHANGED <<state, sync, revision, native>>
      /\ UNCHANGED gateway
  BY DEF Check, rows, gateway
<1>2. TypeOK /\ v \in Versions
  BY Given
<1>3. /\ state' \in [Versions -> {"none", "draft", "published", "retired", "revoked"}]
      /\ sync' \in [Versions -> {"pending", "synced", "failed", "unknown"}]
      /\ revision' \in [Versions -> 1..MaxRevision]
  BY <1>1, <1>2 DEF TypeOK
<1>4. ASSUME NEW u \in Versions
      PROVE  VersionInv(u)'
  BY <1>1, Given DEF VersionInv, IsNative
<1> QED
  BY <1>1, <1>2, <1>3, <1>4, PreparesKeeps DEF Kinds

LEMMA RevokeKeeps ==
  ASSUME ModelInv, NEW h \in Handlers, NEW v \in Profiles, Revoke(h, v)
  PROVE  ModelInv'
<1>1. /\ Prepares(h, "revoke", v) /\ UNCHANGED gateway /\ UNCHANGED native
      /\ state[v] # "none" /\ revision[v] < MaxRevision
      /\ state' = [state EXCEPT ![v] = "revoked"]
      /\ sync' = [sync EXCEPT ![v] = "pending"]
      /\ revision' = [revision EXCEPT ![v] = @ + 1]
  BY DEF Revoke, gateway
<1>2. TypeOK /\ v \in Versions
  BY Given
<1>3. /\ state' \in [Versions -> {"none", "draft", "published", "retired", "revoked"}]
      /\ sync' \in [Versions -> {"pending", "synced", "failed", "unknown"}]
      /\ \A u \in Versions : /\ state'[u] = IF u = v THEN "revoked" ELSE state[u]
                             /\ sync'[u] = IF u = v THEN "pending" ELSE sync[u]
  BY <1>1, <1>2 DEF TypeOK
<1>4. revision' \in [Versions -> 1..MaxRevision]
  BY <1>1, <1>2, ModelOperationsAssumption DEF TypeOK
<1>5. ASSUME NEW u \in Versions
      PROVE  VersionInv(u)'
  <2>1. VersionInv(u)
    BY Given
  <2> QED
    BY <1>1, <1>3, <2>1 DEF VersionInv, IsNative
<1> QED
  BY <1>1, <1>2, <1>3, <1>4, <1>5, PreparesKeeps DEF Kinds

\* A version that is not revoked moves to another state; no operation is written.
LEMMA StateMoves ==
  ASSUME ModelInv, NEW v \in Profiles, NEW to \in {"published", "retired"},
         state[v] \in {"draft", "published", "retired"}, revision[v] < MaxRevision,
         state' = [state EXCEPT ![v] = to], revision' = [revision EXCEPT ![v] = @ + 1],
         UNCHANGED <<sync, ops, gateway>>,
         NEW h \in Handlers, UNCHANGED hand \/ Goes(h, Idle)
  PROVE  ModelInv'
<1>1. UNCHANGED <<sync, ops, flight, answer, asked, native>>
  BY DEF gateway
<1>2. TypeOK /\ v \in Versions /\ Len(ops) \in Nat /\ \A k \in Handlers : HandInv(k)
  BY Given
<1>3. /\ state' \in [Versions -> {"none", "draft", "published", "retired", "revoked"}]
      /\ \A u \in Versions : state'[u] = IF u = v THEN to ELSE state[u]
  BY <1>2 DEF TypeOK
<1>4. revision' \in [Versions -> 1..MaxRevision]
  BY <1>2, ModelOperationsAssumption DEF TypeOK
<1>5. Kept
  BY <1>1, <1>2, <1>3 DEF Kept
<1>6. /\ hand' \in [Handlers -> Works \cup {Idle}]
      /\ \A k \in Handlers :
           hand'[k].at \notin {"idle", "publishing"} => hand'[k].op \in 1..Len(ops')
      /\ \A k \in Handlers : HandInv(k)'
  <2>1. CASE UNCHANGED hand
    BY <1>2, <1>5, <2>1, HandStays
  <2>2. CASE Goes(h, Idle)
    BY <1>2, <1>5, <2>2, IdleIsWork, HandGoes
  <2> QED
    BY <2>1, <2>2
<1>7. TypeOK'
  BY <1>1, <1>2, <1>3, <1>4, <1>6 DEF TypeOK
<1>8. ASSUME NEW o \in OpIds
      PROVE  OpInv(o)'
  <2>1. OpInv(o)
    BY Given
  <2> QED
    BY <1>1, <1>2, <1>5, <2>1, OpStays
<1>9. ASSUME NEW u \in Versions
      PROVE  VersionInv(u)'
  <2>1. VersionInv(u)
    BY Given
  <2> QED
    BY <1>1, <1>3, <2>1 DEF VersionInv, IsNative
<1> QED
  BY <1>6, <1>7, <1>8, <1>9 DEF ModelInv

LEMMA PublishKeeps ==
  ASSUME ModelInv, NEW h \in Handlers, NEW v \in Profiles, Publish(h, v)
  PROVE  ModelInv'
<1>1. Goes(h, Idle) /\ UNCHANGED <<sync, ops, gateway>>
  BY DEF Publish
<1>2. CASE /\ MayBePublished(h, v) /\ revision[v] < MaxRevision
           /\ state' = [state EXCEPT ![v] = "published"]
           /\ revision' = [revision EXCEPT ![v] = @ + 1]
  BY <1>1, <1>2, StateMoves DEF MayBePublished
<1>3. CASE UNCHANGED <<state, revision>>
  <2>1. UNCHANGED <<rows, ops, gateway>>
    BY <1>1, <1>3 DEF rows
  <2> QED
    BY <1>1, <2>1, IdleIsWork, OnlyHand
<1> QED
  BY <1>2, <1>3 DEF Publish

LEMMA RetireKeeps ==
  ASSUME ModelInv, NEW h \in Handlers, NEW v \in Profiles, Retire(h, v)
  PROVE  ModelInv'
<1>1. UNCHANGED <<sync, ops, gateway>> /\ UNCHANGED hand
  BY DEF Retire
<1> QED
  BY <1>1, StateMoves DEF Retire

\* The state of one operation is written, and its handler goes on or is done.
LEMMA RestateKeeps ==
  ASSUME ModelInv, NEW h \in Handlers, NEW o \in 1..Len(ops), NEW s \in States,
         ops' = [ops EXCEPT ![o].state = s],
         UNCHANGED <<state, revision, answer, native>>,
         flight' \in SUBSET OpIds, asked' \in [OpIds -> 0..2],
         sync' \in [Versions -> {"pending", "synced", "failed", "unknown"}],
         \A p \in OpIds : p # o => asked'[p] = asked[p] /\ (p \in flight' => p \in flight),
         asked'[o] <= 1, s = "prepared" => asked'[o] = 0, s = "succeeded" => Did(o),
         \A u \in Versions : VersionInv(u)',
         NEW work \in Works \cup {Idle}, UNCHANGED hand \/ Goes(h, work),
         work.at # "idle" => work.op = o,
         work.at \in {"idle", "ready", "waiting", "rereading"},
         work.at = "rereading" => ops[o].kind = "create"
  PROVE  ModelInv'
<1>1. /\ ops' \in Seq(Operations) /\ Len(ops') = Len(ops) /\ Len(ops') <= MaxOps
      /\ Len(ops) \in Nat
      /\ \A p \in 1..Len(ops) : p # o => ops'[p] = ops[p]
      /\ ops'[o].state = s /\ ops'[o].kind = ops[o].kind
      /\ ops'[o].version = ops[o].version
  BY Given, Restated
<1>2. TypeOK /\ (\A k \in Handlers : HandInv(k)) /\ o \in OpIds
  BY Given
<1>3. Kept
  <2>1. \A p \in 1..Len(ops) : ops'[p].kind = ops[p].kind /\ ops'[p].version = ops[p].version
    BY <1>1
  <2> QED
    BY <1>1, <2>1 DEF Kept
<1>4. /\ hand' \in [Handlers -> Works \cup {Idle}]
      /\ \A k \in Handlers :
           hand'[k].at \notin {"idle", "publishing"} => hand'[k].op \in 1..Len(ops')
      /\ \A k \in Handlers : HandInv(k)'
  <2>1. CASE UNCHANGED hand
    BY <1>2, <1>3, <2>1, HandStays
  <2>2. CASE Goes(h, work)
    <3>1. work.at \notin {"idle", "publishing"} => work.op \in 1..Len(ops')
      BY <1>1
    <3>2. work.at \in {"confirming", "rereading"} => ops'[work.op].kind = "create"
      BY <1>1
    <3> QED
      BY <1>2, <1>3, <2>2, <3>1, <3>2, HandGoes
  <2> QED
    BY <2>1, <2>2
<1>5. TypeOK'
  BY <1>1, <1>2, <1>4 DEF TypeOK
<1>6. OpInv(o)'
  <2>1. OpInv(o) /\ (Did(o) => Did(o)') /\ ops[o].version \in Versions
    BY <1>2, <1>3, Given, DidStays, OnRecord
  <2>2. o <= Len(ops) /\ ~(o > Len(ops'))
    BY <1>1
  <2> QED
    BY <1>1, <2>1, <2>2 DEF OpInv
<1>7. ASSUME NEW p \in OpIds, p # o
      PROVE  OpInv(p)'
  <2>1. OpInv(p) /\ p \in Nat \ {0}
    BY Given DEF OpIds
  <2>2. /\ p <= Len(ops) => ops'[p].state = ops[p].state
        /\ p > Len(ops) => p > Len(ops')
    BY <1>1, <1>7, <2>1
  <2> QED
    BY <1>2, <1>3, <1>7, <2>1, <2>2, OpStays
<1> QED
  BY <1>4, <1>5, <1>6, <1>7 DEF ModelInv

\* Where sync_state is not written.
LEMMA VersionsStay ==
  ASSUME ModelInv, UNCHANGED <<state, sync, native>>
  PROVE  \A u \in Versions : VersionInv(u)'
  BY Given DEF VersionInv, IsNative

LEMMA AskAgainKeeps ==
  ASSUME ModelInv, NEW h \in Handlers, NEW o \in OpIds, AskAgain(h, o)
  PROVE  ModelInv'
<1>1. TypeOK /\ o \in DOMAIN ops /\ UNCHANGED <<state, sync, revision, flight, answer, asked, native>>
  BY Given DEF AskAgain, rows, gateway
<1>2. o \in 1..Len(ops)
  BY <1>1, LenProperties DEF TypeOK
<1>3. PICK shown \in Shown(o) : ops' = [ops EXCEPT ![o].state = shown]
  BY DEF AskAgain
<1>4. /\ shown \in States
      /\ shown = "prepared" => ops[o].state = "prepared"
      /\ shown = "succeeded" => ops[o].state = "succeeded"
  <2>1. ops[o].state \in States
    BY <1>1, <1>2, OnRecord
  <2> QED
    BY <2>1 DEF Shown, States, Open
<1>5. OpInv(o) /\ o <= Len(ops)
  BY <1>2, Given
<1>6. asked'[o] <= 1 /\ (shown = "prepared" => asked'[o] = 0) /\ (shown = "succeeded" => Did(o))
  BY <1>1, <1>4, <1>5 DEF OpInv
<1>7. /\ flight' \in SUBSET OpIds /\ asked' \in [OpIds -> 0..2]
      /\ sync' \in [Versions -> {"pending", "synced", "failed", "unknown"}]
      /\ \A p \in OpIds : asked'[p] = asked[p] /\ (p \in flight' => p \in flight)
  BY <1>1 DEF TypeOK
<1>8. \A u \in Versions : VersionInv(u)'
  BY <1>1, VersionsStay
<1> DEFINE Work(place) == [at |-> place, op |-> o]
<1>9. \A place \in {"ready", "rereading"} :
        Work(place) \in Works /\ Work(place).at = place /\ Work(place).op = o
  BY DEF Works
<1>10. CASE Goes(h, [at |-> "ready", op |-> o])
  <2> DEFINE work == Work("ready")
  <2>1. work \in Works /\ work.at = "ready" /\ work.op = o
    BY <1>9
  <2>2. Goes(h, work)
    BY <1>10
  <2> HIDE DEF work
  <2> QED
    BY <1>1, <1>2, <1>3, <1>4, <1>6, <1>7, <1>8, <2>1, <2>2, RestateKeeps
<1>11. CASE ops[o].kind = "create" /\ Goes(h, [at |-> "rereading", op |-> o])
  <2> DEFINE work == Work("rereading")
  <2>1. work \in Works /\ work.at = "rereading" /\ work.op = o
    BY <1>9
  <2>2. Goes(h, work)
    BY <1>11
  <2> HIDE DEF work
  <2> QED
    BY <1>1, <1>2, <1>3, <1>4, <1>6, <1>7, <1>8, <1>11, <2>1, <2>2, RestateKeeps
<1>12. CASE UNCHANGED hand
  BY <1>1, <1>2, <1>3, <1>4, <1>6, <1>7, <1>8, <1>12, IdleIsWork, RestateKeeps
<1> QED
  BY <1>10, <1>11, <1>12 DEF AskAgain

LEMMA ClaimKeeps ==
  ASSUME ModelInv, NEW h \in Handlers, Claim(h)
  PROVE  ModelInv'
<1> DEFINE o == hand[h].op
<1>1. TypeOK /\ o \in 1..Len(ops) /\ o \in OpIds /\ OpInv(o) /\ Len(ops) \in Nat
  BY WorksOn, Given DEF Claim, At
<1>2. UNCHANGED <<state, sync, revision, answer, native>>
  BY DEF Claim, rows
<1>3. CASE /\ MayBeClaimed(o) /\ ops' = [ops EXCEPT ![o].state = "sent"]
           /\ flight' = flight \cup {o}
           /\ asked' = [asked EXCEPT ![o] = IF @ = 2 THEN 2 ELSE @ + 1]
           /\ Goes(h, [at |-> "waiting", op |-> o])
  <2> DEFINE work == [at |-> "waiting", op |-> o]
  <2>1. work \in Works /\ work.at = "waiting" /\ work.op = o
    BY <1>1 DEF Works
  <2>2. asked[o] = 0
    BY <1>1, <1>3 DEF OpInv, MayBeClaimed
  <2>3. /\ asked' \in [OpIds -> 0..2] /\ asked'[o] <= 1 /\ flight' \in SUBSET OpIds
        /\ \A p \in OpIds : p # o => asked'[p] = asked[p] /\ (p \in flight' => p \in flight)
    BY <1>1, <1>3, <2>2 DEF TypeOK
  <2>4. sync' \in [Versions -> {"pending", "synced", "failed", "unknown"}]
    BY <1>1, <1>2 DEF TypeOK
  <2>5. \A u \in Versions : VersionInv(u)'
    BY <1>2, VersionsStay
  <2>6. "sent" \in States
    BY DEF States, Open
  <2>7. Goes(h, work) /\ ops' = [ops EXCEPT ![o].state = "sent"]
    BY <1>3
  <2> HIDE DEF work, o
  <2> QED
    BY <1>1, <1>2, <2>1, <2>3, <2>4, <2>5, <2>6, <2>7, RestateKeeps
<1>4. CASE Goes(h, Idle) /\ UNCHANGED <<ops, flight, asked>>
  <2>1. UNCHANGED <<rows, ops, gateway>>
    BY <1>2, <1>4 DEF rows, gateway
  <2> QED
    BY <1>4, <2>1, IdleIsWork, OnlyHand
<1> QED
  BY <1>3, <1>4 DEF Claim

LEMMA FinishKeeps ==
  ASSUME ModelInv, NEW h \in Handlers, Finish(h)
  PROVE  ModelInv'
<1> DEFINE o == hand[h].op
           with == hand[h].with
           w == ops[o].version
<1>1. /\ TypeOK /\ o \in 1..Len(ops) /\ o \in OpIds /\ OpInv(o) /\ HandInv(h)
      /\ hand[h].at = "finishing" /\ Len(ops) \in Nat
  BY WorksOn, Given DEF Finish, At
<1>2. /\ UNCHANGED <<state, revision, flight, answer, asked, native>>
      /\ Goes(h, Idle)
  BY DEF Finish, gateway
<1>3. with \in Ended \cup {"unknown"} /\ w \in Versions
  <2>1. hand[h] \in Works \cup {Idle}
    BY <1>1 DEF TypeOK
  <2>2. with \in Ended \cup {"unknown"}
    BY <1>1, <2>1 DEF Works, Idle
  <2> QED
    BY <1>1, <2>2, OnRecord
<1>4. with = "succeeded" => Did(o)
  BY <1>1 DEF HandInv, At
<1>5. CASE /\ MayBeFinished(o) /\ ops' = [ops EXCEPT ![o].state = with]
           /\ sync' = [sync EXCEPT ![w] = Synced(o, with)]
  <2>1. \/ Synced(o, with) = sync[w]
        \/ /\ Synced(o, with) = "synced" /\ IsNative(w)
           /\ state[w] = "revoked" => native[w] = "blocked"
        \/ Synced(o, with) \in {"failed", "unknown"}
    <3>1. CASE ops[o].kind = "check" \/ (ops[o].kind = "create" /\ state[w] = "revoked")
      BY <3>1 DEF Synced
    <3>2. CASE ~(ops[o].kind = "check" \/ (ops[o].kind = "create" /\ state[w] = "revoked"))
      <4>1. Synced(o, with) = SyncedByWrite(o, with)
        BY <3>2 DEF Synced
      <4>2. CASE with = "succeeded"
        <5>1. ops[o].kind \in {"create", "revoke"}
          BY <1>1, <3>2, OnRecord DEF Kinds
        <5>2. IsNative(w) /\ (state[w] = "revoked" => native[w] = "blocked")
          BY <1>4, <3>2, <4>2, <5>1 DEF Did, IsNative
        <5> QED
          BY <4>1, <4>2, <5>2 DEF SyncedByWrite
      <4>3. CASE with # "succeeded"
        BY <4>1, <4>3 DEF SyncedByWrite
      <4> QED
        BY <4>2, <4>3
    <3> QED
      BY <3>1, <3>2
  <2>2. /\ sync' \in [Versions -> {"pending", "synced", "failed", "unknown"}]
        /\ \A u \in Versions : u # w => sync'[u] = sync[u]
        /\ sync'[w] = Synced(o, with)
    <3>1. Synced(o, with) \in {"pending", "synced", "failed", "unknown"}
      BY <1>1, <1>3, <2>1 DEF TypeOK
    <3> QED
      BY <1>1, <1>3, <1>5, <3>1 DEF TypeOK
  <2>3. ASSUME NEW u \in Versions
        PROVE  VersionInv(u)'
    <3>1. VersionInv(u)
      BY Given
    <3> QED
      BY <1>2, <2>1, <2>2, <3>1 DEF VersionInv, IsNative
  <2>4. asked'[o] <= 1 /\ with # "prepared" /\ with \in States
    BY <1>1, <1>2, <1>3 DEF OpInv, Ended, States, Open
  <2>5. flight' \in SUBSET OpIds /\ asked' \in [OpIds -> 0..2]
    BY <1>1, <1>2 DEF TypeOK
  <2>6. ops' = [ops EXCEPT ![o].state = with]
    BY <1>5
  <2> HIDE DEF o, with
  <2> QED
    BY <1>1, <1>2, <1>4, <2>2, <2>3, <2>4, <2>5, <2>6, IdleIsWork, RestateKeeps
<1>6. CASE UNCHANGED <<ops, sync>>
  <2>1. UNCHANGED <<rows, ops, gateway>>
    BY <1>2, <1>6 DEF rows, gateway
  <2> QED
    BY <1>2, <2>1, IdleIsWork, OnlyHand
<1> QED
  BY <1>5, <1>6 DEF Finish

\* A request on its way, of an operation on record, is no longer.
LEMMA ArrivalKeeps ==
  ASSUME ModelInv, NEW o \in OpIds, o \in flight, flight' = flight \ {o},
         UNCHANGED <<rows, ops, hand, asked>>,
         native' \in [Versions -> {"absent", "present", "blocked"}],
         answer' \in [OpIds -> {"none", "done", "rejected", "unhealthy"}],
         \A p \in OpIds : p # o => answer'[p] = answer[p],
         \A u \in Versions : IsNative(u) => native'[u] # "absent",
         \A u \in Versions : native[u] = "blocked" => native'[u] = "blocked",
         \A u \in Versions : native'[u] = "blocked" => state[u] = "revoked",
         answer'[o] = "done" => Did(o)' \/ answer[o] = "done"
  PROVE  ModelInv'
<1>1. /\ UNCHANGED <<state, sync, revision, ops, hand, asked>>
      /\ TypeOK /\ Len(ops) \in Nat /\ \A k \in Handlers : HandInv(k)
  BY Given DEF rows
<1>2. Kept
  BY <1>1 DEF Kept, IsNative
<1>3. \A k \in Handlers : HandInv(k)'
  BY <1>1, <1>2, HandStays
<1>4. TypeOK'
  <2>1. flight' \in SUBSET OpIds
    BY <1>1 DEF TypeOK
  <2> QED
    BY <1>1, <2>1 DEF TypeOK
<1>5. o \in 1..Len(ops) /\ OpInv(o)
  BY <1>1, Given DEF OpInv, OpIds
<1>6. OpInv(o)'
  <2>1. Did(o) => Did(o)'
    BY <1>1, <1>2, <1>5, DidStays
  <2> QED
    BY <1>1, <1>5, <2>1 DEF OpInv
<1>7. ASSUME NEW p \in OpIds, p # o
      PROVE  OpInv(p)'
  BY <1>1, <1>2, <1>7, Given, OpStays
<1>8. ASSUME NEW u \in Versions
      PROVE  VersionInv(u)'
  <2>1. VersionInv(u) /\ (u \in Profiles => ServiceOf[u] \in Versions)
    BY Given
  <2> QED
    BY <1>1, <2>1 DEF VersionInv, IsNative
<1> QED
  BY <1>3, <1>4, <1>6, <1>7, <1>8 DEF ModelInv

LEMMA GatewayServesKeeps ==
  ASSUME ModelInv, NEW o \in OpIds, GatewayServes(o)
  PROVE  ModelInv'
<1> DEFINE w == ops[o].version
<1>1. /\ o \in flight /\ flight' = flight \ {o} /\ UNCHANGED <<rows, ops, hand, asked>>
      /\ UNCHANGED ops
  BY DEF GatewayServes
<1>2. TypeOK /\ OpInv(o) /\ Len(ops) \in Nat
  BY Given
<1>3. o \in 1..Len(ops)
  BY <1>1, <1>2 DEF OpInv, OpIds
<1>4. w \in Versions /\ ops[o].kind \in Kinds
  BY <1>2, <1>3, OnRecord
<1>5. \A u \in Versions : native[u] = "blocked" => state[u] = "revoked"
  BY Given DEF VersionInv
<1>6. CASE /\ ops[o].kind = "create" \/ IsNative(w)
           /\ native' = [native EXCEPT ![w] = Effect(o)]
           /\ answer' = [answer EXCEPT ![o] = "done"]
  <2>1. /\ Effect(o) \in {"present", "blocked"}
        /\ native[w] = "blocked" => Effect(o) = "blocked"
        /\ ops[o].kind = "revoke" => Effect(o) = "blocked"
        /\ Effect(o) = "blocked" => native[w] = "blocked" \/ ops[o].kind = "revoke"
    <3>1. native[w] \in {"absent", "present", "blocked"}
      BY <1>2, <1>4 DEF TypeOK
    <3>2. CASE ops[o].kind = "create"
      BY <3>1, <3>2 DEF Effect
    <3>3. CASE ops[o].kind = "revoke"
      BY <1>6, <3>1, <3>3 DEF Effect, IsNative
    <3>4. CASE ops[o].kind = "check"
      BY <1>6, <3>1, <3>4 DEF Effect, IsNative
    <3> QED
      BY <1>4, <3>2, <3>3, <3>4 DEF Kinds
  <2>2. ops[o].kind = "revoke" => state[w] = "revoked"
    BY <1>2, <1>3 DEF OpInv
  <2>3. /\ native' \in [Versions -> {"absent", "present", "blocked"}]
        /\ \A u \in Versions : native'[u] = IF u = w THEN Effect(o) ELSE native[u]
    BY <1>2, <1>4, <1>6, <2>1 DEF TypeOK
  <2>4. /\ answer' \in [OpIds -> {"none", "done", "rejected", "unhealthy"}]
        /\ \A p \in OpIds : p # o => answer'[p] = answer[p]
    BY <1>2, <1>6 DEF TypeOK
  <2>5. Did(o)'
    BY <1>1, <1>4, <2>1, <2>3 DEF Did, IsNative
  <2>6. \A u \in Versions : /\ IsNative(u) => native'[u] # "absent"
                            /\ native[u] = "blocked" => native'[u] = "blocked"
                            /\ native'[u] = "blocked" => state[u] = "revoked"
    BY <1>5, <2>1, <2>2, <2>3 DEF IsNative
  <2> QED
    BY <1>1, <2>3, <2>4, <2>5, <2>6, ArrivalKeeps
<1>7. ASSUME NEW refusal \in Refusals(ops[o].kind), answer' = [answer EXCEPT ![o] = refusal],
             UNCHANGED native
      PROVE  ModelInv'
  <2>1. refusal \in {"rejected", "unhealthy"}
    BY <1>7 DEF Refusals
  <2>2. /\ answer' \in [OpIds -> {"none", "done", "rejected", "unhealthy"}]
        /\ answer'[o] # "done" /\ \A p \in OpIds : p # o => answer'[p] = answer[p]
    BY <1>2, <1>7, <2>1 DEF TypeOK
  <2>3. native' \in [Versions -> {"absent", "present", "blocked"}]
    BY <1>2, <1>7 DEF TypeOK
  <2> QED
    BY <1>1, <1>5, <1>7, <2>2, <2>3, ArrivalKeeps DEF IsNative
<1> QED
  BY <1>6, <1>7 DEF GatewayServes

LEMMA RequestLostKeeps ==
  ASSUME ModelInv, NEW o \in OpIds, RequestLost(o)
  PROVE  ModelInv'
<1>1. TypeOK /\ \A u \in Versions : native[u] = "blocked" => state[u] = "revoked"
  BY Given DEF VersionInv
<1>2. /\ native' \in [Versions -> {"absent", "present", "blocked"}]
      /\ answer' \in [OpIds -> {"none", "done", "rejected", "unhealthy"}]
  BY <1>1 DEF RequestLost, TypeOK
<1> QED
  BY <1>1, <1>2, ArrivalKeeps DEF RequestLost, IsNative

-----------------------------------------------------------------------------
(* The theorems *)

LEMMA ModelInit == Init => ModelInv
<1> SUFFICES ASSUME Init PROVE ModelInv
  OBVIOUS
<1>1. Len(ops) = 0 /\ ops \in Seq(Operations)
  BY EmptySeq DEF Init
<1>2. TypeOK
  <2>1. hand \in [Handlers -> Works \cup {Idle}]
        /\ \A h \in Handlers : hand[h].at \in {"idle", "publishing"}
    BY DEF Init, Idle
  <2>2. /\ state \in [Versions -> {"none", "draft", "published", "retired", "revoked"}]
        /\ sync \in [Versions -> {"pending", "synced", "failed", "unknown"}]
        /\ revision \in [Versions -> 1..MaxRevision]
        /\ native \in [Versions -> {"absent", "present", "blocked"}]
    BY ModelOperationsAssumption DEF Init
  <2>3. /\ flight \in SUBSET OpIds
        /\ answer \in [OpIds -> {"none", "done", "rejected", "unhealthy"}]
        /\ asked \in [OpIds -> 0..2]
    BY DEF Init
  <2> QED
    BY <1>1, <2>1, <2>2, <2>3, ModelOperationsAssumption DEF TypeOK
<1>3. \A o \in OpIds : OpInv(o)
  BY <1>1, ModelOperationsAssumption DEF Init, OpInv, OpIds
<1>4. \A h \in Handlers : HandInv(h)
  BY DEF Init, HandInv, At, Idle
<1>5. \A v \in Versions : VersionInv(v)
  BY DEF Init, VersionInv
<1> QED
  BY <1>2, <1>3, <1>4, <1>5 DEF ModelInv

LEMMA ModelNext == ModelInv /\ [Next]_vars => ModelInv'
<1> SUFFICES ASSUME ModelInv, [Next]_vars PROVE ModelInv'
  OBVIOUS
<1>1. ASSUME NEW h \in Handlers, NEW v \in Versions, Save(h, v) PROVE ModelInv'
  BY <1>1, SaveKeeps
<1>2. ASSUME NEW h \in Handlers, NEW v \in Profiles,
             Check(h, v) \/ PublishAsked(h, v) \/ Publish(h, v) \/ Retire(h, v) \/ Revoke(h, v)
      PROVE  ModelInv'
  BY <1>2, CheckKeeps, PublishAskedKeeps, PublishKeeps, RetireKeeps, RevokeKeeps
<1>3. ASSUME NEW h \in Handlers, NEW o \in OpIds, AskAgain(h, o) PROVE ModelInv'
  BY <1>3, AskAgainKeeps
<1>4. ASSUME NEW h \in Handlers,
             \/ Claim(h) \/ Answered(h) \/ GivesUp(h) \/ Confirmed(h) \/ Reread(h)
             \/ Finish(h) \/ Dies(h)
      PROVE  ModelInv'
  BY <1>4, ClaimKeeps, AnsweredKeeps, GivesUpKeeps, ConfirmedKeeps, RereadKeeps,
     FinishKeeps, DiesKeeps
<1>5. ASSUME NEW o \in OpIds, GatewayServes(o) \/ RequestLost(o) PROVE ModelInv'
  BY <1>5, GatewayServesKeeps, RequestLostKeeps
<1>6. CASE UNCHANGED vars
  <2>1. UNCHANGED <<state, sync, revision, ops, hand, flight, answer, asked, native>>
    BY <1>6 DEF vars, rows, gateway
  <2>2. TypeOK => TypeOK'
    BY <2>1 DEF TypeOK
  <2>3. (\A o \in OpIds : OpInv(o)) => (\A o \in OpIds : OpInv(o))'
    BY <2>1 DEF OpInv, Did, IsNative
  <2>4. (\A h \in Handlers : HandInv(h)) => (\A h \in Handlers : HandInv(h))'
    BY <2>1 DEF HandInv, At, OpOf, Did, IsNative
  <2>5. (\A v \in Versions : VersionInv(v)) => (\A v \in Versions : VersionInv(v))'
    BY <2>1 DEF VersionInv, IsNative
  <2> QED
    BY <2>2, <2>3, <2>4, <2>5 DEF ModelInv
<1> QED
  BY <1>1, <1>2, <1>3, <1>4, <1>5, <1>6 DEF Next

LEMMA ModelAlways == Spec => []ModelInv
  BY ModelInit, ModelNext, PTL DEF Spec

\* The variables keep their types.
THEOREM ModelsTypeCorrect == Spec => []TypeOK
<1>1. ModelInv => TypeOK
  BY DEF ModelInv
<1> QED
  BY <1>1, ModelAlways, PTL

\* However often it is asked for again, and by however many handlers that die: the
\* request of an operation is sent at most once.
THEOREM RequestsAreSentOnce == Spec => []AskedOnce
<1>1. ModelInv => AskedOnce
  BY DEF ModelInv, OpInv, AskedOnce
<1> QED
  BY <1>1, ModelAlways, PTL

\* What projects are offered is at the gateway, not blocked, and so is its service.
THEOREM WhatIsOfferedIsThere == Spec => []OfferedIsThere
<1>1. ModelInv => OfferedIsThere
  <2> SUFFICES ASSUME ModelInv, NEW v \in Profiles,
                      state[v] = "published", sync[v] = "synced"
               PROVE  native[v] = "present" /\ IsNative(ServiceOf[v])
    BY DEF OfferedIsThere
  <2>1. VersionInv(v) /\ native[v] \in {"absent", "present", "blocked"}
    BY Given DEF TypeOK
  <2> QED
    BY <2>1 DEF VersionInv, IsNative
<1> QED
  BY <1>1, ModelAlways, PTL

\* What is shown as revoked and synced is blocked at the gateway.
THEOREM RevocationIsReal == Spec => []RevokedIsBlocked
<1>1. ModelInv => RevokedIsBlocked
  BY Given DEF RevokedIsBlocked, VersionInv
<1> QED
  BY <1>1, ModelAlways, PTL

\* An outcome that is recorded is never another, whoever finishes last.
THEOREM OutcomesAreFinal == Spec => OutcomeIsFinal
<1> DEFINE Final == \A o \in DOMAIN ops : ops[o].state \in Ended => ops'[o].state = ops[o].state
<1>1. ModelInv /\ [Next]_vars => Final
  <2> SUFFICES ASSUME ModelInv, [Next]_vars, NEW p \in 1..Len(ops), ops[p].state \in Ended
               PROVE  ops'[p].state = ops[p].state
    BY Given, LenProperties DEF TypeOK
  <2>1. TypeOK /\ DOMAIN ops = 1..Len(ops)
    BY Given, LenProperties DEF TypeOK
  <2>2. ASSUME NEW h \in Handlers, NEW v \in Versions, NEW kind \in Kinds,
               Prepares(h, kind, v)
        PROVE  ops'[p].state = ops[p].state
    BY <2>1, <2>2, Prepared
  <2>3. ASSUME NEW o \in 1..Len(ops), NEW s \in States, ops' = [ops EXCEPT ![o].state = s],
               s = ops[o].state \/ ops[o].state \notin Ended
        PROVE  ops'[p].state = ops[p].state
    <3>1. ops'[o].state = s /\ \A q \in 1..Len(ops) : q # o => ops'[q] = ops[q]
      BY <2>1, <2>3, Restated
    <3> QED
      BY <2>3, <3>1
  <2>4. ASSUME NEW h \in Handlers, NEW o \in OpIds, AskAgain(h, o)
        PROVE  ops'[p].state = ops[p].state
    <3>1. PICK shown \in Shown(o) : ops' = [ops EXCEPT ![o].state = shown]
      BY <2>4 DEF AskAgain
    <3>2. o \in 1..Len(ops)
      BY <2>1, <2>4 DEF AskAgain
    <3>3. ops[o].state \in States
      BY <2>1, <3>2, OnRecord
    <3>4. shown \in States /\ (shown = ops[o].state \/ ops[o].state \notin Ended)
      BY <3>3 DEF Shown, States, Open, Ended
    <3> QED
      BY <2>3, <3>1, <3>2, <3>4
  <2>5. ASSUME NEW h \in Handlers, Claim(h) \/ Finish(h)
        PROVE  ops'[p].state = ops[p].state
    <3> DEFINE o == hand[h].op
    <3>1. o \in 1..Len(ops)
      BY <2>5, WorksOn DEF Claim, Finish, At
    <3>2. CASE MayBeClaimed(o) /\ ops' = [ops EXCEPT ![o].state = "sent"]
      BY <2>3, <3>1, <3>2 DEF MayBeClaimed, States, Open, Ended
    <3>3. CASE Finish(h) /\ MayBeFinished(o) /\ ops' = [ops EXCEPT ![o].state = hand[h].with]
      <4>1. hand[h] \in Works \cup {Idle} /\ hand[h].at = "finishing"
        BY <2>1, <3>3 DEF TypeOK, Finish, At
      <4>2. hand[h].with \in States
        BY <4>1 DEF Works, Idle, States, Open
      <4>3. ops[o].state \notin Ended
        BY <3>3 DEF MayBeFinished, Open, Ended
      <4>4. ops' = [ops EXCEPT ![o].state = hand[h].with]
        BY <3>3
      <4> HIDE DEF o
      <4> QED
        BY <2>3, <3>1, <4>2, <4>3, <4>4
    <3>4. CASE UNCHANGED ops
      BY <3>4
    <3> QED
      BY <2>5, <3>2, <3>3, <3>4 DEF Claim, Finish
  <2>6. ASSUME NEW h \in Handlers, NEW v \in Versions, Save(h, v)
        PROVE  ops'[p].state = ops[p].state
    BY <2>2, <2>6 DEF Save, Kinds
  <2>7. ASSUME NEW h \in Handlers, NEW v \in Profiles, Check(h, v) \/ Revoke(h, v)
        PROVE  ops'[p].state = ops[p].state
    BY <2>2, <2>7, Given DEF Check, Revoke, Kinds
  <2>8. ASSUME UNCHANGED ops
        PROVE  ops'[p].state = ops[p].state
    BY <2>8
  <2> QED
    BY <2>4, <2>5, <2>6, <2>7, <2>8
    DEF Next, PublishAsked, Publish, Retire, Answered, GivesUp, Confirmed, Reread, Dies,
        GatewayServes, RequestLost, vars
<1>2. ModelInv /\ [Next]_vars => [Final]_vars
  BY <1>1
<1> QED
  BY <1>2, ModelAlways, PTL DEF Spec, OutcomeIsFinal
=============================================================================
