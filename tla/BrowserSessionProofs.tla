------------------------ MODULE BrowserSessionProofs ------------------------
(***************************************************************************)
(* BrowserSession for any users, projects and bounds: whatever the order   *)
(* of answers, nothing older is shown, and a logout masks.                 *)
(***************************************************************************)
EXTENDS BrowserSession, TLAPS

\* A session that was read is one, of permissions its user has or had; a read of
\* the current generation is not behind the session shown.
SessionRead(q) ==
  q.ans = "ok" =>
    /\ q.got \in Sessions /\ q.got.ver <= version[q.got.user]
    /\ Fresh(q) /\ session # None /\ session.user = q.got.user => q.got.ver >= session.ver

\* Reads under one key are one read.
OneFresh == \A q, r \in sreads : Fresh(q) /\ Fresh(r) => q = r

\* A read of the current generation is for the session and the project shown, and
\* not behind either.
ProjectRead(q) ==
  /\ Fresh(q) => session # None /\ q.user = session.user /\ q.project = project
  /\ q.ans = "ok" =>
       /\ q.got \in Pages /\ q.got.project = q.project
       /\ Fresh(q) /\ q.got.user = session.user => q.got.ver >= session.ver

ReadInv ==
  /\ \A q \in sreads : SessionRead(q)
  /\ OneFresh
  /\ \A q \in preads : ProjectRead(q)

\* The server does not take permissions back to an earlier version.
ServerInv ==
  /\ session # None => session.ver <= version[session.user]
  /\ server.alive => server.sid # 0

SessionInv == TypeOK /\ ReadInv /\ ServerInv /\ ShownIsNotOlder /\ LogoutMasks

-----------------------------------------------------------------------------
(* Reads that pass *)

\* What passes is a read still, with the answer it had.
LEMMA PassedSessions ==
  ASSUME NEW rs \in SUBSET SessionReads, NEW r \in Passed(rs)
  PROVE  /\ r \in SessionReads /\ ~Fresh(r)
         /\ \E q \in rs : r.ans = q.ans /\ r.got = q.got
<1>1. PICK q \in rs : r = [q EXCEPT !.gen = "passed"]
  BY DEF Passed
<1>2. q \in SessionReads
  OBVIOUS
<1> QED
  BY <1>1, <1>2 DEF SessionReads, Fresh

LEMMA PassedProjects ==
  ASSUME NEW rs \in SUBSET ProjectReads, NEW r \in Passed(rs)
  PROVE  /\ r \in ProjectReads /\ ~Fresh(r)
         /\ \E q \in rs : r.ans = q.ans /\ r.got = q.got /\ r.project = q.project
<1>1. PICK q \in rs : r = [q EXCEPT !.gen = "passed"]
  BY DEF Passed
<1>2. q \in ProjectReads
  OBVIOUS
<1> QED
  BY <1>1, <1>2 DEF ProjectReads, Fresh

\* What is known of reads that have passed, for whatever is shown now.
LEMMA SessionsPass ==
  ASSUME SessionInv, NEW rs \in SUBSET sreads, sreads' = Passed(rs), UNCHANGED version
  PROVE  /\ sreads' \in SUBSET SessionReads
         /\ OneFresh' /\ \A r \in sreads' : SessionRead(r)'
<1>1. rs \in SUBSET SessionReads
  BY DEF SessionInv, TypeOK
<1>2. ASSUME NEW r \in sreads'
      PROVE  r \in SessionReads /\ ~Fresh(r) /\ SessionRead(r)'
  <2>1. PICK q \in rs : r.ans = q.ans /\ r.got = q.got
    BY <1>1, PassedSessions
  <2>2. r \in SessionReads /\ ~Fresh(r)
    BY <1>1, PassedSessions
  <2>3. SessionRead(q)
    BY DEF SessionInv, ReadInv
  <2> QED
    BY <2>1, <2>2, <2>3 DEF SessionRead
<1> QED
  BY <1>2 DEF OneFresh

LEMMA ProjectsPass ==
  ASSUME SessionInv, NEW rs \in SUBSET preads, preads' = Passed(rs)
  PROVE  preads' \in SUBSET ProjectReads /\ \A r \in preads' : ProjectRead(r)'
<1>1. rs \in SUBSET ProjectReads
  BY DEF SessionInv, TypeOK
<1>2. ASSUME NEW r \in preads'
      PROVE  r \in ProjectReads /\ ProjectRead(r)'
  <2>1. PICK q \in rs : r.ans = q.ans /\ r.got = q.got /\ r.project = q.project
    BY <1>1, PassedProjects
  <2>2. r \in ProjectReads /\ ~Fresh(r)
    BY <1>1, PassedProjects
  <2>3. ProjectRead(q)
    BY DEF SessionInv, ReadInv
  <2> QED
    BY <2>1, <2>2, <2>3 DEF ProjectRead
<1> QED
  BY <1>2

\* Reads that end, with nothing else changed, leave what is known of the others.
LEMMA SessionsEnd ==
  ASSUME SessionInv, sreads' \in SUBSET sreads, UNCHANGED <<session, version>>
  PROVE  /\ sreads' \in SUBSET SessionReads
         /\ OneFresh' /\ \A r \in sreads' : SessionRead(r)'
<1>1. \A r \in sreads' : SessionRead(r)'
  BY DEF SessionInv, ReadInv, SessionRead, Fresh
<1>2. OneFresh'
  BY DEF SessionInv, ReadInv, OneFresh, Fresh
<1> QED
  BY <1>1, <1>2 DEF SessionInv, TypeOK

LEMMA ProjectsEnd ==
  ASSUME SessionInv, preads' \in SUBSET preads, UNCHANGED <<session, project>>
  PROVE  preads' \in SUBSET ProjectReads /\ \A r \in preads' : ProjectRead(r)'
<1>1. \A r \in preads' : ProjectRead(r)'
  BY DEF SessionInv, ReadInv, ProjectRead, Fresh
<1> QED
  BY <1>1 DEF SessionInv, TypeOK

-----------------------------------------------------------------------------
(* Each action keeps the invariant *)

\* A change of identity, to a session that was read or to none.
LEMMA NewIdentityKeeps ==
  ASSUME SessionInv,
         NEW st \in {"checking", "authenticated", "signed-out", "logout-pending",
                     "logout-failed"},
         NEW s \in Sessions \cup {None}, NEW p \in Projects \cup {None},
         NEW rs \in SUBSET sreads, NewIdentity(st, s, p, rs),
         s # None => s.ver <= version[s.user],
         token' \in 0..MaxSessions,
         token' # 0 => st \in {"logout-pending", "logout-failed"} /\ s = None,
         posts' \in SUBSET [token : 1..MaxSessions,
                            ans : {"waiting", "revoked", "unauthenticated", "failed"}],
         UNCHANGED <<server, version>>
  PROVE  SessionInv'
<1>1. /\ status' = st /\ session' = s /\ project' = p /\ page' = None
      /\ sreads' = Passed(rs) /\ preads' = Passed(preads)
  BY DEF NewIdentity
<1>2. /\ sreads' \in SUBSET SessionReads
      /\ OneFresh' /\ \A r \in sreads' : SessionRead(r)'
  BY <1>1, SessionsPass
<1>3. preads' \in SUBSET ProjectReads /\ \A r \in preads' : ProjectRead(r)'
  BY <1>1, ProjectsPass
<1>4. TypeOK'
  BY <1>1, <1>2, <1>3 DEF SessionInv, TypeOK
<1>5. ReadInv'
  BY <1>2, <1>3 DEF ReadInv
<1>6. ServerInv'
  BY <1>1 DEF SessionInv, ServerInv
<1> QED
  BY <1>1, <1>4, <1>5, <1>6 DEF SessionInv, ShownIsNotOlder, LogoutMasks

\* A step that leaves the tab alone, the server too, and only ends reads.
LEMMA EndsKeep ==
  ASSUME SessionInv, UNCHANGED tab, UNCHANGED <<server, version>>,
         sreads' \in SUBSET sreads, preads' \in SUBSET preads,
         posts' \in SUBSET [token : 1..MaxSessions,
                            ans : {"waiting", "revoked", "unauthenticated", "failed"}]
  PROVE  SessionInv'
<1>1. UNCHANGED <<status, session, project, page, token>>
  BY DEF tab
<1>2. /\ sreads' \in SUBSET SessionReads
      /\ OneFresh' /\ \A r \in sreads' : SessionRead(r)'
  BY <1>1, SessionsEnd
<1>3. preads' \in SUBSET ProjectReads /\ \A r \in preads' : ProjectRead(r)'
  BY <1>1, ProjectsEnd
<1>4. TypeOK'
  BY <1>1, <1>2, <1>3 DEF SessionInv, TypeOK
<1>5. ReadInv'
  BY <1>2, <1>3 DEF ReadInv
<1>6. ServerInv' /\ ShownIsNotOlder' /\ LogoutMasks'
  BY <1>1 DEF SessionInv, ServerInv, ShownIsNotOlder, LogoutMasks
<1> QED
  BY <1>4, <1>5, <1>6 DEF SessionInv

LEMMA ReadSessionKeeps ==
  ASSUME SessionInv, ReadSession
  PROVE  SessionInv'
<1> DEFINE new == [gen |-> "current", ans |-> "waiting", got |-> None]
<1>1. /\ UNCHANGED <<status, session, project, page, token, preads, posts, server, version>>
      /\ sreads' = sreads \cup {new} /\ \A q \in sreads : ~Fresh(q)
  BY DEF ReadSession, tab
<1>2. new \in SessionReads /\ new.ans = "waiting"
  BY DEF SessionReads
<1> HIDE DEF new
<1>3. TypeOK'
  BY <1>1, <1>2 DEF SessionInv, TypeOK
<1>4. \A q \in sreads' : SessionRead(q)'
  BY <1>1, <1>2 DEF SessionInv, ReadInv, SessionRead, Fresh
<1>5. OneFresh'
  BY <1>1 DEF OneFresh, Fresh
<1>6. \A q \in preads' : ProjectRead(q)'
  BY <1>1 DEF SessionInv, ReadInv, ProjectRead, Fresh
<1>7. ServerInv' /\ ShownIsNotOlder' /\ LogoutMasks'
  BY <1>1 DEF SessionInv, ServerInv, ShownIsNotOlder, LogoutMasks
<1> QED
  BY <1>3, <1>4, <1>5, <1>6, <1>7 DEF SessionInv, ReadInv

LEMMA AnswerSessionKeeps ==
  ASSUME SessionInv, NEW q \in sreads, AnswerSession(q)
  PROVE  SessionInv'
<1> DEFINE got == [sid |-> server.sid, user |-> server.user, ver |-> version[server.user]]
           new == IF server.alive THEN [q EXCEPT !.ans = "ok", !.got = got]
                  ELSE [q EXCEPT !.ans = "unauthenticated"]
<1>1. /\ UNCHANGED <<status, session, project, page, token, preads, posts, server, version>>
      /\ sreads' = (sreads \ {q}) \cup {new}
  BY DEF AnswerSession, tab
<1>2. q \in SessionReads /\ server.user \in Users /\ version[server.user] \in Versions
  BY DEF SessionInv, TypeOK
<1>3. server.alive => got \in Sessions
  BY <1>2 DEF SessionInv, ServerInv, TypeOK, Sessions
<1>4. /\ new \in SessionReads /\ new.gen = q.gen
      /\ new.ans = "ok" => new.got \in Sessions /\ new.got.ver = version[new.got.user]
  <2>1. CASE server.alive
    <3>1. new = [q EXCEPT !.ans = "ok", !.got = got] /\ got \in Sessions
      BY <1>3, <2>1
    <3>2. got.ver = version[got.user]
      OBVIOUS
    <3> HIDE DEF new, got
    <3> QED
      BY <1>2, <3>1, <3>2 DEF SessionReads
  <2>2. CASE ~server.alive
    <3>1. new = [q EXCEPT !.ans = "unauthenticated"]
      BY <2>2
    <3> HIDE DEF new
    <3> QED
      BY <1>2, <3>1 DEF SessionReads
  <2> QED
    BY <2>1, <2>2
<1>4a. PICK answered \in SessionReads :
        /\ sreads' = (sreads \ {q}) \cup {answered} /\ answered.gen = q.gen
        /\ answered.ans = "ok" => /\ answered.got \in Sessions
                                  /\ answered.got.ver = version[answered.got.user]
  <2> HIDE DEF new
  <2> QED
    BY <1>1, <1>4, Zenon
<1> HIDE DEF new, got
<1>5. TypeOK'
  BY <1>1, <1>4a DEF SessionInv, TypeOK
<1>6. SessionRead(answered)'
  <2>1. ASSUME answered.ans = "ok"
        PROVE  answered.got.ver \in Nat /\ answered.got.user \in Users
    BY <1>4a, <2>1 DEF Sessions, Versions
  <2> QED
    BY <1>1, <1>4a, <2>1 DEF SessionInv, ServerInv, SessionRead, Fresh
<1>7. \A r \in sreads' : SessionRead(r)'
  BY <1>1, <1>6, <1>4a DEF SessionInv, ReadInv, SessionRead, Fresh
<1>8. OneFresh'
  BY <1>1, <1>4a DEF SessionInv, ReadInv, OneFresh, Fresh
<1>9. \A r \in preads' : ProjectRead(r)'
  BY <1>1 DEF SessionInv, ReadInv, ProjectRead, Fresh
<1>10. ServerInv' /\ ShownIsNotOlder' /\ LogoutMasks'
  BY <1>1 DEF SessionInv, ServerInv, ShownIsNotOlder, LogoutMasks
<1> QED
  BY <1>5, <1>7, <1>8, <1>9, <1>10 DEF SessionInv, ReadInv

LEMMA CommitSessionKeeps ==
  ASSUME SessionInv, NEW q \in sreads, CommitSession(q)
  PROVE  /\ SessionInv'
         /\ session # None /\ session' # None /\ session'.user = session.user
            => session'.ver >= session.ver
<1>1. q.ans = "ok" /\ UNCHANGED <<posts, server, version>> /\ SessionRead(q)
  BY DEF CommitSession, SessionInv, ReadInv
<1>2. /\ q.got \in Sessions /\ q.got # None /\ q.got.ver <= version[q.got.user]
      /\ Fresh(q) /\ session # None /\ session.user = q.got.user => q.got.ver >= session.ver
  BY <1>1, BrowserSessionAssumption DEF SessionRead
<1>3. posts' \in SUBSET [token : 1..MaxSessions,
                         ans : {"waiting", "revoked", "unauthenticated", "failed"}]
  BY <1>1 DEF SessionInv, TypeOK
<1>4. CASE ~Accepts(q)
  <2>1. sreads' = sreads \ {q} /\ UNCHANGED tab /\ UNCHANGED preads
    BY <1>4 DEF CommitSession
  <2>2. session' = session
    BY <2>1 DEF tab
  <2>3. SessionInv'
    BY <1>1, <1>3, <2>1, EndsKeep
  <2>4. session # None => session.ver \in Nat
    BY DEF SessionInv, TypeOK, Sessions, Versions
  <2> QED
    BY <2>2, <2>3, <2>4
<1>5. CASE Accepts(q) /\ Unchanged(q.got)
  <2>1. /\ status' = "authenticated" /\ session' = q.got /\ sreads' = sreads \ {q}
        /\ UNCHANGED <<project, page, preads, token>>
    BY <1>5 DEF CommitSession
  <2>2. Fresh(q) /\ token = 0
    BY <1>5 DEF Accepts, SessionInv, LogoutMasks
  <2>3. session # None => session.user = q.got.user /\ session.ver = q.got.ver
    BY <1>5 DEF Unchanged
  <2>4. \A r \in sreads' : ~Fresh(r)
    BY <2>1, <2>2 DEF SessionInv, ReadInv, OneFresh
  <2>5. ASSUME NEW r \in sreads'
        PROVE  SessionRead(r)'
    <3>1. SessionRead(r)
      BY <2>1 DEF SessionInv, ReadInv
    <3> QED
      BY <1>1, <2>4, <3>1 DEF SessionRead, Fresh
  <2>6. OneFresh'
    BY <2>4 DEF OneFresh, Fresh
  <2>7. ASSUME NEW r \in preads'
        PROVE  ProjectRead(r)'
    <3>1. ProjectRead(r)
      BY <2>1 DEF SessionInv, ReadInv
    <3> QED
      BY <1>2, <2>1, <2>3, <3>1 DEF ProjectRead, Fresh
  <2>8. TypeOK'
    BY <1>1, <1>2, <2>1 DEF SessionInv, TypeOK
  <2>9. ServerInv' /\ ShownIsNotOlder' /\ LogoutMasks'
    BY <1>1, <1>2, <2>1, <2>2, <2>3 DEF SessionInv, ServerInv, ShownIsNotOlder, LogoutMasks
  <2>10. session # None => session.ver \in Nat
    BY DEF SessionInv, TypeOK, Sessions, Versions
  <2> QED
    BY <1>2, <2>1, <2>3, <2>5, <2>6, <2>7, <2>8, <2>9, <2>10 DEF SessionInv, ReadInv
<1>6. CASE Accepts(q) /\ ~Unchanged(q.got)
  <2> DEFINE p == IF session.user = q.got.user THEN project ELSE None
  <2>1. NewIdentity("authenticated", q.got, p, sreads \ {q}) /\ token' = token
    BY <1>6 DEF CommitSession
  <2>2. Fresh(q) /\ token = 0
    BY <1>6 DEF Accepts, SessionInv, LogoutMasks
  <2>3. p \in Projects \cup {None} /\ token \in 0..MaxSessions
    BY DEF SessionInv, TypeOK
  <2>4. session' = q.got
    BY <2>1 DEF NewIdentity
  <2> HIDE DEF p
  <2>5. SessionInv'
    BY <1>1, <1>2, <1>3, <2>1, <2>2, <2>3, NewIdentityKeeps
  <2> QED
    BY <1>2, <2>2, <2>4, <2>5
<1> QED
  BY <1>4, <1>5, <1>6

LEMMA SessionRefusedKeeps ==
  ASSUME SessionInv, NEW q \in sreads, SessionRefused(q)
  PROVE  SessionInv'
<1>1. /\ UNCHANGED <<posts, server, version>>
      /\ posts' \in SUBSET [token : 1..MaxSessions,
                            ans : {"waiting", "revoked", "unauthenticated", "failed"}]
      /\ 0 \in 0..MaxSessions
  BY BrowserSessionAssumption DEF SessionRefused, SessionInv, TypeOK
<1>2. CASE NewIdentity("signed-out", None, None, sreads \ {q}) /\ token' = 0
  BY <1>1, <1>2, NewIdentityKeeps
<1>3. CASE sreads' = sreads \ {q} /\ UNCHANGED <<tab, preads>>
  BY <1>1, <1>3, EndsKeep
<1> QED
  BY <1>2, <1>3 DEF SessionRefused

LEMMA ReadFailsKeeps ==
  ASSUME SessionInv, \/ \E q \in sreads : SessionFails(q)
                     \/ \E q \in preads : ProjectFails(q)
  PROVE  SessionInv'
<1>1. /\ UNCHANGED tab /\ UNCHANGED <<posts, server, version>>
      /\ sreads' \in SUBSET sreads /\ preads' \in SUBSET preads
  BY DEF SessionFails, ProjectFails
<1>2. posts' \in SUBSET [token : 1..MaxSessions,
                         ans : {"waiting", "revoked", "unauthenticated", "failed"}]
  BY <1>1 DEF SessionInv, TypeOK
<1> QED
  BY <1>1, <1>2, EndsKeep

\* Another project is shown, or none: its reads begin anew.
LEMMA ProjectKeeps ==
  ASSUME SessionInv, NEW rs \in SUBSET preads, preads' = Passed(rs),
         project' \in Projects \cup {None}, page' = None,
         UNCHANGED <<status, session, token, sreads, posts, server, version>>
  PROVE  SessionInv'
<1>1. preads' \in SUBSET ProjectReads /\ \A r \in preads' : ProjectRead(r)'
  BY ProjectsPass
<1>2. /\ sreads' \in SUBSET SessionReads
      /\ OneFresh' /\ \A r \in sreads' : SessionRead(r)'
  BY SessionsEnd
<1>3. TypeOK'
  BY <1>1, <1>2 DEF SessionInv, TypeOK
<1>4. ServerInv' /\ ShownIsNotOlder' /\ LogoutMasks'
  BY DEF SessionInv, ServerInv, ShownIsNotOlder, LogoutMasks
<1> QED
  BY <1>1, <1>2, <1>3, <1>4 DEF SessionInv, ReadInv

LEMMA NavigateKeeps ==
  ASSUME SessionInv, Navigate
  PROVE  SessionInv'
<1>1. PICK p \in Projects \cup {None} : Select(p)
  BY DEF Navigate
<1>2. /\ project' = p
      /\ UNCHANGED <<status, session, token, sreads, posts, server, version>>
  BY <1>1 DEF Navigate, Select
<1>3. CASE p = project
  <2>1. UNCHANGED tab /\ sreads' = sreads /\ preads' = preads
    BY <1>1, <1>2, <1>3 DEF Select, tab
  <2>2. posts' \in SUBSET [token : 1..MaxSessions,
                           ans : {"waiting", "revoked", "unauthenticated", "failed"}]
    BY <1>2 DEF SessionInv, TypeOK
  <2> QED
    BY <1>2, <2>1, <2>2, EndsKeep
<1>4. CASE p # project
  <2>1. page' = None /\ preads' = Passed(preads)
    BY <1>1, <1>4 DEF Select
  <2> QED
    BY <1>2, <2>1, ProjectKeeps
<1> QED
  BY <1>3, <1>4

\* A read of the project is begun, or answered.
LEMMA ReadChangesKeeps ==
  ASSUME SessionInv, NEW new \in ProjectReads, ProjectRead(new),
         preads' \in SUBSET (preads \cup {new}),
         UNCHANGED tab, UNCHANGED <<sreads, posts, server, version>>
  PROVE  SessionInv'
<1>1. UNCHANGED <<status, session, project, page, token>>
  BY DEF tab
<1>2. \A r \in preads' : ProjectRead(r)'
  BY <1>1 DEF SessionInv, ReadInv, ProjectRead, Fresh
<1>3. /\ sreads' \in SUBSET SessionReads
      /\ OneFresh' /\ \A r \in sreads' : SessionRead(r)'
  BY <1>1, SessionsEnd
<1>4. preads' \in SUBSET ProjectReads
  BY DEF SessionInv, TypeOK
<1>5. TypeOK'
  BY <1>1, <1>3, <1>4 DEF SessionInv, TypeOK
<1>6. ServerInv' /\ ShownIsNotOlder' /\ LogoutMasks'
  BY <1>1 DEF SessionInv, ServerInv, ShownIsNotOlder, LogoutMasks
<1> QED
  BY <1>2, <1>3, <1>5, <1>6 DEF SessionInv, ReadInv

LEMMA ReadProjectKeeps ==
  ASSUME SessionInv, ReadProject
  PROVE  SessionInv'
<1>1. project \in Projects /\ session \in Sessions /\ session # None
  BY DEF ReadProject, SessionInv, TypeOK
<1>2. session.user \in Users
  BY <1>1 DEF Sessions
<1>3. PICK new \in ProjectReads : /\ preads' = preads \cup {new} /\ new.ans = "waiting"
                                  /\ new.user = session.user /\ new.project = project
  <2> DEFINE begun == [gen |-> "current", ans |-> "waiting", got |-> None,
                       user |-> session.user, project |-> project]
  <2>1. /\ begun \in ProjectReads /\ begun.ans = "waiting"
        /\ begun.user = session.user /\ begun.project = project
    BY <1>1, <1>2 DEF ProjectReads
  <2>2. preads' = preads \cup {begun}
    BY DEF ReadProject
  <2> HIDE DEF begun
  <2> QED
    BY <2>1, <2>2
<1>4. ProjectRead(new)
  BY <1>1, <1>3 DEF ProjectRead
<1> QED
  BY <1>3, <1>4, ReadChangesKeeps DEF ReadProject

LEMMA AnswerProjectKeeps ==
  ASSUME SessionInv, NEW q \in preads, AnswerProject(q)
  PROVE  SessionInv'
<1>1. q \in ProjectReads /\ ProjectRead(q)
  BY DEF SessionInv, TypeOK, ReadInv
<1>2. server.user \in Users /\ version[server.user] \in Versions
  BY DEF SessionInv, TypeOK
<1>3. PICK ans \in {"ok", "not_found", "unauthenticated"} :
        preads' = (preads \ {q}) \cup
          {[q EXCEPT !.ans = ans,
                     !.got = IF ans = "ok"
                             THEN [user |-> server.user, ver |-> version[server.user],
                                   project |-> q.project]
                             ELSE None]}
  BY DEF AnswerProject
<1> DEFINE got == IF ans = "ok" THEN [user |-> server.user, ver |-> version[server.user],
                                      project |-> q.project]
                  ELSE None
<1>4. /\ got \in Pages \cup {None}
      /\ ans = "ok" => got \in Pages /\ got.project = q.project
                       /\ got.user = server.user /\ got.ver = version[server.user]
  BY <1>1, <1>2 DEF Pages, ProjectReads
<1>5. preads' = (preads \ {q}) \cup {[q EXCEPT !.ans = ans, !.got = got]}
  BY <1>3
<1> HIDE DEF got
<1>6. PICK new \in ProjectReads : /\ preads' = (preads \ {q}) \cup {new}
                                  /\ new.ans = ans /\ new.got = got /\ new.gen = q.gen
                                  /\ new.user = q.user /\ new.project = q.project
  <2> DEFINE answered == [q EXCEPT !.ans = ans, !.got = got]
  <2>1. /\ answered \in ProjectReads
        /\ answered.ans = ans /\ answered.got = got /\ answered.gen = q.gen
        /\ answered.user = q.user /\ answered.project = q.project
    BY <1>1, <1>4 DEF ProjectReads
  <2>2. preads' = (preads \ {q}) \cup {answered}
    BY <1>5
  <2> HIDE DEF answered
  <2> QED
    BY <2>1, <2>2
<1>7. session # None /\ session.user = server.user => version[server.user] >= session.ver
  BY <1>2 DEF SessionInv, ServerInv, TypeOK, Sessions, Versions
<1>8. ProjectRead(new)
  BY <1>1, <1>4, <1>6, <1>7 DEF ProjectRead, Fresh
<1>9. UNCHANGED tab /\ UNCHANGED <<sreads, posts, server, version>>
  BY DEF AnswerProject
<1> QED
  BY <1>6, <1>8, <1>9, ReadChangesKeeps

LEMMA CommitProjectKeeps ==
  ASSUME SessionInv, NEW q \in preads, CommitProject(q)
  PROVE  SessionInv'
<1>1. /\ ProjectRead(q) /\ UNCHANGED <<posts, server, version>>
      /\ posts' \in SUBSET [token : 1..MaxSessions,
                            ans : {"waiting", "revoked", "unauthenticated", "failed"}]
      /\ 0 \in 0..MaxSessions
  BY BrowserSessionAssumption DEF CommitProject, SessionInv, TypeOK, ReadInv
<1>2. CASE ~Current(q)
  <2>1. preads' = preads \ {q} /\ UNCHANGED tab /\ UNCHANGED sreads
    BY <1>2 DEF CommitProject
  <2> QED
    BY <1>1, <2>1, EndsKeep
<1>3. CASE /\ Current(q) /\ q.ans = "ok" /\ page' = q.got /\ preads' = preads \ {q}
           /\ UNCHANGED <<status, session, project, token, sreads>>
  <2>1. /\ session # None /\ q.project = project /\ q.got \in Pages
        /\ q.got.project = project
        /\ q.got.user = session.user => q.got.ver >= session.ver
    BY <1>1, <1>3 DEF ProjectRead, Current
  <2>2. preads' \in SUBSET ProjectReads /\ \A r \in preads' : ProjectRead(r)'
    BY <1>3, ProjectsEnd
  <2>3. /\ sreads' \in SUBSET SessionReads
        /\ OneFresh' /\ \A r \in sreads' : SessionRead(r)'
    BY <1>1, <1>3, SessionsEnd
  <2>4. TypeOK'
    BY <1>1, <1>3, <2>1, <2>2, <2>3 DEF SessionInv, TypeOK
  <2>5. ServerInv' /\ ShownIsNotOlder' /\ LogoutMasks'
    BY <1>1, <1>3, <2>1 DEF SessionInv, ServerInv, ShownIsNotOlder, LogoutMasks
  <2> QED
    BY <2>2, <2>3, <2>4, <2>5 DEF SessionInv, ReadInv
<1>4. CASE /\ project' = None /\ page' = None /\ preads' = Passed(preads \ {q})
           /\ UNCHANGED <<status, session, token, sreads>>
  BY <1>1, <1>4, ProjectKeeps
<1>5. CASE NewIdentity("signed-out", None, None, sreads) /\ token' = 0
  BY <1>1, <1>5, NewIdentityKeeps
<1> QED
  BY <1>2, <1>3, <1>4, <1>5 DEF CommitProject

\* The views are masked before the request leaves.
LEMMA BeginLogoutKeeps ==
  ASSUME SessionInv, BeginLogout
  PROVE  SessionInv'
<1>1. session \in Sessions
  BY DEF BeginLogout, SessionInv, TypeOK
<1>2. session.sid \in 1..MaxSessions
  BY <1>1 DEF Sessions
<1>3. /\ token' = session.sid /\ NewIdentity("logout-pending", None, None, sreads)
      /\ UNCHANGED <<server, version>>
      /\ posts' = posts \cup {[token |-> token', ans |-> "waiting"]}
  BY DEF BeginLogout, Post
<1>4. posts' \in SUBSET [token : 1..MaxSessions,
                         ans : {"waiting", "revoked", "unauthenticated", "failed"}]
  BY <1>2, <1>3 DEF SessionInv, TypeOK
<1>5. token' \in 0..MaxSessions
  BY <1>2, <1>3, BrowserSessionAssumption
<1> QED
  BY <1>3, <1>4, <1>5, NewIdentityKeeps

\* A logout that is retried, or ends, leaves what is shown as it is.
LEMMA LogoutKeeps ==
  ASSUME SessionInv, UNCHANGED <<session, project, page, sreads, preads, version>>,
         status' \in {"checking", "authenticated", "signed-out", "logout-pending",
                      "logout-failed"},
         token' \in 0..MaxSessions, UNCHANGED server,
         token' # 0 => token # 0 /\ status' \in {"logout-pending", "logout-failed"},
         posts' \in SUBSET [token : 1..MaxSessions,
                            ans : {"waiting", "revoked", "unauthenticated", "failed"}]
  PROVE  SessionInv'
<1>1. preads' \in SUBSET ProjectReads /\ \A r \in preads' : ProjectRead(r)'
  BY ProjectsEnd
<1>2. /\ sreads' \in SUBSET SessionReads
      /\ OneFresh' /\ \A r \in sreads' : SessionRead(r)'
  BY SessionsEnd
<1>3. TypeOK'
  BY <1>1, <1>2 DEF SessionInv, TypeOK
<1>4. ServerInv' /\ ShownIsNotOlder' /\ LogoutMasks'
  BY DEF SessionInv, ServerInv, ShownIsNotOlder, LogoutMasks
<1> QED
  BY <1>1, <1>2, <1>3, <1>4 DEF SessionInv, ReadInv

LEMMA RetryLogoutKeeps ==
  ASSUME SessionInv, RetryLogout
  PROVE  SessionInv'
<1>1. /\ UNCHANGED <<session, project, page, sreads, preads, version, server, token>>
      /\ status' = "logout-pending" /\ token # 0 /\ token \in 0..MaxSessions
      /\ posts' = posts \cup {[token |-> token, ans |-> "waiting"]}
  BY DEF RetryLogout, Post, reads, SessionInv, TypeOK
<1>2. posts' \in SUBSET [token : 1..MaxSessions,
                         ans : {"waiting", "revoked", "unauthenticated", "failed"}]
  BY <1>1 DEF SessionInv, TypeOK
<1> QED
  BY <1>1, <1>2, LogoutKeeps

LEMMA EndLogoutKeeps ==
  ASSUME SessionInv, NEW m \in posts, EndLogout(m)
  PROVE  SessionInv'
<1>1. /\ UNCHANGED <<session, project, page, sreads, preads, version, server>>
      /\ posts' = posts \ {m}
  BY DEF EndLogout, reads
<1>2. posts' \in SUBSET [token : 1..MaxSessions,
                         ans : {"waiting", "revoked", "unauthenticated", "failed"}]
  BY <1>1 DEF SessionInv, TypeOK
<1>3. \/ status' = "signed-out" /\ token' = 0
      \/ /\ token' = token
         /\ status' = IF status = "logout-pending" THEN "logout-failed" ELSE status
  BY DEF EndLogout
<1>4. status' \in {"checking", "authenticated", "signed-out", "logout-pending",
                   "logout-failed"}
  BY <1>3 DEF SessionInv, TypeOK
<1>5. token' \in 0..MaxSessions
  BY <1>3, BrowserSessionAssumption DEF SessionInv, TypeOK
<1>6. token' # 0 => token # 0 /\ status' \in {"logout-pending", "logout-failed"}
  BY <1>3 DEF SessionInv, LogoutMasks
<1> QED
  BY <1>1, <1>2, <1>4, <1>5, <1>6, LogoutKeeps

\* The server answers a logout, ends the session or begins one, or changes what a
\* user may see: nothing of the tab.
LEMMA ServerKeeps ==
  ASSUME SessionInv, UNCHANGED tab, UNCHANGED reads,
         server' \in [sid : 0..MaxSessions, user : Users, alive : BOOLEAN],
         server'.alive => server'.sid # 0,
         version' \in [Users -> Versions], \A u \in Users : version[u] <= version'[u],
         posts' \in SUBSET [token : 1..MaxSessions,
                            ans : {"waiting", "revoked", "unauthenticated", "failed"}]
  PROVE  SessionInv'
<1>1. UNCHANGED <<status, session, project, page, token, sreads, preads>>
  BY DEF tab, reads
<1>2. TypeOK'
  BY <1>1 DEF SessionInv, TypeOK
<1>3. \A u \in Users : version[u] \in Nat /\ version'[u] \in Nat /\ version[u] <= version'[u]
  BY DEF SessionInv, TypeOK, Versions
<1>4. ASSUME NEW q \in sreads'
      PROVE  SessionRead(q)'
  <2>1. SessionRead(q)
    BY <1>1 DEF SessionInv, ReadInv
  <2>2. ASSUME q.got \in Sessions
        PROVE  q.got.ver \in Nat /\ q.got.user \in Users
    BY <2>2 DEF Sessions, Versions
  <2>3. ASSUME q.ans = "ok"
        PROVE  q.got.ver <= version'[q.got.user]
    BY <1>3, <2>1, <2>2, <2>3 DEF SessionRead
  <2> QED
    BY <1>1, <2>1, <2>3 DEF SessionRead, Fresh
<1>5. OneFresh' /\ \A q \in preads' : ProjectRead(q)'
  BY <1>1 DEF SessionInv, ReadInv, OneFresh, ProjectRead, Fresh
<1>6. ServerInv'
  <2>1. ASSUME session # None
        PROVE  /\ session.ver \in Nat /\ session.user \in Users
               /\ session.ver <= version[session.user]
    BY <2>1 DEF SessionInv, TypeOK, ServerInv, Sessions, Versions
  <2> QED
    BY <1>1, <1>3, <2>1 DEF ServerInv
<1>7. ShownIsNotOlder' /\ LogoutMasks'
  BY <1>1 DEF SessionInv, ShownIsNotOlder, LogoutMasks
<1> QED
  BY <1>2, <1>4, <1>5, <1>6, <1>7 DEF SessionInv, ReadInv

\* What ServerKeeps asks for, where it does not change.
LEMMA ServerNow ==
  ASSUME SessionInv
  PROVE  /\ server \in [sid : 0..MaxSessions, user : Users, alive : BOOLEAN]
         /\ server.alive => server.sid # 0
         /\ version \in [Users -> Versions] /\ \A u \in Users : version[u] <= version[u]
         /\ posts \in SUBSET [token : 1..MaxSessions,
                              ans : {"waiting", "revoked", "unauthenticated", "failed"}]
<1>1. version \in [Users -> Versions]
  BY DEF SessionInv, TypeOK
<1>2. \A u \in Users : version[u] <= version[u]
  BY <1>1 DEF Versions
<1> QED
  BY <1>1, <1>2 DEF SessionInv, TypeOK, ServerInv

LEMMA SessionOverTyped ==
  ASSUME NEW s \in [sid : 0..MaxSessions, user : Users, alive : BOOLEAN]
  PROVE  /\ [s EXCEPT !.alive = FALSE] \in [sid : 0..MaxSessions, user : Users, alive : BOOLEAN]
         /\ ~[s EXCEPT !.alive = FALSE].alive
  OBVIOUS

LEMMA AnswerLogoutKeeps ==
  ASSUME SessionInv, NEW m \in posts, AnswerLogout(m) \/ LogoutLost(m)
  PROVE  SessionInv'
<1>1. m \in [token : 1..MaxSessions, ans : {"waiting", "revoked", "unauthenticated", "failed"}]
  BY DEF SessionInv, TypeOK
<1>2. PICK ans \in {"failed", "revoked", "unauthenticated"} :
        posts' = (posts \ {m}) \cup {[m EXCEPT !.ans = ans]}
  BY DEF AnswerLogout, LogoutLost
<1>3. [m EXCEPT !.ans = ans] \in [token : 1..MaxSessions,
                                  ans : {"waiting", "revoked", "unauthenticated", "failed"}]
  BY <1>1
<1>4. posts' \in SUBSET [token : 1..MaxSessions,
                         ans : {"waiting", "revoked", "unauthenticated", "failed"}]
  BY <1>2, <1>3, ServerNow
<1>5. /\ UNCHANGED tab /\ UNCHANGED reads /\ UNCHANGED version
      /\ server' = [server EXCEPT !.alive = FALSE] \/ server' = server
  BY DEF AnswerLogout, LogoutLost
<1>6. server' \in [sid : 0..MaxSessions, user : Users, alive : BOOLEAN]
  BY <1>5, ServerNow, SessionOverTyped
<1>7. server'.alive => server'.sid # 0
  BY <1>5, ServerNow, SessionOverTyped
<1> QED
  BY <1>4, <1>5, <1>6, <1>7, ServerNow, ServerKeeps

LEMMA SessionOverKeeps ==
  ASSUME SessionInv, SessionOver
  PROVE  SessionInv'
<1>1. server' = [server EXCEPT !.alive = FALSE] /\ UNCHANGED <<posts, version>>
      /\ UNCHANGED tab /\ UNCHANGED reads
  BY DEF SessionOver
<1>2. /\ server' \in [sid : 0..MaxSessions, user : Users, alive : BOOLEAN]
      /\ server'.alive => server'.sid # 0
  BY <1>1, ServerNow, SessionOverTyped
<1> QED
  BY <1>1, <1>2, ServerNow, ServerKeeps

LEMMA LoginKeeps ==
  ASSUME SessionInv, NEW u \in Users, Login(u)
  PROVE  SessionInv'
<1>1. /\ server' = [sid |-> server.sid + 1, user |-> u, alive |-> TRUE]
      /\ server.sid < MaxSessions /\ UNCHANGED <<posts, version>>
      /\ UNCHANGED tab /\ UNCHANGED reads
  BY DEF Login
<1>2. server.sid \in 0..MaxSessions
  BY ServerNow
<1>3. server.sid + 1 \in 0..MaxSessions /\ server.sid + 1 # 0
  BY <1>1, <1>2, BrowserSessionAssumption
<1>4. /\ server' \in [sid : 0..MaxSessions, user : Users, alive : BOOLEAN]
      /\ server'.alive => server'.sid # 0
  BY <1>1, <1>3
<1> QED
  BY <1>1, <1>4, ServerNow, ServerKeeps

LEMMA ChangePermissionsKeeps ==
  ASSUME SessionInv, NEW u \in Users, ChangePermissions(u)
  PROVE  SessionInv'
<1>1. /\ version[u] < MaxVersion /\ version' = [version EXCEPT ![u] = @ + 1]
      /\ UNCHANGED tab /\ UNCHANGED reads /\ UNCHANGED <<posts, server>>
  BY DEF ChangePermissions
<1>2. \A w \in Users : version[w] \in 1..MaxVersion
  BY ServerNow DEF Versions
<1>3. version' \in [Users -> Versions] /\ \A w \in Users : version[w] <= version'[w]
  BY <1>1, <1>2, ServerNow, BrowserSessionAssumption DEF Versions
<1> QED
  BY <1>1, <1>3, ServerNow, ServerKeeps

LEMMA ReloadKeeps ==
  ASSUME SessionInv, Reload
  PROVE  SessionInv'
<1>1. TypeOK'
  BY BrowserSessionAssumption DEF Reload, SessionInv, TypeOK
<1>2. ReadInv'
  BY DEF Reload, ReadInv, OneFresh
<1>3. ServerInv' /\ ShownIsNotOlder' /\ LogoutMasks'
  BY DEF Reload, SessionInv, ServerInv, ShownIsNotOlder, LogoutMasks
<1> QED
  BY <1>1, <1>2, <1>3 DEF SessionInv

-----------------------------------------------------------------------------
(* The theorems *)

LEMMA SessionInit == Init => SessionInv
<1> SUFFICES ASSUME Init PROVE SessionInv
  OBVIOUS
<1>1. TypeOK
  <2>1. version \in [Users -> Versions]
    BY BrowserSessionAssumption DEF Init, Versions
  <2>2. server \in [sid : 0..MaxSessions, user : Users, alive : BOOLEAN]
    <3>1. {0} \subseteq 0..MaxSessions /\ {FALSE} \subseteq BOOLEAN
      BY BrowserSessionAssumption
    <3>2. server \in [sid : {0}, user : Users, alive : {FALSE}]
      BY DEF Init
    <3> QED
      BY <3>1, <3>2, Zenon
  <2> QED
    BY <2>1, <2>2, BrowserSessionAssumption DEF Init, TypeOK
<1>2. ReadInv /\ ShownIsNotOlder /\ LogoutMasks
  BY DEF Init, ReadInv, OneFresh, ShownIsNotOlder, LogoutMasks
<1>3. ServerInv
  BY DEF Init, ServerInv
<1> QED
  BY <1>1, <1>2, <1>3 DEF SessionInv

LEMMA SessionNext == SessionInv /\ [Next]_vars => SessionInv'
<1> SUFFICES ASSUME SessionInv, [Next]_vars PROVE SessionInv'
  OBVIOUS
<1>1. CASE ReadSession \/ Navigate \/ ReadProject \/ BeginLogout \/ RetryLogout \/ Reload \/ SessionOver
  BY <1>1, ReadSessionKeeps, NavigateKeeps, ReadProjectKeeps, BeginLogoutKeeps,
     RetryLogoutKeeps, ReloadKeeps, SessionOverKeeps
<1>2. ASSUME NEW q \in sreads,
             AnswerSession(q) \/ CommitSession(q) \/ SessionRefused(q) \/ SessionFails(q)
      PROVE  SessionInv'
  BY <1>2, AnswerSessionKeeps, CommitSessionKeeps, SessionRefusedKeeps, ReadFailsKeeps
<1>3. ASSUME NEW u \in Users, Login(u) \/ ChangePermissions(u)
      PROVE  SessionInv'
  BY <1>3, LoginKeeps, ChangePermissionsKeeps
<1>4. ASSUME NEW q \in preads, AnswerProject(q) \/ CommitProject(q) \/ ProjectFails(q)
      PROVE  SessionInv'
  BY <1>4, AnswerProjectKeeps, CommitProjectKeeps, ReadFailsKeeps
<1>5. ASSUME NEW m \in posts, AnswerLogout(m) \/ LogoutLost(m) \/ EndLogout(m)
      PROVE  SessionInv'
  BY <1>5, AnswerLogoutKeeps, EndLogoutKeeps
<1>6. CASE UNCHANGED vars
  <2>1. UNCHANGED tab /\ UNCHANGED <<sreads, preads, posts, server, version>>
    BY <1>6 DEF vars, reads
  <2> QED
    BY <2>1, ServerNow, EndsKeep
<1> QED
  BY <1>1, <1>2, <1>3, <1>4, <1>5, <1>6 DEF Next

LEMMA SessionAlways == Spec => []SessionInv
  BY SessionInit, SessionNext, PTL DEF Spec

\* The variables keep their types.
THEOREM SessionTypeCorrect == Spec => []TypeOK
<1>1. SessionInv => TypeOK
  BY DEF SessionInv
<1> QED
  BY <1>1, SessionAlways, PTL

\* The page is of the project selected and never made with older permissions of its
\* user than those the session shows.
THEOREM NothingOlderIsShown == Spec => []ShownIsNotOlder
<1>1. SessionInv => ShownIsNotOlder
  BY DEF SessionInv
<1> QED
  BY <1>1, SessionAlways, PTL

\* The views stay masked from the click on logout until its end is known.
THEOREM ViewsStayMasked == Spec => []LogoutMasks
<1>1. SessionInv => LogoutMasks
  BY DEF SessionInv
<1> QED
  BY <1>1, SessionAlways, PTL

\* The permissions a user's session shows never go back.
THEOREM PermissionsOnlyAdvance == Spec => PermissionsNeverGoBack
<1> DEFINE Forward == /\ session # None /\ session' # None
                      /\ session'.user = session.user
                      => session'.ver >= session.ver
<1>1. SessionInv /\ [Next]_vars => Forward
  <2> SUFFICES ASSUME SessionInv, [Next]_vars, session # None, session' # None,
                      session'.user = session.user
               PROVE  session'.ver >= session.ver
    OBVIOUS
  <2>1. session.ver \in Nat
    BY DEF SessionInv, TypeOK, Sessions, Versions
  <2>2. CASE session' = session
    BY <2>1, <2>2
  <2>3. ASSUME NEW q \in sreads, CommitSession(q)
        PROVE  session'.ver >= session.ver
    BY <2>3, CommitSessionKeeps
  <2>4. ASSUME NEW q \in sreads, SessionRefused(q)
        PROVE  session' = session \/ session' = None
    BY <2>4 DEF SessionRefused, NewIdentity, tab
  <2>5. ASSUME NEW q \in preads, CommitProject(q)
        PROVE  session' = session \/ session' = None
    BY <2>5 DEF CommitProject, NewIdentity, tab
  <2>6. ASSUME BeginLogout \/ Reload
        PROVE  session' = None
    BY <2>6 DEF BeginLogout, Reload, NewIdentity
  <2> QED
    BY <2>2, <2>3, <2>4, <2>5, <2>6
    DEF Next, ReadSession, Navigate, ReadProject, RetryLogout, SessionOver, AnswerSession,
        SessionFails, Login, ChangePermissions, AnswerProject, ProjectFails, AnswerLogout,
        LogoutLost, EndLogout, tab, vars
<1>2. SessionInv /\ [Next]_vars => [Forward]_vars
  BY <1>1
<1> QED
  BY <1>2, SessionAlways, PTL DEF Spec, PermissionsNeverGoBack
=============================================================================
