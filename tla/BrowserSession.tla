--------------------------- MODULE BrowserSession ---------------------------
(***************************************************************************)
(* Who is signed in, as one browser tab knows it (state.ts, queries.ts and *)
(* the loaders of router.tsx): reads of the session and of the project     *)
(* shown, each answered at one time and committed at a later one, the      *)
(* choice of a project, the logout and its retries.  Other tabs share the  *)
(* cookie, and an administrator changes permissions.                       *)
(*                                                                        *)
(* The code counts generations, captures them when a read begins and       *)
(* compares them when it ends.  A generation never comes back, so all a    *)
(* comparison can tell is whether it has passed: each read carries that    *)
(* answer as `gen`.  Of the query cache, whose keys contain both         *)
(* generations, only the entry of the project shown can still be hit.      *)
(* Lists, scopes and tasks are read like the project.                      *)
(***************************************************************************)
EXTENDS Naturals, FiniteSets

CONSTANTS
  Users, Projects, None,
  MaxVersion,    \* bound: permissions_version of a user
  MaxSessions,   \* bound: how many sessions begin
  MaxReads       \* bound: reads of a kind under way at a time

VARIABLES
  status,    \* of the identity snapshot
  session,   \* the session accepted last, or None
  project,   \* activeProject, or None
  page,      \* what the cache holds under the key of the project shown
  token,     \* logoutCsrfToken: the session it belongs to, 0 for none
  sreads,    \* reads of the session
  preads,    \* reads of a project
  posts,     \* logout requests
  server,    \* the session of the browser's cookie
  version    \* users.permissions_version

tab == <<status, session, project, page, token>>
reads == <<sreads, preads>>
vars == <<tab, reads, posts, server, version>>

Versions == 1..MaxVersion
Sessions == [sid : 1..MaxSessions, user : Users, ver : Versions]
Pages == [user : Users, ver : Versions, project : Projects]

ASSUME BrowserSessionAssumption ==
  /\ None \notin Projects \cup Sessions \cup Pages
  /\ MaxVersion \in Nat \ {0} /\ MaxSessions \in Nat /\ MaxReads \in Nat

SessionReads == [gen : {"current", "passed"}, ans : {"waiting", "ok", "unauthenticated"},
                 got : Sessions \cup {None}]
ProjectReads == [gen : {"current", "passed"},
                 ans : {"waiting", "ok", "unauthenticated", "not_found"},
                 got : Pages \cup {None}, user : Users, project : Projects]

TypeOK ==
  /\ status \in {"checking", "authenticated", "signed-out", "logout-pending",
                 "logout-failed"}
  /\ session \in Sessions \cup {None}
  /\ project \in Projects \cup {None}
  /\ page \in Pages \cup {None}
  /\ token \in 0..MaxSessions
  /\ sreads \in SUBSET SessionReads
  /\ preads \in SUBSET ProjectReads
  /\ posts \in SUBSET [token : 1..MaxSessions,
                       ans : {"waiting", "revoked", "unauthenticated", "failed"}]
  /\ server \in [sid : 0..MaxSessions, user : Users, alive : BOOLEAN]
  /\ version \in [Users -> Versions]

Init ==
  /\ status = "checking" /\ session = None /\ project = None /\ page = None
  /\ token = 0 /\ sreads = {} /\ preads = {} /\ posts = {}
  /\ server \in [sid : {0}, user : Users, alive : {FALSE}]
  /\ version = [u \in Users |-> 1]

-----------------------------------------------------------------------------
(* Generations and keys *)

Fresh(q) == q.gen = "current"

\* A generation passes: none of these reads is of the current one any more.
Passed(rs) == {[q EXCEPT !.gen = "passed"] : q \in rs}

\* The identity becomes st and s, both generations pass, the caches are cleared.
\* rs are the reads of the session that are left.
NewIdentity(st, s, p, rs) ==
  /\ status' = st /\ session' = s /\ project' = p
  /\ page' = None
  /\ sreads' = Passed(rs) /\ preads' = Passed(preads)

\* selectProject: the page shown and the reads for it belong to one project.
Select(p) ==
  /\ project' = p
  /\ IF p = project THEN UNCHANGED <<page, preads>>
     ELSE page' = None /\ preads' = Passed(preads)

-----------------------------------------------------------------------------
(* Reads of the session: a loader, a focus event, an explicit refresh *)

\* Reads under one key are one read.
ReadSession ==
  /\ Cardinality(sreads) < MaxReads /\ ~\E q \in sreads : Fresh(q)
  /\ sreads' = sreads \cup {[gen |-> "current", ans |-> "waiting", got |-> None]}
  /\ UNCHANGED <<tab, preads, posts, server, version>>

AnswerSession(q) ==
  /\ q.ans = "waiting"
  /\ sreads' = (sreads \ {q}) \cup
       {IF server.alive
        THEN [q EXCEPT !.ans = "ok", !.got = [sid |-> server.sid, user |-> server.user,
                                              ver |-> version[server.user]]]
        ELSE [q EXCEPT !.ans = "unauthenticated"]}
  /\ UNCHANGED <<tab, preads, posts, server, version>>

\* Fault: an answer is accepted whenever it comes.
AcceptsLate(q) == status \notin {"logout-pending", "logout-failed"}

\* Fault: a logout does not keep answers out.
AcceptsMasked(q) == Fresh(q)

\* acceptSession: is an answer for this generation accepted?
Accepts(q) == Fresh(q) /\ status \notin {"logout-pending", "logout-failed"}

\* Does an accepted session leave what has been read as it is?
Unchanged(s) == session # None => session.user = s.user /\ session.ver = s.ver

\* The first session and an unchanged one keep the generations; new permissions
\* keep the project, another user does not.
CommitSession(q) ==
  /\ q.ans = "ok"
  /\ IF ~Accepts(q)
     THEN sreads' = sreads \ {q} /\ UNCHANGED <<tab, preads>>
     ELSE /\ UNCHANGED token
          /\ IF Unchanged(q.got)
             THEN /\ status' = "authenticated" /\ session' = q.got
                  /\ sreads' = sreads \ {q}
                  /\ UNCHANGED <<project, page, preads>>
             ELSE NewIdentity("authenticated", q.got,
                              IF session.user = q.got.user THEN project ELSE None,
                              sreads \ {q})
  /\ UNCHANGED <<posts, server, version>>

\* 401, to a read of the current generation: markUnauthenticated.
SessionRefused(q) ==
  /\ q.ans = "unauthenticated"
  /\ IF Fresh(q)
     THEN NewIdentity("signed-out", None, None, sreads \ {q}) /\ token' = 0
     ELSE sreads' = sreads \ {q} /\ UNCHANGED <<tab, preads>>
  /\ UNCHANGED <<posts, server, version>>

\* A network error, 503, or a cancelled read.
SessionFails(q) ==
  /\ sreads' = sreads \ {q}
  /\ UNCHANGED <<tab, preads, posts, server, version>>

-----------------------------------------------------------------------------
(* The project shown *)

\* A route or a link is followed; its loader selects before it reads the session.
Navigate ==
  /\ \E p \in Projects \cup {None} : Select(p)
  /\ UNCHANGED <<status, session, token, sreads, posts, server, version>>

\* A page or a loader reads the project for the session it has just been given.
ReadProject ==
  /\ project # None /\ session # None
  /\ Cardinality(preads) < MaxReads /\ ~\E q \in preads : Fresh(q)
  /\ preads' = preads \cup {[gen |-> "current", ans |-> "waiting", got |-> None,
                             user |-> session.user, project |-> project]}
  /\ UNCHANGED <<tab, sreads, posts, server, version>>

\* The answer is for the user of the cookie, who may have lost the project.
AnswerProject(q) ==
  /\ q.ans = "waiting"
  /\ \E ans \in IF server.alive THEN {"ok", "not_found"} ELSE {"unauthenticated"} :
       preads' = (preads \ {q}) \cup
         {[q EXCEPT !.ans = ans,
                    !.got = IF ans = "ok"
                            THEN [user |-> server.user, ver |-> version[server.user],
                                  project |-> q.project]
                            ELSE None]}
  /\ UNCHANGED <<tab, sreads, posts, server, version>>

\* Fault: only the user of the reader is compared.
OfTheUser(q) == session # None /\ session.user = q.user

\* The checks after the await, of errors, too.
Current(q) == Fresh(q) /\ session # None /\ session.user = q.user

\* An answer that is current goes to the cache, a 404 closes the project, a 401
\* ends the session; one that is not has no effect.
CommitProject(q) ==
  /\ q.ans # "waiting"
  /\ IF ~Current(q)
     THEN preads' = preads \ {q} /\ UNCHANGED <<tab, sreads>>
     ELSE \/ /\ q.ans = "ok"
             /\ page' = q.got /\ preads' = preads \ {q}
             /\ UNCHANGED <<status, session, project, token, sreads>>
          \/ /\ q.ans = "not_found"
             /\ project' = None /\ page' = None /\ preads' = Passed(preads \ {q})
             /\ UNCHANGED <<status, session, token, sreads>>
          \/ /\ q.ans = "unauthenticated"
             /\ NewIdentity("signed-out", None, None, sreads) /\ token' = 0
  /\ UNCHANGED <<posts, server, version>>

ProjectFails(q) ==
  /\ preads' = preads \ {q}
  /\ UNCHANGED <<tab, sreads, posts, server, version>>

-----------------------------------------------------------------------------
(* Logout *)

\* Fault: the request carries the token that was there before.
PostBefore == posts' = posts \cup {[token |-> token, ans |-> "waiting"]}

\* postLogout, with the token of the session that is to end.
Post == posts' = posts \cup {[token |-> token', ans |-> "waiting"]}

\* The views are masked at once, before the request leaves.
BeginLogout ==
  /\ status \notin {"logout-pending", "logout-failed"} /\ session # None
  /\ NewIdentity("logout-pending", None, None, sreads)
  /\ token' = session.sid
  /\ Post
  /\ UNCHANGED <<server, version>>

\* The explicit retry of a logout that was not confirmed.
RetryLogout ==
  /\ status = "logout-failed" /\ token # 0
  /\ status' = "logout-pending"
  /\ UNCHANGED token /\ Post
  /\ UNCHANGED <<session, project, page, reads, server, version>>

\* The server revokes the session of the cookie if the token is of that session.
AnswerLogout(m) ==
  /\ m.ans = "waiting"
  /\ LET ours == server.alive /\ server.sid = m.token
     IN /\ server' = IF ours THEN [server EXCEPT !.alive = FALSE] ELSE server
        /\ \E ans \in {"failed", IF ours THEN "revoked"
                                 ELSE IF server.alive THEN "failed"
                                 ELSE "unauthenticated"} :
             posts' = (posts \ {m}) \cup {[m EXCEPT !.ans = ans]}
  /\ UNCHANGED <<tab, reads, version>>

\* It does not reach the server.
LogoutLost(m) ==
  /\ m.ans = "waiting"
  /\ posts' = (posts \ {m}) \cup {[m EXCEPT !.ans = "failed"]}
  /\ UNCHANGED <<tab, reads, server, version>>

\* Is the session known to be over?
Confirmed(m) == m.ans \in {"revoked", "unauthenticated"}

\* finishLogout or failLogout.
EndLogout(m) ==
  /\ m.ans # "waiting"
  /\ posts' = posts \ {m}
  /\ IF Confirmed(m)
     THEN status' = "signed-out" /\ token' = 0
     ELSE /\ status' = IF status = "logout-pending" THEN "logout-failed" ELSE status
          /\ UNCHANGED token
  /\ UNCHANGED <<session, project, page, reads, server, version>>

-----------------------------------------------------------------------------
(* The rest of the browser, and the server *)

\* The page is loaded anew: also how a login in this tab ends.
Reload ==
  /\ status' = "checking" /\ session' = None /\ project' = None /\ page' = None
  /\ token' = 0 /\ sreads' = {} /\ preads' = {} /\ posts' = {}
  /\ UNCHANGED <<server, version>>

\* A login, in this tab before it is loaded anew or in another one.
Login(u) ==
  /\ server.sid < MaxSessions
  /\ server' = [sid |-> server.sid + 1, user |-> u, alive |-> TRUE]
  /\ UNCHANGED <<tab, reads, posts, version>>

\* A session expires, is revoked, or is logged out in another tab.
SessionOver ==
  /\ server.alive
  /\ server' = [server EXCEPT !.alive = FALSE]
  /\ UNCHANGED <<tab, reads, posts, version>>

\* A membership of u is granted or withdrawn.
ChangePermissions(u) ==
  /\ version[u] < MaxVersion
  /\ version' = [version EXCEPT ![u] = @ + 1]
  /\ UNCHANGED <<tab, reads, posts, server>>

-----------------------------------------------------------------------------
Next ==
  \/ ReadSession \/ Navigate \/ ReadProject \/ BeginLogout \/ RetryLogout \/ Reload \/ SessionOver
  \/ \E q \in sreads : \/ AnswerSession(q) \/ CommitSession(q) \/ SessionRefused(q)
                       \/ SessionFails(q)
  \/ \E u \in Users : Login(u) \/ ChangePermissions(u)
  \/ \E q \in preads : AnswerProject(q) \/ CommitProject(q) \/ ProjectFails(q)
  \/ \E m \in posts : AnswerLogout(m) \/ LogoutLost(m) \/ EndLogout(m)

Spec == Init /\ [][Next]_vars

-----------------------------------------------------------------------------
(* Properties *)

\* "Checked against the generations before it is returned, so that late results
\* of what was left do not come back" (phase-1a/spec.md): the page shown is of the
\* project selected, and never made with older permissions of its user than those
\* the session shows.
ShownIsNotOlder ==
  page # None =>
    /\ page.project = project /\ session # None
    /\ page.user = session.user => page.ver >= session.ver

\* From the click on logout until its end is known, the views stay masked: no
\* late answer, to a read of the session or of a project, brings anything back.
LogoutMasks ==
  token # 0 => /\ status \in {"logout-pending", "logout-failed"}
               /\ session = None /\ page = None

\* The permissions a user's session shows never go back to earlier ones, however
\* answers overtake each other, unless the tab was signed out in between.
PermissionsNeverGoBack ==
  [][/\ session # None /\ session' # None
     /\ session'.user = session.user
     => session'.ver >= session.ver]_vars

\* "Only when the server has confirmed that the session is revoked, or invalid"
\* (phase-1a/spec.md): logout is shown as complete only if the session it was for
\* was over at the server, or replaced.
CompleteIsConfirmed ==
  [][/\ status \in {"logout-pending", "logout-failed"}
     /\ status' = "signed-out"
     => ~server.alive \/ server.sid # token]_vars
=============================================================================
