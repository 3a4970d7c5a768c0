---------------------------- MODULE TaskCreation ----------------------------
(***************************************************************************)
(* A draft of a user and the tasks that are created from it: the editor of *)
(* one tab (CreationPage.tsx), and the draft, the previews and the tasks   *)
(* at the server (draft_store.py, task_creation_store.py), where other     *)
(* tabs of the user save the same draft.                                   *)
(*                                                                        *)
(* Handlers run without interruption between awaits, and several may be    *)
(* under way.  A request whose handler has failed or is gone may still be  *)
(* carried out, and the editor may be opened anew at any time.  Contents   *)
(* are values, all of which are complete: what else a task depends on (the *)
(* model, the permissions, the clock) is counted as terms.  The step shown *)
(* is left out.  What becomes of a command whose outcome is open is told   *)
(* in PendingCommand: here it may be sent again, and is settled or given   *)
(* up at some time.                                                        *)
(***************************************************************************)
EXTENDS Naturals, Sequences, FiniteSets

CONSTANTS
  Jobs,         \* the handlers that may be under way
  Contents,     \* of a draft
  Blocking,     \* the terms under which no task can be created, see NewTerms
  None,
  MaxVersion,   \* of the draft
  MaxPreviews,
  MaxTerms,
  MaxCommands,
  MaxLate       \* requests under way that nobody waits for

ASSUME TaskCreationAssumption ==
  /\ None \notin Contents /\ Blocking \subseteq Nat
  /\ {MaxVersion, MaxPreviews, MaxTerms, MaxCommands, MaxLate} \subseteq Nat /\ MaxTerms > 0

VARIABLES
  draft,     \* task_drafts: the content of each version, of which the last is kept
  terms,     \* counts the changes of what else a task depends on, see NewTerms
  previews,  \* task_creation_previews
  tasks,     \* what was created by which command
  commands,  \* the commands submitted: their preview, and what was confirmed
  late,      \* the requests under way that no handler waits for
  content,   \* what the editor shows, None before it has anything
  saved,     \* the version that was last saved or loaded, 0 for none
  preview,   \* the number of the preview on the page, 0 for none
  confirmed, \* the preview whose scope was confirmed, 0 if the box is not ticked
  conflict,  \* is the draft said to have changed?
  busy,
  pending,   \* the command whose outcome is open, 0 for none
  job        \* per handler: what it awaits

server == <<draft, terms, previews, tasks>>
page == <<preview, confirmed>>
editor == <<content, saved, conflict, page>>
vars == <<server, commands, late, editor, busy, pending, job>>

Versions == 1..MaxVersion
Numbers == 1..MaxPreviews
Keys == 1..MaxCommands

Idle == [does |-> "nothing", content |-> None, number |-> 0, reply |-> "none"]

\* What the editor showed when it was started; the version of the draft that is
\* sent, or came back, or the number of the preview or of the command.
JobTypes ==
  [does    : {"nothing", "load", "save", "preview", "create", "copy"},
   content : Contents \cup {None},
   number  : Nat,
   reply   : {"none", "awaited", "failed", "refused", "ok"}]

TypeOK ==
  /\ draft \in Seq(Contents) /\ Len(draft) <= MaxVersion
  /\ terms \in 1..MaxTerms
  /\ previews \in Seq([version : Versions, content : Contents, terms : 1..MaxTerms,
                       can_create : BOOLEAN])
  /\ Len(previews) <= MaxPreviews
  /\ commands \in Seq([preview : Numbers, confirmed : Numbers]) /\ Len(commands) <= MaxCommands
  /\ tasks \subseteq [command : Keys, content : Contents, terms : 1..MaxTerms]
  /\ late \subseteq [does : {"save"}, content : Contents, number : 0..MaxVersion]
               \cup [does : {"create"}, number : Keys]
  /\ content \in Contents \cup {None}
  /\ saved \in 0..MaxVersion
  /\ preview \in 0..MaxPreviews
  /\ confirmed \in 0..MaxPreviews /\ conflict \in BOOLEAN /\ busy \in BOOLEAN
  /\ pending \in 0..MaxCommands
  /\ job \in [Jobs -> JobTypes]

Init ==
  /\ draft = << >> /\ terms = 1 /\ previews = << >> /\ tasks = {}
  /\ commands = << >> /\ late = {}
  /\ content = None /\ saved = 0 /\ preview = 0 /\ confirmed = 0
  /\ conflict = FALSE /\ busy = FALSE /\ pending = 0
  /\ job = [j \in Jobs |-> Idle]

-----------------------------------------------------------------------------
(* Helpers *)

\* The requests of these handlers that the server has not seen.
Unseen(js) ==
  {[does |-> "save", content |-> job[j].content, number |-> job[j].number] :
     j \in {i \in js : job[i].does = "save" /\ job[i].reply = "awaited"}}
  \cup
  {[does |-> "create", number |-> job[j].number] :
     j \in {i \in js : job[i].does = "create" /\ job[i].reply = "awaited"}}

\* Nobody waits for the requests of handlers js any more.  Some are lost.
Abandons(js) ==
  \E rs \in SUBSET Unseen(js) :
    late' = late \cup rs /\ Cardinality(late') <= MaxLate

\* Handler j goes on to await a request.
Awaits(j, does, c, number) ==
  /\ job' = [job EXCEPT ![j] =
               [does |-> does, content |-> c, number |-> number, reply |-> "awaited"]]
  /\ busy' = TRUE

Ends(j) == job' = [job EXCEPT ![j] = Idle] /\ busy' = FALSE

\* No preview is shown, and nothing is confirmed.
NoPreview == preview' = 0 /\ confirmed' = 0

\* The user may act: change, persist, copyAsNew, goTo and create return otherwise.
Ready == content # None /\ pending = 0 /\ ~busy

\* Fault: the version that came back is counted again.
CountsAgain(v) == saved' = v + 1 /\ content' = draft[v] /\ conflict' = FALSE

\* The editor takes over version v of the draft, as saved.
TakesOver(v) == saved' = v /\ content' = draft[v] /\ conflict' = FALSE

-----------------------------------------------------------------------------
(* What the user does *)

\* The editor is opened, or anew: a reload, a change of permissions, a way back.
\* Its handlers are aborted.  It begins with the default if the address has new=1,
\* whether or not there is a draft already, and reads the draft otherwise.
Open ==
  /\ Abandons(Jobs)
  /\ saved' = 0 /\ conflict' = FALSE /\ NoPreview
  /\ \/ /\ content' \in Contents
        /\ job' = [j \in Jobs |-> Idle] /\ busy' = FALSE
     \/ \E j \in Jobs :
          /\ content' = None
          /\ job' = [[i \in Jobs |-> Idle] EXCEPT ![j].does = "load", ![j].reply = "awaited"]
          /\ busy' = TRUE
  /\ UNCHANGED <<server, commands, pending>>

\* What is typed voids the preview.
change(c) ==
  /\ Ready /\ c # content
  /\ content' = c /\ NoPreview
  /\ UNCHANGED <<server, commands, late, saved, conflict, busy, pending, job>>

\* persist: the draft is saved, by goTo on the way to its confirmation or for itself.
persist(j) ==
  /\ Ready /\ job[j] = Idle /\ saved < MaxVersion
  /\ Awaits(j, "save", content, saved)
  /\ UNCHANGED <<server, commands, late, editor, pending>>

\* In a conflict what was typed may be saved as another draft,
copyAsNew(j) ==
  /\ Ready /\ conflict /\ job[j] = Idle
  /\ Awaits(j, "copy", None, 0)
  /\ UNCHANGED <<server, commands, late, editor, pending>>

\* or be given up for what the server has.  Nothing keeps this button, nor the one
\* for a draft that could not be read, from being pressed while others are at work.
load(j) ==
  /\ conflict \/ content = None
  /\ job[j] = Idle
  /\ Awaits(j, "load", None, 0)
  /\ UNCHANGED <<server, commands, late, editor, pending>>

\* The box on the page of the preview is ticked, or unticked.
Confirm ==
  /\ Ready /\ preview # 0
  /\ confirmed' = IF confirmed = 0 THEN preview ELSE 0
  /\ UNCHANGED <<server, commands, late, content, saved, preview, conflict, busy, pending, job>>

create(j) ==
  /\ Ready /\ job[j] = Idle
  /\ preview # 0 /\ previews[preview].can_create /\ confirmed # 0
  /\ Len(commands) < MaxCommands
  /\ commands' = Append(commands, [preview |-> preview, confirmed |-> confirmed])
  /\ pending' = Len(commands) + 1
  /\ Awaits(j, "create", None, Len(commands) + 1)
  /\ UNCHANGED <<server, late, editor>>

\* The notice sends the command once more, or has the marker go (PendingCommand).
Notice ==
  /\ pending # 0
  /\ \/ /\ late' = late \cup {[does |-> "create", number |-> pending]}
        /\ Cardinality(late') <= MaxLate
        /\ UNCHANGED pending
     \/ pending' = 0 /\ UNCHANGED late
  /\ UNCHANGED <<server, commands, editor, busy, job>>

-----------------------------------------------------------------------------
(* The server *)

Awaited(j, does) == job[j].does = does /\ job[j].reply = "awaited"

Told(j, reply, number) == job' = [job EXCEPT ![j].reply = reply, ![j].number = number]

\* Only a command is remembered when it did not work.
Denied(j, reply) ==
  job' = [job EXCEPT ![j] =
            [does |-> job[j].does, content |-> None, reply |-> reply,
             number |-> IF job[j].does = "create" THEN job[j].number ELSE 0]]

\* Fault: the content of an earlier request is not compared.
RepeatedByVersion(c, v) == Len(draft) = v + 1

\* save(): is content c stored already, by this request or one like it?
Repeated(c, v) == Len(draft) = v + 1 /\ draft[v + 1] = c

\* A version is replaced only by who knows it.
Accepts(c, v) == Repeated(c, v) \/ Len(draft) = v

Save(c, v) == draft' = IF Len(draft) = v THEN Append(draft, c) ELSE draft

ServeSave(j) ==
  /\ Awaited(j, "save")
  /\ Save(job[j].content, job[j].number)
  /\ IF Accepts(job[j].content, job[j].number)
     THEN Told(j, "ok", job[j].number + 1) ELSE Denied(j, "refused")
  /\ UNCHANGED <<terms, previews, tasks, commands, late, editor, busy, pending>>

\* Another tab of the user saves the draft.
SaveElsewhere(c) ==
  /\ Len(draft) < MaxVersion
  /\ draft' = Append(draft, c)
  /\ UNCHANGED <<terms, previews, tasks, commands, late, editor, busy, pending, job>>

ServeLoad(j) ==
  /\ Awaited(j, "load")
  /\ IF draft = << >> THEN Denied(j, "failed") ELSE Told(j, "ok", Len(draft))
  /\ UNCHANGED <<server, commands, late, editor, busy, pending>>

Current == draft[Len(draft)]

\* preview(): of the version asked for, if it is the current one still.
ServePreview(j) ==
  /\ Awaited(j, "preview")
  /\ IF Len(draft) # job[j].number
     THEN Denied(j, "failed") /\ UNCHANGED previews
     ELSE /\ Len(previews) < MaxPreviews
          /\ previews' = Append(previews,
               [version |-> Len(draft), content |-> Current, terms |-> terms,
                can_create |-> terms \notin Blocking])
          /\ Told(j, "ok", Len(previews) + 1)
  /\ UNCHANGED <<draft, terms, tasks, commands, late, editor, busy, pending>>

\* Fault: the draft is not compared with the preview.
TermsHold(n) == previews[n].terms = terms /\ previews[n].can_create

\* create_command: is everything still as in preview n?
AsPreviewed(n) ==
  /\ previews[n].terms = terms /\ previews[n].can_create
  /\ previews[n].version = Len(draft) /\ previews[n].content = Current

\* A command with a receipt is not carried out again.
Receipt(k) == \E task \in tasks : task.command = k
Create(k) ==
  tasks' = IF ~Receipt(k) /\ AsPreviewed(commands[k].preview)
           THEN tasks \cup {[command |-> k, content |-> Current, terms |-> terms]}
           ELSE tasks

ServeCreate(j) ==
  /\ Awaited(j, "create")
  /\ LET k == job[j].number
     IN /\ Create(k)
        /\ IF Receipt(k) \/ AsPreviewed(commands[k].preview)
           THEN Told(j, "ok", k) ELSE Denied(j, "refused")
  /\ UNCHANGED <<draft, terms, previews, commands, late, editor, busy, pending>>

\* A copy goes to a draft of its own.  A session whose permissions have changed is
\* told of a conflict, and others are refused.
ServeOtherwise(j) ==
  /\ job[j].reply = "awaited"
  /\ \/ job[j].does = "copy" /\ Told(j, "ok", 0)
     \/ job[j].does \in {"save", "create"} /\ Denied(j, "refused")
  /\ UNCHANGED <<server, commands, late, editor, busy, pending>>

\* No answer comes, or no good one, and the request may be under way still.  A preview
\* or a copy that comes late is nobody's.
Fails(j) ==
  /\ job[j].reply \in {"awaited", "ok"}
  /\ Abandons({j})
  /\ Denied(j, "failed")
  /\ UNCHANGED <<server, commands, editor, busy, pending>>

ServeLate(r) ==
  /\ r \in late /\ late' = late \ {r}
  /\ \/ r.does = "save" /\ Save(r.content, r.number) /\ UNCHANGED tasks
     \/ r.does = "create" /\ Create(r.number) /\ UNCHANGED draft
  /\ UNCHANGED <<terms, previews, commands, editor, busy, pending, job>>

\* The model is revised, taken back or offered again, permissions change, previews
\* expire, or the authorization does.
NewTerms ==
  /\ terms < MaxTerms /\ terms' = terms + 1
  /\ UNCHANGED <<draft, previews, tasks, commands, late, editor, busy, pending, job>>

-----------------------------------------------------------------------------
(* The handlers go on *)

Answered(j, does) == job[j].does \in does /\ job[j].reply \notin {"none", "awaited"}
Ok(j) == job[j].reply = "ok"

\* The editor takes over what was stored, and if it was saved by goTo its preview is
\* asked for.
Saved(j) ==
  /\ Answered(j, {"save"}) /\ Ok(j)
  /\ TakesOver(job[j].number)
  /\ Ends(j) \/ Awaits(j, "preview", None, job[j].number)
  /\ UNCHANGED <<server, commands, late, page, pending>>

\* The input is kept.
NotSaved(j) ==
  /\ Answered(j, {"save"}) /\ ~Ok(j)
  /\ conflict' = (job[j].reply = "refused")
  /\ Ends(j)
  /\ UNCHANGED <<server, commands, late, content, saved, page, pending>>

Loaded(j) ==
  /\ Answered(j, {"load"}) /\ Ok(j)
  /\ TakesOver(job[j].number) /\ NoPreview
  /\ Ends(j)
  /\ UNCHANGED <<server, commands, late, pending>>

\* Fault: a confirmation holds for the next preview, too.
StillConfirmed(j) ==
  /\ Answered(j, {"preview"}) /\ Ok(j)
  /\ preview' = job[j].number
  /\ Ends(j)
  /\ UNCHANGED <<server, commands, late, content, saved, confirmed, conflict, pending>>

Previewed(j) ==
  /\ Answered(j, {"preview"}) /\ Ok(j)
  /\ preview' = job[j].number /\ confirmed' = 0
  /\ Ends(j)
  /\ UNCHANGED <<server, commands, late, content, saved, conflict, pending>>

\* load, copyAsNew and goTo say that it did not work.
NotDone(j) ==
  /\ Answered(j, {"load", "preview", "copy"}) /\ ~Ok(j)
  /\ Ends(j)
  /\ UNCHANGED <<server, commands, late, editor, pending>>

\* clearPendingCommand: the marker goes only if it is of this command.
Settled(k) == pending' = IF pending = k THEN 0 ELSE pending

\* The tab goes on to the task, once it could be read, or to the copy.
Leaves(j) ==
  /\ Answered(j, {"create", "copy"}) /\ Ok(j)
  /\ IF job[j].does = "create" THEN Settled(job[j].number) ELSE UNCHANGED pending
  /\ Abandons(Jobs)
  /\ content' = None /\ saved' = 0 /\ conflict' = FALSE /\ NoPreview
  /\ job' = [i \in Jobs |-> Idle] /\ busy' = FALSE
  /\ UNCHANGED <<server, commands>>

\* Refused, the command is settled; otherwise, or if the task could not be read, its
\* outcome is open.
NotCreated(j) ==
  /\ Answered(j, {"create"})
  /\ IF job[j].reply = "refused" THEN Settled(job[j].number)
     ELSE UNCHANGED pending
  /\ Ends(j)
  /\ UNCHANGED <<server, commands, late, editor>>

-----------------------------------------------------------------------------
Next ==
  \/ Open \/ Confirm \/ Notice \/ NewTerms
  \/ \E c \in Contents : change(c) \/ SaveElsewhere(c)
  \/ \E r \in late : ServeLate(r)
  \/ \E j \in Jobs :
       \/ persist(j) \/ copyAsNew(j) \/ load(j) \/ create(j)
       \/ ServeSave(j) \/ ServeLoad(j) \/ ServePreview(j) \/ ServeCreate(j)
       \/ ServeOtherwise(j) \/ Fails(j)
       \/ Saved(j) \/ NotSaved(j) \/ Loaded(j) \/ Previewed(j) \/ NotDone(j)
       \/ Leaves(j) \/ NotCreated(j)

Spec == Init /\ [][Next]_vars

-----------------------------------------------------------------------------
(* Properties *)

\* Between the answer to a save and the moment the tab takes it over, the version it
\* tells of holds what this editor sent: it is not another tab's content, nor one of
\* its own earlier saves under the same version (draft_store.py:102).
AcknowledgedIsStored ==
  \A j \in Jobs :
    job[j].does = "save" /\ job[j].reply = "ok" => draft[job[j].number] = job[j].content

\* A task has the content, and was created under the terms, of the preview whose scope
\* the user confirmed, whatever other tabs, late requests, a change of the model or of
\* permissions did in between (task_creation_store.py:69-81, CreationPage.tsx:98).
TaskIsAsConfirmed ==
  \A task \in tasks :
    LET confirmation == previews[commands[task.command].confirmed]
    IN confirmation.content = task.content /\ confirmation.terms = task.terms

\* Not so: what is typed voids the preview, so that the preview shown is of what is in
\* the editor (docs/stages/phase-1c-task-creation/spec.md:28).  The end of a second
\* handler unlocks the editor while the preview is awaited.
PreviewIsOfEditor == preview # 0 => previews[preview].content = content
=============================================================================
