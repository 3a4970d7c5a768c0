------------------------- MODULE TaskCreationProofs -------------------------
(***************************************************************************)
(* TaskCreation for any contents, handlers and bounds: an acknowledged     *)
(* draft is stored, and a task is as its user confirmed it.                *)
(***************************************************************************)
EXTENDS TaskCreation, TLAPS

PreviewTypes == [version : Versions, content : Contents, terms : 1..MaxTerms,
                 can_create : BOOLEAN]
CommandTypes == [preview : Numbers, confirmed : Numbers]
TaskTypes == [command : Keys, content : Contents, terms : 1..MaxTerms]
LateTypes == [does : {"save"}, content : Contents, number : 0..MaxVersion]
             \cup [does : {"create"}, number : Keys]

\* What was confirmed with a command is its preview, and its task is like it.
ServerInv ==
  /\ draft \in Seq(Contents) /\ Len(draft) <= MaxVersion
  /\ terms \in 1..MaxTerms
  /\ previews \in Seq(PreviewTypes) /\ Len(previews) <= MaxPreviews
  /\ commands \in Seq(CommandTypes) /\ Len(commands) <= MaxCommands
  /\ \A k \in 1..Len(commands) :
       commands[k].preview \in 1..Len(previews) /\ commands[k].confirmed = commands[k].preview
  /\ \A task \in tasks :
       /\ task \in TaskTypes /\ task.command \in 1..Len(commands)
       /\ previews[commands[task.command].preview].content = task.content
       /\ previews[commands[task.command].preview].terms = task.terms

LateInv ==
  \A r \in late : /\ r \in LateTypes
                  /\ r.does = "save" => r.number < MaxVersion
                  /\ r.does = "create" => r.number \in 1..Len(commands)

\* A box that is ticked is of the preview on the page.
EditorInv ==
  /\ content \in Contents \cup {None}
  /\ saved \in 0..Len(draft)
  /\ preview \in 0..Len(previews) /\ confirmed \in {0, preview}
  /\ conflict \in BOOLEAN /\ busy \in BOOLEAN
  /\ pending \in 0..Len(commands)

\* What the handler that is in r asks for can be had of drafts d, previews p and
\* commands c, and what it was told is true of them.
JobFits(r, d, p, c) ==
  /\ r \in JobTypes
  /\ r.does = "save" /\ r.reply = "awaited"
       => r.content \in Contents /\ r.number \in 0..MaxVersion /\ r.number < MaxVersion
  /\ r.does = "save" /\ r.reply = "ok" => r.number \in 1..Len(d) /\ d[r.number] = r.content
  /\ r.does = "load" /\ r.reply = "ok" => r.number \in 1..Len(d)
  /\ r.does = "preview" /\ r.reply = "awaited" => r.number \in 1..Len(d)
  /\ r.does = "preview" /\ r.reply = "ok" => r.number \in 1..Len(p)
  /\ r.does = "create" => r.number \in 1..Len(c)

JobsInv == /\ job \in [Jobs -> JobTypes]
           /\ \A j \in Jobs : JobFits(job[j], draft, previews, commands)

CreationInv == ServerInv /\ LateInv /\ EditorInv /\ JobsInv

LEMMA InvTyped == CreationInv => TypeOK
<1> SUFFICES ASSUME CreationInv PROVE TypeOK
  OBVIOUS
<1> USE TaskCreationAssumption DEF CreationInv
<1>1. /\ draft \in Seq(Contents) /\ Len(draft) \in Nat /\ Len(draft) <= MaxVersion
      /\ Len(previews) \in Nat /\ Len(previews) <= MaxPreviews
      /\ Len(commands) \in Nat /\ Len(commands) <= MaxCommands
  BY DEF ServerInv
<1>2. /\ terms \in 1..MaxTerms
      /\ previews \in Seq([version : Versions, content : Contents, terms : 1..MaxTerms,
                           can_create : BOOLEAN])
      /\ commands \in Seq([preview : Numbers, confirmed : Numbers])
  BY DEF ServerInv, PreviewTypes, CommandTypes
<1>3. tasks \subseteq [command : Keys, content : Contents, terms : 1..MaxTerms]
  BY DEF ServerInv, TaskTypes
<1>4. late \subseteq [does : {"save"}, content : Contents, number : 0..MaxVersion]
                     \cup [does : {"create"}, number : Keys]
  BY DEF LateInv, LateTypes
<1>5. /\ content \in Contents \cup {None} /\ saved \in 0..MaxVersion
      /\ preview \in 0..MaxPreviews /\ confirmed \in 0..MaxPreviews
      /\ conflict \in BOOLEAN /\ busy \in BOOLEAN /\ pending \in 0..MaxCommands
  BY <1>1 DEF EditorInv
<1>6. job \in [Jobs -> JobTypes]
  BY DEF JobsInv
<1> QED
  BY <1>1, <1>2, <1>3, <1>4, <1>5, <1>6 DEF TypeOK

LEMMA InvStored == CreationInv => AcknowledgedIsStored
  BY DEF CreationInv, JobsInv, JobFits, AcknowledgedIsStored

LEMMA InvConfirmed == CreationInv => TaskIsAsConfirmed
  BY DEF CreationInv, ServerInv, TaskIsAsConfirmed

LEMMA InitInv == Init => CreationInv
<1> SUFFICES ASSUME Init PROVE CreationInv
  OBVIOUS
<1> USE TaskCreationAssumption DEF Init
<1>1. ServerInv
  BY DEF ServerInv
<1>2. LateInv
  BY DEF LateInv
<1>5. Len(draft) = 0 /\ Len(previews) = 0 /\ Len(commands) = 0
  OBVIOUS
<1>6. EditorInv
  <2>1. conflict \in BOOLEAN /\ busy \in BOOLEAN
    OBVIOUS
  <2>2. saved = 0 /\ preview = 0 /\ confirmed = 0 /\ pending = 0 /\ content = None
    OBVIOUS
  <2>3. 0 \in 0..Len(draft) /\ 0 \in 0..Len(previews) /\ 0 \in 0..Len(commands)
    BY <1>5
  <2> HIDE DEF Init
  <2> QED
    BY <2>1, <2>2, <2>3 DEF EditorInv
<1>3. Idle \in JobTypes
  BY DEF Idle, JobTypes
<1>4. JobsInv
  BY <1>3 DEF JobsInv, JobFits, Idle
<1> QED
  BY <1>1, <1>2, <1>4, <1>6 DEF CreationInv

-----------------------------------------------------------------------------
(* What grows *)

Grown(s, t) == Len(s) <= Len(t) /\ \A n \in 1..Len(s) : t[n] = s[n]

LEMMA AppendGrows ==
  ASSUME NEW S, NEW s \in Seq(S), NEW x \in S
  PROVE  /\ Append(s, x) \in Seq(S) /\ Len(Append(s, x)) = Len(s) + 1
         /\ Append(s, x)[Len(s) + 1] = x /\ Grown(s, Append(s, x))
  BY DEF Grown

LEMMA SameGrows ==
  ASSUME NEW S, NEW s \in Seq(S)
  PROVE  Grown(s, s)
  BY DEF Grown

\* Only the draft, the previews and the commands that were there count for a handler.
LEMMA StillFits ==
  ASSUME NEW r, NEW d \in Seq(Contents), NEW p \in Seq(PreviewTypes), NEW c \in Seq(CommandTypes),
         NEW e \in Seq(Contents), NEW q \in Seq(PreviewTypes), NEW f \in Seq(CommandTypes),
         Grown(d, e), Grown(p, q), Grown(c, f), JobFits(r, d, p, c)
  PROVE  JobFits(r, e, q, f)
<1>1. /\ Len(d) \in Nat /\ Len(p) \in Nat /\ Len(c) \in Nat
      /\ Len(e) \in Nat /\ Len(q) \in Nat /\ Len(f) \in Nat
  OBVIOUS
<1>2. r.number \in Nat
  BY DEF JobFits, JobTypes
<1> QED
  BY <1>1, <1>2 DEF Grown, JobFits

\* A step of the server, or of a command that is submitted.
DraftStep ==
  draft' = draft \/ (Len(draft) < MaxVersion /\ \E c \in Contents : draft' = Append(draft, c))
PreviewStep ==
  previews' = previews \/ (/\ Len(previews) < MaxPreviews
                           /\ \E p \in PreviewTypes : previews' = Append(previews, p))
CommandStep ==
  commands' = commands \/ (/\ Len(commands) < MaxCommands
                           /\ \E n \in 1..Len(previews) :
                                commands' = Append(commands, [preview |-> n, confirmed |-> n]))
TaskStep ==
  tasks' = tasks \/ \E k \in 1..Len(commands) :
                      /\ AsPreviewed(commands[k].preview)
                      /\ tasks' = tasks \cup {[command |-> k, content |-> Current, terms |-> terms]}
LateStep ==
  \A r \in late' : \/ r \in late
                   \/ /\ r \in LateTypes
                      /\ r.does = "save" => r.number < MaxVersion
                      /\ r.does = "create" => r.number \in 1..Len(commands')

Steps ==
  /\ DraftStep /\ PreviewStep /\ CommandStep /\ TaskStep /\ LateStep
  /\ terms' \in 1..MaxTerms

AllGrown == Grown(draft, draft') /\ Grown(previews, previews') /\ Grown(commands, commands')

LEMMA StepsKeep ==
  ASSUME CreationInv, Steps
  PROVE  ServerInv' /\ LateInv' /\ AllGrown
<1> USE TaskCreationAssumption DEF CreationInv, Steps
<1>1. /\ draft \in Seq(Contents) /\ Len(draft) \in Nat /\ Len(draft) <= MaxVersion
      /\ previews \in Seq(PreviewTypes) /\ Len(previews) \in Nat /\ Len(previews) <= MaxPreviews
      /\ commands \in Seq(CommandTypes) /\ Len(commands) \in Nat /\ Len(commands) <= MaxCommands
  BY DEF ServerInv
<1>2. draft' \in Seq(Contents) /\ Len(draft') <= MaxVersion /\ Grown(draft, draft')
  <2>1. CASE draft' = draft
    BY <1>1, <2>1, SameGrows
  <2>2. ASSUME Len(draft) < MaxVersion, NEW x \in Contents, draft' = Append(draft, x)
        PROVE  draft' \in Seq(Contents) /\ Len(draft') <= MaxVersion /\ Grown(draft, draft')
    <3>1. /\ draft' \in Seq(Contents) /\ Len(draft') = Len(draft) + 1 /\ Grown(draft, draft')
      BY <1>1, <2>2, AppendGrows
    <3> QED
      BY <1>1, <2>2, <3>1
  <2> QED
    BY <2>1, <2>2 DEF DraftStep
<1>3. previews' \in Seq(PreviewTypes) /\ Len(previews') <= MaxPreviews /\ Grown(previews, previews')
  <2>1. CASE previews' = previews
    BY <1>1, <2>1, SameGrows
  <2>2. ASSUME Len(previews) < MaxPreviews, NEW x \in PreviewTypes, previews' = Append(previews, x)
        PROVE  previews' \in Seq(PreviewTypes) /\ Len(previews') <= MaxPreviews /\ Grown(previews, previews')
    <3>1. /\ previews' \in Seq(PreviewTypes) /\ Len(previews') = Len(previews) + 1 /\ Grown(previews, previews')
      BY <1>1, <2>2, AppendGrows
    <3> QED
      BY <1>1, <2>2, <3>1
  <2> QED
    BY <2>1, <2>2 DEF PreviewStep
<1>4. /\ commands' \in Seq(CommandTypes) /\ Len(commands') <= MaxCommands
      /\ Grown(commands, commands')
      /\ \A k \in 1..Len(commands') :
           /\ commands'[k].preview \in 1..Len(previews)
           /\ commands'[k].confirmed = commands'[k].preview
  <2>1. CASE commands' = commands
    BY <1>1, <2>1, SameGrows DEF ServerInv
  <2>2. ASSUME Len(commands) < MaxCommands, NEW n \in 1..Len(previews),
               commands' = Append(commands, [preview |-> n, confirmed |-> n])
        PROVE  /\ commands' \in Seq(CommandTypes) /\ Len(commands') <= MaxCommands
               /\ Grown(commands, commands')
               /\ \A k \in 1..Len(commands') :
                    /\ commands'[k].preview \in 1..Len(previews)
                    /\ commands'[k].confirmed = commands'[k].preview
    <3>1. [preview |-> n, confirmed |-> n] \in CommandTypes
      BY <1>1 DEF CommandTypes, Numbers
    <3> DEFINE x == [preview |-> n, confirmed |-> n]
    <3>2. x.preview = n /\ x.confirmed = n /\ x \in CommandTypes /\ commands' = Append(commands, x)
      BY <2>2, <3>1
    <3> HIDE DEF x
    <3>3. /\ commands' \in Seq(CommandTypes) /\ Len(commands') = Len(commands) + 1
          /\ commands'[Len(commands) + 1] = x /\ Grown(commands, commands')
      BY <1>1, <3>2, AppendGrows
    <3>4. ASSUME NEW k \in 1..Len(commands')
          PROVE  /\ commands'[k].preview \in 1..Len(previews)
                 /\ commands'[k].confirmed = commands'[k].preview
      <4>1. CASE k = Len(commands) + 1
        BY <3>2, <3>3, <4>1
      <4>2. CASE k \in 1..Len(commands)
        BY <3>3, <4>2 DEF Grown, ServerInv
      <4> QED
        BY <1>1, <3>3, <4>1, <4>2
    <3> QED
      BY <1>1, <2>2, <3>3, <3>4
  <2> QED
    BY <2>1, <2>2 DEF CommandStep
<1>5. ASSUME NEW task \in tasks'
      PROVE  /\ task \in TaskTypes /\ task.command \in 1..Len(commands)
             /\ previews[commands[task.command].preview].content = task.content
             /\ previews[commands[task.command].preview].terms = task.terms
  <2>1. CASE task \in tasks
    BY <2>1 DEF ServerInv
  <2>2. ASSUME NEW k \in 1..Len(commands), AsPreviewed(commands[k].preview),
               task = [command |-> k, content |-> Current, terms |-> terms]
        PROVE  /\ task \in TaskTypes /\ task.command \in 1..Len(commands)
               /\ previews[commands[task.command].preview].content = task.content
               /\ previews[commands[task.command].preview].terms = task.terms
    <3>1. previews[commands[k].preview] \in PreviewTypes
      BY <1>1 DEF ServerInv
    <3>2. /\ previews[commands[k].preview].content = Current
          /\ previews[commands[k].preview].terms = terms
          /\ Current \in Contents
      BY <2>2, <3>1 DEF AsPreviewed, PreviewTypes
    <3>3. k \in Keys /\ terms \in 1..MaxTerms
      BY <1>1 DEF Keys, ServerInv
    <3> QED
      BY <2>2, <3>2, <3>3 DEF TaskTypes
  <2> QED
    BY <2>1, <2>2 DEF TaskStep
<1>6. ServerInv'
  <2>1. Len(draft') \in Nat /\ Len(previews') \in Nat /\ Len(commands') \in Nat
    BY <1>2, <1>3, <1>4
  <2>2. \A k \in 1..Len(commands') :
          commands'[k].preview \in 1..Len(previews') /\ commands'[k].confirmed = commands'[k].preview
    BY <1>1, <1>3, <1>4, <2>1 DEF Grown
  <2>3. ASSUME NEW task \in tasks'
        PROVE  /\ task \in TaskTypes /\ task.command \in 1..Len(commands')
               /\ previews'[commands'[task.command].preview].content = task.content
               /\ previews'[commands'[task.command].preview].terms = task.terms
    <3>1. commands'[task.command] = commands[task.command] /\ task.command \in 1..Len(commands')
      BY <1>1, <1>4, <1>5, <2>1 DEF Grown
    <3>2. commands[task.command].preview \in 1..Len(previews)
      BY <1>5 DEF ServerInv
    <3>3. previews'[commands[task.command].preview] = previews[commands[task.command].preview]
      BY <1>3, <3>2 DEF Grown
    <3> QED
      BY <1>5, <3>1, <3>3
  <2> QED
    BY <1>2, <1>3, <1>4, <2>2, <2>3 DEF ServerInv
<1>7. LateInv'
  <2>1. ASSUME NEW r \in late', r \in late, r.does = "create"
        PROVE  r.number \in 1..Len(commands')
    <3>1. r.number \in 1..Len(commands)
      BY <2>1 DEF LateInv
    <3>2. Len(commands') \in Nat
      BY <1>4
    <3> QED
      BY <1>1, <1>4, <3>1, <3>2 DEF Grown
  <2> QED
    BY <2>1 DEF LateStep, LateInv
<1> QED
  BY <1>2, <1>3, <1>4, <1>6, <1>7 DEF AllGrown

-----------------------------------------------------------------------------
(* What the editor and its handlers know *)

\* A handler in r, and the others as they were.
LEMMA JobGoes ==
  ASSUME CreationInv, ServerInv', AllGrown, NEW j \in Jobs, NEW r,
         JobFits(r, draft', previews', commands'), job' = [job EXCEPT ![j] = r]
  PROVE  JobsInv'
<1>1. job \in [Jobs -> JobTypes] /\ r \in JobTypes
  BY DEF CreationInv, JobsInv, JobFits
<1>2. ASSUME NEW i \in Jobs
      PROVE  JobFits(job'[i], draft', previews', commands')
  <2>1. CASE i = j
    BY <1>1, <2>1
  <2>2. CASE i # j
    <3>1. job'[i] = job[i] /\ JobFits(job[i], draft, previews, commands)
      BY <1>1, <2>2 DEF CreationInv, JobsInv
    <3>2. JobFits(job[i], draft', previews', commands')
      BY <3>1, StillFits DEF CreationInv, ServerInv, AllGrown
    <3> QED
      BY <3>1, <3>2
  <2> QED
    BY <2>1, <2>2
<1>3. job' \in [Jobs -> JobTypes]
  BY <1>1
<1> QED
  BY <1>2, <1>3 DEF JobsInv

LEMMA IdleFits ==
  ASSUME NEW d, NEW p, NEW c
  PROVE  JobFits(Idle, d, p, c)
  BY DEF JobFits, Idle, JobTypes

\* The handlers are aborted.
LEMMA JobsStop ==
  ASSUME job' = [i \in Jobs |-> Idle]
  PROVE  JobsInv'
<1>1. Idle \in JobTypes
  BY DEF Idle, JobTypes
<1> QED
  BY <1>1, IdleFits DEF JobsInv

LEMMA JobsStay ==
  ASSUME CreationInv, ServerInv', AllGrown, job' = job
  PROVE  JobsInv'
<1>1. ASSUME NEW i \in Jobs
      PROVE  JobFits(job'[i], draft', previews', commands')
  <2>1. JobFits(job[i], draft, previews, commands)
    BY DEF CreationInv, JobsInv
  <2> QED
    BY <2>1, StillFits DEF CreationInv, ServerInv, AllGrown
<1> QED
  BY <1>1 DEF CreationInv, JobsInv

\* A handler that was denied has nothing but its command.
LEMMA JobDenied ==
  ASSUME CreationInv, ServerInv', AllGrown, NEW j \in Jobs,
         NEW reply \in {"failed", "refused"}, Denied(j, reply)
  PROVE  JobsInv'
<1> DEFINE r == [does |-> job[j].does, content |-> None, reply |-> reply,
                 number |-> IF job[j].does = "create" THEN job[j].number ELSE 0]
<1>1. job[j] \in JobTypes /\ (job[j].does = "create" => job[j].number \in 1..Len(commands))
  BY DEF CreationInv, JobsInv, JobFits
<1>2. Len(commands) \in Nat /\ Len(commands') \in Nat /\ Len(commands) <= Len(commands')
  BY DEF CreationInv, ServerInv, AllGrown, Grown
<1>3. r \in JobTypes
  BY <1>1 DEF JobTypes
<1>4. r.reply \notin {"awaited", "ok"} /\ (r.does = "create" => r.number \in 1..Len(commands'))
  BY <1>1, <1>2
<1>5. job' = [job EXCEPT ![j] = r]
  BY DEF Denied
<1> HIDE DEF r
<1>6. JobFits(r, draft', previews', commands')
  BY <1>3, <1>4 DEF JobFits
<1> QED
  BY <1>5, <1>6, JobGoes

\* One that was answered knows the number it was told.
LEMMA JobTold ==
  ASSUME CreationInv, ServerInv', AllGrown, NEW j \in Jobs, NEW n \in Nat, Told(j, "ok", n),
         job[j].does = "save" => n \in 1..Len(draft') /\ draft'[n] = job[j].content,
         job[j].does = "load" => n \in 1..Len(draft'),
         job[j].does = "preview" => n \in 1..Len(previews'),
         job[j].does = "create" => n \in 1..Len(commands')
  PROVE  JobsInv'
<1> DEFINE r == [job[j] EXCEPT !.reply = "ok", !.number = n]
<1>1. job \in [Jobs -> JobTypes] /\ job[j] \in JobTypes
  BY DEF CreationInv, JobsInv
<1>2. /\ r \in JobTypes /\ r.reply = "ok" /\ r.number = n
      /\ r.does = job[j].does /\ r.content = job[j].content
  BY <1>1 DEF JobTypes
<1>3. job' = [job EXCEPT ![j] = r]
  BY <1>1 DEF Told, JobTypes
<1> HIDE DEF r
<1>4. JobFits(r, draft', previews', commands')
  BY <1>2 DEF JobFits
<1> QED
  BY <1>3, <1>4, JobGoes

LEMMA JobEnds ==
  ASSUME CreationInv, ServerInv', AllGrown, NEW j \in Jobs, Ends(j)
  PROVE  JobsInv' /\ busy' = FALSE
  BY IdleFits, JobGoes DEF Ends

\* One that goes on knows what it asks for.
LEMMA JobAwaits ==
  ASSUME CreationInv, ServerInv', AllGrown, NEW j \in Jobs, NEW does, NEW c \in Contents \cup {None},
         NEW n \in Nat, Awaits(j, does, c, n),
         does \in {"load", "save", "preview", "create", "copy"},
         does = "save" => c \in Contents /\ n \in 0..MaxVersion /\ n < MaxVersion,
         does = "preview" => n \in 1..Len(draft'),
         does = "create" => n \in 1..Len(commands')
  PROVE  JobsInv' /\ busy' = TRUE
<1> DEFINE r == [does |-> does, content |-> c, number |-> n, reply |-> "awaited"]
<1>1. /\ r \in JobTypes /\ r.reply = "awaited" /\ r.number = n /\ r.does = does /\ r.content = c
      /\ job' = [job EXCEPT ![j] = r] /\ busy' = TRUE
  BY DEF JobTypes, Awaits
<1> HIDE DEF r
<1>2. JobFits(r, draft', previews', commands')
  BY <1>1 DEF JobFits
<1> QED
  BY <1>1, <1>2, JobGoes

\* The editor stays as it was, though there is more at the server.
LEMMA EditorStays ==
  ASSUME CreationInv, ServerInv', AllGrown, UNCHANGED <<editor, pending>>, busy' \in BOOLEAN
  PROVE  EditorInv'
<1>1. /\ Len(draft) \in Nat /\ Len(previews) \in Nat /\ Len(commands) \in Nat
      /\ Len(draft') \in Nat /\ Len(previews') \in Nat /\ Len(commands') \in Nat
      /\ Len(draft) <= Len(draft') /\ Len(previews) <= Len(previews')
      /\ Len(commands) <= Len(commands')
  BY DEF CreationInv, ServerInv, AllGrown, Grown
<1> QED
  BY <1>1 DEF CreationInv, EditorInv, editor, page

\* What is abandoned was asked for by a handler.
LEMMA AbandonsLate ==
  ASSUME CreationInv, NEW js \in SUBSET Jobs, Abandons(js), commands' = commands
  PROVE  LateStep
<1> USE TaskCreationAssumption
<1>1. PICK rs \in SUBSET Unseen(js) : late' = late \cup rs
  BY DEF Abandons
<1>2. ASSUME NEW r \in Unseen(js)
      PROVE  /\ r \in LateTypes
             /\ r.does = "save" => r.number < MaxVersion
             /\ r.does = "create" => r.number \in 1..Len(commands')
  <2>1. ASSUME NEW j \in js, job[j].does = "save", job[j].reply = "awaited",
               r = [does |-> "save", content |-> job[j].content, number |-> job[j].number]
        PROVE  r \in LateTypes /\ r.does = "save" /\ r.number < MaxVersion
    <3>1. job[j].content \in Contents /\ job[j].number \in 0..MaxVersion /\ job[j].number < MaxVersion
      BY <2>1 DEF CreationInv, JobsInv, JobFits
    <3> QED
      BY <2>1, <3>1 DEF LateTypes
  <2>2. ASSUME NEW j \in js, job[j].does = "create",
               r = [does |-> "create", number |-> job[j].number]
        PROVE  r \in LateTypes /\ r.does = "create" /\ r.number \in 1..Len(commands')
    <3>1. job[j].number \in 1..Len(commands)
      BY <2>2 DEF CreationInv, JobsInv, JobFits
    <3>2. Len(commands) \in Nat /\ Len(commands) <= MaxCommands
      BY DEF CreationInv, ServerInv
    <3> QED
      BY <2>2, <3>1, <3>2 DEF LateTypes, Keys
  <2> QED
    BY <2>1, <2>2 DEF Unseen
<1> QED
  BY <1>1, <1>2 DEF LateStep

-----------------------------------------------------------------------------
(* What each action keeps *)

Kept == ServerInv' /\ LateInv' /\ AllGrown

\* An action that is none of the server's leaves everything there alone.
LEMMA NothingServed ==
  ASSUME CreationInv, UNCHANGED <<server, commands>>, LateStep
  PROVE  Kept
<1>1. terms' \in 1..MaxTerms
  BY DEF CreationInv, ServerInv, server
<1> QED
  BY <1>1, StepsKeep
  DEF Kept, Steps, DraftStep, PreviewStep, CommandStep, TaskStep, server

LEMMA LateStays == UNCHANGED <<late, commands>> /\ CreationInv => LateStep
  BY DEF LateStep

\* A page that has been emptied, with content c of version v.
LEMMA FreshEditor ==
  ASSUME CreationInv, ServerInv', AllGrown, content' \in Contents \cup {None},
         saved' \in 0..Len(draft'), NoPreview, conflict' \in BOOLEAN, busy' \in BOOLEAN,
         pending' \in 0..Len(commands')
  PROVE  EditorInv'
<1>1. Len(previews') \in Nat
  BY DEF ServerInv
<1> QED
  BY <1>1 DEF EditorInv, NoPreview

LEMMA OpenKeeps == CreationInv /\ Open => CreationInv'
<1> SUFFICES ASSUME CreationInv, Open PROVE CreationInv'
  OBVIOUS
<1>1. Kept
  BY AbandonsLate, NothingServed DEF Open
<1>2. JobsInv' /\ busy' \in BOOLEAN
  <2>1. CASE content' \in Contents /\ job' = [j \in Jobs |-> Idle] /\ busy' = FALSE
    BY <2>1, JobsStop
  <2>2. ASSUME NEW j \in Jobs, busy' = TRUE,
               job' = [[i \in Jobs |-> Idle] EXCEPT ![j].does = "load", ![j].reply = "awaited"]
        PROVE  JobsInv' /\ busy' \in BOOLEAN
    <3> DEFINE r == [Idle EXCEPT !.does = "load", !.reply = "awaited"]
    <3>1. /\ r \in JobTypes /\ r.does = "load" /\ r.reply = "awaited"
          /\ job' = [i \in Jobs |-> IF i = j THEN r ELSE Idle]
      BY <2>2 DEF Idle, JobTypes
    <3> HIDE DEF r
    <3>2. JobFits(r, draft', previews', commands')
      BY <3>1 DEF JobFits
    <3>3. \A i \in Jobs : JobFits(job'[i], draft', previews', commands')
      BY <3>1, <3>2, IdleFits
    <3>4. job' \in [Jobs -> JobTypes]
      BY <3>1 DEF Idle, JobTypes
    <3> QED
      BY <2>2, <3>3, <3>4 DEF JobsInv
  <2> QED
    BY <2>1, <2>2 DEF Open
<1>3. EditorInv'
  <2>1. content' \in Contents \cup {None} /\ saved' = 0 /\ NoPreview /\ conflict' \in BOOLEAN
    BY DEF Open
  <2>2. saved' \in 0..Len(draft') /\ pending' \in 0..Len(commands')
    BY <1>1, <2>1 DEF Open, Kept, ServerInv, CreationInv, EditorInv
  <2> QED
    BY <1>1, <1>2, <2>1, <2>2, FreshEditor DEF Kept
<1> QED
  BY <1>1, <1>2, <1>3 DEF CreationInv, Kept

\* The editor is typed in, or its box is ticked.
LEMMA InputKeeps ==
  CreationInv /\ (Confirm \/ \E c \in Contents : change(c)) => CreationInv'
<1> SUFFICES ASSUME CreationInv, Confirm \/ \E c \in Contents : change(c) PROVE CreationInv'
  OBVIOUS
<1>1. UNCHANGED <<server, commands, late, saved, conflict, busy, pending, job>>
  BY DEF Confirm, change
<1>2. Kept
  BY <1>1, LateStays, NothingServed
<1>3. JobsInv'
  BY <1>1, <1>2, JobsStay DEF Kept
<1>4. content' \in Contents \cup {None}
  BY DEF Confirm, change, CreationInv, EditorInv
<1>5. preview' \in 0..Len(previews') /\ confirmed' \in {0, preview'}
  <2>1. Len(previews) \in Nat /\ previews' = previews
    BY <1>1 DEF CreationInv, ServerInv, server
  <2> QED
    BY <2>1 DEF Confirm, change, NoPreview, CreationInv, EditorInv
<1>6. /\ saved' \in 0..Len(draft') /\ conflict' \in BOOLEAN /\ busy' \in BOOLEAN
      /\ pending' \in 0..Len(commands')
  BY <1>1 DEF CreationInv, EditorInv, server
<1>7. EditorInv'
  BY <1>4, <1>5, <1>6 DEF EditorInv
<1> QED
  BY <1>2, <1>3, <1>7 DEF CreationInv, Kept

\* A handler that asks for something, and nothing else happens.
LEMMA AsksKeeps ==
  ASSUME CreationInv, UNCHANGED <<server, commands, late, editor, pending>>,
         JobsInv', busy' \in BOOLEAN
  PROVE  CreationInv'
<1>1. Kept
  BY LateStays, NothingServed
<1>2. EditorInv'
  BY <1>1, EditorStays DEF Kept
<1> QED
  BY <1>1, <1>2 DEF CreationInv, Kept

LEMMA RequestKeeps ==
  ASSUME CreationInv, NEW j \in Jobs, persist(j) \/ copyAsNew(j) \/ load(j)
  PROVE  CreationInv'
<1> USE TaskCreationAssumption
<1>1. UNCHANGED <<server, commands, late, editor, pending>>
  BY DEF persist, copyAsNew, load
<1>2. Kept
  BY <1>1, LateStays, NothingServed
<1>3. JobsInv' /\ busy' = TRUE
  <2>1. CASE persist(j)
    <3>1. /\ Awaits(j, "save", content, saved) /\ content \in Contents
          /\ saved \in 0..MaxVersion /\ saved < MaxVersion /\ saved \in Nat
      BY <2>1 DEF persist, Ready, CreationInv, EditorInv, ServerInv
    <3> HIDE TaskCreationAssumption
    <3> DEFINE n == saved
               c == content
    <3>2. n \in Nat /\ c \in Contents /\ Awaits(j, "save", c, n) /\ n \in 0..MaxVersion /\ n < MaxVersion
      BY <3>1
    <3> HIDE DEF n, c
    <3> QED
      BY <1>2, <3>2, JobAwaits DEF Kept
  <2>2. CASE copyAsNew(j) \/ load(j)
    <3>1. Awaits(j, "copy", None, 0) \/ Awaits(j, "load", None, 0)
      BY <2>2 DEF copyAsNew, load
    <3> QED
      BY <1>2, <3>1, JobAwaits DEF Kept
  <2> QED
    BY <2>1, <2>2
<1>4. busy' \in BOOLEAN
  BY <1>3
<1> QED
  BY <1>1, <1>3, <1>4, AsksKeeps

LEMMA CreateKeeps ==
  ASSUME CreationInv, NEW j \in Jobs, create(j)
  PROVE  CreationInv'
<1> USE TaskCreationAssumption
<1>1. Len(previews) \in Nat /\ Len(commands) \in Nat /\ Len(draft) \in Nat
  BY DEF CreationInv, ServerInv
<1>2. preview \in 1..Len(previews) /\ confirmed = preview
  BY <1>1 DEF create, CreationInv, EditorInv
<1>3. CommandStep
  BY <1>2 DEF create, CommandStep
<1>4. Len(commands') = Len(commands) + 1
  <2>1. [preview |-> preview, confirmed |-> confirmed] \in CommandTypes
    BY <1>1, <1>2 DEF CommandTypes, Numbers, CreationInv, ServerInv
  <2> QED
    BY <2>1, AppendGrows DEF create, CreationInv, ServerInv
<1>5. Steps
  <2>1. UNCHANGED <<draft, terms, previews, tasks, late>>
    BY DEF create, server
  <2> QED
    BY <1>3, <2>1 DEF Steps, DraftStep, PreviewStep, TaskStep, LateStep, CreationInv, ServerInv
<1>6. Kept
  BY <1>5, StepsKeep DEF Kept
<1>7. JobsInv' /\ busy' = TRUE
  <2>1. Awaits(j, "create", None, Len(commands) + 1) /\ Len(commands) + 1 \in 1..Len(commands')
    BY <1>1, <1>4 DEF create
  <2> DEFINE n == Len(commands) + 1
  <2>2. Awaits(j, "create", None, n) /\ n \in 1..Len(commands') /\ n \in Nat
    BY <1>1, <2>1
  <2> HIDE DEF n
  <2> QED
    BY <1>6, <2>2, JobAwaits DEF Kept
<1>8. EditorInv'
  <2>1. pending' \in 0..Len(commands') /\ busy' \in BOOLEAN
    BY <1>1, <1>4, <1>7 DEF create
  <2>2. UNCHANGED <<content, saved, preview, confirmed, conflict, draft, previews>>
    BY DEF create, editor, page, server
  <2> QED
    BY <2>1, <2>2 DEF CreationInv, EditorInv
<1> QED
  BY <1>6, <1>7, <1>8 DEF CreationInv, Kept

LEMMA NoticeKeeps == CreationInv /\ Notice => CreationInv'
<1> SUFFICES ASSUME CreationInv, Notice PROVE CreationInv'
  OBVIOUS
<1> USE TaskCreationAssumption
<1>1. /\ Len(commands) \in Nat /\ Len(commands) <= MaxCommands
      /\ pending \in 1..Len(commands) /\ pending' \in {0, pending}
      /\ UNCHANGED <<server, commands, editor, busy, job>>
  BY DEF Notice, CreationInv, ServerInv, EditorInv
<1>2. LateStep
  <2>1. ASSUME NEW r \in late', r \notin late
        PROVE  r = [does |-> "create", number |-> pending]
    BY <2>1 DEF Notice
  <2>2. [does |-> "create", number |-> pending] \in LateTypes
    BY <1>1 DEF LateTypes, Keys
  <2> QED
    BY <1>1, <2>1, <2>2 DEF LateStep
<1>3. Kept
  BY <1>1, <1>2, NothingServed
<1>4. JobsInv'
  BY <1>1, <1>3, JobsStay DEF Kept
<1>5. EditorInv'
  <2>1. pending' \in 0..Len(commands')
    BY <1>1
  <2>2. /\ UNCHANGED <<content, saved, preview, confirmed, conflict, busy>>
        /\ UNCHANGED <<draft, previews>>
    BY <1>1 DEF editor, page, server
  <2> QED
    BY <2>1, <2>2 DEF CreationInv, EditorInv
<1> QED
  BY <1>3, <1>4, <1>5 DEF CreationInv, Kept

\* An answer of the server, told to the handler or not.
LEMMA ServedKeeps ==
  ASSUME CreationInv, Kept, UNCHANGED <<editor, busy, pending>>, JobsInv'
  PROVE  CreationInv'
<1>1. busy' \in BOOLEAN
  BY DEF CreationInv, EditorInv
<1>2. EditorInv'
  BY <1>1, EditorStays DEF Kept
<1> QED
  BY <1>2 DEF CreationInv, Kept

\* What a save does to the draft, for a version that is not the last one.
LEMMA SaveSteps ==
  ASSUME CreationInv, NEW c \in Contents, NEW v \in 0..MaxVersion, v < MaxVersion, Save(c, v)
  PROVE  /\ DraftStep
         /\ Accepts(c, v) => v + 1 \in 1..Len(draft') /\ draft'[v + 1] = c
<1> USE TaskCreationAssumption
<1>1. draft \in Seq(Contents) /\ Len(draft) \in Nat
  BY DEF CreationInv, ServerInv
<1>2. CASE Len(draft) = v
  <2>1. draft' = Append(draft, c)
    BY <1>2 DEF Save
  <2>2. Len(draft') = Len(draft) + 1 /\ draft'[Len(draft) + 1] = c
    BY <1>1, <2>1, AppendGrows
  <2> QED
    BY <1>1, <1>2, <2>1, <2>2 DEF DraftStep
<1>3. CASE Len(draft) # v
  <2>1. draft' = draft
    BY <1>3 DEF Save
  <2> QED
    BY <1>1, <1>3, <2>1 DEF DraftStep, Accepts, Repeated
<1> QED
  BY <1>2, <1>3

LEMMA ServeSaveKeeps ==
  ASSUME CreationInv, NEW j \in Jobs, ServeSave(j)
  PROVE  CreationInv'
<1> USE TaskCreationAssumption
<1> DEFINE c == job[j].content
           v == job[j].number
<1>1. /\ job[j].does = "save" /\ c \in Contents /\ v \in 0..MaxVersion /\ v < MaxVersion /\ v \in Nat
      /\ Save(c, v)
      /\ Accepts(c, v) => Told(j, "ok", v + 1)
      /\ ~Accepts(c, v) => Denied(j, "refused")
      /\ UNCHANGED <<terms, previews, tasks, commands, late, editor, busy, pending>>
  BY DEF ServeSave, Awaited, CreationInv, JobsInv, JobFits
<1>2. DraftStep /\ (Accepts(c, v) => v + 1 \in 1..Len(draft') /\ draft'[v + 1] = c)
  <2> HIDE DEF c, v
  <2> QED
    BY <1>1, SaveSteps
<1>3. Kept
  BY <1>1, <1>2, StepsKeep
  DEF Kept, Steps, PreviewStep, CommandStep, TaskStep, LateStep, CreationInv, ServerInv
<1>4. JobsInv'
  <2>1. CASE Accepts(c, v)
    <3> DEFINE n == v + 1
    <3>1. n \in Nat /\ Told(j, "ok", n) /\ n \in 1..Len(draft') /\ draft'[n] = job[j].content
      BY <1>1, <1>2, <2>1
    <3> HIDE DEF n
    <3> QED
      BY <1>1, <1>3, <3>1, JobTold DEF Kept
  <2>2. CASE ~Accepts(c, v)
    BY <1>1, <1>3, <2>2, JobDenied DEF Kept
  <2> QED
    BY <2>1, <2>2
<1> QED
  BY <1>1, <1>3, <1>4, ServedKeeps

LEMMA ElsewhereKeeps ==
  ASSUME CreationInv, NEW c \in Contents, SaveElsewhere(c)
  PROVE  CreationInv'
<1>1. UNCHANGED <<terms, previews, tasks, commands, late, editor, busy, pending, job>>
  BY DEF SaveElsewhere
<1>2. Kept
  BY <1>1, StepsKeep
  DEF SaveElsewhere, Kept, Steps, DraftStep, PreviewStep, CommandStep, TaskStep, LateStep,
      CreationInv, ServerInv
<1>3. JobsInv'
  BY <1>1, <1>2, JobsStay DEF Kept
<1> QED
  BY <1>1, <1>2, <1>3, ServedKeeps

LEMMA ServeLoadKeeps ==
  ASSUME CreationInv, NEW j \in Jobs, ServeLoad(j)
  PROVE  CreationInv'
<1>1. /\ job[j].does = "load" /\ Len(draft) \in Nat /\ (draft # << >> => Len(draft) # 0)
      /\ UNCHANGED <<server, commands, late, editor, busy, pending>>
  BY DEF ServeLoad, Awaited, CreationInv, ServerInv
<1>2. Kept
  BY <1>1, LateStays, NothingServed
<1>3. JobsInv'
  <2>1. CASE draft = << >>
    BY <1>2, <2>1, JobDenied DEF ServeLoad, Kept
  <2>2. CASE draft # << >>
    <3> DEFINE n == Len(draft)
    <3>1. n \in Nat /\ Told(j, "ok", n) /\ n \in 1..Len(draft')
      BY <1>1, <2>2 DEF ServeLoad, server
    <3> HIDE DEF n
    <3> QED
      BY <1>1, <1>2, <3>1, JobTold DEF Kept
  <2> QED
    BY <2>1, <2>2
<1> QED
  BY <1>1, <1>2, <1>3, ServedKeeps

LEMMA ServePreviewKeeps ==
  ASSUME CreationInv, NEW j \in Jobs, ServePreview(j)
  PROVE  CreationInv'
<1> USE TaskCreationAssumption
<1>1. /\ job[j].does = "preview" /\ job[j].number \in 1..Len(draft)
      /\ UNCHANGED <<draft, terms, tasks, commands, late, editor, busy, pending>>
  BY DEF ServePreview, Awaited, CreationInv, JobsInv, JobFits
<1>2. /\ previews \in Seq(PreviewTypes) /\ Len(previews) \in Nat
      /\ draft \in Seq(Contents) /\ Len(draft) \in Nat /\ Len(draft) <= MaxVersion
      /\ terms \in 1..MaxTerms
  BY DEF CreationInv, ServerInv
<1> DEFINE p == [version |-> Len(draft), content |-> Current, terms |-> terms,
                 can_create |-> terms \notin Blocking]
<1>3. Len(draft) = job[j].number => p \in PreviewTypes
  <2>1. ASSUME Len(draft) = job[j].number
        PROVE  Len(draft) \in Versions /\ Current \in Contents
    BY <1>1, <1>2, <2>1 DEF Versions, Current
  <2>2. (terms \notin Blocking) \in BOOLEAN
    OBVIOUS
  <2> QED
    BY <1>2, <2>1, <2>2, Zenon DEF PreviewTypes
<1>4. \/ Denied(j, "failed") /\ previews' = previews
      \/ /\ Len(previews) < MaxPreviews /\ p \in PreviewTypes
         /\ previews' = Append(previews, p) /\ Told(j, "ok", Len(previews) + 1)
  BY <1>3 DEF ServePreview
<1> HIDE DEF p
<1>5. Kept
  <2>1. PreviewStep
    BY <1>4 DEF PreviewStep
  <2> QED
    BY <1>1, <1>2, <2>1, StepsKeep
    DEF Kept, Steps, DraftStep, CommandStep, TaskStep, LateStep
<1>6. JobsInv'
  <2>1. CASE Denied(j, "failed")
    BY <1>5, <2>1, JobDenied DEF Kept
  <2>2. CASE p \in PreviewTypes /\ previews' = Append(previews, p) /\ Told(j, "ok", Len(previews) + 1)
    <3> DEFINE n == Len(previews) + 1
    <3>1. n \in Nat /\ Told(j, "ok", n) /\ n \in 1..Len(previews')
      BY <1>2, <2>2, AppendGrows
    <3> HIDE DEF n
    <3> QED
      BY <1>1, <1>5, <3>1, JobTold DEF Kept
  <2> QED
    BY <1>4, <2>1, <2>2
<1> QED
  BY <1>1, <1>5, <1>6, ServedKeeps

LEMMA ServeCreateKeeps ==
  ASSUME CreationInv, NEW j \in Jobs, ServeCreate(j)
  PROVE  CreationInv'
<1> DEFINE k == job[j].number
<1>1. /\ job[j].does = "create" /\ k \in 1..Len(commands) /\ Len(commands) \in Nat /\ Create(k)
      /\ Told(j, "ok", k) \/ Denied(j, "refused")
      /\ UNCHANGED <<draft, terms, previews, commands, late, editor, busy, pending>>
  BY DEF ServeCreate, Awaited, CreationInv, JobsInv, JobFits, ServerInv
<1> HIDE DEF k
<1>2. Kept
  <2>1. TaskStep
    BY <1>1 DEF TaskStep, Create
  <2> QED
    BY <1>1, <2>1, StepsKeep
    DEF Kept, Steps, DraftStep, PreviewStep, CommandStep, LateStep, CreationInv, ServerInv
<1>3. JobsInv'
  <2>1. CASE Told(j, "ok", k)
    <3>1. k \in Nat /\ k \in 1..Len(commands')
      BY <1>1
    <3> QED
      BY <1>1, <1>2, <2>1, <3>1, JobTold DEF Kept
  <2>2. CASE Denied(j, "refused")
    BY <1>2, <2>2, JobDenied DEF Kept
  <2> QED
    BY <1>1, <2>1, <2>2
<1> QED
  BY <1>1, <1>2, <1>3, ServedKeeps

LEMMA OtherwiseKeeps ==
  ASSUME CreationInv, NEW j \in Jobs, ServeOtherwise(j)
  PROVE  CreationInv'
<1>1. UNCHANGED <<server, commands, late, editor, busy, pending>>
  BY DEF ServeOtherwise
<1>2. Kept
  BY <1>1, LateStays, NothingServed
<1>3. JobsInv'
  <2>1. CASE job[j].does = "copy" /\ Told(j, "ok", 0)
    BY <1>2, <2>1, JobTold DEF Kept
  <2>2. CASE Denied(j, "refused")
    BY <1>2, <2>2, JobDenied DEF Kept
  <2> QED
    BY <2>1, <2>2 DEF ServeOtherwise
<1> QED
  BY <1>1, <1>2, <1>3, ServedKeeps

LEMMA FailsKeeps ==
  ASSUME CreationInv, NEW j \in Jobs, Fails(j)
  PROVE  CreationInv'
<1>1. UNCHANGED <<server, commands, editor, busy, pending>> /\ Abandons({j}) /\ Denied(j, "failed")
  BY DEF Fails
<1>2. Kept
  BY <1>1, AbandonsLate, NothingServed
<1>3. JobsInv'
  BY <1>1, <1>2, JobDenied DEF Kept
<1> QED
  BY <1>1, <1>2, <1>3, ServedKeeps

LEMMA ServeLateKeeps ==
  ASSUME CreationInv, NEW r \in late, ServeLate(r)
  PROVE  CreationInv'
<1> USE TaskCreationAssumption
<1>1. /\ late' \subseteq late
      /\ UNCHANGED <<terms, previews, commands, editor, busy, pending, job>>
  BY DEF ServeLate
<1>2. DraftStep /\ TaskStep
  <2>1. CASE r.does = "save" /\ Save(r.content, r.number) /\ UNCHANGED tasks
    <3>1. r.content \in Contents /\ r.number \in 0..MaxVersion /\ r.number < MaxVersion
      BY <2>1 DEF CreationInv, LateInv, LateTypes
    <3> DEFINE c == r.content
               v == r.number
    <3>2. c \in Contents /\ v \in 0..MaxVersion /\ v < MaxVersion /\ Save(c, v)
      BY <2>1, <3>1
    <3> HIDE DEF c, v
    <3>3. DraftStep
      BY <3>2, SaveSteps
    <3> QED
      BY <2>1, <3>3 DEF TaskStep
  <2>2. CASE r.does = "create" /\ Create(r.number) /\ UNCHANGED draft
    <3>1. r.number \in 1..Len(commands)
      BY <2>2 DEF CreationInv, LateInv
    <3> QED
      BY <2>2, <3>1 DEF DraftStep, TaskStep, Create
  <2> QED
    BY <2>1, <2>2 DEF ServeLate
<1>3. Kept
  BY <1>1, <1>2, StepsKeep
  DEF Kept, Steps, PreviewStep, CommandStep, LateStep, CreationInv, ServerInv
<1>4. JobsInv'
  BY <1>1, <1>3, JobsStay DEF Kept
<1> QED
  BY <1>1, <1>3, <1>4, ServedKeeps

LEMMA TermsKeep == CreationInv /\ NewTerms => CreationInv'
<1> SUFFICES ASSUME CreationInv, NewTerms PROVE CreationInv'
  OBVIOUS
<1> USE TaskCreationAssumption
<1>1. UNCHANGED <<draft, previews, tasks, commands, late, editor, busy, pending, job>>
  BY DEF NewTerms
<1>2. terms' \in 1..MaxTerms
  BY DEF NewTerms, CreationInv, ServerInv
<1>3. Kept
  BY <1>1, <1>2, StepsKeep
  DEF Kept, Steps, DraftStep, PreviewStep, CommandStep, TaskStep, LateStep
<1>4. JobsInv'
  BY <1>1, <1>3, JobsStay DEF Kept
<1> QED
  BY <1>1, <1>3, <1>4, ServedKeeps

-----------------------------------------------------------------------------
(* The handlers go on *)

LEMMA SavedKeeps ==
  ASSUME CreationInv, NEW j \in Jobs, Saved(j)
  PROVE  CreationInv'
<1> DEFINE v == job[j].number
<1>1. /\ v \in 1..Len(draft) /\ v \in Nat
      /\ TakesOver(v)
      /\ Ends(j) \/ Awaits(j, "preview", None, v)
      /\ UNCHANGED <<server, commands, late, page, pending>>
  BY DEF Saved, Answered, Ok, CreationInv, JobsInv, JobFits, JobTypes
<1> HIDE DEF v
<1>2. Kept
  BY <1>1, LateStays, NothingServed
<1>3. JobsInv' /\ busy' \in BOOLEAN
  <2>1. CASE Ends(j)
    BY <1>2, <2>1, JobEnds DEF Kept
  <2>2. CASE Awaits(j, "preview", None, v)
    <3>1. v \in 1..Len(draft')
      BY <1>1 DEF server
    <3> QED
      BY <1>1, <1>2, <2>2, <3>1, JobAwaits DEF Kept
  <2> QED
    BY <1>1, <2>1, <2>2
<1>4. EditorInv'
  <2>1. content' \in Contents /\ saved' \in 0..Len(draft') /\ conflict' \in BOOLEAN
    <3>1. content' = draft[v] /\ saved' = v /\ conflict' = FALSE /\ draft' = draft
      BY <1>1 DEF TakesOver, server
    <3>2. draft \in Seq(Contents) /\ Len(draft) \in Nat
      BY DEF CreationInv, ServerInv
    <3>3. conflict' \in BOOLEAN
      BY <3>1
    <3> QED
      BY <1>1, <3>1, <3>2, <3>3
  <2>2. UNCHANGED <<preview, confirmed, pending, previews, commands>>
    BY <1>1 DEF page, server
  <2> QED
    BY <1>3, <2>1, <2>2 DEF CreationInv, EditorInv
<1> QED
  BY <1>2, <1>3, <1>4 DEF CreationInv, Kept

LEMMA NotSavedKeeps ==
  ASSUME CreationInv, NEW j \in Jobs, NotSaved(j)
  PROVE  CreationInv'
<1>1. /\ UNCHANGED <<server, commands, late, content, saved, page, pending>> /\ Ends(j)
      /\ conflict' \in BOOLEAN
  BY Zenon DEF NotSaved
<1>2. Kept
  BY <1>1, LateStays, NothingServed
<1>3. JobsInv' /\ busy' = FALSE
  BY <1>1, <1>2, JobEnds DEF Kept
<1>4. EditorInv'
  <2>1. UNCHANGED <<preview, confirmed, draft, previews>>
    BY <1>1 DEF page, server
  <2> QED
    BY <1>1, <1>3, <2>1 DEF CreationInv, EditorInv
<1> QED
  BY <1>2, <1>3, <1>4 DEF CreationInv, Kept

LEMMA LoadedKeeps ==
  ASSUME CreationInv, NEW j \in Jobs, Loaded(j)
  PROVE  CreationInv'
<1>1. /\ job[j].number \in 1..Len(draft) /\ TakesOver(job[j].number) /\ NoPreview /\ Ends(j)
      /\ UNCHANGED <<server, commands, late, pending>>
  BY DEF Loaded, Answered, Ok, CreationInv, JobsInv, JobFits
<1>2. Kept
  BY <1>1, LateStays, NothingServed
<1>3. JobsInv' /\ busy' = FALSE
  BY <1>1, <1>2, JobEnds DEF Kept
<1>4. EditorInv'
  <2>1. content' \in Contents /\ saved' \in 0..Len(draft') /\ conflict' \in BOOLEAN
    <3>1. content' = draft[job[j].number] /\ saved' = job[j].number /\ conflict' = FALSE /\ draft' = draft
      BY <1>1 DEF TakesOver, server
    <3>2. draft \in Seq(Contents) /\ Len(draft) \in Nat
      BY DEF CreationInv, ServerInv
    <3>3. conflict' \in BOOLEAN
      BY <3>1
    <3> QED
      BY <1>1, <3>1, <3>2, <3>3
  <2>2. pending' \in 0..Len(commands') /\ busy' \in BOOLEAN
    BY <1>1, <1>3 DEF CreationInv, EditorInv
  <2> QED
    BY <1>1, <1>2, <2>1, <2>2, FreshEditor DEF Kept
<1> QED
  BY <1>2, <1>3, <1>4 DEF CreationInv, Kept

LEMMA PreviewedKeeps ==
  ASSUME CreationInv, NEW j \in Jobs, Previewed(j)
  PROVE  CreationInv'
<1>1. /\ job[j].number \in 1..Len(previews) /\ preview' = job[j].number /\ confirmed' = 0 /\ Ends(j)
      /\ UNCHANGED <<server, commands, late, content, saved, conflict, pending>>
  BY DEF Previewed, Answered, Ok, CreationInv, JobsInv, JobFits
<1>2. Kept
  BY <1>1, LateStays, NothingServed
<1>3. JobsInv' /\ busy' = FALSE
  BY <1>1, <1>2, JobEnds DEF Kept
<1>4. EditorInv'
  <2>1. preview' \in 0..Len(previews') /\ confirmed' \in {0, preview'} /\ UNCHANGED draft
    BY <1>1 DEF server, CreationInv, ServerInv
  <2> QED
    BY <1>1, <1>3, <2>1 DEF CreationInv, EditorInv
<1> QED
  BY <1>2, <1>3, <1>4 DEF CreationInv, Kept

LEMMA NotDoneKeeps ==
  ASSUME CreationInv, NEW j \in Jobs, NotDone(j)
  PROVE  CreationInv'
<1>1. UNCHANGED <<server, commands, late, editor, pending>> /\ Ends(j)
  BY DEF NotDone
<1>2. Kept
  BY <1>1, LateStays, NothingServed
<1>3. JobsInv' /\ busy' = FALSE
  BY <1>1, <1>2, JobEnds DEF Kept
<1>4. busy' \in BOOLEAN
  BY <1>3
<1> QED
  BY <1>1, <1>3, <1>4, AsksKeeps

LEMMA LeavesKeeps ==
  ASSUME CreationInv, NEW j \in Jobs, Leaves(j)
  PROVE  CreationInv'
<1>1. /\ UNCHANGED <<server, commands>> /\ Abandons(Jobs) /\ NoPreview
      /\ content' = None /\ saved' = 0 /\ conflict' = FALSE /\ busy' = FALSE
      /\ job' = [i \in Jobs |-> Idle] /\ pending' \in {0, pending}
  BY DEF Leaves, Settled
<1>2. Kept
  BY <1>1, AbandonsLate, NothingServed
<1>3. JobsInv'
  BY <1>1, JobsStop
<1>4. EditorInv'
  <2>1. Len(draft') \in Nat /\ Len(commands') \in Nat
    BY <1>2 DEF Kept, ServerInv
  <2>2. saved' \in 0..Len(draft') /\ pending' \in 0..Len(commands')
    BY <1>1, <2>1 DEF CreationInv, EditorInv
  <2>3. content' \in Contents \cup {None} /\ conflict' \in BOOLEAN /\ busy' \in BOOLEAN
    BY <1>1
  <2> QED
    BY <1>1, <1>2, <2>2, <2>3, FreshEditor DEF Kept
<1> QED
  BY <1>2, <1>3, <1>4 DEF CreationInv, Kept

LEMMA NotCreatedKeeps ==
  ASSUME CreationInv, NEW j \in Jobs, NotCreated(j)
  PROVE  CreationInv'
<1>1. UNCHANGED <<server, commands, late, editor>> /\ Ends(j) /\ pending' \in {0, pending}
  BY DEF NotCreated, Settled
<1>2. Kept
  BY <1>1, LateStays, NothingServed
<1>3. JobsInv' /\ busy' = FALSE
  BY <1>1, <1>2, JobEnds DEF Kept
<1>4. EditorInv'
  <2>1. Len(commands) \in Nat
    BY DEF CreationInv, ServerInv
  <2>2. pending' \in 0..Len(commands')
    BY <1>1, <2>1 DEF CreationInv, EditorInv
  <2>4. busy' \in BOOLEAN
    BY <1>3
  <2>3. UNCHANGED <<content, saved, preview, confirmed, conflict, draft, previews>>
    BY <1>1 DEF editor, page, server
  <2> QED
    BY <2>2, <2>3, <2>4 DEF CreationInv, EditorInv
<1> QED
  BY <1>2, <1>3, <1>4 DEF CreationInv, Kept

-----------------------------------------------------------------------------
LEMMA StutterKeeps == CreationInv /\ UNCHANGED vars => CreationInv'
<1> SUFFICES ASSUME CreationInv, UNCHANGED vars PROVE CreationInv'
  OBVIOUS
<1>1. UNCHANGED <<server, commands, late, editor, busy, pending, job>>
  BY DEF vars
<1>2. Kept
  BY <1>1, LateStays, NothingServed
<1>3. JobsInv'
  BY <1>1, <1>2, JobsStay DEF Kept
<1> QED
  BY <1>1, <1>2, <1>3, ServedKeeps

LEMMA NextKeeps == CreationInv /\ [Next]_vars => CreationInv'
<1> SUFFICES ASSUME CreationInv, [Next]_vars PROVE CreationInv'
  OBVIOUS
<1>1. CASE Open \/ Confirm \/ Notice \/ NewTerms
  BY <1>1, OpenKeeps, InputKeeps, NoticeKeeps, TermsKeep
<1>2. ASSUME NEW c \in Contents, change(c) \/ SaveElsewhere(c)
      PROVE  CreationInv'
  BY <1>2, InputKeeps, ElsewhereKeeps
<1>3. ASSUME NEW r \in late, ServeLate(r)
      PROVE  CreationInv'
  BY <1>3, ServeLateKeeps
<1>4. ASSUME NEW j \in Jobs, persist(j) \/ copyAsNew(j) \/ load(j) \/ create(j)
      PROVE  CreationInv'
  BY <1>4, RequestKeeps, CreateKeeps
<1>5. ASSUME NEW j \in Jobs,
             \/ ServeSave(j) \/ ServeLoad(j) \/ ServePreview(j) \/ ServeCreate(j)
             \/ ServeOtherwise(j) \/ Fails(j)
      PROVE  CreationInv'
  BY <1>5, ServeSaveKeeps, ServeLoadKeeps, ServePreviewKeeps, ServeCreateKeeps,
     OtherwiseKeeps, FailsKeeps
<1>6. ASSUME NEW j \in Jobs,
             \/ Saved(j) \/ NotSaved(j) \/ Loaded(j) \/ Previewed(j) \/ NotDone(j)
             \/ Leaves(j) \/ NotCreated(j)
      PROVE  CreationInv'
  BY <1>6, SavedKeeps, NotSavedKeeps, LoadedKeeps, PreviewedKeeps, NotDoneKeeps,
     LeavesKeeps, NotCreatedKeeps
<1>7. CASE UNCHANGED vars
  BY <1>7, StutterKeeps
<1> QED
  BY <1>1, <1>2, <1>3, <1>4, <1>5, <1>6, <1>7 DEF Next

\* Every variable of the editor and the server has its type, for any bounds.
THEOREM CreationTypeCorrect == Spec => []TypeOK
  BY InitInv, NextKeeps, InvTyped, PTL DEF Spec

\* A version that an editor was told of holds what the editor sent.
THEOREM AcknowledgedDraftIsStored == Spec => []AcknowledgedIsStored
  BY InitInv, NextKeeps, InvStored, PTL DEF Spec

\* A task is like the preview that its user confirmed.
THEOREM ConfirmedTaskIsCreated == Spec => []TaskIsAsConfirmed
  BY InitInv, NextKeeps, InvConfirmed, PTL DEF Spec
=============================================================================
