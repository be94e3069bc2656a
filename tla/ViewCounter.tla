------------------------------ MODULE ViewCounter ------------------------------
(***************************************************************************)
(* The view counter of one article.  POST /api/public/views adds one by    *)
(* raw SQL to the main row, past Payload and its hooks.  Every update by   *)
(* Payload starts from the latest version, whose views are those of the    *)
(* time it was stored, and writes all columns.                             *)
(***************************************************************************)
EXTENDS Naturals

CONSTANTS
  Readers, Editors,
  NoArticle, Idle,    \* model values
  MaxViews, MaxSaves  \* bounds

BoundsAssumption == MaxViews \in Nat /\ MaxSaves \in Nat /\ NoArticle \notin Nat

VARIABLES
  main, latest,  \* views, or NoArticle
  public,        \* workflowStatus is published
  reader,        \* views at work
  editor,        \* updates at work
  answered,      \* what each reader was answered last
  seen, saves,   \* counted for the bounds
  base, since    \* history: the main row's views when it was last stored, views since

vars == <<main, latest, public, reader, editor, answered, seen, saves, base, since>>

Views == 0..MaxViews
Update == [kind: {"draft", "plain", "hide"}, views: Views]

(* Types; nobody is answered more views than there were. *)
TypeOK ==
  /\ main \in Views \cup {NoArticle} /\ latest \in Views \cup {NoArticle}
  /\ main = NoArticle <=> latest = NoArticle
  /\ public \in BOOLEAN
  /\ reader \in [Readers -> Views \cup {Idle}]
  /\ editor \in [Editors -> Update \cup {Idle}]
  /\ answered \in [Readers -> Views] /\ seen \in Views /\ saves \in 0..MaxSaves
  /\ \A r \in Readers : answered[r] <= seen
  /\ base \in Views /\ since \in Views

Init ==
  /\ main = NoArticle /\ latest = NoArticle /\ public = FALSE
  /\ reader = [r \in Readers |-> Idle] /\ editor = [e \in Editors |-> Idle]
  /\ answered = [r \in Readers |-> 0]
  /\ seen = 0 /\ saves = 0 /\ base = 0 /\ since = 0

-----------------------------------------------------------------------------
Publish ==
  /\ main = NoArticle
  /\ main' = 0 /\ latest' = 0 /\ public' = TRUE
  /\ UNCHANGED <<reader, editor, answered, seen, saves, base, since>>

(* By slug: only a published article is found. *)
Find(r) ==
  /\ reader[r] = Idle /\ main # NoArticle /\ public
  /\ reader' = [reader EXCEPT ![r] = main]
  /\ UNCHANGED <<main, latest, public, editor, answered, seen, saves, base, since>>

(* Seeded fault: one more than the request has found. *)
CountedAsFound(r) == reader[r] + 1

Counted(r) == main + 1

(* By id: whatever has become of the article, unless it is gone. *)
Count(r) ==
  /\ reader[r] # Idle /\ seen < MaxViews
  /\ reader' = [reader EXCEPT ![r] = Idle]
  /\ seen' = seen + 1 /\ since' = since + 1
  /\ main' = Counted(r)
  /\ answered' = [answered EXCEPT ![r] = Counted(r)]
  /\ UNCHANGED <<latest, public, editor, saves, base>>

(* Save Draft, a plain update, or one that takes the article off the site. *)
Begin(e) ==
  /\ editor[e] = Idle /\ main # NoArticle /\ saves < MaxSaves
  /\ saves' = saves + 1
  /\ \E kind \in {"draft", "plain", "hide"} :
       editor' = [editor EXCEPT ![e] = [kind |-> kind, views |-> latest]]
  /\ UNCHANGED <<main, latest, public, reader, answered, seen, base, since>>

(* What an update leaves in the main row. *)
Stored(u) == IF u.kind = "draft" THEN main ELSE u.views

Store(e) == LET u == editor[e] IN
  /\ u # Idle
  /\ editor' = [editor EXCEPT ![e] = Idle]
  /\ latest' = u.views /\ main' = Stored(u)
  /\ public' = IF u.kind = "draft" THEN public ELSE u.kind = "plain"
  /\ IF u.kind = "draft" THEN UNCHANGED <<base, since>> ELSE base' = u.views /\ since' = 0
  /\ UNCHANGED <<reader, answered, seen, saves>>

Next ==
  \/ Publish
  \/ \E r \in Readers : Find(r) \/ Count(r)
  \/ \E e \in Editors : Begin(e) \/ Store(e)

Spec == Init /\ [][Next]_vars

-----------------------------------------------------------------------------
(* No view is lost to another view, nor to a draft: between two stores of the
   main row every view counts. *)
EveryViewCounts == main # NoArticle => main = base + since
===============================================================================
