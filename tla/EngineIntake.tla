----------------------------- MODULE EngineIntake -----------------------------
(***************************************************************************)
(* Deliveries of the content engine (src/app/api/engine/intake/route.ts):  *)
(* several requests at once, one engine that sends a draft again when the  *)
(* answer is a 5xx or does not come.                                       *)
(*                                                                         *)
(* A delivery looks for the draft's article by draft id and by source;     *)
(* if there is one it refreshes it, else it finds or makes the tag and the *)
(* byline and creates the article.  Nothing locks: tags have a unique      *)
(* index, the slug of an article is looked for before it is stored, and    *)
(* draft ids and bylines are only looked for at the beginning.             *)
(*                                                                         *)
(* A 4xx is final: the article is a human's, the engine may not update     *)
(* articles, the version is not the one it expects, or the tenant has no   *)
(* such pillar or the draft no byline when the article must be created.    *)
(* What the engine may do, a tenant's pillars and what a draft carries     *)
(* stay as they are.  Refusals that come before everything else, hero      *)
(* images (a failure is swallowed) and locked fields leave no mark here.   *)
(* What an update does to an article is the subject of ArticleWorkflow,    *)
(* and the refusals of the single-home rule that of SingleHome.            *)
(***************************************************************************)
EXTENDS Naturals, FiniteSets

CONSTANTS
  Drafts, Urls, Slugs,
  Taken,        \* the slug of an article the tenant may have already
  Expected,     \* versions an engine may expect
  Deliveries,   \* requests under way at one time
  NoDraft, NoUrl, NoVersion, NoRow, Gone, Idle,   \* model values
  MaxIds, MaxFaults, MaxTimeouts, MaxEdits   \* bounds

ASSUME NonesAssumption ==
  NoDraft \notin Drafts /\ NoUrl \notin Urls /\ NoVersion \notin Nat
ASSUME ExpectedAssumption == Expected \subseteq Nat
ASSUME TakenAssumption == Taken \in Slugs
ASSUME BoundsAssumption ==
  /\ MaxIds \in Nat \ {0} /\ MaxFaults \in Nat /\ MaxTimeouts \in Nat /\ MaxEdits \in Nat
  /\ IsFiniteSet(Deliveries)

Articles == 1..MaxIds   \* ids, drawn in order and never again

VARIABLES
  asked,      \* draft -> what its deliveries carry, and what a creation of it lacks
  mayUpdate,  \* has the engine the action update_article?
  rows,       \* the tenant's articles
  tagged,     \* is the drafts' tag there?
  bylines,    \* rows of the drafts' author
  job,        \* the requests
  told,       \* draft -> what the engine has heard of it
  faults, timeouts, edits,   \* so far
  overlapped  \* drafts of which two deliveries ran at one time (history)

vars == <<asked, mayUpdate, rows, tagged, bylines, job, told, faults, timeouts, edits, overlapped>>

Asked == [slug: Slugs, url: Urls \cup {NoUrl}, expects: Expected \cup {NoVersion},
          lacks: {"nothing", "pillar", "byline"}]
Row == [draft: Drafts \cup {NoDraft}, url: Urls \cup {NoUrl}, slug: Slugs, human: BOOLEAN,
        version: Nat]
Steps == {"byDraft", "byUrl", "refresh", "tag", "newTag", "byline", "newByline",
          "slug", "insert", "reply"}

(* found is the article to refresh; barred: did it forbid that, as it was read?
   heard: does the engine still listen? *)
Job == [draft: Drafts, at: Steps, found: Articles \cup {NoRow}, barred: BOOLEAN,
        says: {"nothing", "stored", "refused", "again"}, heard: BOOLEAN]

ASSUME RowsAssumption == NoRow \notin Row /\ Gone \notin Row /\ Idle \notin Job

Heard(d) == {x \in Deliveries : job[x] # Idle /\ job[x].draft = d /\ job[x].heard}

(* Types; and the engine waits for one delivery of a draft at a time. *)
TypeOK ==
  /\ asked \in [Drafts -> Asked] /\ mayUpdate \in BOOLEAN
  /\ rows \in [Articles -> Row \cup {NoRow, Gone}]
  /\ tagged \in BOOLEAN /\ bylines \in Nat
  /\ job \in [Deliveries -> Job \cup {Idle}]
  /\ told \in [Drafts -> {"nothing", "waiting", "stored", "refused", "again"}]
  /\ faults \in 0..MaxFaults /\ timeouts \in 0..MaxTimeouts /\ edits \in 0..MaxEdits
  /\ overlapped \subseteq Drafts
  /\ \A d \in Drafts : Cardinality(Heard(d)) = IF told[d] = "waiting" THEN 1 ELSE 0

(* At most one article of the tenant when it begins: somebody's own. *)
Init ==
  /\ asked \in [Drafts -> Asked] /\ mayUpdate \in BOOLEAN
  /\ \E own \in {NoRow, [draft |-> NoDraft, url |-> NoUrl, slug |-> Taken, human |-> TRUE,
                      version |-> 1]} :
       rows = [a \in Articles |-> IF a = 1 THEN own ELSE NoRow]
  /\ tagged = FALSE /\ bylines = 0
  /\ job = [x \in Deliveries |-> Idle]
  /\ told = [d \in Drafts |-> "nothing"]
  /\ faults = 0 /\ timeouts = 0 /\ edits = 0 /\ overlapped = {}

-----------------------------------------------------------------------------
Stored == {a \in Articles : rows[a] \notin {NoRow, Gone}}
At(x, step) == job[x] # Idle /\ job[x].at = step
Goes(x, step) == job' = [job EXCEPT ![x].at = step]

(* The answer is on its way: 201 or 200, a 4xx, or a 5xx. *)
Says(x, what) == job' = [job EXCEPT ![x].at = "reply", ![x].says = what]

(* What is new, and what was answered with a 5xx or not at all. *)
MaySend(d) == told[d] \in {"nothing", "again"}

Begin(x, d) ==
  /\ job[x] = Idle /\ MaySend(d)
  /\ told' = [told EXCEPT ![d] = "waiting"]
  /\ job' = [job EXCEPT ![x] = [draft |-> d, at |-> "byDraft", found |-> NoRow,
                                barred |-> FALSE, says |-> "nothing", heard |-> TRUE]]
  /\ overlapped' = IF \E y \in Deliveries : job[y] # Idle /\ job[y].draft = d
                   THEN overlapped \cup {d} ELSE overlapped
  /\ UNCHANGED <<asked, mayUpdate, rows, tagged, bylines, faults, timeouts, edits>>

(* It waits no longer; the request runs on. *)
TimeOut(x) ==
  /\ job[x] # Idle /\ job[x].heard
  /\ timeouts < MaxTimeouts
  /\ timeouts' = timeouts + 1
  /\ job' = [job EXCEPT ![x].heard = FALSE]
  /\ told' = [told EXCEPT ![job[x].draft] = "again"]
  /\ UNCHANGED <<asked, mayUpdate, rows, tagged, bylines, faults, edits, overlapped>>

Reply(x) ==
  /\ At(x, "reply")
  /\ told' = IF job[x].heard THEN [told EXCEPT ![job[x].draft] = job[x].says] ELSE told
  /\ job' = [job EXCEPT ![x] = Idle]
  /\ UNCHANGED <<asked, mayUpdate, rows, tagged, bylines, faults, timeouts, edits, overlapped>>

(* The database is away, the process dies or the answer is lost. *)
Fault(x) ==
  /\ job[x] # Idle
  /\ faults < MaxFaults
  /\ faults' = faults + 1
  /\ told' = IF job[x].heard THEN [told EXCEPT ![job[x].draft] = "again"] ELSE told
  /\ job' = [job EXCEPT ![x] = Idle]
  /\ UNCHANGED <<asked, mayUpdate, rows, tagged, bylines, timeouts, edits, overlapped>>

(* Seeded fault: an article is looked for by its source alone. *)
ByDraftNever(d) == {}

ByDraft(d) == {a \in Stored : rows[a].draft = d}

(* Seeded fault: a draft without a source is taken for any article without one. *)
ByUrlAny(d) == {a \in Stored : rows[a].url = asked[d].url}

ByUrl(d) == {a \in Stored : asked[d].url # NoUrl /\ rows[a].url = asked[d].url}

(* An article a human has edited is left alone, and so is any by an engine that may
   not update, or that expects another version of it. *)
Bars(a, d) ==
  rows[a].human \/ ~mayUpdate \/ asked[d].expects \notin {NoVersion, rows[a].version}

(* limit 1: any of them. *)
LookUp(x, found, else) ==
  IF found = {} THEN Goes(x, else)
  ELSE \E a \in found :
         job' = [job EXCEPT ![x].at = "refresh", ![x].found = a,
                            ![x].barred = Bars(a, job[x].draft)]

FindByDraft(x) ==
  /\ At(x, "byDraft") /\ LookUp(x, ByDraft(job[x].draft), "byUrl")
  /\ UNCHANGED <<asked, mayUpdate, rows, tagged, bylines, told, faults, timeouts, edits, overlapped>>

FindByUrl(x) ==
  /\ At(x, "byUrl") /\ LookUp(x, ByUrl(job[x].draft), "tag")
  /\ UNCHANGED <<asked, mayUpdate, rows, tagged, bylines, told, faults, timeouts, edits, overlapped>>

(* uniqueWithinTenant: an article with the slug is looked at (limit 1) and may be
   another's. *)
Clash(s, own) == \E a \in Stored \ {own} : rows[a].slug = s

(* Refused; or the update fails, as the article is gone by now or another has its
   slug too; or it is done. *)
Refresh(x) == LET a == job[x].found IN
  /\ At(x, "refresh")
  /\ \/ job[x].barred /\ Says(x, "refused") /\ UNCHANGED rows
     \/ /\ ~job[x].barred
        /\ a \in Stored => Clash(rows[a].slug, a)
        /\ Says(x, "again") /\ UNCHANGED rows
     \/ /\ ~job[x].barred /\ a \in Stored
        /\ rows' = [rows EXCEPT ![a].version = @ + 1,
                               ![a].url = IF asked[job[x].draft].url = NoUrl
                                          THEN @ ELSE asked[job[x].draft].url]
        /\ Says(x, "stored")
  /\ UNCHANGED <<asked, mayUpdate, tagged, bylines, told, faults, timeouts, edits, overlapped>>

(* There is no article: first the pillar, then the tag. *)
FindTag(x) ==
  /\ At(x, "tag")
  /\ IF asked[job[x].draft].lacks = "pillar" THEN Says(x, "refused")
     ELSE Goes(x, IF tagged THEN "byline" ELSE "newTag")
  /\ UNCHANGED <<asked, mayUpdate, rows, tagged, bylines, told, faults, timeouts, edits, overlapped>>

(* Seeded fault: whoever comes second is refused for good. *)
LoserHearsRefused == "refused"

(* The unique index, and the catch-all 500. *)
LoserHears == "again"

MakeTag(x) ==
  /\ At(x, "newTag")
  /\ IF tagged THEN Says(x, LoserHears) ELSE Goes(x, "byline")
  /\ tagged' = TRUE
  /\ UNCHANGED <<asked, mayUpdate, rows, bylines, told, faults, timeouts, edits, overlapped>>

(* Seeded fault: the byline is not looked for. *)
AfterBylineAlways == "newByline"

AfterByline == IF bylines > 0 THEN "slug" ELSE "newByline"

FindByline(x) ==
  /\ At(x, "byline")
  /\ IF asked[job[x].draft].lacks = "byline" THEN Says(x, "refused") ELSE Goes(x, AfterByline)
  /\ UNCHANGED <<asked, mayUpdate, rows, tagged, bylines, told, faults, timeouts, edits, overlapped>>

MakeByline(x) ==
  /\ At(x, "newByline") /\ Goes(x, "slug")
  /\ bylines' = bylines + 1
  /\ UNCHANGED <<asked, mayUpdate, rows, tagged, told, faults, timeouts, edits, overlapped>>

(* The create: first the hook. *)
CheckSlug(x) ==
  /\ At(x, "slug")
  /\ IF Clash(asked[job[x].draft].slug, NoRow) THEN Says(x, "again") ELSE Goes(x, "insert")
  /\ UNCHANGED <<asked, mayUpdate, rows, tagged, bylines, told, faults, timeouts, edits, overlapped>>

Insert(x) == LET d == job[x].draft IN
  /\ At(x, "insert")
  /\ \E a \in Articles :
       /\ rows[a] = NoRow /\ \A b \in 1..(a - 1) : rows[b] # NoRow
       /\ rows' = [rows EXCEPT ![a] = [draft |-> d, url |-> asked[d].url,
                                    slug |-> asked[d].slug, human |-> FALSE,
                                    version |-> 1]]
  /\ Says(x, "stored")
  /\ UNCHANGED <<asked, mayUpdate, tagged, bylines, told, faults, timeouts, edits, overlapped>>

(* An editor saves an article, perhaps under another slug, or deletes it. *)
Edit(a) ==
  /\ a \in Stored /\ edits < MaxEdits
  /\ edits' = edits + 1
  /\ \/ \E s \in Slugs :
          /\ ~Clash(s, a)
          /\ rows' = [rows EXCEPT ![a].human = TRUE, ![a].slug = s, ![a].version = @ + 1]
     \/ rows' = [rows EXCEPT ![a] = Gone]
  /\ UNCHANGED <<asked, mayUpdate, tagged, bylines, job, told, faults, timeouts, overlapped>>

Step(x) ==
  \/ FindByDraft(x) \/ FindByUrl(x) \/ Refresh(x) \/ FindTag(x) \/ MakeTag(x)
  \/ FindByline(x) \/ MakeByline(x) \/ CheckSlug(x) \/ Insert(x) \/ Reply(x)

Next ==
  \/ \E x \in Deliveries, d \in Drafts : Begin(x, d)
  \/ \E x \in Deliveries : Step(x) \/ TimeOut(x) \/ Fault(x)
  \/ \E a \in Articles : Edit(a)

(* A request that has not died goes on, and the engine sends what was not settled
   again; a draft is not put off for ever for the sake of others. *)
Fairness ==
  /\ \A x \in Deliveries : WF_vars(Step(x))
  /\ \A d \in Drafts : SF_vars(\E x \in Deliveries : Begin(x, d))

Spec == Init /\ [][Next]_vars /\ Fairness

-----------------------------------------------------------------------------
(* Retries, lost answers, crashes and deletions never make a second article of
   a draft: only two deliveries of it at one time can. *)
ArticlesOf(d) == {a \in Stored : rows[a].draft = d}
TwinsNeedOverlap == \A d \in Drafts \ overlapped : Cardinality(ArticlesOf(d)) <= 1

(* Bylines have no index: deliveries that race for one make several, but
   never more than run at one time, since every later one finds them. *)
BylinesStayFew == bylines <= Cardinality(Deliveries)

(* What the terms of a delivery allow to be refused for good, if nobody changes
   anything: a creation that lacks something, and a refresh by an engine that may not
   update, or that expects a version. *)
Lacking == {d \in Drafts : asked[d].lacks # "nothing"}
Strict == {d \in Drafts : ~mayUpdate \/ asked[d].expects # NoVersion}

(* Accepted; or refused: for the sake of what an editor has done, or by its terms,
   and then a strict one has an article, perhaps of an earlier delivery of its own. *)
Settled(d) ==
  \/ told[d] = "stored"
  \/ /\ told[d] = "refused"
     /\ edits > 0 \/ d \in Lacking \/ (d \in Strict /\ ByDraft(d) \cup ByUrl(d) # {})
Contested(d) ==
  \/ \E e \in Drafts \ {d} : asked[e].slug = asked[d].slug
  \/ \E a \in Stored : rows[a].draft # d /\ rows[a].slug = asked[d].slug

(* However deliveries of several drafts race for the tag, fail and are sent again:
   a draft whose slug nobody else has is settled in the end. *)
UncontestedSettle ==
  \A d \in Drafts : <>(Settled(d) \/ Contested(d) \/ overlapped # {})

(* Nothing is doubled but by deliveries that overlap. *)
DoublesNeedOverlap == TwinsNeedOverlap /\ BylinesStayFew

(* Drafts that are being delivered, those whose delivery has taken effect, and
   how many articles each has. *)
Served == {d \in Drafts : \E x \in Deliveries : job[x] # Idle /\ job[x].draft = d}
Effected == {d \in Drafts :
  \E x \in Deliveries : At(x, "reply") /\ job[x].draft = d /\ job[x].says = "stored"}
HowMany == [d \in Drafts |-> Cardinality(ArticlesOf(d))]

Promise == INSTANCE IntakePromise WITH
  lacking <- Lacking, strict <- Strict,
  open <- Served, done <- Effected, articles <- HowMany, doubled <- overlapped

(* Whatever is lost, dies, times out and is sent again: a delivery takes effect
   once or not at all, and the engine is told which; an article is made only for a
   draft that has none and lacks nothing, and none is refreshed while there is none
   of the engine's.  A refusal says that this delivery has changed nothing, not that
   an earlier one has not: it is for the sake of what somebody has changed, or of the
   terms of the delivery. *)
ImplementsPromise == Promise!Spec
===============================================================================
