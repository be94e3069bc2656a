------------------------------- MODULE GtpImport -------------------------------
(***************************************************************************)
(* The import of a legacy site into a tenant, and its rollback.            *)
(*                                                                         *)
(*   run       creates one article per legacy item, in order, with the     *)
(*             hero image and the tag of the item, and journals what it    *)
(*             created; it may die at any step and be resumed              *)
(*   next run  has a new run directory and skips what is already there     *)
(*   rollback  judges the entries of a run's journal one by one, then      *)
(*             deletes articles, hero image and tag                        *)
(*   people    edit, rename and delete the imported articles meanwhile     *)
(*                                                                         *)
(* The directory of a run is its journals, its slug plan and state.json.   *)
(* Runs are numbered in the order of their start; as the manual asks, one  *)
(* tool runs at a time and only the newest run is resumed.  The items share*)
(* one image and one tag.  Slugs of articles that are not imported, events *)
(* (they take the same path), dry runs and the rollback's flags are left   *)
(* out.                                                                    *)
(***************************************************************************)
EXTENDS Naturals, FiniteSets

CONSTANTS
  NItems,
  NRuns,
  WithHero,     \* items with a hero image
  WithTag,      \* items with a tag
  Batch,        \* --batch: items per page
  StopAfter,    \* --stop-after-failures
  MaxIds,       \* bound: articles created
  MaxUploads,   \* bound: images uploaded
  MaxCrashes,   \* bound: imports and rollbacks that die
  MaxLost,      \* bound: creates that end in an error
  MaxEdits      \* bound: changes by people

Items == 1..NItems
Runs == 1..NRuns
Ids == 1..MaxIds

ASSUME SizesAssumption == NItems \in Nat \ {0} /\ NRuns \in Nat /\ MaxIds \in Nat /\ StopAfter \in Nat \ {0}
ASSUME BatchAssumption == Batch \in Nat \ {0}
ASSUME ItemsAssumption == WithHero \subseteq Items /\ WithTag \subseteq Items
ASSUME BoundsAssumption == {MaxUploads, MaxCrashes, MaxLost, MaxEdits} \subseteq Nat

VARIABLES
  art,       \* the imported articles in Central, by id
  last,      \* the highest id given
  media,     \* the hero image in Central: how many were uploaded, and the one stored
  tag,       \* the tag in Central: the run that created it, or 0
  begun,     \* runs with a directory
  plan,      \* slug-plan.json of each run
  journal,   \* slug-map of each run
  mediaJ,    \* media-map of each run, by item
  tagsMade,  \* state.json of each run: the tag was created by it
  imp,       \* the import in progress
  roll,      \* the rollback in progress
  crashes, lost, edits,  \* counted for the bounds
  touched    \* history: articles people changed when no import was about to journal them

vars == <<art, last, media, tag, begun, plan, journal, mediaJ, tagsMade, imp, roll,
          crashes, lost, edits, touched>>
counters == <<crashes, lost, edits>>
disk == <<begun, plan, journal, mediaJ, tagsMade>>
central == <<art, last, media, tag>>

(* The slug of an item, or the n-th that people came up with instead: a new one
   each time, so no plan has it for another article. *)
Slugs == [item: Items, name: 0..MaxEdits]
PlannedSlug(i) == [item |-> i, name |-> 0]

NoRow == [item |-> 0]
(* An article is what its latest version says, which is what the tools ask for
   (draft: true); ver stands for its version and updatedAt; shown is the hero of
   its live row.  A hero is an imported image, or 0: none, or one that people have
   chosen. *)
Row == [item: Items, slug: Slugs, ver: Nat, by: Runs, hero: Nat, shown: Nat, tagged: BOOLEAN]
NoEntry == [id |-> 0]
Entry == [id: Ids, ver: Nat]
NoDoc == [n |-> 0]
Doc == [n: Nat, by: Runs]
Origins == {"none", "created", "adopted", "created-pending", "pending-absent"}
NoLine == [origin |-> "none", n |-> 0]

NoImport == [on |-> FALSE]
Import == [on: {TRUE}, run: Runs, fresh: BOOLEAN,
           pc: {"consider", "hero", "upload", "heroJournal", "tag", "create", "retry", "readback",
                "finish"},
           item: Nat, id: Nat, foreign: SUBSET Ids,
           cached: BOOLEAN, hero: Nat, made: BOOLEAN,
           tagKnown: BOOLEAN, tagMade: BOOLEAN, fails: Nat, bad: BOOLEAN]

NoRollback == [on |-> FALSE, doomed |-> {}]
Rollback == [on: {TRUE}, run: Runs, pc: {"judge", "media", "delete"}, todo: SUBSET Items,
             gone: SUBSET Items, doomed: SUBSET Ids, deleting: SUBSET Ids, heroDoomed: Nat]

(* Articles, run directories and the tools at work have their shapes. *)
TypeOK ==
  /\ art \in [Ids -> {NoRow} \cup Row] /\ last \in Nat
  /\ media \in [uploads: Nat, doc: {NoDoc} \cup Doc]
  /\ tag \in {0} \cup Runs
  /\ begun \in Nat
  /\ plan \in [Runs -> [Items -> Slugs]]
  /\ journal \in [Runs -> [Items -> {NoEntry} \cup Entry]]
  /\ mediaJ \in [Runs -> [Items -> [origin: Origins, n: Nat]]]
  /\ tagsMade \in [Runs -> BOOLEAN]
  /\ imp \in {NoImport} \cup Import
  /\ roll \in {NoRollback} \cup Rollback
  /\ {crashes, lost, edits} \subseteq Nat
  /\ touched \subseteq Ids

Init ==
  /\ art = [a \in Ids |-> NoRow] /\ last = 0
  /\ media = [uploads |-> 0, doc |-> NoDoc]
  /\ tag = 0
  /\ begun = 0
  /\ plan = [r \in Runs |-> [i \in Items |-> PlannedSlug(i)]]
  /\ journal = [r \in Runs |-> [i \in Items |-> NoEntry]]
  /\ mediaJ = [r \in Runs |-> [i \in Items |-> NoLine]]
  /\ tagsMade = [r \in Runs |-> FALSE]
  /\ imp = NoImport /\ roll = NoRollback
  /\ crashes = 0 /\ lost = 0 /\ edits = 0
  /\ touched = {}

-----------------------------------------------------------------------------
(* What the tools read. *)

Stored == {a \in Ids : art[a] # NoRow}
Renamed(a) == art[a].slug.name # 0
JournaledBy(r) == {journal[r][i].id : i \in Items} \ {0}
Journaled == UNION {JournaledBy(r) : r \in Runs}
BySlug(s) == {a \in Stored : art[a].slug = s}

(* priorSlug: where the article of an item is that another run created. *)
PriorSlugs(r, i) ==
  {art[journal[q][i].id].slug : q \in {q \in Runs \ {r} : journal[q][i].id \in Stored}}

-----------------------------------------------------------------------------
(* Starting and resuming. *)

(* Seeded fault: a fresh run starts over rows nobody journaled. *)
MayStartAnyhow == TRUE

(* A fresh run refuses rows that no directory has journaled. *)
MayStart == Stored \subseteq Journaled

Begin(r, fresh) ==
  imp' = [on |-> TRUE, run |-> r, fresh |-> fresh, pc |-> "consider", item |-> 1, id |-> 0,
          foreign |-> UNION {JournaledBy(q) : q \in Runs \ {r}},
          cached |-> FALSE, hero |-> 0,
          made |-> \E i \in Items : mediaJ'[r][i].origin = "created",
          tagKnown |-> tag # 0, tagMade |-> tagsMade[r], fails |-> 0, bad |-> FALSE]

Start ==
  /\ ~imp.on /\ ~roll.on /\ begun < NRuns
  /\ MayStart
  /\ begun' = begun + 1
  /\ \E p \in [Items -> Slugs] :
       /\ \A i \in Items : IF PriorSlugs(begun', i) = {} THEN p[i] = PlannedSlug(i)
                                                        ELSE p[i] \in PriorSlugs(begun', i)
       /\ plan' = [plan EXCEPT ![begun'] = p]
  /\ mediaJ' = mediaJ
  /\ Begin(begun', TRUE)
  /\ UNCHANGED <<central, journal, tagsMade, roll, counters, touched>>

(* Seeded fault: a pending image is not looked for when the run is resumed. *)
ResolvedAbsent(line, r) ==
  IF line.origin # "created-pending" THEN line ELSE [line EXCEPT !.origin = "pending-absent"]

(* A pending line of a run that died: the image is there, from this run's  *)
(* time or from an earlier one, or it is not.                              *)
Resolved(line, r) ==
  IF line.origin # "created-pending" THEN line
  ELSE IF media.doc = NoDoc THEN [line EXCEPT !.origin = "pending-absent"]
  ELSE [origin |-> IF media.doc.by >= r THEN "created" ELSE "adopted", n |-> media.doc.n]

Resume ==
  /\ ~imp.on /\ ~roll.on /\ begun > 0
  /\ mediaJ' = [mediaJ EXCEPT ![begun] = [i \in Items |-> Resolved(@[i], begun)]]
  /\ Begin(begun, FALSE)
  /\ UNCHANGED <<central, begun, plan, journal, tagsMade, roll, counters, touched>>

-----------------------------------------------------------------------------
(* One item. *)

At(pc) == imp.on /\ imp.pc = pc

(* The next item; state.json is written at the end of a page. *)
Advance(p) ==
  /\ imp' = [p EXCEPT !.item = @ + 1, !.id = 0, !.hero = 0,
                      !.pc = IF p.item < NItems /\ p.fails < StopAfter THEN "consider" ELSE "finish"]
  /\ tagsMade' = IF (p.item % Batch = 0 \/ p.item = NItems) /\ p.fails < StopAfter
                 THEN [tagsMade EXCEPT ![p.run] = p.tagMade] ELSE tagsMade

(* handleExisting: a row at version 1 that no other run owns is this run's. *)
Adoptable(a) == a \notin imp.foreign /\ art[a].ver = 1

(* The item is in the journal, or its slug is taken, or it is to be made. *)
Consider ==
  LET r == imp.run  i == imp.item  found == BySlug(plan[r][i]) IN
  /\ At("consider")
  /\ \/ /\ journal[r][i] # NoEntry
        /\ Advance(imp) /\ UNCHANGED journal
     \/ /\ journal[r][i] = NoEntry
        /\ \E a \in found :
             IF Adoptable(a)
             THEN /\ journal' = [journal EXCEPT ![r][i] = [id |-> a, ver |-> 1]]
                  /\ Advance(imp)
             ELSE /\ UNCHANGED journal
                  /\ Advance([imp EXCEPT !.bad = @ \/ a \notin imp.foreign])
     \/ /\ journal[r][i] = NoEntry /\ found = {}
        /\ imp' = [imp EXCEPT !.pc = "hero"]
        /\ UNCHANGED <<journal, tagsMade>>
  /\ UNCHANGED <<central, begun, plan, mediaJ, roll, counters, touched>>

(* Seeded fault: the pending line is not written before the upload. *)
PendingLater(line) == line

(* A line without an image id is laid over the line before it. *)
Pending(line) == [line EXCEPT !.origin = "created-pending"]

(* ensureHero: known to this process, or found in Central, or fetched. *)
EnsureHero ==
  LET r == imp.run  i == imp.item
      origin == IF imp.made THEN "created" ELSE "adopted" IN
  /\ At("hero")
  /\ \/ /\ i \notin WithHero
        /\ imp' = [imp EXCEPT !.pc = "tag"] /\ UNCHANGED mediaJ
     \/ /\ i \in WithHero /\ (imp.cached \/ media.doc # NoDoc)
        /\ imp' = [imp EXCEPT !.pc = "tag", !.hero = media.doc.n, !.cached = TRUE]
        /\ mediaJ' = IF imp.cached THEN mediaJ
                     ELSE [mediaJ EXCEPT ![r][i] = [origin |-> origin, n |-> media.doc.n]]
     \/ /\ i \in WithHero /\ ~imp.cached /\ media.doc = NoDoc
        /\ \/ /\ imp' = [imp EXCEPT !.pc = "tag", !.cached = TRUE]  \* the fetch failed
              /\ UNCHANGED mediaJ
           \/ /\ media.uploads < MaxUploads
              /\ mediaJ' = [mediaJ EXCEPT ![r][i] = Pending(@)]
              /\ imp' = [imp EXCEPT !.pc = "upload"]
  /\ UNCHANGED <<central, begun, plan, journal, tagsMade, roll, counters, touched>>

Upload ==
  /\ At("upload")
  /\ media' = [uploads |-> media.uploads + 1, doc |-> [n |-> media.uploads + 1, by |-> imp.run]]
  /\ imp' = [imp EXCEPT !.pc = "heroJournal", !.hero = media.uploads + 1]
  /\ UNCHANGED <<art, last, tag, disk, roll, counters, touched>>

JournalHero ==
  /\ At("heroJournal")
  /\ mediaJ' = [mediaJ EXCEPT ![imp.run][imp.item] = [origin |-> "created", n |-> imp.hero]]
  /\ imp' = [imp EXCEPT !.pc = "tag", !.made = TRUE, !.cached = TRUE]
  /\ UNCHANGED <<central, begun, plan, journal, tagsMade, roll, counters, touched>>

(* ensureTag: what it created is noted in memory only. *)
EnsureTag ==
  /\ At("tag")
  /\ IF imp.item \in WithTag /\ ~imp.tagKnown
     THEN /\ tag' = imp.run
          /\ imp' = [imp EXCEPT !.pc = "create", !.tagKnown = TRUE, !.tagMade = TRUE]
     ELSE /\ UNCHANGED tag
          /\ imp' = [imp EXCEPT !.pc = "create"]
  /\ UNCHANGED <<art, last, media, disk, roll, counters, touched>>

Insert(i) ==
  /\ last < MaxIds
  /\ last' = last + 1
  /\ art' = [art EXCEPT ![last'] =
              [item |-> i, slug |-> plan[imp.run][i], ver |-> 1, by |-> imp.run,
               hero |-> imp.hero, shown |-> imp.hero, tagged |-> i \in WithTag]]

(* Seeded fault: a create that failed is not reported. *)
FailedSilently == Advance([imp EXCEPT !.fails = @ + 1])

(* A create that failed is reported, and counted. *)
Failed == Advance([imp EXCEPT !.bad = TRUE, !.fails = @ + 1])

Answered == imp' = [imp EXCEPT !.pc = "readback", !.id = last'] /\ UNCHANGED tagsMade

(* A create ends well, or in an error before or after it was committed. *)
Create ==
  /\ At("create")
  /\ \/ Insert(imp.item) /\ Answered /\ UNCHANGED lost
     \/ /\ lost < MaxLost /\ lost' = lost + 1
        /\ \/ Insert(imp.item)
           \/ UNCHANGED <<art, last>>
        /\ imp' = [imp EXCEPT !.pc = "retry"] /\ UNCHANGED tagsMade
     \/ /\ lost < MaxLost /\ lost' = lost + 1
        /\ Failed /\ UNCHANGED <<art, last>>
  /\ UNCHANGED <<media, tag, begun, plan, journal, mediaJ, roll, crashes, edits, touched>>

(* Seeded fault: the second attempt does not look for the first one. *)
FoundAgainNever(i) == {}

(* After a connection error the slug is looked up before the one retry. *)
FoundAgain(i) == BySlug(plan[imp.run][i])

Retry ==
  /\ At("retry")
  /\ \/ \E a \in FoundAgain(imp.item) :
          /\ imp' = [imp EXCEPT !.pc = "readback", !.id = a]
          /\ UNCHANGED <<art, last, lost, tagsMade>>
     \/ /\ FoundAgain(imp.item) = {}
        /\ Insert(imp.item) /\ Answered /\ UNCHANGED lost
     \/ /\ lost < MaxLost /\ lost' = lost + 1
        /\ \/ FoundAgain(imp.item) = {} /\ Insert(imp.item)
           \/ UNCHANGED <<art, last>>
        /\ Failed
  /\ UNCHANGED <<media, tag, begun, plan, journal, mediaJ, roll, crashes, edits, touched>>

(* afterCreate: the baseline is what is read back, and the entry is synced. *)
Readback ==
  /\ At("readback")
  /\ journal' = [journal EXCEPT ![imp.run][imp.item] =
                   [id |-> imp.id, ver |-> IF imp.id \in Stored THEN art[imp.id].ver ELSE 1]]
  /\ Advance([imp EXCEPT !.fails = 0])
  /\ UNCHANGED <<central, begun, plan, mediaJ, roll, counters, touched>>

(* The last page is done, or too many creates failed in a row. *)
Finish ==
  /\ At("finish")
  /\ imp' = NoImport
  /\ tagsMade' = [tagsMade EXCEPT ![imp.run] = imp.tagMade]
  /\ UNCHANGED <<central, begun, plan, journal, mediaJ, roll, counters, touched>>

ImportDies ==
  /\ imp.on /\ crashes < MaxCrashes
  /\ imp' = NoImport /\ crashes' = crashes + 1
  /\ UNCHANGED <<central, disk, roll, lost, edits, touched>>

-----------------------------------------------------------------------------
(* Rolling a run back. *)

RollAt(pc) == roll.on /\ roll.pc = pc

RollStart(r) ==
  /\ ~imp.on /\ ~roll.on /\ r <= begun
  /\ roll' = [on |-> TRUE, run |-> r, pc |-> "judge",
              todo |-> {i \in Items : journal[r][i] # NoEntry},
              gone |-> {}, doomed |-> {}, deleting |-> {}, heroDoomed |-> 0]
  /\ UNCHANGED <<central, disk, imp, counters, touched>>

(* Seeded fault: the version of the article is not compared. *)
UntouchedAny(e) == TRUE

(* rollback-rules: the article is as the journal has it. *)
Untouched(e) == art[e.id].ver = e.ver

(* Every entry is judged by its own reading of its article. *)
Judge(i) ==
  LET e == journal[roll.run][i] IN
  /\ RollAt("judge") /\ i \in roll.todo
  /\ roll' = [roll EXCEPT !.todo = @ \ {i},
                          !.gone = IF e.id \in Stored THEN @ ELSE @ \cup {i},
                          !.doomed = IF e.id \in Stored /\ Untouched(e) THEN @ \cup {e.id} ELSE @]
  /\ UNCHANGED <<central, disk, imp, counters, touched>>

(* Seeded fault: other articles are not asked whether they have the image. *)
ShownAnyhow == TRUE

(* Only latest versions are asked. *)
ShownByDoomedOnly == \A a \in Stored : art[a].hero = media.doc.n => a \in roll.doomed

(* The image goes when this run created it, no entry of a surviving item   *)
(* names it and no other article has it.                                   *)
HeroDoomed ==
  LET r == roll.run
      entered == {i \in Items : journal[r][i] # NoEntry}
      leaving == roll.gone \cup {i \in entered : journal[r][i].id \in roll.doomed}
      named(i) == mediaJ[r][i].n = media.doc.n
      asked == {i \in Items : named(i) /\ (i \in leaving \/ i \notin entered)} IN
  /\ media.doc # NoDoc
  /\ \E i \in asked :
       /\ \A j \in asked : i <= j
       /\ mediaJ[r][i].origin = "created"
       /\ i \in entered => \A j \in Items : named(j) => j \in leaving
  /\ ShownByDoomedOnly

DecideMedia ==
  /\ RollAt("judge") /\ roll.todo = {}
  /\ roll' = [roll EXCEPT !.pc = "delete", !.deleting = roll.doomed,
                          !.heroDoomed = IF HeroDoomed THEN media.doc.n ELSE 0]
  /\ UNCHANGED <<central, disk, imp, counters, touched>>

(* An article is deleted; one that translation jobs still name is archived  *)
(* as its latest version has it, and any other error leaves it as it is.   *)
DeleteArticle(a) ==
  /\ RollAt("delete") /\ a \in roll.deleting
  /\ roll' = [roll EXCEPT !.deleting = @ \ {a}]
  /\ \/ art' = [art EXCEPT ![a] = NoRow]
     \/ a \in Stored /\ art' = [art EXCEPT ![a].ver = @ + 1, ![a].shown = art[a].hero]
     \/ a \in Stored /\ UNCHANGED art
  /\ UNCHANGED <<last, media, tag, disk, imp, counters, touched>>

(* The image, which live rows and drafts left over lose, and the tag if unused. *)
Without(row, n) == [row EXCEPT !.hero = IF @ = n THEN 0 ELSE @,
                               !.shown = IF @ = n THEN 0 ELSE @]

DeleteRest ==
  LET r == roll.run  drop == media.doc # NoDoc /\ media.doc.n = roll.heroDoomed IN
  /\ RollAt("delete") /\ roll.deleting = {}
  /\ media' = IF drop THEN [media EXCEPT !.doc = NoDoc] ELSE media
  /\ art' = [a \in Ids |-> IF drop /\ a \in Stored THEN Without(art[a], media.doc.n) ELSE art[a]]
  /\ tag' = IF tagsMade[r] /\ \A a \in Stored : ~art[a].tagged THEN 0 ELSE tag
  /\ roll' = NoRollback
  /\ UNCHANGED <<last, disk, imp, counters, touched>>

RollDies ==
  /\ roll.on /\ crashes < MaxCrashes
  /\ roll' = NoRollback /\ crashes' = crashes + 1
  /\ UNCHANGED <<central, disk, imp, lost, edits, touched>>

-----------------------------------------------------------------------------
(* People. *)

(* An import that has sent the create and not yet journaled the article. *)
Held(a) == \/ At("retry") /\ art[a].slug = plan[imp.run][imp.item]
           \/ At("readback") /\ a = imp.id

(* A save, as a draft or not, perhaps under another slug or with another hero. *)
Edit(a) ==
  /\ a \in Stored /\ edits < MaxEdits
  /\ edits' = edits + 1
  /\ \E renames, asDraft \in BOOLEAN, hero \in {art[a].hero, 0} :
       art' = [art EXCEPT ![a].ver = @ + 1,
                          ![a].slug = IF renames THEN [@ EXCEPT !.name = edits'] ELSE @,
                          ![a].hero = hero,
                          ![a].shown = IF asDraft THEN @ ELSE hero]
  /\ touched' = IF Held(a) \/ a \in roll.doomed THEN touched ELSE touched \cup {a}
  /\ UNCHANGED <<last, media, tag, disk, imp, roll, crashes, lost>>

Remove(a) ==
  /\ a \in Stored /\ edits < MaxEdits
  /\ art' = [art EXCEPT ![a] = NoRow]
  /\ touched' = touched \ {a}
  /\ edits' = edits + 1
  /\ UNCHANGED <<last, media, tag, disk, imp, roll, crashes, lost>>

ImportStep ==
  \/ Consider \/ EnsureHero \/ Upload \/ JournalHero \/ EnsureTag
  \/ Create \/ Retry \/ Readback \/ Finish

RollStep ==
  \/ \E i \in Items : Judge(i)
  \/ DecideMedia
  \/ \E a \in Ids : DeleteArticle(a)
  \/ DeleteRest

Next ==
  \/ Start \/ Resume \/ ImportStep \/ ImportDies
  \/ \E r \in Runs : RollStart(r)
  \/ RollStep \/ RollDies
  \/ \E a \in Ids : Edit(a) \/ Remove(a)

Spec == Init /\ [][Next]_vars

-----------------------------------------------------------------------------
(* Properties. *)

(***************************************************************************)
(* Whatever dies, is resumed, is answered by an error or is run again, an  *)
(* item has one article, unless somebody renamed one of the two: the slug  *)
(* is what the tools recognise an item by (handleExisting, createArticle). *)
(***************************************************************************)
OneArticlePerItem ==
  \A a, b \in Stored : a # b /\ art[a].item = art[b].item =>
    Renamed(a) \/ Renamed(b)

(***************************************************************************)
(* What a run has in its journal was created by that run, in this process  *)
(* or in one that died; so a rollback of the run touches no article of     *)
(* another (otherRuns, the refusal of a fresh run, A13-R05).               *)
(***************************************************************************)
JournaledByItsCreator ==
  \A r \in Runs : \A a \in JournaledBy(r) \cap Stored : art[a].by = r

(***************************************************************************)
(* An article that somebody edited is not on the list of a rollback,       *)
(* except when the edit fell between the import's create and its readback, *)
(* or after the rollback had judged the article.  An edit of a row whose   *)
(* import died before the journal line counts: it is not adopted.          *)
(***************************************************************************)
HumanEditsSurvive == touched \cap roll.doomed = {}

(***************************************************************************)
(* An image a run has put into Central is in its journal, as pending or as *)
(* created, before the upload and ever after; once the run has gone on, or *)
(* was resumed, it is there as created, with its id (N-12).                *)
(***************************************************************************)
UploadsAreJournaled ==
  media.doc # NoDoc =>
    LET r == media.doc.by
        created == \E i \in Items : mediaJ[r][i] = [origin |-> "created", n |-> media.doc.n] IN
    IF imp.on /\ imp.run = r /\ imp.pc # "heroJournal" THEN created
    ELSE created \/ \E i \in Items : mediaJ[r][i].origin = "created-pending"

(* What the journals are for: to find again, to resume and to roll back. *)
JournalsAreTrue == OneArticlePerItem /\ JournaledByItsCreator /\ UploadsAreJournaled

(***************************************************************************)
(* An import that ends without a failure to report has every item in a     *)
(* journal, and leaves no imported article that is in none, unless it was  *)
(* renamed before anybody journaled it.                                    *)
(***************************************************************************)
CleanFinishCoversAll ==
  [][Finish /\ ~imp.bad =>
       /\ \A i \in Items : \E r \in Runs : journal[r][i] # NoEntry
       /\ \A a \in Stored : a \in Journaled \/ Renamed(a)]_vars

(***************************************************************************)
(* A rollback takes the image from no article but those on its list, which *)
(* it does not always get deleted: one of another run, one that people     *)
(* edited and one that is in no journal keep it, in the latest version and *)
(* on the site.  Only where people have saved a draft with another hero    *)
(* does the site lose it, as live rows are not asked.  Editors give the    *)
(* image to no article of their own while the rollback runs.               *)
(***************************************************************************)
SurvivorsKeepTheirHero ==
  [][RollStep => \A a \in Stored \ roll.doomed :
       /\ art'[a].hero = art[a].hero
       /\ art'[a].shown = art[a].shown \/ art[a].hero # art[a].shown]_vars
=============================================================================
