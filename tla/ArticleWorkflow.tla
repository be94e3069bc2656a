--------------------------- MODULE ArticleWorkflow ---------------------------
(***************************************************************************)
(* The editorial life of one article: everyone who may write it, over the  *)
(* two surfaces of ArticleHooks.                                           *)
(*                                                                         *)
(*   editors and contributors    the admin form and the console actions    *)
(*   the content engine          POST /api/engine/intake, create and       *)
(*                               refresh; POST /api/engine/translation     *)
(*   the hub                     POST /api/hub/articles/{id}/status        *)
(*   the crons                   publish-scheduled and unpin-expired       *)
(*                                                                         *)
(* A request that reads the article and writes it later, without a lock,   *)
(* is two actions with its reading kept in pending.  So is the             *)
(* payload.update it writes with: it reads the latest version, runs the    *)
(* hooks on that and stores many awaits later, whatever was stored in      *)
(* between.  What an update has read is kept in under; an update that      *)
(* nobody comes between is one step.                                       *)
(***************************************************************************)
EXTENDS ArticleHooks, FiniteSets

CONSTANTS
  Writers,        \* which machine writers are switched on
  AutoPublish,    \* tenant.autoPublishEngineDrafts
  Choices,        \* bound: the statuses people choose from
  MaxTexts,       \* bound: texts ever written
  MaxVersion,     \* bound: no write starts from a version above this, and none that
                  \*   stays under way from this one
  MaxReadings,    \* bound: readings held at one time, and saves that overlapped
  MaxOverlaps     \* bound: of these, the saves and those that may come to overlap

MachineWriters == {"intake", "translation", "hub", "publishCron", "unpinCron"}

(* People need no switch, and several of them may save at one time. *)
Updaters == {"people"} \cup MachineWriters

ASSUME WritersAssumption == Writers \subseteq MachineWriters
ASSUME ChoicesAssumption == Choices \subseteq WorkflowStatus
ASSUME AutoPublishAssumption == AutoPublish \in BOOLEAN
ASSUME BoundsAssumption == MaxTexts \in Nat /\ MaxVersion \in Nat /\ MaxReadings \in Nat /\ MaxOverlaps \in Nat

VARIABLES
  stage,      \* "none" before the create, "live", then "deleted"
  art,        \* the two surfaces
  texts,      \* texts written so far; text n is the n-th
  pending,    \* what each two-step request has read
  under,      \* the updates under way, with the latest version each has read
  asked,      \* history: someone entitled to asked for this article to go live
  released,   \* history: texts somebody entitled to put on the site
  seen,       \* history: every <<version, text>> a surface has shown
  overlaps    \* history: the version a save started from and the one it replaced,
              \*   of each save that had not read what it replaced

vars == <<stage, art, texts, pending, under, asked, released, seen, overlaps>>

(* What each request holds between its read and its write: nothing, or     *)
(* what of the reading its write still uses.                               *)
Pending == [ intake:      BOOLEAN,
             hub:         {"none", "archived", "published"},
             publishCron: BOOLEAN,
             unpinCron:   {"none"} \cup NativeStatus ]

NothingPending ==
  [intake |-> FALSE, hub |-> "none", publishCron |-> FALSE, unpinCron |-> "none"]

NoRow == [ws |-> "draft", st |-> "draft", ver |-> 0, text |-> 0, human |-> FALSE]

(* Rows, statuses and versions as the collection declares them. *)
TypeOK ==
  /\ stage \in {"none", "live", "deleted"}
  /\ art \in Surfaces
  /\ texts \in Nat
  /\ pending \in Pending
  /\ under \subseteq [by: Updaters, row: Row]
  /\ asked \in BOOLEAN
  /\ released \subseteq Nat
  /\ seen \subseteq Nat \X Nat
  /\ overlaps \subseteq Nat \X Nat

Init ==
  /\ stage = "none"
  /\ art = [main |-> NoRow, latest |-> NoRow]
  /\ texts = 0
  /\ pending = NothingPending
  /\ under = {}
  /\ asked = FALSE
  /\ released = {}
  /\ seen = {}
  /\ overlaps = {}

-----------------------------------------------------------------------------
Public == stage = "live" /\ art.main.ws = "published"

Shown(pair) == {<<pair.main.ver, pair.main.text>>, <<pair.latest.ver, pair.latest.text>>}

Writable(base) == stage = "live" /\ base.ver <= MaxVersion

(* Store a new pair of surfaces and what the histories note about it. *)
Store(pair) ==
  /\ stage' = "live"
  /\ art' = pair
  /\ seen' = seen \cup Shown(pair)

(* The latest versions that a store can start from: what is there now, and *)
(* what the updates under way have read.                                   *)
Bases == {art.latest} \cup {u.row : u \in under}

(* The update of w that stores now started from base.  It read it in the   *)
(* same step, or it is one of those under way; a machine has one at most.  *)
From(w, base) ==
  /\ \/ base = art.latest /\ (w = "people" \/ \A u \in under : u.by # w) /\ UNCHANGED under
     \/ LET u == [by |-> w, row |-> base] IN u \in under /\ under' = under \ {u}
  /\ overlaps' = IF base = art.latest THEN overlaps ELSE overlaps \cup {<<base.ver, art.latest.ver>>}

(* The machines whose request has looked the article up. *)
LookedUp(w) ==
  CASE w = "intake"      -> pending.intake
    [] w = "hub"         -> pending.hub # "none"
    [] w = "publishCron" -> pending.publishCron
    [] w = "unpinCron"   -> pending.unpinCron # "none"
    [] OTHER             -> FALSE

MayRead ==
  Cardinality({w \in MachineWriters : LookedUp(w)}) + Cardinality(under) + Cardinality(overlaps)
    < MaxReadings

(* payload.update reads the latest version: the original document of the   *)
(* hooks, and every field the request does not name.                       *)
Begin(w) ==
  /\ stage = "live" /\ art.latest.ver < MaxVersion
  /\ w \in {"people", "translation"} \/ LookedUp(w)
  /\ MayRead
  /\ Cardinality(under) + Cardinality(overlaps) < MaxOverlaps
  /\ under' = under \cup {[by |-> w, row |-> art.latest]}
  /\ UNCHANGED <<stage, art, texts, pending, asked, released, seen, overlaps>>

(* The words of a save: what is there, or something new. *)
NewText == texts + 1
TextChoices == {Unset} \cup (IF texts < MaxTexts THEN {NewText} ELSE {})
Written(data) == texts' = IF data.text = NewText THEN NewText ELSE texts

-----------------------------------------------------------------------------
(* Humans.  A contributor here owns the article, so access control lets    *)
(* the save through to the hooks.                                          *)

(* A publisher releases a text by publishing it or by scheduling it. *)
Releases(pair, asDraft) ==
  \/ ~asDraft /\ pair.main.ws = "published"
  \/ pair.latest.ws = "scheduled"

Entitled(role, ws) == role = "publisher" /\ ws \in {"published", "scheduled"}

HumanUpdateFrom(base, role, data, asDraft) ==
  LET req == HumanRequest(data, base.ws, "update") IN
  /\ Writable(base)
  /\ From("people", base)
  /\ ~HumanRefused(data, base.ws, role, "update")
  /\ asked' = (asked \/ Entitled(role, Given(req.ws, base.ws)))
  /\ \E pair \in {Update(art, base, req, "plain", TRUE, asDraft, needsWork) : needsWork \in BOOLEAN} :
       /\ Store(pair)
       /\ released' = IF role = "publisher" /\ Releases(pair, asDraft)
                      THEN released \cup {pair.latest.text} ELSE released

HumanUpdate(role, data, asDraft) ==
  /\ Written(data)
  /\ UNCHANGED pending
  /\ \E base \in Bases : HumanUpdateFrom(base, role, data, asDraft)

(* Save Draft in the admin form: the select and the text go to the draft. *)
AdminSaveDraft(role) ==
  \E ws \in Choices, text \in TextChoices :
    HumanUpdate(role, [ws |-> ws, st |-> "draft", text |-> text], TRUE)

(* Publish in the admin form.  The select is posted too, possibly from a   *)
(* form opened a while ago, so it may hold any status.                     *)
AdminPublish(role) ==
  \E ws \in Choices, text \in TextChoices :
    HumanUpdate(role, [ws |-> ws, st |-> "published", text |-> text], FALSE)

AdminUnpublish(role) ==
  HumanUpdate(role, [ws |-> Unset, st |-> "draft", text |-> Unset], FALSE)

(* The console writes workflowStatus and _status together. *)
ConsoleNative(ws) == IF ws = "published" THEN "published" ELSE "draft"
ConsoleAllows(role, ws) == role = "publisher" \/ ws \in ContributorAllowedStatuses

ConsoleUpdate(role) ==
  \E ws \in Choices, text \in TextChoices :
    /\ ConsoleAllows(role, ws)
    /\ HumanUpdate(role, [ws |-> ws, st |-> ConsoleNative(ws), text |-> text], FALSE)

ConsoleSetStatus(role) ==
  \E ws \in Choices :
    /\ ConsoleAllows(role, ws)
    /\ HumanUpdate(role, [ws |-> ws, st |-> ConsoleNative(ws), text |-> Unset], FALSE)

(* A create inserts the main row and its first version alike. *)
Created(data, byHuman, ctx, needsWork) ==
  Update([main |-> NoRow, latest |-> NoRow], NoRow, data, ctx, byHuman, FALSE, needsWork)

HumanCreate(role, data) ==
  LET req == HumanRequest(data, Unset, "create") IN
  /\ stage = "none"
  /\ texts < MaxTexts
  /\ ~HumanRefused(data, Unset, role, "create")
  /\ \E needsWork \in BOOLEAN : Store(Created(req, TRUE, "plain", needsWork))
  /\ asked' = Entitled(role, req.ws)
  /\ released' = IF Entitled(role, req.ws) THEN {NewText} ELSE {}
  /\ texts' = NewText
  /\ UNCHANGED <<pending, under, overlaps>>

AdminCreate(role) ==
  \E ws \in Choices, st \in NativeStatus :
    HumanCreate(role, [ws |-> ws, st |-> st, text |-> NewText])

ConsoleCreate(role) ==
  \E ws \in Choices :
    /\ ConsoleAllows(role, ws)
    /\ HumanCreate(role, [ws |-> ws, st |-> ConsoleNative(ws), text |-> NewText])

(* Delete takes the row and its versions; only admins reach it.  The       *)
(* histories end with the article.                                         *)
Delete ==
  /\ stage = "live"
  /\ stage' = "deleted"
  /\ art' = [main |-> NoRow, latest |-> NoRow]
  /\ asked' = FALSE
  /\ released' = {} /\ seen' = {} /\ overlaps' = {}
  /\ UNCHANGED <<texts, pending, under>>

-----------------------------------------------------------------------------
(* The content engine. *)

IntakeStatus == IF AutoPublish THEN "published" ELSE "pending_review"

IntakeCreate ==
  LET data == [ws |-> IntakeStatus, st |-> ConsoleNative(IntakeStatus), text |-> NewText] IN
  /\ stage = "none"
  /\ texts < MaxTexts
  /\ \E needsWork \in BOOLEAN : Store(Created(data, FALSE, "engineWrite", needsWork))
  /\ asked' = AutoPublish
  /\ released' = IF AutoPublish THEN {NewText} ELSE {}
  /\ texts' = NewText
  /\ UNCHANGED <<pending, under, overlaps>>

(* The idempotency lookup finds the article on the MAIN table.  The engine *)
(* may name the version it expects, or not; with a match nothing differs.  *)
IntakeRead ==
  /\ stage = "live"
  /\ MayRead
  /\ ~pending.intake
  /\ art.main.human = FALSE
  /\ pending' = [pending EXCEPT !.intake = TRUE]
  /\ UNCHANGED <<stage, art, texts, under, asked, released, seen, overlaps>>

(* A plain update: the text is the engine's, every other field is merged   *)
(* from the latest version.                                                *)
IntakeRefresh(base) ==
  /\ Writable(base)
  /\ From("intake", base)
  /\ texts < MaxTexts
  /\ pending.intake
  /\ \E needsWork \in BOOLEAN :
       Store(Update(art, base, [ws |-> Unset, st |-> Unset, text |-> NewText],
                    "engineWrite", FALSE, FALSE, needsWork))
  /\ released' = released \cup {NewText}
  /\ texts' = NewText
  /\ pending' = [pending EXCEPT !.intake = FALSE]
  /\ UNCHANGED asked

(* Each of the two updates of POST /api/engine/translation: a target        *)
(* language is stored with a plain update, so all else is merged.           *)
TranslationUpdate(base) ==
  /\ Writable(base)
  /\ From("translation", base)
  /\ Store(Update(art, base, [ws |-> Unset, st |-> Unset, text |-> Unset],
                  "translationWrite", FALSE, FALSE, FALSE))
  /\ UNCHANGED <<texts, pending, asked, released>>

-----------------------------------------------------------------------------
(* The hub's status route. *)

HubTransitions ==
  {<<"hidden", "published">>, <<"archived", "published">>, <<"published", "archived">>}

HubStatusRead(to) ==
  /\ stage = "live"
  /\ MayRead
  /\ pending.hub = "none"
  /\ <<art.main.ws, to>> \in HubTransitions
  /\ pending' = [pending EXCEPT !.hub = to]
  /\ UNCHANGED <<stage, art, texts, under, asked, released, seen, overlaps>>

HubStatusWrite(base) ==
  /\ Writable(base)
  /\ From("hub", base)
  /\ pending.hub # "none"
  /\ LET to == pending.hub IN
     /\ \E needsWork \in BOOLEAN :
          Store(Update(art, base, [ws |-> to, st |-> Unset, text |-> Unset],
                       "hubWrite", FALSE, FALSE, needsWork))
     /\ asked' = (asked \/ to = "published")
     /\ released' = IF to = "published" THEN released \cup {art.main.text} ELSE released
  /\ pending' = [pending EXCEPT !.hub = "none"]
  /\ UNCHANGED texts

-----------------------------------------------------------------------------
(* The crons find rows with draft: true, that is on the latest versions,   *)
(* and write them one after the other.                                     *)

PublishCronFind ==
  /\ stage = "live"
  /\ MayRead
  /\ ~pending.publishCron
  /\ art.latest.ws = "scheduled"
  /\ pending' = [pending EXCEPT !.publishCron = TRUE]
  /\ UNCHANGED <<stage, art, texts, under, asked, released, seen, overlaps>>

PublishCronWrite(base) ==
  /\ Writable(base)
  /\ From("publishCron", base)
  /\ pending.publishCron
  /\ \E needsWork \in BOOLEAN :
       Store(Update(art, base, [ws |-> "published", st |-> "published", text |-> Unset],
                    "plain", FALSE, FALSE, needsWork))
  /\ pending' = [pending EXCEPT !.publishCron = FALSE]
  /\ UNCHANGED <<texts, asked, released>>

(* An expired pin may be found on any article, at any time. *)
UnpinCronFind ==
  /\ stage = "live"
  /\ MayRead
  /\ pending.unpinCron = "none"
  /\ pending' = [pending EXCEPT !.unpinCron = art.latest.st]
  /\ UNCHANGED <<stage, art, texts, under, asked, released, seen, overlaps>>

UnpinCronWrite(base) ==
  /\ Writable(base)
  /\ From("unpinCron", base)
  /\ pending.unpinCron # "none"
  /\ Store(Update(art, base, [ws |-> Unset, st |-> Unset, text |-> Unset], "systemWrite", FALSE,
                  pending.unpinCron = "draft", FALSE))
  /\ pending' = [pending EXCEPT !.unpinCron = "none"]
  /\ UNCHANGED <<texts, asked, released>>

(* The write of a request fails: its article is gone, or a hook or the     *)
(* database refused it.  The request ends with nothing stored.             *)
Forgotten(w) ==
  CASE w = "intake"      -> [pending EXCEPT !.intake = FALSE]
    [] w = "hub"         -> [pending EXCEPT !.hub = "none"]
    [] w = "publishCron" -> [pending EXCEPT !.publishCron = FALSE]
    [] w = "unpinCron"   -> [pending EXCEPT !.unpinCron = "none"]
    [] OTHER             -> pending

RequestFails(w) ==
  /\ pending' = Forgotten(w)
  /\ under' = {u \in under : u.by # w}
  /\ <<pending, under>>' # <<pending, under>>
  /\ UNCHANGED <<stage, art, texts, asked, released, seen, overlaps>>

-----------------------------------------------------------------------------
HumanNext(role) ==
  \/ AdminCreate(role)
  \/ ConsoleCreate(role)
  \/ AdminSaveDraft(role)
  \/ AdminPublish(role)
  \/ AdminUnpublish(role)
  \/ ConsoleUpdate(role)
  \/ ConsoleSetStatus(role)

IntakeNext ==
  /\ "intake" \in Writers
  /\ IntakeCreate \/ IntakeRead \/ \E base \in Bases : IntakeRefresh(base)

TranslationNext ==
  /\ "translation" \in Writers
  /\ \E base \in Bases : TranslationUpdate(base)

HubNext ==
  /\ "hub" \in Writers
  /\ \/ \E to \in {"archived", "published"} : HubStatusRead(to)
     \/ \E base \in Bases : HubStatusWrite(base)

PublishCronNext ==
  /\ "publishCron" \in Writers
  /\ PublishCronFind \/ \E base \in Bases : PublishCronWrite(base)

UnpinCronNext ==
  /\ "unpinCron" \in Writers
  /\ UnpinCronFind \/ \E base \in Bases : UnpinCronWrite(base)

Next ==
  \/ \E role \in Roles : HumanNext(role)
  \/ \E w \in {"people"} \cup Writers : Begin(w) \/ RequestFails(w)
  \/ Delete
  \/ IntakeNext
  \/ TranslationNext
  \/ HubNext
  \/ PublishCronNext
  \/ UnpinCronNext

Spec == Init /\ [][Next]_vars

-----------------------------------------------------------------------------
(* Saves that overlap count from the same version, so they give a version  *)
(* out again: those above the version that a save started from, up to the  *)
(* one it replaced without having read it.                                 *)
GivenTwice(v, saves) == \E o \in saves : o[1] < v /\ v <= o[2]

(* A version names one text, unless overlapping saves gave it out twice:   *)
(* whoever compares versions (expectedVersion of the engine and the hub,   *)
(* the live gate's latest.version = main.version) learns whether the words *)
(* are still those it read, as long as no two saves overlapped.            *)
OneTextPerVersion ==
  \A p, q \in seen : p[1] = q[1] /\ ~GivenTwice(p[1], overlaps) => p[2] = q[2]

(* No article is public unless a publisher asked for published or          *)
(* scheduled, the hub asked for published, or the tenant auto-publishes.   *)
(* Neither a contributor nor an engine puts an article live on its own.    *)
NothingLiveWithoutAuthority == Public => asked

(* What puts words on the site is no contributor's save: that leaves the   *)
(* live row as it was, or takes it off the site.                           *)
ContributorNeverTouchesLive ==
  [][art'.main # art.main /\ art'.main.ws = "published" => ~HumanNext("contributor")]_vars

(* Unpublish takes the article off the site whatever draft lies over it.   *)
UnpublishTakesDown ==
  [][art'.main.ws = "published" => ~\E role \in Roles : AdminUnpublish(role)]_vars

(* The version of a surface runs backwards only by saves that overlapped:  *)
(* the version it leaves is one that they have given, or will give, twice. *)
VersionsGoBackByOverlapOnly ==
  [][stage = "live" /\ stage' = "live" =>
       /\ art'.main.ver < art.main.ver => GivenTwice(art.main.ver, overlaps')
       /\ art'.latest.ver < art.latest.ver => GivenTwice(art.latest.ver, overlaps')]_vars

(* What readers see was put there on purpose: a publisher published or     *)
(* scheduled that very text, the hub republished it, or an engine wrote    *)
(* it.  MCArticles says how far this holds.                                *)
LiveTextWasReleased == Public => art.main.text \in released

(* An engine refresh never replaces words a human has written: a           *)
(* human-edited article is never overwritten (intake/route.ts).            *)
HumanTextNotOverwritten ==
  [][(\E base \in Bases : IntakeRefresh(base)) => ~art.latest.human]_vars
=============================================================================
