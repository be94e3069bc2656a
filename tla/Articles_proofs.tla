---------------------------- MODULE Articles_proofs ----------------------------
(***************************************************************************)
(* Proofs about ArticleWorkflow - its types, that a version names one text *)
(* where no saves overlapped, that nothing goes live without authority, or *)
(* by the way -; about LiveEdit - a live edit that goes through publishes  *)
(* its own words and nothing else, started from the live row and lands on  *)
(* the version its caller named -; and about Translation - saves spare     *)
(* what an editor has approved or locked and, for engines that name the    *)
(* job they answer, no published words are left untranslated without a job. *)
(***************************************************************************)
EXTENDS MCArticles, TLAPS

-----------------------------------------------------------------------------
(* The hooks, one lemma each. *)

(* A posted column, or the stored one where none is posted. *)
LEMMA GivenType ==
  ASSUME NEW S, NEW x \in S \cup {Unset}, NEW old \in S
  PROVE  Given(x, old) \in S
BY DEF Given

(* Laying a request over a row leaves a row, of the same version. *)
LEMMA OverlayType ==
  ASSUME NEW orig \in Row, NEW data \in Data
  PROVE  /\ Overlay(orig, data) \in Row
         /\ Overlay(orig, data).ver = orig.ver
         /\ Overlay(orig, data).ws = Given(data.ws, orig.ws)
         /\ Overlay(orig, data).text = Given(data.text, orig.text)
BY DEF Overlay, Given, Row, Data

(* What the bookkeeping leaves of the row it is given. *)
BookkeepShape(row, orig, ctx, r) ==
  /\ r \in Row
  /\ r.ws = row.ws
  /\ r.st = row.st
  /\ r.text = row.text
  /\ r.ver = IF ctx \in BookkeepingExempt THEN row.ver ELSE orig.ver + 1

(* articleBookkeeping touches version and editedByHuman only. *)
LEMMA BookkeepLemma ==
  ASSUME NEW row \in Row, NEW orig \in Row, NEW ctx \in Contexts, NEW byHuman \in BOOLEAN
  PROVE  BookkeepShape(row, orig, ctx, Bookkeep(row, orig, ctx, byHuman))
<1>1. CASE ctx \in BookkeepingExempt
  BY <1>1 DEF Bookkeep, BookkeepShape
<1>2. CASE ctx \notin BookkeepingExempt
  <2> DEFINE mark == IF byHuman THEN TRUE ELSE row.human
             new  == [row EXCEPT !.ver = orig.ver + 1, !.human = mark]
  <2>1. Bookkeep(row, orig, ctx, byHuman) = new
    BY <1>2, Zenon DEF Bookkeep
  <2>2. row.human \in BOOLEAN
    BY Zenon DEF Row
  <2>3. mark \in BOOLEAN
    BY <2>2, Zenon
  <2>4. orig.ver + 1 \in Nat
    BY DEF Row
  <2> HIDE DEF mark
  <2>5. /\ new \in Row
        /\ new.ws = row.ws
        /\ new.st = row.st
        /\ new.text = row.text
        /\ new.ver = orig.ver + 1
    BY <2>3, <2>4 DEF Row
  <2>. QED BY <1>2, <2>1, <2>5 DEF BookkeepShape
<1>. QED BY <1>1, <1>2

(* A draft save keeps the main row; any other save replaces it. *)
LEMMA ReplaceType ==
  ASSUME NEW pair \in Surfaces, NEW row \in Row, NEW asDraft \in BOOLEAN
  PROVE  /\ Replace(pair, row, asDraft) \in Surfaces
         /\ Replace(pair, row, asDraft).main = IF asDraft THEN pair.main ELSE row
         /\ Replace(pair, row, asDraft).latest.ws = row.ws
         /\ Replace(pair, row, asDraft).latest.ver = row.ver
         /\ Replace(pair, row, asDraft).latest.text = row.text
BY DEF Replace, Surfaces, Row, NativeStatus

(* A write that leaves the version alone may not bring a new text. *)
TextNeedsVersion(data, ctx) == ctx \in BookkeepingExempt => data.text = Unset

(* What an update does to the two surfaces, from the latest version base. *)
UpdateShape(pair, base, data, asDraft, q) ==
  /\ q \in Surfaces
  /\ q.latest.ws = Given(data.ws, base.ws)
  /\ q.latest.text = Given(data.text, base.text)
  /\ q.main = IF asDraft THEN pair.main ELSE q.latest
  /\ q.latest.ver > base.ver \/ (q.latest.ver = base.ver /\ q.latest.text = base.text)

(* payload.update with its hooks: a new text never keeps an old version. *)
LEMMA UpdateLemma ==
  ASSUME NEW pair \in Surfaces, NEW base \in Row, NEW data \in Data, NEW ctx \in Contexts,
         NEW byHuman \in BOOLEAN, NEW asDraft \in BOOLEAN, NEW needsWork \in BOOLEAN,
         TextNeedsVersion(data, ctx)
  PROVE  UpdateShape(pair, base, data, asDraft,
                     Update(pair, base, data, ctx, byHuman, asDraft, needsWork))
<1> DEFINE over == Overlay(base, data)
           row  == Bookkeep(over, base, ctx, byHuman)
           next == Replace(pair, row, asDraft)
           last == WriteBack(next, ctx, byHuman)
<1>1. /\ over \in Row
      /\ over.ver = base.ver
      /\ over.ws = Given(data.ws, base.ws)
      /\ over.text = Given(data.text, base.text)
  BY OverlayType
<1>2. BookkeepShape(over, base, ctx, row)
  BY <1>1, BookkeepLemma, Zenon
<1>3. /\ next \in Surfaces
      /\ next.main = IF asDraft THEN pair.main ELSE row
      /\ next.latest.ws = row.ws
      /\ next.latest.ver = row.ver
      /\ next.latest.text = row.text
  BY <1>2, ReplaceType DEF BookkeepShape
<1>4. base.ver \in Nat /\ next.latest \in Row /\ next.latest.ver \in Nat
  BY <1>3 DEF Surfaces, Row
<1>5. row.ver > base.ver \/ (row.ver = base.ver /\ row.text = base.text)
  BY <1>1, <1>2, <1>4 DEF TextNeedsVersion, Given, BookkeepShape
<1>6. UpdateShape(pair, base, data, asDraft, next)
  <2>1. next.main = IF asDraft THEN pair.main ELSE next.latest
    BY <1>3 DEF Replace
  <2>. QED BY <1>1, <1>2, <1>3, <1>5, <2>1 DEF UpdateShape, BookkeepShape
<1>7. ASSUME Enqueues(next.latest, ctx) PROVE UpdateShape(pair, base, data, asDraft, last)
  <2> DEFINE again == Bookkeep(next.latest, next.latest, ctx, byHuman)
  <2>1. BookkeepShape(next.latest, next.latest, ctx, again)
    BY <1>4, BookkeepLemma, Zenon
  <2>2. last \in Surfaces /\ last.main = again /\ last.latest = again
    BY <2>1 DEF WriteBack, Replace, Surfaces, BookkeepShape
  <2>3. again.ver > base.ver \/ (again.ver = base.ver /\ again.text = base.text)
    BY <1>3, <1>4, <1>5, <2>1 DEF BookkeepShape
  <2>4. ~asDraft
    BY <1>7 DEF Enqueues, Replace
  <2>. QED BY <1>1, <1>2, <1>3, <2>1, <2>2, <2>3, <2>4 DEF UpdateShape, BookkeepShape
<1>8. \/ Update(pair, base, data, ctx, byHuman, asDraft, needsWork) = next
      \/ /\ Update(pair, base, data, ctx, byHuman, asDraft, needsWork) = last
         /\ Enqueues(next.latest, ctx)
  BY DEF Update
<1>. QED BY <1>6, <1>7, <1>8

(* The two syncs change the status of a request, never its words. *)
LEMMA HumanRequestType ==
  ASSUME NEW data \in Data, NEW old \in WorkflowStatus \cup {Unset}, NEW op
  PROVE  /\ HumanRequest(data, old, op) \in Data
         /\ HumanRequest(data, old, op).text = data.text
BY DEF HumanRequest, SyncNativePublish, SyncNativeUnpublish, Data, WorkflowStatus

-----------------------------------------------------------------------------
(* Every step creates the article, updates it once, deletes it, or leaves  *)
(* its surfaces alone.  The invariants about the surfaces are checked on   *)
(* these four.                                                             *)

Creates ==
  \E data \in Data, ctx \in Contexts \ BookkeepingExempt, byHuman, needsWork \in BOOLEAN :
    /\ stage = "none"
    /\ Store(Created(data, byHuman, ctx, needsWork))
    /\ UNCHANGED <<pending, under, overlaps>>

Changes ==
  \E w \in Updaters, base \in Bases, data \in Data, ctx \in Contexts,
     byHuman, asDraft, needsWork \in BOOLEAN :
    /\ stage = "live"
    /\ From(w, base)
    /\ TextNeedsVersion(data, ctx)
    /\ Store(Update(art, base, data, ctx, byHuman, asDraft, needsWork))

Keeps ==
  /\ UNCHANGED <<stage, art, seen, overlaps>>
  /\ \A u \in under' : u \in under \/ (stage = "live" /\ u \in [by: Updaters, row: {art.latest}])

(* The surfaces before the create are well typed. *)
LEMMA NoRowType == [main |-> NoRow, latest |-> NoRow] \in Surfaces
BY DEF NoRow, Surfaces, Row, WorkflowStatus, NativeStatus

(* Updates start from rows. *)
LEMMA BasesType ==
  ASSUME TypeOK
  PROVE  Bases \subseteq Row
BY DEF TypeOK, Bases, Surfaces

(* What an update leaves of those under way. *)
LEMMA FromLemma ==
  ASSUME TypeOK, NEW w, NEW base \in Bases, From(w, base)
  PROVE  /\ under' \subseteq under
         /\ overlaps' \subseteq Nat \X Nat
         /\ base # art.latest => overlaps' = overlaps \cup {<<base.ver, art.latest.ver>>}
         /\ overlaps \subseteq overlaps'
<1>1. base.ver \in Nat /\ art.latest.ver \in Nat
  BY BasesType DEF TypeOK, Surfaces, Row
<1>2. under' \subseteq under
  BY DEF From
<1>3. overlaps' = IF base = art.latest THEN overlaps ELSE overlaps \cup {<<base.ver, art.latest.ver>>}
  BY DEF From
<1>. QED BY <1>1, <1>2, <1>3 DEF TypeOK

(* A human's save is one update. *)
LEMMA HumanSave ==
  ASSUME TypeOK, NEW role \in Roles, NEW data \in Data, NEW asDraft \in BOOLEAN,
         NEW base \in Bases, HumanUpdateFrom(base, role, data, asDraft)
  PROVE  /\ base \in Row /\ stage = "live" /\ From("people", base)
         /\ HumanRequest(data, base.ws, "update") \in Data
         /\ HumanRequest(data, base.ws, "update").text = data.text
         /\ asked' = (asked \/ Entitled(role, Given(HumanRequest(data, base.ws, "update").ws, base.ws)))
         /\ ~HumanRefused(data, base.ws, role, "update")
         /\ \E needsWork \in BOOLEAN :
              /\ Store(Update(art, base, HumanRequest(data, base.ws, "update"), "plain", TRUE,
                              asDraft, needsWork))
              /\ UpdateShape(art, base, HumanRequest(data, base.ws, "update"), asDraft, art')
         /\ released' = IF role = "publisher" /\ Releases(art', asDraft)
                        THEN released \cup {art'.latest.text} ELSE released
<1> DEFINE req == HumanRequest(data, base.ws, "update")
<1>1. base \in Row
  BY BasesType
<1>2. base.ws \in WorkflowStatus
  BY <1>1 DEF Row
<1>3. req \in Data /\ req.text = data.text
  BY <1>2, HumanRequestType
<1>4. stage = "live" /\ From("people", base) /\ ~HumanRefused(data, base.ws, role, "update")
      /\ asked' = (asked \/ Entitled(role, Given(req.ws, base.ws)))
  BY DEF HumanUpdateFrom, Writable
<1>5. TextNeedsVersion(req, "plain") /\ "plain" \in Contexts
  BY DEF TextNeedsVersion, BookkeepingExempt, Contexts
<1>6. PICK needsWork \in BOOLEAN :
        /\ Store(Update(art, base, req, "plain", TRUE, asDraft, needsWork))
        /\ released' = IF /\ role = "publisher"
                          /\ Releases(Update(art, base, req, "plain", TRUE, asDraft, needsWork), asDraft)
                       THEN released \cup
                              {Update(art, base, req, "plain", TRUE, asDraft, needsWork).latest.text}
                       ELSE released
  BY DEF HumanUpdateFrom
<1> DEFINE q == Update(art, base, req, "plain", TRUE, asDraft, needsWork)
<1> HIDE DEF req
<1>7. UpdateShape(art, base, req, asDraft, q)
  BY <1>1, <1>3, <1>5, UpdateLemma DEF TypeOK
<1>8. art' = q
  BY <1>6 DEF Store
<1>9. released' = IF role = "publisher" /\ Releases(art', asDraft)
                  THEN released \cup {art'.latest.text} ELSE released
  BY <1>6, <1>8
<1>. QED BY <1>1, <1>3, <1>4, <1>6, <1>7, <1>8, <1>9 DEF req

LEMMA HumanUpdateChanges ==
  ASSUME TypeOK, NEW role \in Roles, NEW data \in Data, NEW asDraft \in BOOLEAN,
         HumanUpdate(role, data, asDraft)
  PROVE  Changes
<1>1. PICK base \in Bases : HumanUpdateFrom(base, role, data, asDraft)
  BY DEF HumanUpdate
<1> DEFINE req == HumanRequest(data, base.ws, "update")
<1>2. req \in Data /\ stage = "live" /\ From("people", base)
  BY <1>1, HumanSave
<1>3. PICK needsWork \in BOOLEAN : Store(Update(art, base, req, "plain", TRUE, asDraft, needsWork))
  BY <1>1, HumanSave
<1>4. TextNeedsVersion(req, "plain") /\ "plain" \in Contexts /\ "people" \in Updaters
  BY DEF TextNeedsVersion, BookkeepingExempt, Contexts, Updaters
<1> HIDE DEF req
<1>. QED BY <1>2, <1>3, <1>4 DEF Changes

(* A human's create is one create. *)
LEMMA HumanCreateCreates ==
  ASSUME NEW role \in Roles, NEW data \in Data, HumanCreate(role, data)
  PROVE  Creates
<1> DEFINE req == HumanRequest(data, Unset, "create")
<1>1. req \in Data
  BY HumanRequestType
<1>2. "plain" \in Contexts \ BookkeepingExempt
  BY DEF BookkeepingExempt, Contexts
<1>3. PICK needsWork \in BOOLEAN : Store(Created(req, TRUE, "plain", needsWork))
  BY DEF HumanCreate
<1>4. stage = "none" /\ UNCHANGED <<pending, under, overlaps>>
  BY DEF HumanCreate
<1> HIDE DEF req
<1>. QED BY <1>1, <1>2, <1>3, <1>4 DEF Creates

(* The admin form and the console do nothing but create and save. *)
LEMMA HumanNextCases ==
  ASSUME TypeOK, NEW role \in Roles, HumanNext(role)
  PROVE  \E data \in Data, asDraft \in BOOLEAN :
           \/ HumanUpdate(role, data, asDraft)
           \/ HumanCreate(role, data) /\ data.text = NewText
<1> USE DEF Data, ConsoleNative, NativeStatus
<1>1. /\ texts \in Nat /\ NewText \in Nat /\ TextChoices \subseteq Nat \cup {Unset}
      /\ Choices \subseteq WorkflowStatus
  BY ChoicesAssumption DEF TypeOK, NewText, TextChoices
<1>2. CASE AdminCreate(role)
  <2>1. PICK ws \in WorkflowStatus, st \in NativeStatus :
          HumanCreate(role, [ws |-> ws, st |-> st, text |-> NewText])
    BY <1>1, <1>2 DEF AdminCreate
  <2>2. [ws |-> ws, st |-> st, text |-> NewText] \in Data
    BY <1>1
  <2>. QED BY <2>1, <2>2, Zenon
<1>3. CASE ConsoleCreate(role)
  <2>1. PICK ws \in WorkflowStatus :
          HumanCreate(role, [ws |-> ws, st |-> ConsoleNative(ws), text |-> NewText])
    BY <1>1, <1>3 DEF ConsoleCreate
  <2>2. [ws |-> ws, st |-> ConsoleNative(ws), text |-> NewText] \in Data
    BY <1>1
  <2>. QED BY <2>1, <2>2, Zenon
<1>4. CASE AdminSaveDraft(role)
  BY <1>1, <1>4 DEF AdminSaveDraft
<1>5. CASE AdminPublish(role)
  BY <1>1, <1>5 DEF AdminPublish
<1>6. CASE AdminUnpublish(role)
  BY <1>1, <1>6 DEF AdminUnpublish
<1>7. CASE ConsoleUpdate(role)
  BY <1>1, <1>7 DEF ConsoleUpdate
<1>8. CASE ConsoleSetStatus(role)
  BY <1>1, <1>8 DEF ConsoleSetStatus
<1>. QED BY <1>2, <1>3, <1>4, <1>5, <1>6, <1>7, <1>8 DEF HumanNext

(* A machine's save is one update. *)
LEMMA MachineSave ==
  ASSUME TypeOK, NEW w \in Updaters, NEW base \in Bases, NEW data \in Data, NEW ctx \in Contexts,
         NEW asDraft \in BOOLEAN, NEW needsWork \in BOOLEAN,
         TextNeedsVersion(data, ctx), Writable(base), From(w, base),
         Store(Update(art, base, data, ctx, FALSE, asDraft, needsWork))
  PROVE  Changes /\ base \in Row /\ UpdateShape(art, base, data, asDraft, art')
<1>1. base \in Row /\ art \in Surfaces
  BY BasesType DEF TypeOK
<1>2. UpdateShape(art, base, data, asDraft,
                  Update(art, base, data, ctx, FALSE, asDraft, needsWork))
  BY <1>1, UpdateLemma
<1>3. art' = Update(art, base, data, ctx, FALSE, asDraft, needsWork)
  BY DEF Store
<1>4. Changes
  BY DEF Changes, Writable
<1>. QED BY <1>1, <1>2, <1>3, <1>4

LEMMA BareSave ==
  ASSUME TypeOK, NEW w \in Updaters, NEW base \in Bases,
         NEW ws \in WorkflowStatus \cup {Unset}, NEW st \in NativeStatus \cup {Unset},
         NEW ctx \in Contexts, NEW asDraft \in BOOLEAN, NEW needsWork \in BOOLEAN,
         Writable(base), From(w, base),
         Store(Update(art, base, [ws |-> ws, st |-> st, text |-> Unset], ctx, FALSE, asDraft, needsWork))
  PROVE  /\ Changes /\ base \in Row
         /\ UpdateShape(art, base, [ws |-> ws, st |-> st, text |-> Unset], asDraft, art')
<1> DEFINE data == [ws |-> ws, st |-> st, text |-> Unset]
<1>1. data \in Data /\ TextNeedsVersion(data, ctx)
  BY DEF Data, TextNeedsVersion
<1>2. Store(Update(art, base, data, ctx, FALSE, asDraft, needsWork))
  OBVIOUS
<1> HIDE DEF data
<1>3. Changes /\ base \in Row /\ UpdateShape(art, base, data, asDraft, art')
  BY <1>1, <1>2, MachineSave
<1>. QED BY <1>3 DEF data

(* The machines' saves, each with what it names and what it goes without. *)
LEMMA RefreshSave ==
  ASSUME TypeOK, NEW base \in Bases, IntakeRefresh(base)
  PROVE  /\ Changes /\ base \in Row /\ NewText \in Nat
         /\ UpdateShape(art, base, [ws |-> Unset, st |-> Unset, text |-> NewText], FALSE, art')
<1> DEFINE data == [ws |-> Unset, st |-> Unset, text |-> NewText]
<1>1. NewText \in Nat
  BY DEF TypeOK, NewText
<1>2. data \in Data /\ TextNeedsVersion(data, "engineWrite") /\ "engineWrite" \in Contexts
      /\ "intake" \in Updaters
  BY <1>1 DEF Data, TextNeedsVersion, BookkeepingExempt, Contexts, Updaters, MachineWriters
<1>3. PICK needsWork \in BOOLEAN :
        Store(Update(art, base, data, "engineWrite", FALSE, FALSE, needsWork))
  BY DEF IntakeRefresh
<1>4. Writable(base) /\ From("intake", base)
  BY DEF IntakeRefresh
<1> HIDE DEF data
<1>5. Changes /\ base \in Row /\ UpdateShape(art, base, data, FALSE, art')
  BY <1>2, <1>3, <1>4, MachineSave
<1>. QED BY <1>1, <1>5 DEF data

LEMMA TranslationSave ==
  ASSUME TypeOK, NEW base \in Bases, TranslationUpdate(base)
  PROVE  /\ Changes /\ base \in Row
         /\ UpdateShape(art, base, [ws |-> Unset, st |-> Unset, text |-> Unset], FALSE, art')
<1>1. /\ Writable(base) /\ From("translation", base)
      /\ Store(Update(art, base, [ws |-> Unset, st |-> Unset, text |-> Unset],
                      "translationWrite", FALSE, FALSE, FALSE))
  BY DEF TranslationUpdate
<1>2. "translationWrite" \in Contexts /\ "translation" \in Updaters
  BY DEF Contexts, Updaters, MachineWriters
<1>. QED BY <1>1, <1>2, BareSave

LEMMA HubSave ==
  ASSUME TypeOK, NEW base \in Bases, HubStatusWrite(base)
  PROVE  /\ Changes /\ base \in Row /\ pending.hub \in {"archived", "published"}
         /\ UpdateShape(art, base, [ws |-> pending.hub, st |-> Unset, text |-> Unset], FALSE, art')
<1>1. pending.hub \in {"archived", "published"}
  BY DEF TypeOK, Pending, HubStatusWrite
<1>2. PICK needsWork \in BOOLEAN :
        Store(Update(art, base, [ws |-> pending.hub, st |-> Unset, text |-> Unset],
                     "hubWrite", FALSE, FALSE, needsWork))
  BY DEF HubStatusWrite
<1>3. Writable(base) /\ From("hub", base)
  BY DEF HubStatusWrite
<1>4. "hubWrite" \in Contexts /\ "hub" \in Updaters /\ pending.hub \in WorkflowStatus
  BY <1>1 DEF Contexts, Updaters, MachineWriters, WorkflowStatus
<1>. QED BY <1>1, <1>2, <1>3, <1>4, BareSave

LEMMA PublishCronSave ==
  ASSUME TypeOK, NEW base \in Bases, PublishCronWrite(base)
  PROVE  /\ Changes /\ base \in Row
         /\ UpdateShape(art, base, [ws |-> "published", st |-> "published", text |-> Unset],
                        FALSE, art')
<1>1. PICK needsWork \in BOOLEAN :
        Store(Update(art, base, [ws |-> "published", st |-> "published", text |-> Unset],
                     "plain", FALSE, FALSE, needsWork))
  BY DEF PublishCronWrite
<1>2. Writable(base) /\ From("publishCron", base)
  BY DEF PublishCronWrite
<1>3. /\ "plain" \in Contexts /\ "publishCron" \in Updaters
      /\ "published" \in WorkflowStatus \cap NativeStatus
  BY DEF Contexts, Updaters, MachineWriters, WorkflowStatus, NativeStatus
<1>. QED BY <1>1, <1>2, <1>3, BareSave

LEMMA UnpinSave ==
  ASSUME TypeOK, NEW base \in Bases, UnpinCronWrite(base)
  PROVE  /\ Changes /\ base \in Row
         /\ UpdateShape(art, base, [ws |-> Unset, st |-> Unset, text |-> Unset],
                        pending.unpinCron = "draft", art')
<1> DEFINE asDraft == pending.unpinCron = "draft"
<1>1. "systemWrite" \in Contexts /\ "unpinCron" \in Updaters /\ asDraft \in BOOLEAN
  BY DEF Contexts, Updaters, MachineWriters
<1>2. Store(Update(art, base, [ws |-> Unset, st |-> Unset, text |-> Unset],
                   "systemWrite", FALSE, asDraft, FALSE))
  BY DEF UnpinCronWrite
<1>3. Writable(base) /\ From("unpinCron", base)
  BY DEF UnpinCronWrite
<1> HIDE DEF asDraft
<1>4. /\ Changes /\ base \in Row
      /\ UpdateShape(art, base, [ws |-> Unset, st |-> Unset, text |-> Unset], asDraft, art')
  BY <1>1, <1>2, <1>3, BareSave
<1>. QED BY <1>4 DEF asDraft

(* The engine's steps: a create, a reading, a refresh. *)
LEMMA IntakeStep ==
  ASSUME TypeOK, IntakeNext
  PROVE  Creates \/ Changes \/ Keeps
<1>1. CASE IntakeCreate
  <2> DEFINE data == [ws |-> IntakeStatus, st |-> ConsoleNative(IntakeStatus), text |-> NewText]
  <2>1. data \in Data
    BY DEF Data, ConsoleNative, NativeStatus, TypeOK, NewText, IntakeStatus, WorkflowStatus
  <2>2. PICK needsWork \in BOOLEAN : Store(Created(data, FALSE, "engineWrite", needsWork))
    BY <1>1 DEF IntakeCreate
  <2>3. stage = "none" /\ UNCHANGED <<pending, under, overlaps>>
    BY <1>1 DEF IntakeCreate
  <2>4. "engineWrite" \in Contexts \ BookkeepingExempt
    BY DEF Contexts, BookkeepingExempt
  <2> HIDE DEF data
  <2>. QED BY <2>1, <2>2, <2>3, <2>4 DEF Creates
<1>2. CASE IntakeRead
  BY <1>2 DEF IntakeRead, Keeps
<1>. QED BY <1>1, <1>2, RefreshSave DEF IntakeNext

(* An update begins, or a request is given up. *)
LEMMA BeginOrFail ==
  ASSUME TypeOK, NEW w \in Updaters, Begin(w) \/ RequestFails(w)
  PROVE  /\ Keeps /\ UNCHANGED <<texts, asked, released>>
         /\ pending' = pending \/ pending' = Forgotten(w)
         /\ stage = "live" \/ under' \subseteq under
<1>1. CASE Begin(w)
  <2>1. /\ stage = "live" /\ under' = under \cup {[by |-> w, row |-> art.latest]}
        /\ UNCHANGED <<stage, art, seen, overlaps>> /\ UNCHANGED <<texts, asked, released, pending>>
    BY <1>1 DEF Begin
  <2>2. [by |-> w, row |-> art.latest] \in [by: Updaters, row: {art.latest}]
    OBVIOUS
  <2>. QED BY <2>1, <2>2 DEF Keeps
<1>2. CASE RequestFails(w)
  <2>1. /\ under' \subseteq under /\ UNCHANGED <<stage, art, seen, overlaps>>
        /\ UNCHANGED <<texts, asked, released>> /\ pending' = Forgotten(w)
    BY <1>2 DEF RequestFails
  <2>. QED BY <2>1 DEF Keeps
<1>. QED BY <1>1, <1>2

(* Every step is a create, an update, a deletion, or leaves the surfaces   *)
(* alone.                                                                  *)
LEMMA StepKinds ==
  ASSUME TypeOK, Next
  PROVE  Creates \/ Changes \/ Delete \/ Keeps
<1>1. ASSUME NEW role \in Roles, HumanNext(role)
      PROVE  Creates \/ Changes
  BY <1>1, HumanNextCases, HumanUpdateChanges, HumanCreateCreates
<1>2. ASSUME NEW w \in {"people"} \cup Writers, Begin(w) \/ RequestFails(w)
      PROVE  Keeps
  BY <1>2, BeginOrFail, WritersAssumption DEF Updaters
<1>3. CASE TranslationNext
  BY <1>3, TranslationSave DEF TranslationNext
<1>4. CASE HubNext
  <2>1. CASE \E to \in {"archived", "published"} : HubStatusRead(to)
    BY <2>1 DEF HubStatusRead, Keeps
  <2>. QED BY <1>4, <2>1, HubSave DEF HubNext
<1>5. CASE PublishCronNext
  <2>1. CASE PublishCronFind
    BY <2>1 DEF PublishCronFind, Keeps
  <2>. QED BY <1>5, <2>1, PublishCronSave DEF PublishCronNext
<1>6. CASE UnpinCronNext
  <2>1. CASE UnpinCronFind
    BY <2>1 DEF UnpinCronFind, Keeps
  <2>. QED BY <1>6, <2>1, UnpinSave DEF UnpinCronNext
<1>. QED BY <1>1, <1>2, <1>3, <1>4, <1>5, <1>6, IntakeStep DEF Next

-----------------------------------------------------------------------------
(* Types. *)

(* A create stores one well-typed row on both surfaces. *)
LEMMA CreatedShape ==
  ASSUME NEW data \in Data, NEW ctx \in Contexts \ BookkeepingExempt,
         NEW byHuman \in BOOLEAN, NEW needsWork \in BOOLEAN
  PROVE  /\ Created(data, byHuman, ctx, needsWork) \in Surfaces
         /\ Created(data, byHuman, ctx, needsWork).main = Created(data, byHuman, ctx, needsWork).latest
         /\ Created(data, byHuman, ctx, needsWork).latest.ws = Given(data.ws, "draft")
         /\ Created(data, byHuman, ctx, needsWork).latest.text = Given(data.text, 0)
<1> DEFINE none == [main |-> NoRow, latest |-> NoRow]
<1>1. TextNeedsVersion(data, ctx)
  BY DEF TextNeedsVersion
<1>2. NoRow.ws = "draft" /\ NoRow.text = 0
  BY DEF NoRow
<1>3. none \in Surfaces /\ NoRow \in Row
  BY NoRowType DEF Surfaces
<1> HIDE DEF none
<1>4. UpdateShape(none, NoRow, data, FALSE,
                  Update(none, NoRow, data, ctx, byHuman, FALSE, needsWork))
  BY <1>1, <1>3, UpdateLemma
<1>5. Created(data, byHuman, ctx, needsWork)
        = Update(none, NoRow, data, ctx, byHuman, FALSE, needsWork)
  BY DEF Created, none
<1>. QED BY <1>2, <1>4, <1>5 DEF UpdateShape

(* What the surfaces show is a set of pairs of numbers. *)
LEMMA ShownType ==
  ASSUME NEW pair \in Surfaces
  PROVE  Shown(pair) \subseteq Nat \X Nat
BY DEF Shown, Surfaces, Row

(* An update, by what it stores. *)
LEMMA ChangesShape ==
  ASSUME TypeOK, Changes
  PROVE  \E w \in Updaters, base \in Bases, data \in Data, asDraft \in BOOLEAN, q \in Surfaces :
           /\ base \in Row /\ stage = "live" /\ From(w, base)
           /\ Store(q) /\ UpdateShape(art, base, data, asDraft, q)
<1>1. PICK w \in Updaters, base \in Bases, data \in Data, ctx \in Contexts,
           byHuman, asDraft, needsWork \in BOOLEAN :
        /\ stage = "live" /\ From(w, base) /\ TextNeedsVersion(data, ctx)
        /\ Store(Update(art, base, data, ctx, byHuman, asDraft, needsWork))
  BY DEF Changes
<1> DEFINE q == Update(art, base, data, ctx, byHuman, asDraft, needsWork)
<1>2. base \in Row /\ art \in Surfaces
  BY BasesType DEF TypeOK
<1>3. UpdateShape(art, base, data, asDraft, q)
  BY <1>1, <1>2, UpdateLemma
<1>4. Store(q)
  BY <1>1
<1> HIDE DEF q
<1>5. q \in Surfaces
  BY <1>3 DEF UpdateShape
<1>. QED BY <1>1, <1>2, <1>3, <1>4, <1>5

(* Every step leaves the surfaces and the updates under way well typed. *)
LEMMA SurfaceTypes ==
  ASSUME TypeOK, Creates \/ Changes \/ Delete \/ Keeps
  PROVE  /\ stage' \in {"none", "live", "deleted"}
         /\ art' \in Surfaces
         /\ under' \subseteq [by: Updaters, row: Row]
         /\ seen' \subseteq Nat \X Nat
         /\ overlaps' \subseteq Nat \X Nat
<1>1. CASE Creates
  <2>1. PICK q \in Surfaces : Store(q)
    BY <1>1, CreatedShape DEF Creates
  <2>2. UNCHANGED <<under, overlaps>>
    BY <1>1 DEF Creates
  <2>. QED BY <2>1, <2>2, ShownType DEF Store, TypeOK
<1>2. CASE Changes
  <2>1. PICK w \in Updaters, base \in Bases, q \in Surfaces : From(w, base) /\ Store(q)
    BY <1>2, ChangesShape
  <2>2. under' \subseteq under /\ overlaps' \subseteq Nat \X Nat
    BY <2>1, FromLemma
  <2>. QED BY <2>1, <2>2, ShownType DEF Store, TypeOK
<1>3. CASE Delete
  BY <1>3, NoRowType DEF Delete, TypeOK
<1>4. CASE Keeps
  <2>1. art.latest \in Row
    BY DEF TypeOK, Surfaces
  <2>. QED BY <1>4, <2>1 DEF Keeps, TypeOK
<1>. QED BY <1>1, <1>2, <1>3, <1>4

(* Every step leaves the other variables well typed. *)
LEMMA HistoryTypes ==
  ASSUME TypeOK, Next, art' \in Surfaces
  PROVE  /\ texts' \in Nat
         /\ pending' \in Pending
         /\ asked' \in BOOLEAN
         /\ released' \subseteq Nat
<1> USE DEF TypeOK
<1>1. /\ NewText \in Nat
      /\ art.main.text \in Nat /\ art'.latest.text \in Nat /\ art.latest.st \in NativeStatus
  BY DEF NewText, Surfaces, Row
<1>2. ASSUME NEW role \in Roles, HumanNext(role)
      PROVE  /\ texts' \in Nat
             /\ pending' \in Pending
             /\ asked' \in BOOLEAN
             /\ released' \subseteq Nat
  <2>1. PICK data \in Data, asDraft \in BOOLEAN :
          HumanUpdate(role, data, asDraft) \/ HumanCreate(role, data)
    BY <1>2, HumanNextCases
  <2>2. CASE HumanUpdate(role, data, asDraft)
    <3>1. texts' \in Nat /\ pending' = pending
      BY <1>1, <2>2 DEF HumanUpdate, Written
    <3>2. PICK base \in Bases : HumanUpdateFrom(base, role, data, asDraft)
      BY <2>2 DEF HumanUpdate
    <3>3. asked' \in BOOLEAN
      BY <3>2, Zenon DEF HumanUpdateFrom, Entitled
    <3>4. released' \subseteq released \cup {art'.latest.text}
      BY <3>2, HumanSave
    <3>. QED BY <1>1, <3>1, <3>3, <3>4
  <2>3. CASE HumanCreate(role, data)
    <3>1. asked' \in BOOLEAN
      BY <2>3, Zenon DEF HumanCreate, Entitled
    <3>. QED BY <1>1, <2>3, <3>1 DEF HumanCreate
  <2>. QED BY <2>1, <2>2, <2>3
<1>3. CASE Delete
  BY <1>3 DEF Delete
<1>4. CASE IntakeNext
  BY <1>1, <1>4, AutoPublishAssumption
     DEF IntakeNext, IntakeCreate, IntakeRead, IntakeRefresh, Pending
<1>5. CASE TranslationNext
  BY <1>5 DEF TranslationNext, TranslationUpdate
<1>6. CASE HubNext
  <2>1. CASE \E to \in {"archived", "published"} : HubStatusRead(to)
    BY <2>1 DEF HubStatusRead, Pending
  <2>2. ASSUME NEW base \in Bases, HubStatusWrite(base)
        PROVE  /\ texts' \in Nat
               /\ pending' \in Pending
               /\ asked' \in BOOLEAN
               /\ released' \subseteq Nat
    <3>1. asked' \in BOOLEAN
      BY <2>2, Zenon DEF HubStatusWrite
    <3>. QED BY <1>1, <2>2, <3>1 DEF HubStatusWrite, Pending
  <2>. QED BY <1>6, <2>1, <2>2 DEF HubNext
<1>7. CASE PublishCronNext
  BY <1>7 DEF PublishCronNext, PublishCronFind, PublishCronWrite, Pending
<1>8. CASE UnpinCronNext
  BY <1>1, <1>8 DEF UnpinCronNext, UnpinCronFind, UnpinCronWrite, Pending
<1>9. ASSUME NEW w \in {"people"} \cup Writers, Begin(w) \/ RequestFails(w)
      PROVE  /\ texts' \in Nat
             /\ pending' \in Pending
             /\ asked' \in BOOLEAN
             /\ released' \subseteq Nat
  <2>1. Forgotten(w) \in Pending
    BY DEF Forgotten, Pending
  <2>2. UNCHANGED <<texts, asked, released>> /\ (pending' = pending \/ pending' = Forgotten(w))
    BY <1>9, BeginOrFail, WritersAssumption DEF Updaters
  <2>. QED BY <2>1, <2>2
<1>. QED BY <1>2, <1>3, <1>4, <1>5, <1>6, <1>7, <1>8, <1>9 DEF Next

(* The state of ArticleWorkflow stays well formed whatever writers are     *)
(* switched on: every hook, every update that stores over what it has not  *)
(* read and every two-step request stores proper rows.                     *)
THEOREM TypeCorrect == Spec => []TypeOK
<1>1. Init => TypeOK
  <2>1. NothingPending \in Pending
    BY DEF NothingPending, Pending
  <2>2. Init => asked \in BOOLEAN
    BY Zenon DEF Init
  <2>3. Init => /\ texts \in Nat /\ released \subseteq Nat /\ seen \subseteq Nat \X Nat
                /\ under \subseteq [by: Updaters, row: Row] /\ overlaps \subseteq Nat \X Nat
    BY DEF Init
  <2>. QED BY <2>1, <2>2, <2>3, NoRowType, Zenon DEF Init, TypeOK
<1>2. TypeOK /\ [Next]_vars => TypeOK'
  <2> SUFFICES ASSUME TypeOK, [Next]_vars PROVE TypeOK'
    OBVIOUS
  <2>1. CASE Next
    <3>1. /\ stage' \in {"none", "live", "deleted"}
          /\ art' \in Surfaces
          /\ under' \subseteq [by: Updaters, row: Row]
          /\ seen' \subseteq Nat \X Nat
          /\ overlaps' \subseteq Nat \X Nat
      BY <2>1, StepKinds, SurfaceTypes
    <3>2. /\ texts' \in Nat
          /\ pending' \in Pending
          /\ asked' \in BOOLEAN
          /\ released' \subseteq Nat
      BY <2>1, <3>1, HistoryTypes
    <3>. QED BY <3>1, <3>2 DEF TypeOK
  <2>2. CASE UNCHANGED vars
    BY <2>2 DEF TypeOK, vars
  <2>. QED BY <2>1, <2>2
<1>. QED BY <1>1, <1>2, PTL DEF Spec

-----------------------------------------------------------------------------
(* One text per version.  The invariant that carries it: what was shown    *)
(* under a version above the latest is what overlapping saves have given   *)
(* out, or will give out, twice; and the surfaces, and all that updates    *)
(* under way have read, are among what was shown.  A write that brings a   *)
(* text then brings a version that is fresh, or given twice.               *)

Told(row) == <<row.ver, row.text>> \in seen

VersionInv ==
  /\ OneTextPerVersion
  /\ stage = "none" => seen = {} /\ under = {}
  /\ stage = "live" => /\ \A p \in seen : p[1] <= art.latest.ver \/ GivenTwice(p[1], overlaps)
                       /\ Told(art.main) /\ Told(art.latest)
                       /\ \A u \in under : Told(u.row)

(* A create starts the history of versions. *)
LEMMA CreatesVersions ==
  ASSUME VersionInv, Creates
  PROVE  VersionInv'
<1>1. PICK q \in Surfaces : Store(q) /\ q.main = q.latest
  BY CreatedShape DEF Creates
<1>2. q.latest.ver \in Nat
  BY DEF Surfaces, Row
<1>3. seen = {} /\ under' = {}
  BY DEF VersionInv, Creates
<1>4. /\ stage' = "live"
      /\ art' = q
      /\ seen' = {<<q.latest.ver, q.latest.text>>}
  BY <1>1, <1>3 DEF Store, Shown
<1>. QED BY <1>1, <1>2, <1>3, <1>4 DEF VersionInv, OneTextPerVersion, Told

(* Whatever was given twice stays so. *)
LEMMA StillTwice ==
  ASSUME NEW saves, NEW more, saves \subseteq more, NEW v, GivenTwice(v, saves)
  PROVE  GivenTwice(v, more)
BY DEF GivenTwice

(* An update keeps one text per version. *)
LEMMA ChangesVersions ==
  ASSUME TypeOK, VersionInv, Changes
  PROVE  VersionInv'
<1>1. PICK w \in Updaters, base \in Bases, data \in Data, asDraft \in BOOLEAN, q \in Surfaces :
        /\ base \in Row /\ stage = "live" /\ From(w, base)
        /\ Store(q) /\ UpdateShape(art, base, data, asDraft, q)
  BY ChangesShape
<1>2. /\ art.latest.ver \in Nat /\ q.latest.ver \in Nat /\ base.ver \in Nat
      /\ \A p \in seen : p[1] \in Nat
  BY <1>1 DEF TypeOK, Surfaces, Row
<1>3. /\ \A p \in seen : p[1] <= art.latest.ver \/ GivenTwice(p[1], overlaps)
      /\ Told(art.main) /\ Told(art.latest) /\ \A u \in under : Told(u.row)
  BY <1>1 DEF VersionInv
<1>4. Told(base)
  BY <1>3 DEF Bases
<1>5. /\ under' \subseteq under /\ overlaps \subseteq overlaps'
      /\ base # art.latest => <<base.ver, art.latest.ver>> \in overlaps'
  BY <1>1, FromLemma
<1> DEFINE new == <<q.latest.ver, q.latest.text>>
<1>6. /\ stage' = "live" /\ art' = q /\ seen' = seen \cup {new}
      /\ Told(art.main)' /\ Told(art.latest)' /\ \A u \in under' : Told(u.row)'
  BY <1>1, <1>3, <1>5 DEF Store, Shown, UpdateShape, Told
<1>7. ASSUME NEW p \in seen, p[1] > base.ver
      PROVE  (p[1] <= q.latest.ver /\ base = art.latest) \/ GivenTwice(p[1], overlaps')
  <2>1. CASE GivenTwice(p[1], overlaps)
    BY <1>5, <2>1, StillTwice
  <2>2. CASE p[1] <= art.latest.ver /\ base = art.latest
    BY <1>2, <1>7, <2>2
  <2>3. CASE p[1] <= art.latest.ver /\ base # art.latest
    <3>1. <<base.ver, art.latest.ver>> \in overlaps'
      BY <1>5, <2>3
    <3>2. <<base.ver, art.latest.ver>>[1] < p[1] /\ p[1] <= <<base.ver, art.latest.ver>>[2]
      BY <1>2, <1>7, <2>3
    <3>. QED BY <3>1, <3>2 DEF GivenTwice
  <2>. QED BY <1>3, <2>1, <2>2, <2>3
<1>8. \A p \in seen' : p[1] <= q.latest.ver \/ GivenTwice(p[1], overlaps')
  <2> SUFFICES ASSUME NEW p \in seen'
               PROVE  p[1] <= q.latest.ver \/ GivenTwice(p[1], overlaps')
    OBVIOUS
  <2>1. CASE p = new
    BY <1>2, <2>1
  <2>2. CASE p \in seen /\ p[1] > base.ver
    BY <1>7, <2>2
  <2>3. CASE p \in seen /\ ~(p[1] > base.ver)
    BY <1>1, <1>2, <2>3 DEF UpdateShape
  <2>. QED BY <1>6, <2>1, <2>2, <2>3
<1>9. ASSUME NEW p \in seen, p[1] = q.latest.ver, ~GivenTwice(p[1], overlaps')
      PROVE  p[2] = q.latest.text
  <2>1. CASE q.latest.ver > base.ver
    <3>1. p[1] > base.ver
      BY <1>9, <2>1
    <3>2. base = art.latest
      BY <1>7, <1>9, <3>1
    <3>3. GivenTwice(p[1], overlaps)
      BY <1>2, <1>3, <3>1, <3>2
    <3>. QED BY <1>5, <1>9, <3>3, StillTwice
  <2>2. CASE q.latest.ver = base.ver /\ q.latest.text = base.text
    <3>1. ~GivenTwice(p[1], overlaps)
      BY <1>5, <1>9, StillTwice
    <3>2. <<base.ver, base.text>> \in seen
      BY <1>4 DEF Told
    <3>. QED BY <1>9, <2>2, <3>1, <3>2 DEF VersionInv, OneTextPerVersion
  <2>. QED BY <1>1, <2>1, <2>2 DEF UpdateShape
<1>10. OneTextPerVersion'
  <2> SUFFICES ASSUME NEW p \in seen', NEW r \in seen', p[1] = r[1], ~GivenTwice(p[1], overlaps')
               PROVE  p[2] = r[2]
    BY DEF OneTextPerVersion
  <2>1. CASE p \in seen /\ r \in seen
    <3>1. ~GivenTwice(p[1], overlaps)
      BY <1>5, StillTwice
    <3>. QED BY <2>1, <3>1 DEF VersionInv, OneTextPerVersion
  <2>2. CASE p = new /\ r \in seen
    BY <1>9, <2>2
  <2>3. CASE p \in seen /\ r = new
    BY <1>9, <2>3
  <2>. QED BY <1>6, <2>1, <2>2, <2>3
<1> HIDE DEF new
<1>. QED BY <1>6, <1>8, <1>10 DEF VersionInv

(* VersionInv is inductive. *)
LEMMA VersionStep ==
  ASSUME TypeOK, VersionInv, [Next]_vars
  PROVE  VersionInv'
<1>1. CASE Keeps
  <2>1. UNCHANGED <<stage, art, seen, overlaps>>
    BY <1>1 DEF Keeps
  <2>2. ASSUME NEW u \in under'
        PROVE  u \in under \/ (stage = "live" /\ u.row = art.latest)
    BY <1>1, <2>2 DEF Keeps
  <2>. QED BY <2>1, <2>2 DEF VersionInv, OneTextPerVersion, Told
<1>2. CASE UNCHANGED vars
  BY <1>2 DEF vars, VersionInv, OneTextPerVersion, Told
<1>3. CASE Delete
  BY <1>3 DEF Delete, VersionInv, OneTextPerVersion
<1>. QED BY <1>1, <1>2, <1>3, StepKinds, CreatesVersions, ChangesVersions

LEMMA VersionStart == Init => VersionInv
BY DEF Init, VersionInv, OneTextPerVersion

(* Comparing versions is enough to know the words are the same, as long as *)
(* no saves overlapped: two texts of an article carry the same version     *)
(* only if that version lies above the one that some save started from and *)
(* is no later than the one it replaced without having read it.            *)
THEOREM OneTextPerVersionHolds == Spec => []OneTextPerVersion
<1>1. TypeOK /\ VersionInv /\ [Next]_vars => VersionInv'
  BY VersionStep
<1>2. VersionInv => OneTextPerVersion
  BY DEF VersionInv
<1>. QED BY <1>1, <1>2, VersionStart, TypeCorrect, PTL DEF Spec

(* The version of a surface runs backwards only by saves that overlapped,  *)
(* for every writer: the version that it leaves is given out twice.        *)
THEOREM VersionsForward == Spec => VersionsGoBackByOverlapOnly
<1> DEFINE Forward == stage = "live" /\ stage' = "live" =>
                        /\ art'.main.ver < art.main.ver => GivenTwice(art.main.ver, overlaps')
                        /\ art'.latest.ver < art.latest.ver => GivenTwice(art.latest.ver, overlaps')
<1>1. TypeOK /\ VersionInv /\ [Next]_vars => VersionInv'
  BY VersionStep
<1>2. TypeOK /\ TypeOK' /\ VersionInv /\ VersionInv' /\ [Next]_vars => [Forward]_vars
  <2> SUFFICES ASSUME TypeOK, TypeOK', VersionInv, VersionInv', Next, stage = "live", stage' = "live"
               PROVE  /\ art'.main.ver < art.main.ver => GivenTwice(art.main.ver, overlaps')
                      /\ art'.latest.ver < art.latest.ver => GivenTwice(art.latest.ver, overlaps')
    OBVIOUS
  <2>1. /\ art.latest.ver \in Nat /\ art.main.ver \in Nat
        /\ art'.latest.ver \in Nat /\ art'.main.ver \in Nat
    BY DEF TypeOK, Surfaces, Row
  <2>2. CASE Changes
    <3>1. PICK base \in Bases, data \in Data, asDraft \in BOOLEAN, q \in Surfaces :
            Store(q) /\ UpdateShape(art, base, data, asDraft, q)
      BY <2>2, ChangesShape
    <3>2. art' = q /\ seen \subseteq seen' /\ (q.main = art.main \/ q.main = q.latest)
      BY <3>1 DEF Store, UpdateShape
    <3>3. <<art.main.ver, art.main.text>> \in seen' /\ <<art.latest.ver, art.latest.text>> \in seen'
      BY <3>2 DEF VersionInv, Told
    <3>4. /\ art.main.ver <= art'.latest.ver \/ GivenTwice(art.main.ver, overlaps')
          /\ art.latest.ver <= art'.latest.ver \/ GivenTwice(art.latest.ver, overlaps')
      BY <3>3 DEF VersionInv
    <3>. QED BY <2>1, <3>2, <3>4
  <2>3. CASE Keeps
    BY <2>1, <2>3 DEF Keeps
  <2>. QED BY <2>2, <2>3, StepKinds DEF Creates, Delete
<1>. QED BY <1>1, <1>2, VersionStart, TypeCorrect, PTL DEF Spec, VersionsGoBackByOverlapOnly


-----------------------------------------------------------------------------
(* Authority.  The invariant: whatever is live, or on its way there - on   *)
(* the latest version, in an update that has read a latest version, in the *)
(* hands of the publish cron - was asked for.                              *)

OnItsWayLive ==
  \/ art.main.ws = "published"
  \/ art.latest.ws \in {"published", "scheduled"}
  \/ \E u \in under : u.row.ws \in {"published", "scheduled"}
  \/ pending.publishCron = TRUE

AuthorityInv ==
  /\ stage = "none" => under = {} /\ pending.publishCron = FALSE
  /\ stage = "live" /\ OnItsWayLive => asked = TRUE

(* An update is as entitled as its request and what it started from. *)
LEMMA UpdateAuthority ==
  ASSUME TypeOK, AuthorityInv, NEW w \in Updaters, NEW base \in Bases, NEW data \in Data,
         NEW asDraft \in BOOLEAN, stage = "live", From(w, base), stage' = "live",
         UpdateShape(art, base, data, asDraft, art'),
         pending'.publishCron = TRUE => pending.publishCron = TRUE,
         asked = TRUE => asked' = TRUE,
         data.ws \in {"published", "scheduled"} => asked' = TRUE \/ OnItsWayLive
  PROVE  AuthorityInv'
<1>1. under' \subseteq under
  BY FromLemma
<1>2. /\ art'.latest.ws = Given(data.ws, base.ws)
      /\ art'.main = art.main \/ art'.main = art'.latest
  BY DEF UpdateShape
<1>3. base.ws \in {"published", "scheduled"} => OnItsWayLive
  BY DEF Bases, OnItsWayLive
<1>4. OnItsWayLive' => OnItsWayLive \/ asked' = TRUE
  <2>1. art'.latest.ws \in {"published", "scheduled"} => OnItsWayLive \/ asked' = TRUE
    BY <1>2, <1>3 DEF Given
  <2>2. art'.main.ws = "published" => OnItsWayLive \/ asked' = TRUE
    BY <1>2, <2>1 DEF OnItsWayLive
  <2>3. (\E u \in under' : u.row.ws \in {"published", "scheduled"}) => OnItsWayLive
    BY <1>1 DEF OnItsWayLive
  <2>4. pending'.publishCron = TRUE => OnItsWayLive
    BY DEF OnItsWayLive
  <2>. QED BY <2>1, <2>2, <2>3, <2>4 DEF OnItsWayLive
<1>5. OnItsWayLive => asked' = TRUE
  BY DEF AuthorityInv
<1>. QED BY <1>4, <1>5 DEF AuthorityInv

(* A create is as entitled as its request. *)
LEMMA CreateAuthority ==
  ASSUME AuthorityInv, NEW ws, stage = "none", stage' = "live", UNCHANGED <<pending, under>>,
         art'.main = art'.latest, art'.latest.ws = ws,
         ws \in {"published", "scheduled"} => asked' = TRUE
  PROVE  AuthorityInv'
BY DEF AuthorityInv, OnItsWayLive

(* A reading puts nothing on its way that was not. *)
LEMMA ReadingAuthority ==
  ASSUME AuthorityInv, Keeps, asked' = asked,
         pending'.publishCron = TRUE =>
           pending.publishCron = TRUE \/ (stage = "live" /\ art.latest.ws = "scheduled"),
         pending'.publishCron \in BOOLEAN
  PROVE  AuthorityInv'
<1>1. /\ UNCHANGED <<stage, art>>
      /\ \A u \in under' : u \in under \/ (stage = "live" /\ u.row = art.latest)
  BY DEF Keeps
<1>2. CASE stage = "none"
  <2>1. under' = {}
    BY <1>1, <1>2 DEF AuthorityInv
  <2>2. pending'.publishCron = FALSE
    BY <1>2 DEF AuthorityInv
  <2>. QED BY <1>1, <1>2, <2>1, <2>2 DEF AuthorityInv
<1>3. CASE stage = "live"
  <2>1. OnItsWayLive' => OnItsWayLive
    <3>1. (\E u \in under' : u.row.ws \in {"published", "scheduled"}) => OnItsWayLive
      BY <1>1 DEF OnItsWayLive
    <3>. QED BY <1>1, <3>1 DEF OnItsWayLive
  <2>. QED BY <1>1, <1>3, <2>1 DEF AuthorityInv
<1>. QED BY <1>1, <1>2, <1>3 DEF AuthorityInv

(* A human's step puts nothing live that was not asked for. *)
LEMMA HumanAuthority ==
  ASSUME TypeOK, AuthorityInv, NEW role \in Roles, HumanNext(role)
  PROVE  AuthorityInv'
<1>1. PICK data \in Data, asDraft \in BOOLEAN :
        HumanUpdate(role, data, asDraft) \/ HumanCreate(role, data)
  BY HumanNextCases
<1>2. CASE HumanUpdate(role, data, asDraft)
  <2>1. PICK base \in Bases : HumanUpdateFrom(base, role, data, asDraft)
    BY <1>2 DEF HumanUpdate
  <2> DEFINE req == HumanRequest(data, base.ws, "update")
             ws  == Given(req.ws, base.ws)
  <2>2. /\ base \in Row /\ stage = "live" /\ From("people", base) /\ req \in Data
        /\ asked' = (asked \/ Entitled(role, ws))
    BY <2>1, HumanSave
  <2>3. stage' = "live" /\ UpdateShape(art, base, req, asDraft, art')
    BY <2>1, HumanSave DEF Store
  <2>4. StatusAllowed(req, base.ws, role)
    BY <2>1 DEF HumanUpdateFrom, HumanRefused
  <2>5. /\ asked = TRUE => asked' = TRUE
        /\ Entitled(role, ws) => asked' = TRUE
    BY <2>2, Zenon
  <2>6. req.ws \in {"published", "scheduled"} => Entitled(role, ws)
    <3>1. ws \in ContributorAllowedStatuses \/ role = "publisher"
      BY <2>4 DEF StatusAllowed
    <3>2. req.ws # Unset => ws = req.ws
      BY DEF Given
    <3>3. Unset \notin {"published", "scheduled"}
      BY UnsetIsNoValue DEF WorkflowStatus
    <3>. QED BY <3>1, <3>2, <3>3 DEF Entitled, ContributorAllowedStatuses
  <2>7. pending' = pending /\ "people" \in Updaters
    BY <1>2 DEF HumanUpdate, Updaters
  <2> HIDE DEF req
  <2>. QED BY <2>2, <2>3, <2>5, <2>6, <2>7, UpdateAuthority
<1>3. CASE HumanCreate(role, data)
  <2> DEFINE req == HumanRequest(data, Unset, "create")
  <2>1. req \in Data
    BY HumanRequestType
  <2>2. PICK needsWork \in BOOLEAN : Store(Created(req, TRUE, "plain", needsWork))
    BY <1>3 DEF HumanCreate
  <2>3. /\ stage = "none"
        /\ UNCHANGED <<pending, under>>
        /\ StatusAllowed(req, Unset, role)
        /\ asked' = Entitled(role, req.ws)
    BY <1>3 DEF HumanCreate, HumanRefused
  <2>4. "plain" \in Contexts \ BookkeepingExempt
    BY DEF Contexts, BookkeepingExempt
  <2> HIDE DEF req
  <2>5. /\ stage' = "live"
        /\ art'.main = art'.latest
        /\ art'.latest.ws = Given(req.ws, "draft")
    BY <2>1, <2>2, <2>4, CreatedShape DEF Store
  <2>6. art'.latest.ws \in {"published", "scheduled"} => Entitled(role, req.ws)
    BY <2>3, <2>5 DEF Given, StatusAllowed, ContributorAllowedStatuses, Entitled
  <2>7. art'.latest.ws \in {"published", "scheduled"} => asked' = TRUE
    BY <2>3, <2>6, Zenon
  <2>. QED BY <2>3, <2>5, <2>7, CreateAuthority
<1>. QED BY <1>1, <1>2, <1>3

(* Nor does a step of the content engine or the translator. *)
LEMMA EngineAuthority ==
  ASSUME TypeOK, AuthorityInv, IntakeNext \/ TranslationNext
  PROVE  AuthorityInv'
<1>1. /\ Unset \notin {"published", "scheduled"}
      /\ "intake" \in Updaters /\ "translation" \in Updaters
  BY UnsetIsNoValue DEF WorkflowStatus, Updaters, MachineWriters
<1>2. CASE IntakeCreate
  <2> DEFINE data == [ws |-> IntakeStatus, st |-> ConsoleNative(IntakeStatus), text |-> NewText]
  <2>1. data \in Data /\ data.ws = IntakeStatus /\ IntakeStatus \in WorkflowStatus
    BY DEF Data, ConsoleNative, NativeStatus, IntakeStatus, WorkflowStatus, TypeOK, NewText
  <2>2. PICK needsWork \in BOOLEAN : Store(Created(data, FALSE, "engineWrite", needsWork))
    BY <1>2 DEF IntakeCreate
  <2>3. stage = "none" /\ UNCHANGED <<pending, under>> /\ asked' = AutoPublish
    BY <1>2 DEF IntakeCreate
  <2>4. "engineWrite" \in Contexts \ BookkeepingExempt
    BY DEF Contexts, BookkeepingExempt
  <2> HIDE DEF data
  <2>5. /\ stage' = "live"
        /\ art'.main = art'.latest
        /\ art'.latest.ws = IntakeStatus
    BY <2>1, <2>2, <2>4, CreatedShape, UnsetIsNoValue DEF Store, Given
  <2>6. IntakeStatus \in {"published", "scheduled"} => asked' = TRUE
    BY <2>3, AutoPublishAssumption DEF IntakeStatus
  <2>. QED BY <2>3, <2>5, <2>6, CreateAuthority
<1>3. CASE IntakeRead
  <2>1. /\ UNCHANGED <<stage, art, seen, overlaps, under>> /\ asked' = asked
        /\ pending'.publishCron = pending.publishCron
    BY <1>3 DEF IntakeRead, TypeOK, Pending
  <2>2. Keeps /\ pending.publishCron \in BOOLEAN
    BY <2>1 DEF Keeps, TypeOK, Pending
  <2>. QED BY <2>1, <2>2, ReadingAuthority
<1>4. ASSUME NEW base \in Bases, IntakeRefresh(base)
      PROVE  AuthorityInv'
  <2> DEFINE data == [ws |-> Unset, st |-> Unset, text |-> NewText]
  <2>1. /\ stage = "live" /\ From("intake", base) /\ asked' = asked
        /\ pending'.publishCron = pending.publishCron
    BY <1>4 DEF IntakeRefresh, Writable, TypeOK, Pending
  <2>2. stage' = "live"
    BY <1>4 DEF IntakeRefresh, Store
  <2>3. UpdateShape(art, base, data, FALSE, art') /\ data.ws = Unset /\ data \in Data
    BY <1>4, RefreshSave DEF Data
  <2> HIDE DEF data
  <2>. QED BY <1>1, <2>1, <2>2, <2>3, UpdateAuthority
<1>5. ASSUME NEW base \in Bases, TranslationUpdate(base)
      PROVE  AuthorityInv'
  <2> DEFINE data == [ws |-> Unset, st |-> Unset, text |-> Unset]
  <2>1. stage = "live" /\ From("translation", base) /\ asked' = asked /\ pending' = pending
    BY <1>5 DEF TranslationUpdate, Writable
  <2>2. stage' = "live"
    BY <1>5 DEF TranslationUpdate, Store
  <2>3. UpdateShape(art, base, data, FALSE, art') /\ data.ws = Unset /\ data \in Data
    BY <1>5, TranslationSave DEF Data
  <2> HIDE DEF data
  <2>. QED BY <1>1, <2>1, <2>2, <2>3, UpdateAuthority
<1>. QED BY <1>2, <1>3, <1>4, <1>5 DEF IntakeNext, TranslationNext

(* Nor does the hub's status route: it asks itself. *)
LEMMA HubAuthority ==
  ASSUME TypeOK, AuthorityInv, HubNext
  PROVE  AuthorityInv'
<1>1. CASE \E to \in {"archived", "published"} : HubStatusRead(to)
  <2>1. /\ UNCHANGED <<stage, art, seen, overlaps, under>> /\ asked' = asked
        /\ pending'.publishCron = pending.publishCron
    BY <1>1 DEF HubStatusRead, TypeOK, Pending
  <2>2. Keeps /\ pending.publishCron \in BOOLEAN
    BY <2>1 DEF Keeps, TypeOK, Pending
  <2>. QED BY <2>1, <2>2, ReadingAuthority
<1>2. ASSUME NEW base \in Bases, HubStatusWrite(base)
      PROVE  AuthorityInv'
  <2> DEFINE to   == pending.hub
             data == [ws |-> to, st |-> Unset, text |-> Unset]
  <2>1. /\ stage = "live" /\ From("hub", base)
        /\ asked' = (asked \/ to = "published")
        /\ pending'.publishCron = pending.publishCron
    BY <1>2 DEF HubStatusWrite, Writable, TypeOK, Pending
  <2>2. stage' = "live" /\ "hub" \in Updaters
    BY <1>2 DEF HubStatusWrite, Store, Updaters, MachineWriters
  <2>3. /\ UpdateShape(art, base, data, FALSE, art') /\ data.ws = to
        /\ to \in {"archived", "published"} /\ data \in Data
    BY <1>2, HubSave DEF Data, WorkflowStatus
  <2>4. /\ asked = TRUE => asked' = TRUE
        /\ to = "published" => asked' = TRUE
    BY <2>1, Zenon
  <2> HIDE DEF data
  <2>. QED BY <2>1, <2>2, <2>3, <2>4, UpdateAuthority
<1>. QED BY <1>1, <1>2 DEF HubNext

(* Nor do the crons: what they publish was scheduled. *)
LEMMA CronAuthority ==
  ASSUME TypeOK, AuthorityInv, PublishCronNext \/ UnpinCronNext
  PROVE  AuthorityInv'
<1>1. /\ pending.publishCron \in BOOLEAN
      /\ "publishCron" \in Updaters /\ "unpinCron" \in Updaters
  BY DEF TypeOK, Pending, Updaters, MachineWriters
<1>2. CASE PublishCronFind
  <2>1. /\ UNCHANGED <<stage, art, seen, overlaps, under>> /\ asked' = asked
        /\ stage = "live" /\ art.latest.ws = "scheduled" /\ pending'.publishCron = TRUE
    BY <1>2 DEF PublishCronFind, TypeOK, Pending
  <2>2. Keeps
    BY <2>1 DEF Keeps
  <2>. QED BY <2>1, <2>2, ReadingAuthority
<1>3. ASSUME NEW base \in Bases, PublishCronWrite(base)
      PROVE  AuthorityInv'
  <2> DEFINE data == [ws |-> "published", st |-> "published", text |-> Unset]
  <2>1. /\ stage = "live" /\ From("publishCron", base) /\ asked' = asked
        /\ pending.publishCron = TRUE
    BY <1>3 DEF PublishCronWrite, Writable, TypeOK, Pending
  <2>2. stage' = "live"
    BY <1>3 DEF PublishCronWrite, Store
  <2>3. UpdateShape(art, base, data, FALSE, art') /\ data \in Data
    BY <1>3, PublishCronSave DEF Data, WorkflowStatus, NativeStatus
  <2>4. OnItsWayLive
    BY <2>1 DEF OnItsWayLive
  <2> HIDE DEF data
  <2>. QED BY <1>1, <2>1, <2>2, <2>3, <2>4, UpdateAuthority
<1>4. CASE UnpinCronFind
  <2>1. /\ UNCHANGED <<stage, art, seen, overlaps, under>> /\ asked' = asked
        /\ pending'.publishCron = pending.publishCron
    BY <1>4 DEF UnpinCronFind, TypeOK, Pending
  <2>2. Keeps
    BY <2>1 DEF Keeps
  <2>. QED BY <1>1, <2>1, <2>2, ReadingAuthority
<1>5. ASSUME NEW base \in Bases, UnpinCronWrite(base)
      PROVE  AuthorityInv'
  <2> DEFINE data    == [ws |-> Unset, st |-> Unset, text |-> Unset]
             asDraft == pending.unpinCron = "draft"
  <2>1. /\ stage = "live" /\ From("unpinCron", base) /\ asked' = asked
        /\ pending'.publishCron = pending.publishCron
    BY <1>5 DEF UnpinCronWrite, Writable, TypeOK, Pending
  <2>2. stage' = "live" /\ Unset \notin {"published", "scheduled"}
    BY <1>5, UnsetIsNoValue DEF UnpinCronWrite, Store, WorkflowStatus
  <2>3. UpdateShape(art, base, data, asDraft, art') /\ data.ws = Unset /\ data \in Data
        /\ asDraft \in BOOLEAN
    BY <1>5, UnpinSave DEF Data
  <2> HIDE DEF data, asDraft
  <2>. QED BY <1>1, <2>1, <2>2, <2>3, UpdateAuthority
<1>. QED BY <1>2, <1>3, <1>4, <1>5 DEF PublishCronNext, UnpinCronNext

(* AuthorityInv is inductive. *)
LEMMA AuthorityStep ==
  ASSUME TypeOK, AuthorityInv, [Next]_vars
  PROVE  AuthorityInv'
<1>1. CASE Delete
  BY <1>1 DEF Delete, AuthorityInv
<1>2. ASSUME NEW w \in {"people"} \cup Writers, Begin(w) \/ RequestFails(w)
      PROVE  AuthorityInv'
  <2>1. /\ Keeps /\ asked' = asked
        /\ pending' = pending \/ pending' = Forgotten(w)
    BY <1>2, BeginOrFail, WritersAssumption DEF Updaters
  <2>2. /\ pending'.publishCron = TRUE => pending.publishCron = TRUE
        /\ pending'.publishCron \in BOOLEAN
    BY <2>1 DEF Forgotten, TypeOK, Pending
  <2>. QED BY <2>1, <2>2, ReadingAuthority
<1>3. CASE UNCHANGED vars
  BY <1>3 DEF vars, AuthorityInv, OnItsWayLive
<1>. QED BY <1>1, <1>2, <1>3, HumanAuthority, EngineAuthority, HubAuthority, CronAuthority DEF Next

(* No contributor, engine or cron puts an article live on its own: there   *)
(* is always a publisher, the hub or the tenant's auto-publish behind it.  *)
THEOREM AuthorityHolds == Spec => []NothingLiveWithoutAuthority
<1>1. Init => AuthorityInv
  BY DEF Init, AuthorityInv, NothingPending
<1>2. TypeOK /\ AuthorityInv /\ [Next]_vars => AuthorityInv'
  BY AuthorityStep
<1>3. AuthorityInv => NothingLiveWithoutAuthority
  BY DEF AuthorityInv, OnItsWayLive, NothingLiveWithoutAuthority, Public
<1>. QED BY <1>1, <1>2, <1>3, TypeCorrect, PTL DEF Spec

(* A contributor's save leaves the live row as it was or takes it down,    *)
(* whatever was stored while it was under way.                             *)
THEOREM ContributorHolds == Spec => ContributorNeverTouchesLive
<1> DEFINE Kept == art'.main # art.main /\ art'.main.ws = "published" => ~HumanNext("contributor")
<1>1. TypeOK /\ [Next]_vars => [Kept]_vars
  <2> SUFFICES ASSUME TypeOK, HumanNext("contributor")
               PROVE  art'.main = art.main \/ art'.main.ws # "published"
    OBVIOUS
  <2>1. "contributor" \in Roles
    BY DEF Roles
  <2>2. PICK data \in Data, asDraft \in BOOLEAN :
          HumanUpdate("contributor", data, asDraft) \/ HumanCreate("contributor", data)
    BY <2>1, HumanNextCases
  <2>3. CASE HumanUpdate("contributor", data, asDraft)
    <3>1. PICK base \in Bases : HumanUpdateFrom(base, "contributor", data, asDraft)
      BY <2>3 DEF HumanUpdate
    <3> DEFINE req == HumanRequest(data, base.ws, "update")
    <3>2. UpdateShape(art, base, req, asDraft, art')
      BY <2>1, <3>1, HumanSave
    <3>3. Given(req.ws, base.ws) \in ContributorAllowedStatuses
      BY <3>1 DEF HumanUpdateFrom, HumanRefused, StatusAllowed
    <3> HIDE DEF req
    <3>. QED BY <3>2, <3>3 DEF UpdateShape, ContributorAllowedStatuses
  <2>4. CASE HumanCreate("contributor", data)
    <3> DEFINE req == HumanRequest(data, Unset, "create")
    <3>1. req \in Data
      BY HumanRequestType
    <3>2. PICK needsWork \in BOOLEAN : Store(Created(req, TRUE, "plain", needsWork))
      BY <2>4 DEF HumanCreate
    <3>3. Given(req.ws, Unset) \in ContributorAllowedStatuses
      BY <2>4 DEF HumanCreate, HumanRefused, StatusAllowed
    <3>4. "plain" \in Contexts \ BookkeepingExempt
      BY DEF Contexts, BookkeepingExempt
    <3> HIDE DEF req
    <3>5. art'.main = art'.latest /\ art'.latest.ws = Given(req.ws, "draft")
      BY <3>1, <3>2, <3>4, CreatedShape DEF Store
    <3>. QED BY <3>3, <3>5 DEF Given, ContributorAllowedStatuses
  <2>. QED BY <2>2, <2>3, <2>4
<1>. QED BY <1>1, TypeCorrect, PTL DEF Spec, ContributorNeverTouchesLive

(* Unpublish empties the site of the article, even under an open draft and *)
(* whatever the update had read.                                           *)
THEOREM UnpublishHolds == Spec => UnpublishTakesDown
<1> DEFINE Down == art'.main.ws = "published" => ~\E role \in Roles : AdminUnpublish(role)
<1>1. TypeOK /\ [Next]_vars => [Down]_vars
  <2> SUFFICES ASSUME TypeOK, NEW role \in Roles, AdminUnpublish(role)
               PROVE  art'.main.ws # "published"
    OBVIOUS
  <2> DEFINE data == [ws |-> Unset, st |-> "draft", text |-> Unset]
  <2>1. data \in Data
    BY DEF Data, NativeStatus
  <2>2. PICK base \in Bases : HumanUpdateFrom(base, role, data, FALSE)
    BY DEF AdminUnpublish, HumanUpdate
  <2> DEFINE req == HumanRequest(data, base.ws, "update")
  <2>3. Given(req.ws, base.ws) # "published"
    <3>1. req = SyncNativeUnpublish(data, base.ws)
      BY DEF HumanRequest, SyncNativePublish
    <3>2. CASE base.ws = "published"
      <4>1. req = [data EXCEPT !.ws = "hidden"]
        BY <3>1, <3>2 DEF SyncNativeUnpublish, ExplicitChange
      <4>2. req.ws = "hidden" /\ Unset # "hidden"
        BY <4>1, UnsetIsNoValue DEF WorkflowStatus
      <4>. QED BY <4>2 DEF Given
    <3>3. CASE base.ws # "published"
      BY <3>1, <3>3 DEF SyncNativeUnpublish, Given
    <3>. QED BY <3>2, <3>3
  <2> HIDE DEF data
  <2>4. UpdateShape(art, base, req, FALSE, art')
    BY <2>1, <2>2, HumanSave
  <2> HIDE DEF req
  <2>. QED BY <2>3, <2>4 DEF UpdateShape
<1>. QED BY <1>1, TypeCorrect, PTL DEF Spec, UnpublishTakesDown

-----------------------------------------------------------------------------
(* What readers see.  The invariant: the text on the site, and the text    *)
(* the publish cron is about to put there - scheduled on the latest        *)
(* version, or on one that an update under way has read -, were put on     *)
(* their way by somebody entitled, or a machine's write took them along.   *)

Accounted == released \cup carried

OnPurpose ==
  /\ stage = "none" => under = {}
  /\ stage = "live" =>
       /\ art.main.ws = "published" => art.main.text \in Accounted
       /\ \A base \in Bases : base.ws = "scheduled" => base.text \in Accounted

(* What a write has to see to, once it has stored its rows: its own text,  *)
(* wherever it leaves it public or scheduled, and the main row it keeps.   *)
LEMMA PurposeOfUpdate ==
  ASSUME TypeOK, OnPurpose, stage = "live", stage' = "live", NEW w, NEW base \in Bases, From(w, base),
         NEW data, NEW asDraft \in BOOLEAN, UpdateShape(art, base, data, asDraft, art'),
         Accounted \subseteq Accounted',
         ~asDraft /\ art'.latest.ws = "published" => art'.latest.text \in Accounted',
         art'.latest.ws = "scheduled" => art'.latest.text \in Accounted'
  PROVE  OnPurpose'
<1>1. under' \subseteq under
  BY FromLemma
<1>2. \A u \in under' : u.row.ws = "scheduled" => u.row.text \in Accounted'
  BY <1>1 DEF OnPurpose, Bases
<1>3. art'.main.ws = "published" => art'.main.text \in Accounted'
  BY DEF OnPurpose, UpdateShape
<1>4. \A b \in Bases' : b.ws = "scheduled" => b.text \in Accounted'
  BY <1>2 DEF Bases
<1>. QED BY <1>3, <1>4 DEF OnPurpose

(* What is read is on its way already, or not. *)
LEMMA PurposeOfReading ==
  ASSUME OnPurpose, Keeps, released' = released, carried \subseteq carried'
  PROVE  OnPurpose'
<1>1. /\ UNCHANGED <<stage, art>> /\ Accounted \subseteq Accounted'
      /\ \A u \in under' : u \in under \/ (stage = "live" /\ u.row = art.latest)
  BY DEF Keeps, Accounted
<1>2. Bases' \subseteq Bases
  BY <1>1 DEF Bases
<1>3. stage = "none" => under' = {}
  BY <1>1 DEF OnPurpose
<1>. QED BY <1>1, <1>2, <1>3 DEF OnPurpose

(* A create starts nothing but its own text on its way. *)
LEMMA PurposeOfCreate ==
  ASSUME OnPurpose, stage = "none", stage' = "live", under' = under, art'.main = art'.latest,
         art'.latest.ws \in {"published", "scheduled"} => art'.latest.text \in Accounted'
  PROVE  OnPurpose'
<1>1. Bases' = {art'.latest}
  BY DEF OnPurpose, Bases
<1>. QED BY <1>1 DEF OnPurpose

(* A human's save: only a publisher leaves a text public or scheduled. *)
LEMMA HumanUpdatePurpose ==
  ASSUME TypeOK, OnPurpose, NEW role \in Roles, NEW data \in Data, NEW asDraft \in BOOLEAN,
         HumanUpdate(role, data, asDraft), carried \subseteq carried'
  PROVE  OnPurpose'
<1>1. PICK base \in Bases : HumanUpdateFrom(base, role, data, asDraft)
  BY DEF HumanUpdate
<1> DEFINE req == HumanRequest(data, base.ws, "update")
<1>2. /\ stage = "live" /\ From("people", base)
      /\ released' = IF role = "publisher" /\ Releases(art', asDraft)
                     THEN released \cup {art'.latest.text} ELSE released
  BY <1>1, HumanSave
<1>3. stage' = "live" /\ UpdateShape(art, base, req, asDraft, art')
  BY <1>1, HumanSave DEF Store
<1>4. StatusAllowed(req, base.ws, role)
  BY <1>1 DEF HumanUpdateFrom, HumanRefused
<1> HIDE DEF req
<1>5. Accounted \subseteq Accounted'
  BY <1>2 DEF Accounted
<1>6. role # "publisher" => art'.latest.ws \notin {"published", "scheduled"}
  BY <1>3, <1>4 DEF StatusAllowed, UpdateShape, ContributorAllowedStatuses
<1>7. /\ ~asDraft /\ art'.latest.ws = "published" => art'.latest.text \in Accounted'
      /\ art'.latest.ws = "scheduled" => art'.latest.text \in Accounted'
  BY <1>2, <1>3, <1>6 DEF Accounted, Releases, UpdateShape
<1>. QED BY <1>2, <1>3, <1>5, <1>7, PurposeOfUpdate

(* A create: the text is on its way live only if its writer is entitled.   *)
LEMMA HumanCreatePurpose ==
  ASSUME NEW role \in Roles, NEW data \in Data, data.text = NewText, TypeOK, OnPurpose,
         HumanCreate(role, data)
  PROVE  OnPurpose'
<1> DEFINE req == HumanRequest(data, Unset, "create")
<1>1. req \in Data /\ req.text = NewText /\ NewText \in Nat
  <2>1. req \in Data /\ req.text = data.text
    BY HumanRequestType
  <2>2. NewText \in Nat
    BY DEF TypeOK, NewText
  <2>. QED BY <2>1, <2>2
<1>2. PICK needsWork \in BOOLEAN : Store(Created(req, TRUE, "plain", needsWork))
  BY DEF HumanCreate
<1>3. /\ StatusAllowed(req, Unset, role)
      /\ released' = IF Entitled(role, req.ws) THEN {NewText} ELSE {}
  BY DEF HumanCreate, HumanRefused
<1>4. "plain" \in Contexts \ BookkeepingExempt
  BY DEF Contexts, BookkeepingExempt
<1> HIDE DEF req
<1>5. /\ stage' = "live"
      /\ art'.main = art'.latest
      /\ art'.latest.ws = Given(req.ws, "draft")
      /\ art'.latest.text = NewText
  <2> DEFINE new == Created(req, TRUE, "plain", needsWork)
  <2>1. /\ new.main = new.latest
        /\ new.latest.ws = Given(req.ws, "draft")
        /\ new.latest.text = Given(req.text, 0)
    BY <1>1, <1>4, CreatedShape
  <2>2. stage' = "live" /\ art' = new
    BY <1>2 DEF Store
  <2>3. Given(req.text, 0) = NewText
    BY <1>1, UnsetIsNoValue DEF Given
  <2> HIDE DEF new
  <2>. QED BY <2>1, <2>2, <2>3
<1>6. art'.latest.ws \in {"published", "scheduled"} => Entitled(role, req.ws)
  BY <1>3, <1>5 DEF Given, StatusAllowed, ContributorAllowedStatuses, Entitled
<1>7. art'.latest.ws \in {"published", "scheduled"} => art'.latest.text \in Accounted'
  BY <1>3, <1>5, <1>6 DEF Accounted
<1>8. stage = "none" /\ under' = under
  BY DEF HumanCreate
<1>. QED BY <1>5, <1>7, <1>8, PurposeOfCreate

(* The engine releases the words it writes.                                *)
LEMMA IntakePurpose ==
  ASSUME TypeOK, OnPurpose, IntakeNext, carried \subseteq carried'
  PROVE  OnPurpose'
<1>1. NewText \in Nat
  BY DEF TypeOK, NewText
<1>2. CASE IntakeCreate
  <2> DEFINE data == [ws |-> IntakeStatus, st |-> ConsoleNative(IntakeStatus), text |-> NewText]
  <2>1. /\ data \in Data /\ data.ws = IntakeStatus /\ data.text = NewText
        /\ IntakeStatus \in WorkflowStatus
    BY <1>1 DEF Data, ConsoleNative, NativeStatus, IntakeStatus, WorkflowStatus
  <2>2. PICK needsWork \in BOOLEAN : Store(Created(data, FALSE, "engineWrite", needsWork))
    BY <1>2 DEF IntakeCreate
  <2>3. stage = "none" /\ under' = under /\ released' = IF AutoPublish THEN {NewText} ELSE {}
    BY <1>2 DEF IntakeCreate
  <2>4. "engineWrite" \in Contexts \ BookkeepingExempt
    BY DEF Contexts, BookkeepingExempt
  <2> HIDE DEF data
  <2>5. /\ stage' = "live"
        /\ art'.main = art'.latest
        /\ art'.latest.ws = IntakeStatus
        /\ art'.latest.text = NewText
    BY <1>1, <2>1, <2>2, <2>4, CreatedShape, UnsetIsNoValue DEF Store, Given
  <2>6. art'.latest.ws \in {"published", "scheduled"} => art'.latest.text \in Accounted'
    BY <2>3, <2>5 DEF Accounted, IntakeStatus
  <2>. QED BY <2>3, <2>5, <2>6, PurposeOfCreate
<1>3. CASE IntakeRead
  BY <1>3, PurposeOfReading DEF IntakeRead, Keeps
<1>4. ASSUME NEW base \in Bases, IntakeRefresh(base)
      PROVE  OnPurpose'
  <2> DEFINE data == [ws |-> Unset, st |-> Unset, text |-> NewText]
  <2>1. stage = "live" /\ From("intake", base) /\ released' = released \cup {NewText}
    BY <1>4 DEF IntakeRefresh, Writable
  <2>2. stage' = "live"
    BY <1>4 DEF IntakeRefresh, Store
  <2>3. UpdateShape(art, base, data, FALSE, art') /\ data.text = NewText
    BY <1>4, RefreshSave
  <2> HIDE DEF data
  <2>4. art'.latest.text \in Accounted' /\ Accounted \subseteq Accounted'
    BY <1>1, <2>1, <2>3, UnsetIsNoValue DEF UpdateShape, Given, Accounted
  <2>. QED BY <2>1, <2>2, <2>3, <2>4, PurposeOfUpdate
<1>. QED BY <1>2, <1>3, <1>4 DEF IntakeNext

(* A machine's save with no text and no status of its own: what it puts    *)
(* live was live in those words already, or it is taken along.             *)
LEMMA BareUpdatePurpose ==
  ASSUME TypeOK, OnPurpose, stage = "live", stage' = "live",
         NEW w, NEW base \in Bases, From(w, base), NEW asDraft \in BOOLEAN,
         UpdateShape(art, base, [ws |-> Unset, st |-> Unset, text |-> Unset], asDraft, art'),
         released' = released, carried \subseteq carried',
         Differs(base) => base.text \in carried'
  PROVE  OnPurpose'
<1> DEFINE data == [ws |-> Unset, st |-> Unset, text |-> Unset]
<1>1. data.ws = Unset /\ data.text = Unset /\ UpdateShape(art, base, data, asDraft, art')
  OBVIOUS
<1> HIDE DEF data
<1>2. art'.latest.ws = base.ws /\ art'.latest.text = base.text
  BY <1>1 DEF UpdateShape, Given
<1>3. Accounted \subseteq Accounted'
  BY DEF Accounted
<1>4. art'.latest.ws \in {"published", "scheduled"} => art'.latest.text \in Accounted'
  <2>1. CASE Differs(base)
    BY <1>2, <2>1 DEF Accounted
  <2>2. CASE ~Differs(base)
    <3>1. base.text = art.main.text /\ base.ws = art.main.ws
      BY <2>2 DEF Differs
    <3>. QED BY <1>2, <1>3, <3>1 DEF OnPurpose
  <2>. QED BY <2>1, <2>2
<1>. QED BY <1>1, <1>3, <1>4, PurposeOfUpdate

(* The hub names the text it saw on the site when it publishes.            *)
LEMMA HubPurpose ==
  ASSUME TypeOK, OnPurpose, NEW base \in Bases, HubStatusWrite(base), carried \subseteq carried',
         Differs(base) => base.text \in carried'
  PROVE  OnPurpose'
<1> DEFINE to   == pending.hub
           data == [ws |-> to, st |-> Unset, text |-> Unset]
<1>1. /\ stage = "live" /\ From("hub", base)
      /\ released' = IF to = "published" THEN released \cup {art.main.text} ELSE released
  BY DEF HubStatusWrite, Writable
<1>2. stage' = "live"
  BY DEF HubStatusWrite, Store
<1>3. /\ UpdateShape(art, base, data, FALSE, art') /\ data.ws = to /\ data.text = Unset
      /\ to \in {"archived", "published"}
  BY HubSave
<1> HIDE DEF data
<1>4. art'.latest.ws = to /\ art'.latest.text = base.text
  BY <1>3, UnsetIsNoValue DEF UpdateShape, Given, WorkflowStatus
<1>5. Accounted \subseteq Accounted'
  BY <1>1 DEF Accounted
<1>6. to = "published" => art'.latest.text \in Accounted'
  BY <1>1, <1>4 DEF Differs, Accounted
<1>. QED BY <1>1, <1>2, <1>3, <1>4, <1>5, <1>6, PurposeOfUpdate

(* The publish cron puts live what is scheduled, or takes along what is    *)
(* not scheduled any more.                                                 *)
LEMMA PublishCronPurpose ==
  ASSUME TypeOK, OnPurpose, NEW base \in Bases, PublishCronWrite(base), carried \subseteq carried',
         base.ws # "scheduled" => base.text \in carried'
  PROVE  OnPurpose'
<1> DEFINE data == [ws |-> "published", st |-> "published", text |-> Unset]
<1>1. stage = "live" /\ From("publishCron", base) /\ released' = released
  BY DEF PublishCronWrite, Writable
<1>2. stage' = "live"
  BY DEF PublishCronWrite, Store
<1>3. UpdateShape(art, base, data, FALSE, art') /\ data.ws = "published" /\ data.text = Unset
  BY PublishCronSave
<1> HIDE DEF data
<1>4. art'.latest.ws = "published" /\ art'.latest.text = base.text
  BY <1>3, UnsetIsNoValue DEF UpdateShape, Given, WorkflowStatus
<1>5. Accounted \subseteq Accounted'
  BY <1>1 DEF Accounted
<1>6. art'.latest.text \in Accounted'
  BY <1>1, <1>4, <1>5 DEF OnPurpose, Accounted
<1>. QED BY <1>1, <1>2, <1>3, <1>4, <1>5, <1>6, PurposeOfUpdate

(* What a machine's write carries is noted. *)
LEMMA CarriedIsNoted ==
  ASSUME NextCarrying, NEW base \in Bases, Carries(base)
  PROVE  base.text \in carried'
<1>1. carried' = carried \cup {b.text : b \in {c \in Bases : Carries(c)}}
  BY DEF NextCarrying
<1>. QED BY <1>1

(* OnPurpose is inductive. *)
LEMMA PurposeStep ==
  ASSUME TypeOK, OnPurpose, [NextCarrying]_workflowVars
  PROVE  OnPurpose'
<1>1. CASE UNCHANGED workflowVars
  BY <1>1 DEF workflowVars, vars, OnPurpose, Accounted, Bases
<1>2. CASE NextCarrying
  <2>1. Next /\ carried \subseteq carried'
    BY <1>2 DEF NextCarrying
  <2>2. ASSUME NEW role \in Roles, HumanNext(role)
        PROVE  OnPurpose'
    BY <2>1, <2>2, HumanNextCases, HumanUpdatePurpose, HumanCreatePurpose
  <2>3. CASE Delete
    BY <2>3 DEF Delete, OnPurpose
  <2>4. CASE IntakeNext
    BY <2>1, <2>4, IntakePurpose
  <2>5. CASE TranslationNext
    <3>1. PICK base \in Bases : TranslationUpdate(base)
      BY <2>5 DEF TranslationNext
    <3>2. stage = "live" /\ From("translation", base) /\ released' = released
      BY <3>1 DEF TranslationUpdate, Writable
    <3>3. stage' = "live"
      BY <3>1 DEF TranslationUpdate, Store
    <3>4. Differs(base) => base.text \in carried'
      BY <1>2, <3>1, CarriedIsNoted DEF Carries
    <3>5. UpdateShape(art, base, [ws |-> Unset, st |-> Unset, text |-> Unset], FALSE, art')
      BY <3>1, TranslationSave
    <3>. QED BY <2>1, <3>2, <3>3, <3>4, <3>5, BareUpdatePurpose
  <2>6. CASE HubNext
    <3>1. CASE \E to \in {"archived", "published"} : HubStatusRead(to)
      BY <2>1, <3>1, PurposeOfReading DEF HubStatusRead, Keeps
    <3>2. ASSUME NEW base \in Bases, HubStatusWrite(base) PROVE OnPurpose'
      <4>1. Differs(base) => base.text \in carried'
        BY <1>2, <3>2, CarriedIsNoted DEF Carries
      <4>. QED BY <2>1, <3>2, <4>1, HubPurpose
    <3>. QED BY <2>6, <3>1, <3>2 DEF HubNext
  <2>7. CASE PublishCronNext
    <3>1. CASE PublishCronFind
      BY <2>1, <3>1, PurposeOfReading DEF PublishCronFind, Keeps
    <3>2. ASSUME NEW base \in Bases, PublishCronWrite(base) PROVE OnPurpose'
      <4>1. base.ws # "scheduled" => base.text \in carried'
        BY <1>2, <3>2, CarriedIsNoted DEF Carries
      <4>. QED BY <2>1, <3>2, <4>1, PublishCronPurpose
    <3>. QED BY <2>7, <3>1, <3>2 DEF PublishCronNext
  <2>8. CASE UnpinCronNext
    <3>1. CASE UnpinCronFind
      BY <2>1, <3>1, PurposeOfReading DEF UnpinCronFind, Keeps
    <3>2. ASSUME NEW base \in Bases, UnpinCronWrite(base) PROVE OnPurpose'
      <4> DEFINE asDraft == pending.unpinCron = "draft"
      <4>1. stage = "live" /\ From("unpinCron", base) /\ released' = released
        BY <3>2 DEF UnpinCronWrite, Writable
      <4>2. stage' = "live"
        BY <3>2 DEF UnpinCronWrite, Store
      <4>3. Differs(base) => base.text \in carried'
        BY <1>2, <3>2, CarriedIsNoted DEF Carries
      <4>4. /\ UpdateShape(art, base, [ws |-> Unset, st |-> Unset, text |-> Unset], asDraft, art')
            /\ asDraft \in BOOLEAN
        BY <3>2, UnpinSave
      <4> HIDE DEF asDraft
      <4>. QED BY <2>1, <4>1, <4>2, <4>3, <4>4, BareUpdatePurpose
    <3>. QED BY <2>8, <3>1, <3>2 DEF UnpinCronNext
  <2>9. ASSUME NEW w \in {"people"} \cup Writers, Begin(w) \/ RequestFails(w)
        PROVE  OnPurpose'
    <3>1. Keeps /\ released' = released
      BY <2>9, BeginOrFail, WritersAssumption DEF Updaters
    <3>. QED BY <2>1, <3>1, PurposeOfReading
  <2>. QED BY <2>1, <2>2, <2>3, <2>4, <2>5, <2>6, <2>7, <2>8, <2>9 DEF Next
<1>. QED BY <1>1, <1>2

(* A draft never reaches readers as a side effect of the save of an editor *)
(* or a contributor, of the write-back of the translation queue or of an   *)
(* engine's refresh: what they see was released in those words, or a       *)
(* machine that had something else to do took it along.                    *)
THEOREM NoDraftSlipsOut == MCSpec => []UnreleasedOnlyCarried
<1>1. MCInit => Init /\ OnPurpose
  BY DEF MCInit, Init, OnPurpose
<1>2. [MCNext]_MCvars => [NextCarrying]_workflowVars
  BY DEF MCNext, MCvars, workflowVars, vars
<1>3. [NextCarrying]_workflowVars => [Next]_vars
  BY DEF NextCarrying, workflowVars, vars
<1>6. TypeOK /\ OnPurpose /\ [NextCarrying]_workflowVars => OnPurpose'
  BY PurposeStep
<1>4. OnPurpose => UnreleasedOnlyCarried
  BY DEF OnPurpose, UnreleasedOnlyCarried, LiveTextWasReleased, Public, Accounted
<1>5. MCSpec => Spec
  BY <1>1, <1>2, <1>3, PTL DEF MCSpec, Spec
<1>. QED BY <1>1, <1>2, <1>4, <1>5, <1>6, TypeCorrect, PTL DEF MCSpec

-----------------------------------------------------------------------------
(* Live edits.                                                             *)

Pair == [main: Live!LiveRow, latest: Live!LiveRow]
LiveData == [ws: Live!WorkflowStatus \cup {Unset}, st: Live!NativeStatus \cup {Unset},
             text: Live!Columns \cup {Unset}]

-----------------------------------------------------------------------------
(* The hooks, for rows whose text is a record of columns. *)

(* Laying a request over a row leaves a row, with what was not given.      *)
LEMMA OverlayLive ==
  ASSUME NEW orig \in Live!LiveRow, NEW data \in LiveData
  PROVE  /\ Live!Overlay(orig, data) \in Live!LiveRow
         /\ Live!Overlay(orig, data).ws = Live!Given(data.ws, orig.ws)
         /\ Live!Overlay(orig, data).st = Live!Given(data.st, orig.st)
         /\ Live!Overlay(orig, data).text = Live!Given(data.text, orig.text)
         /\ Live!Overlay(orig, data).human = orig.human
         /\ Live!Overlay(orig, data).ver = orig.ver
<1>1. /\ Live!Given(data.ws, orig.ws) \in Live!WorkflowStatus
      /\ Live!Given(data.st, orig.st) \in Live!NativeStatus
      /\ Live!Given(data.text, orig.text) \in Live!Columns
  BY DEF Live!Given, Live!LiveRow, LiveData
<1> QED BY <1>1 DEF Live!Overlay, Live!LiveRow

(* Another version number makes another version of the same row. *)
LEMMA Renumber ==
  ASSUME NEW row \in Live!LiveRow, NEW v \in Nat
  PROVE  /\ [row EXCEPT !.ver = v] \in Live!LiveRow
         /\ [row EXCEPT !.ver = v].ver = v
         /\ [row EXCEPT !.ver = v].ws = row.ws
         /\ [row EXCEPT !.ver = v].st = row.st
         /\ [row EXCEPT !.ver = v].text = row.text
         /\ [row EXCEPT !.ver = v].human = row.human
BY DEF Live!LiveRow

(* Two surfaces with the same row. *)
LEMMA OneRow ==
  ASSUME NEW row \in Live!LiveRow, NEW pair, pair = [main |-> row, latest |-> row]
  PROVE  pair \in Pair /\ pair.main = pair.latest
BY DEF Pair

(* What the bookkeeping leaves of the row it is given. *)
Kept(row, r) ==
  r \in Live!LiveRow /\ r.ws = row.ws /\ r.st = row.st /\ r.text = row.text

(* articleBookkeeping touches version and editedByHuman only. *)
LEMMA BookkeepLive ==
  ASSUME NEW row \in Live!LiveRow, NEW orig \in Live!LiveRow, NEW ctx, NEW byHuman \in BOOLEAN
  PROVE  /\ Kept(row, Live!Bookkeep(row, orig, ctx, byHuman))
         /\ ctx \notin Live!BookkeepingExempt => Live!Bookkeep(row, orig, ctx, byHuman).ver = orig.ver + 1
<1>1. CASE ctx \in Live!BookkeepingExempt
  BY <1>1 DEF Live!Bookkeep, Kept
<1>2. CASE ctx \notin Live!BookkeepingExempt
  <2> DEFINE mark == IF byHuman THEN TRUE ELSE row.human
             new  == [row EXCEPT !.ver = orig.ver + 1, !.human = mark]
  <2>1. Live!Bookkeep(row, orig, ctx, byHuman) = new
    BY <1>2, Zenon DEF Live!Bookkeep
  <2>2. row.human \in BOOLEAN
    BY Zenon DEF Live!LiveRow
  <2>3. mark \in BOOLEAN
    BY <2>2, Zenon
  <2>4. orig.ver + 1 \in Nat
    BY DEF Live!LiveRow
  <2> HIDE DEF mark
  <2>5. Kept(row, new) /\ new.ver = orig.ver + 1
    BY <2>3, <2>4 DEF Live!LiveRow, Kept
  <2> QED BY <1>2, <2>1, <2>5
<1> QED BY <1>1, <1>2

(* The machine writes of the hub count a version and set no mark. *)
LEMMA BookkeepHub ==
  ASSUME NEW row \in Live!LiveRow, NEW orig \in Live!LiveRow
  PROVE  Live!Bookkeep(row, orig, "hubAuthor", FALSE) = [row EXCEPT !.ver = orig.ver + 1]
<1>1. Live!Bookkeep(row, orig, "hubAuthor", FALSE)
        = [row EXCEPT !.ver = orig.ver + 1, !.human = IF FALSE THEN TRUE ELSE row.human]
  BY DEF Live!Bookkeep, Live!BookkeepingExempt
<1>2. (IF FALSE THEN TRUE ELSE row.human) = row.human
  OBVIOUS
<1> QED BY <1>1, <1>2 DEF Live!LiveRow

(* A plain update from base makes the two surfaces one row.                *)
Unites(base, data, ctx, byHuman) ==
  \A needsWork : \E row \in Live!LiveRow :
    Live!Update(article, base, data, ctx, byHuman, FALSE, needsWork) = [main |-> row, latest |-> row]

(* A plain update, write-back included, replaces both surfaces by one row. *)
LEMMA PlainUpdate ==
  ASSUME NEW base \in Live!LiveRow, NEW data \in LiveData, NEW ctx, NEW byHuman \in BOOLEAN
  PROVE  Unites(base, data, ctx, byHuman)
<1> SUFFICES ASSUME NEW needsWork
             PROVE  \E row \in Live!LiveRow :
                      Live!Update(article, base, data, ctx, byHuman, FALSE, needsWork)
                        = [main |-> row, latest |-> row]
  BY DEF Unites
<1> DEFINE row  == Live!Bookkeep(Live!Overlay(base, data), base, ctx, byHuman)
           more == Live!Bookkeep(row, row, ctx, byHuman)
           next == Live!Replace(article, row, FALSE)
           last == Live!WriteBack(next, ctx, byHuman)
<1>1. Live!Overlay(base, data) \in Live!LiveRow
  BY OverlayLive
<1>2. row \in Live!LiveRow
  BY <1>1, BookkeepLive DEF Kept
<1>3. more \in Live!LiveRow
  BY <1>2, BookkeepLive DEF Kept
<1>4. next = [main |-> row, latest |-> row]
  BY DEF Live!Replace
<1>5. last = [main |-> more, latest |-> more]
  BY <1>4 DEF Live!WriteBack, Live!Replace
<1>6. \/ Live!Update(article, base, data, ctx, byHuman, FALSE, needsWork) = next
      \/ Live!Update(article, base, data, ctx, byHuman, FALSE, needsWork) = last
  BY DEF Live!Update
<1> HIDE DEF row, more, next, last
<1> QED BY <1>2, <1>3, <1>4, <1>5, <1>6

(* A draft save replaces the latest version, by a row marked as a draft. *)
LEMMA DraftUpdate ==
  ASSUME NEW pair \in Pair, NEW base \in Live!LiveRow, NEW data \in LiveData
  PROVE  /\ Live!Update(pair, base, data, "plain", TRUE, TRUE, FALSE) \in Pair
         /\ Live!Update(pair, base, data, "plain", TRUE, TRUE, FALSE).main = pair.main
         /\ Live!Update(pair, base, data, "plain", TRUE, TRUE, FALSE).latest.st = "draft"
<1> DEFINE row == Live!Bookkeep(Live!Overlay(base, data), base, "plain", TRUE)
<1>2. row \in Live!LiveRow
  BY OverlayLive, BookkeepLive DEF Kept
<1>3. Live!Update(pair, base, data, "plain", TRUE, TRUE, FALSE) = [pair EXCEPT !.latest = [row EXCEPT !.st = "draft"]]
  BY DEF Live!Update, Live!Replace
<1> HIDE DEF row
<1>4. [row EXCEPT !.st = "draft"] \in Live!LiveRow /\ [row EXCEPT !.st = "draft"].st = "draft"
  BY <1>2 DEF Live!LiveRow, Live!NativeStatus
<1> QED BY <1>3, <1>4 DEF Pair

(* What a live edit writes: the latest version it has read with the hub's  *)
(* words in it, under a later version number.                              *)
Result(base, word, next) ==
  /\ next \in Live!LiveRow
  /\ next.ver > base.ver
  /\ next.text = Live!Edited(base.text, word)
  /\ next.ws = base.ws
  /\ next.st = base.st
  /\ next.human = base.human

(* The plain update of a live edit, with or without a write-back. *)
LEMMA HubUpdate ==
  ASSUME NEW pair \in Pair, NEW base \in Live!LiveRow, NEW word \in Words, NEW needsWork \in BOOLEAN
  PROVE  Result(base, word,
                Live!Update(pair, base, [Live!NothingGiven EXCEPT !.text = Live!Edited(base.text, word)],
                       "hubAuthor", FALSE, FALSE, needsWork).main)
<1> DEFINE text == Live!Edited(base.text, word)
           data == [Live!NothingGiven EXCEPT !.text = text]
           over == [base EXCEPT !.text = text]
           row  == [over EXCEPT !.ver = base.ver + 1]
           row2 == [row EXCEPT !.ver = row.ver + 1]
           new  == Live!Update(pair, base, data, "hubAuthor", FALSE, FALSE, needsWork)
<1>1. base.ver \in Nat
  BY DEF Live!LiveRow
<1>2. text \in Live!Columns
  BY <1>1 DEF Live!Edited, Live!Columns, Live!LiveRow
<1>3. Live!Overlay(base, data) = over
  <2>1. /\ Live!Given(data.ws, base.ws) = base.ws
        /\ Live!Given(data.st, base.st) = base.st
        /\ Live!Given(data.text, base.text) = text
    BY <1>2, LiveAssumption DEF Live!UnsetIsNoColumns, Live!Given, Live!NothingGiven
  <2> QED BY <1>1, <2>1 DEF Live!Overlay, Live!LiveRow
<1>4. over \in Live!LiveRow /\ over.ws = base.ws /\ over.st = base.st
      /\ over.text = text /\ over.human = base.human
  BY <1>1, <1>2 DEF Live!LiveRow
<1>5. Live!Bookkeep(over, base, "hubAuthor", FALSE) = row
  BY <1>1, <1>4, BookkeepHub
<1>6. row \in Live!LiveRow /\ row.ver = base.ver + 1
      /\ row.ws = over.ws /\ row.st = over.st /\ row.text = over.text /\ row.human = over.human
  <2>1. base.ver + 1 \in Nat
    BY <1>1
  <2> HIDE DEF over
  <2> QED BY <1>4, <2>1, Renumber
<1>7. Live!Bookkeep(row, row, "hubAuthor", FALSE) = row2
  BY <1>6, BookkeepHub
<1>8. row2 \in Live!LiveRow /\ row2.ver = row.ver + 1
      /\ row2.ws = row.ws /\ row2.st = row.st /\ row2.text = row.text /\ row2.human = row.human
  <2>1. row.ver + 1 \in Nat
    BY <1>1, <1>6
  <2> HIDE DEF row
  <2> QED BY <1>6, <2>1, Renumber
<1>9. new.main = row \/ new.main = row2
  BY <1>3, <1>5, <1>7 DEF Live!Update, Live!Replace, Live!WriteBack
<1>10. Result(base, word, row) /\ Result(base, word, row2)
  <2> HIDE DEF over, row, row2
  <2>1. row.ver > base.ver /\ row2.ver > base.ver
    BY <1>1, <1>6, <1>8
  <2> QED BY <1>4, <1>6, <1>8, <2>1, Zenon DEF Result
<1> QED BY <1>9, <1>10

-----------------------------------------------------------------------------
(* The inductive invariant.  A latest version that counts as published is  *)
(* the live row; the row lock has one holder; what its update has read is  *)
(* the live row, or a draft; and it is still the latest version unless a   *)
(* draft was stored since.                                                 *)

PublishedIsLive == article.latest.st = "published" => article.latest = article.main

OneLock == \A r, q \in Requests : Live!LocksRow(r) /\ Live!LocksRow(q) => r = q

Knows(x) ==
  /\ x.at \in {"pre", "base", "write", "check"} => article.main.ver = x.ver
  /\ x.at \in {"write", "check"} =>
       /\ x.base.st = "published" => x.base = article.main
       /\ article.latest = x.base \/ x.overtaken = TRUE
  /\ x.at = "check" => Result(x.base, x.word, x.next)

EditInv == Live!TypeOK /\ PublishedIsLive /\ OneLock /\ \A r \in Requests : Knows(edit[r])

(* A request that is not idle has its fields. *)
LEMMA ActiveType ==
  ASSUME Live!TypeOK, NEW r \in Requests, ~Live!At(r, "idle")
  PROVE  edit[r] \in Live!Active
BY DEF Live!TypeOK, Live!At, Live!Idle

(* A step of one request that leaves both surfaces alone. *)
LEMMA OneRequest ==
  ASSUME EditInv, NEW r \in Requests, NEW y \in {Live!Idle} \cup Live!Active,
         edit' = [edit EXCEPT ![r] = y], UNCHANGED article,
         draft' \in {Live!None} \cup Live!Begun, plain' \in {Live!None} \cup Live!Begun,
         Knows(y),
         y.at \in {"gate", "pre", "base", "write", "check"} =>
           \A q \in Requests \ {r} : ~Live!LocksRow(q)
  PROVE  EditInv'
<1>1. Live!TypeOK'
  BY DEF EditInv, Live!TypeOK
<1>2. edit'[r] = y /\ \A q \in Requests \ {r} : edit'[q] = edit[q]
  BY DEF EditInv, Live!TypeOK
<1>3. OneLock'
  BY <1>2 DEF EditInv, OneLock, Live!LocksRow
<1>4. ASSUME NEW q \in Requests PROVE Knows(edit[q])'
  <2>1. Knows(edit'[q])
    BY <1>2 DEF EditInv
  <2> QED BY <2>1 DEF Knows
<1>5. PublishedIsLive'
  BY DEF EditInv, PublishedIsLive
<1> QED BY <1>1, <1>3, <1>4, <1>5 DEF EditInv

(* A step of somebody who finds the row lock free. *)
LEMMA NobodyLocks ==
  ASSUME EditInv, Live!TypeOK', PublishedIsLive',
         \A r \in Requests : edit'[r] = Live!Idle \/ (edit'[r] = edit[r] /\ ~Live!LocksRow(r))
  PROVE  EditInv'
<1>1. \A r \in Requests : edit'[r].at \notin {"gate", "pre", "base", "write", "check"}
  BY DEF Live!LocksRow, Live!Idle
<1>2. OneLock'
  BY <1>1 DEF OneLock, Live!LocksRow
<1>3. \A r \in Requests : Knows(edit[r])'
  BY <1>1 DEF Knows
<1> QED BY <1>2, <1>3 DEF EditInv

(* A request that has passed the first gate knows nothing for certain yet. *)
LEMMA OpenStep ==
  ASSUME EditInv, NEW r \in Requests, Live!Open(r)
  PROVE  EditInv'
<1>1. PICK word \in Words :
        edit' = [edit EXCEPT ![r] = [at |-> "lock", ver |-> article.main.ver, word |-> word,
                                     pre |-> Live!Unread(word), base |-> Live!Unread(word),
                                     next |-> Live!Unread(word), overtaken |-> FALSE]]
  BY DEF Live!Open
<1> DEFINE y == [at |-> "lock", ver |-> article.main.ver, word |-> word,
                 pre |-> Live!Unread(word), base |-> Live!Unread(word),
                 next |-> Live!Unread(word), overtaken |-> FALSE]
<1>2. y \in Live!Active /\ y.at = "lock"
  <2>1. Live!Unread(word) \in Live!LiveRow
    BY DEF Live!Unread, Live!LiveRow, Live!WorkflowStatus, Live!NativeStatus, Live!Columns
  <2>2. article.main.ver \in Nat
    BY DEF EditInv, Live!TypeOK, Live!LiveRow
  <2>. QED BY <2>1, <2>2 DEF Live!Active
<1>3. Knows(y)
  BY <1>2 DEF Knows
<1>4. UNCHANGED article /\ draft' \in {Live!None} \cup Live!Begun /\ plain' \in {Live!None} \cup Live!Begun
  BY DEF Live!Open, EditInv, Live!TypeOK
<1> QED BY <1>1, <1>2, <1>3, <1>4, OneRequest

(* A step of the request that moves it to a phase, as its fields are. *)
LEMMA MoveStep ==
  ASSUME EditInv, NEW r \in Requests, ~Live!At(r, "idle"),
         NEW phase \in {"gate", "pre"}, Live!Goto(r, phase),
         UNCHANGED <<article, draft, plain>>,
         \A q \in Requests \ {r} : ~Live!LocksRow(q),
         phase = "pre" => article.main.ver = edit[r].ver
  PROVE  EditInv'
<1> DEFINE y == [edit[r] EXCEPT !.at = phase]
<1>1. edit[r] \in Live!Active
  BY ActiveType DEF EditInv
<1>2. y \in Live!Active /\ y.at = phase /\ y.ver = edit[r].ver
  BY <1>1 DEF Live!Active
<1>3. edit' = [edit EXCEPT ![r] = y]
  BY DEF Live!Goto
<1>4. Knows(y)
  BY <1>2 DEF Knows
<1>5. draft' \in {Live!None} \cup Live!Begun /\ plain' \in {Live!None} \cup Live!Begun
  BY DEF EditInv, Live!TypeOK
<1> HIDE DEF y
<1> QED BY <1>2, <1>3, <1>4, <1>5, OneRequest

(* A request that stops gives its locks back. *)
LEMMA StopStep ==
  ASSUME EditInv, NEW r \in Requests, Live!Stop(r), UNCHANGED <<article, draft, plain>>
  PROVE  EditInv'
<1>1. Knows(Live!Idle) /\ Live!Idle.at = "idle"
  BY DEF Knows, Live!Idle
<1>2. draft' \in {Live!None} \cup Live!Begun /\ plain' \in {Live!None} \cup Live!Begun
  BY DEF EditInv, Live!TypeOK
<1> QED BY <1>1, <1>2, OneRequest DEF Live!Stop

(* The second gate, under the row lock, pins the version down. *)
LEMMA GateStep ==
  ASSUME EditInv, NEW r \in Requests, Live!Gate(r)
  PROVE  EditInv'
<1>1. CASE Live!LiveGate(article) /\ article.main.ver = edit[r].ver
  <2>1. Live!Goto(r, "pre") /\ UNCHANGED <<article, draft, plain>> /\ ~Live!At(r, "idle") /\ Live!LocksRow(r)
    BY <1>1 DEF Live!Gate, Live!At, Live!LocksRow
  <2>2. \A q \in Requests \ {r} : ~Live!LocksRow(q)
    BY <2>1 DEF EditInv, OneLock
  <2> QED BY <1>1, <2>1, <2>2, MoveStep
<1>2. CASE ~(Live!LiveGate(article) /\ article.main.ver = edit[r].ver)
  BY <1>2, StopStep DEF Live!Gate
<1> QED BY <1>1, <1>2

(* The row that is read under the lock stays the main row. *)
LEMMA ReadPreStep ==
  ASSUME EditInv, NEW r \in Requests, Live!ReadPre(r)
  PROVE  EditInv'
<1> DEFINE y == [edit[r] EXCEPT !.at = "base", !.pre = article.main]
<1>1. edit[r] \in Live!Active /\ edit[r].at = "pre" /\ article.main \in Live!LiveRow
  BY ActiveType DEF EditInv, Live!TypeOK, Live!ReadPre, Live!At
<1>2. y \in Live!Active /\ y.at = "base" /\ y.ver = edit[r].ver
  BY <1>1 DEF Live!Active
<1>3. edit' = [edit EXCEPT ![r] = y]
  BY DEF Live!ReadPre
<1>4. Knows(y)
  BY <1>1, <1>2 DEF Knows, EditInv
<1>5. UNCHANGED article /\ draft' \in {Live!None} \cup Live!Begun /\ plain' \in {Live!None} \cup Live!Begun
  BY DEF Live!ReadPre, EditInv, Live!TypeOK
<1>6. \A q \in Requests \ {r} : ~Live!LocksRow(q)
  BY <1>1 DEF EditInv, OneLock, Live!LocksRow
<1> HIDE DEF y
<1> QED BY <1>2, <1>3, <1>4, <1>5, <1>6, OneRequest

(* The latest version that the update reads is the live row, or a draft. *)
LEMMA ReadBaseStep ==
  ASSUME EditInv, NEW r \in Requests, Live!ReadBase(r)
  PROVE  EditInv'
<1> DEFINE y == [edit[r] EXCEPT !.at = "write", !.base = article.latest]
<1>1. edit[r] \in Live!Active /\ edit[r].at = "base" /\ article.latest \in Live!LiveRow
  BY ActiveType DEF EditInv, Live!TypeOK, Live!ReadBase, Live!At
<1>2. y \in Live!Active /\ y.at = "write" /\ y.ver = edit[r].ver /\ y.base = article.latest
  BY <1>1 DEF Live!Active
<1>3. edit' = [edit EXCEPT ![r] = y]
  BY DEF Live!ReadBase
<1>4. Knows(y)
  <2>1. article.main.ver = edit[r].ver
    BY <1>1 DEF Knows, EditInv
  <2>2. article.latest.st = "published" => article.latest = article.main
    BY DEF EditInv, PublishedIsLive
  <2> HIDE DEF y
  <2>. QED BY <1>2, <2>1, <2>2 DEF Knows
<1>5. UNCHANGED article /\ draft' \in {Live!None} \cup Live!Begun /\ plain' \in {Live!None} \cup Live!Begun
  BY DEF Live!ReadBase, EditInv, Live!TypeOK
<1>6. \A q \in Requests \ {r} : ~Live!LocksRow(q)
  BY <1>1 DEF EditInv, OneLock, Live!LocksRow
<1> HIDE DEF y
<1> QED BY <1>2, <1>3, <1>4, <1>5, <1>6, OneRequest

(* What is written is the latest version that was read, with the edit.     *)
LEMMA WriteStep ==
  ASSUME EditInv, NEW r \in Requests, Live!Write(r)
  PROVE  EditInv'
<1>1. PICK needsWork \in Live!NeedsWork :
        edit' = [edit EXCEPT
          ![r].at = "check",
          ![r].next = Live!Update(article, edit[r].base,
                             [Live!NothingGiven EXCEPT !.text = Live!Edited(edit[r].base.text, edit[r].word)],
                             "hubAuthor", FALSE, FALSE, needsWork).main]
  BY DEF Live!Write
<1> DEFINE next == Live!Update(article, edit[r].base,
                          [Live!NothingGiven EXCEPT !.text = Live!Edited(edit[r].base.text, edit[r].word)],
                          "hubAuthor", FALSE, FALSE, needsWork).main
           y == [edit[r] EXCEPT !.at = "check", !.next = next]
<1>2. edit[r] \in Live!Active /\ edit[r].at = "write" /\ article \in Pair /\ edit[r].word \in Words
      /\ edit[r].base \in Live!LiveRow
  BY ActiveType DEF EditInv, Live!TypeOK, Live!Write, Live!At, Pair, Live!Active
<1>3. needsWork \in BOOLEAN
  BY DEF Live!NeedsWork
<1>4. Result(edit[r].base, edit[r].word, next)
  BY <1>2, <1>3, HubUpdate
<1> HIDE DEF next
<1>5. y \in Live!Active /\ y.at = "check" /\ y.ver = edit[r].ver /\ y.base = edit[r].base
      /\ y.word = edit[r].word /\ y.next = next /\ y.overtaken = edit[r].overtaken
  BY <1>2, <1>4 DEF Live!Active, Result
<1>6. edit' = [edit EXCEPT ![r] = y]
  BY <1>1 DEF next
<1>7. Knows(y)
  <2>1. Knows(edit[r])
    BY DEF EditInv
  <2> HIDE DEF y
  <2>. QED BY <1>2, <1>4, <1>5, <2>1 DEF Knows
<1>8. UNCHANGED article /\ draft' \in {Live!None} \cup Live!Begun /\ plain' \in {Live!None} \cup Live!Begun
  BY DEF Live!Write, EditInv, Live!TypeOK
<1>9. \A q \in Requests \ {r} : ~Live!LocksRow(q)
  BY <1>2 DEF EditInv, OneLock, Live!LocksRow
<1> HIDE DEF y
<1> QED BY <1>5, <1>6, <1>7, <1>8, <1>9, OneRequest

(* A commit replaces both surfaces by what was written. *)
LEMMA CommitStep ==
  ASSUME EditInv, NEW r \in Requests, Live!Commit(r)
  PROVE  EditInv'
<1>1. edit[r] \in Live!Active /\ Live!At(r, "check") /\ edit[r].next \in Live!LiveRow
  BY ActiveType DEF EditInv, Live!TypeOK, Live!Commit, Live!At, Live!Active
<1>2. /\ article' = [main |-> edit[r].next, latest |-> edit[r].next]
      /\ edit'[r] = Live!Idle
      /\ \A q \in Requests \ {r} : edit'[q] = edit[q]
  BY DEF Live!Commit, Live!Stop, EditInv, Live!TypeOK
<1>3. Live!TypeOK'
  BY <1>1 DEF Live!Commit, Live!Stop, EditInv, Live!TypeOK
<1>4. PublishedIsLive'
  BY <1>2 DEF PublishedIsLive
<1>5. \A q \in Requests \ {r} : ~Live!LocksRow(q)
  BY <1>1 DEF EditInv, OneLock, Live!LocksRow, Live!At
<1> QED BY <1>2, <1>3, <1>4, <1>5, NobodyLocks

(* A draft that slips in leaves the main row alone, waits for a request    *)
(* that has written, and is noted by one whose update has read.            *)
LEMMA DraftStoreStep ==
  ASSUME EditInv, Live!DraftStore
  PROVE  EditInv'
<1>1. PICK ws \in Statuses, text \in Live!Columns :
        LET data == Live!HumanRequest([ws |-> ws, st |-> "draft", text |-> text], draft.base.ws, "update")
        IN  article' = Live!Update(article, draft.base, data, "plain", TRUE, TRUE, FALSE)
  BY DEF Live!DraftStore
<1> DEFINE given == [ws |-> ws, st |-> "draft", text |-> text]
           data  == Live!HumanRequest(given, draft.base.ws, "update")
<1>2. draft.base \in Live!LiveRow /\ article \in Pair
  BY DEF Live!DraftStore, EditInv, Live!TypeOK, Live!Begun, Pair
<1>4. data \in LiveData
  <2>1. given \in LiveData
    BY LiveAssumption DEF Live!StatusesAssumption, LiveData, Live!NativeStatus
  <2> HIDE DEF given
  <2>2. \/ data = given
        \/ data = [given EXCEPT !.ws = "published"]
        \/ data = [given EXCEPT !.ws = "hidden"]
        \/ data = [[given EXCEPT !.ws = "published"] EXCEPT !.ws = "hidden"]
    BY DEF Live!HumanRequest, Live!SyncNativePublish, Live!SyncNativeUnpublish
  <2> QED BY <2>1, <2>2 DEF LiveData, Live!WorkflowStatus
<1>5. article' = Live!Update(article, draft.base, data, "plain", TRUE, TRUE, FALSE)
  BY <1>1
<1> HIDE DEF data
<1>6. article' \in Pair /\ article'.main = article.main /\ article'.latest.st = "draft"
  BY <1>2, <1>4, <1>5, DraftUpdate
<1>7. UNCHANGED plain /\ draft' = Live!None /\ edit' = Live!Overtaken
      /\ \A r \in Requests : ~Live!At(r, "check")
  BY DEF Live!DraftStore
<1>8. ASSUME NEW r \in Requests
      PROVE  /\ edit'[r] \in {Live!Idle} \cup Live!Active
             /\ edit'[r].at = edit[r].at
             /\ Knows(edit[r])'
  <2>1. edit[r] \in {Live!Idle} \cup Live!Active /\ Knows(edit[r]) /\ edit[r].at # "check"
    BY <1>7 DEF EditInv, Live!TypeOK, Live!At
  <2>2. CASE edit[r].at = "write"
    <3>1. edit'[r] = [edit[r] EXCEPT !.overtaken = TRUE]
      BY <1>7, <2>2 DEF Live!Overtaken, Live!At
    <3>2. edit[r] \in Live!Active
      BY <2>1, <2>2 DEF Live!Idle
    <3>3. /\ edit'[r] \in Live!Active /\ edit'[r].overtaken = TRUE
          /\ edit'[r].at = "write" /\ edit'[r].ver = edit[r].ver /\ edit'[r].base = edit[r].base
      BY <2>2, <3>1, <3>2 DEF Live!Active
    <3>4. Knows(edit[r])'
      BY <1>6, <2>1, <2>2, <3>3 DEF Knows
    <3>. QED BY <2>2, <3>3, <3>4
  <2>3. CASE edit[r].at # "write"
    <3>1. edit'[r] = edit[r]
      BY <1>7, <2>3 DEF Live!Overtaken, Live!At
    <3>. QED BY <1>6, <2>1, <2>3, <3>1 DEF Knows
  <2>. QED BY <2>2, <2>3
<1>9. Live!TypeOK'
  <2>1. edit' \in [Requests -> {Live!Idle} \cup Live!Active]
    BY <1>7, <1>8 DEF Live!Overtaken
  <2>. QED BY <1>6, <1>7, <2>1 DEF EditInv, Live!TypeOK, Pair
<1>10. PublishedIsLive'
  BY <1>6 DEF PublishedIsLive
<1>11. OneLock'
  BY <1>8 DEF EditInv, OneLock, Live!LocksRow
<1> QED BY <1>8, <1>9, <1>10, <1>11 DEF EditInv

(* A plain update finds the row lock free and makes both surfaces one.     *)
LEMMA PlainStoreStep ==
  ASSUME EditInv, NEW data \in LiveData, NEW ctx, NEW byHuman \in BOOLEAN,
         Live!PlainStore(data, ctx, byHuman)
  PROVE  EditInv'
<1>1. plain.base \in Live!LiveRow
  BY DEF Live!PlainStore, EditInv, Live!TypeOK, Live!Begun
<1>2. PICK needsWork :
        article' = Live!Update(article, plain.base, data, ctx, byHuman, FALSE, needsWork)
  BY DEF Live!PlainStore
<1>3. Unites(plain.base, data, ctx, byHuman)
  BY <1>1, PlainUpdate
<1>4. article' \in Pair /\ article'.main = article'.latest
  <2>1. PICK row \in Live!LiveRow :
          Live!Update(article, plain.base, data, ctx, byHuman, FALSE, needsWork) = [main |-> row, latest |-> row]
    BY <1>3 DEF Unites
  <2>2. article' = [main |-> row, latest |-> row]
    BY <1>2, <2>1
  <2> QED BY <2>2, OneRow
<1>5. UNCHANGED <<edit, draft>> /\ plain' = Live!None /\ \A r \in Requests : ~Live!LocksRow(r)
  BY DEF Live!PlainStore
<1>6. Live!TypeOK'
  BY <1>4, <1>5 DEF EditInv, Live!TypeOK, Pair
<1>7. PublishedIsLive'
  BY <1>4 DEF PublishedIsLive
<1> QED BY <1>5, <1>6, <1>7, NobodyLocks

(* What the three kinds of plain updates carry. *)
LEMMA PlainKinds ==
  ASSUME Live!Publish \/ Live!HideOrRepublish \/ Live!Touch
  PROVE  \E data \in LiveData, ctx \in Live!Contexts, byHuman \in BOOLEAN :
           Live!PlainStore(data, ctx, byHuman)
<1>1. CASE Live!Publish
  <2>1. PICK text \in Live!Columns :
          Live!PlainStore([ws |-> "published", st |-> "published", text |-> text], "plain", TRUE)
    BY <1>1 DEF Live!Publish
  <2>2. [ws |-> "published", st |-> "published", text |-> text] \in LiveData /\ "plain" \in Live!Contexts
    BY DEF LiveData, Live!WorkflowStatus, Live!NativeStatus, Live!Contexts
  <2> QED BY <2>1, <2>2
<1>2. CASE Live!HideOrRepublish
  <2>1. PICK ws \in {"archived", "published"} :
          Live!PlainStore([Live!NothingGiven EXCEPT !.ws = ws], "hubWrite", FALSE)
    BY <1>2 DEF Live!HideOrRepublish
  <2>2. [Live!NothingGiven EXCEPT !.ws = ws] \in LiveData /\ "hubWrite" \in Live!Contexts
    BY DEF LiveData, Live!NothingGiven, Live!WorkflowStatus, Live!Contexts
  <2> QED BY <2>1, <2>2
<1>3. CASE Live!Touch
  <2>1. Live!NothingGiven \in LiveData /\ {"translationWrite", "systemWrite"} \subseteq Live!Contexts
    BY DEF LiveData, Live!NothingGiven, Live!Contexts
  <2> QED BY <1>3, <2>1 DEF Live!Touch
<1> QED BY <1>1, <1>2, <1>3

-----------------------------------------------------------------------------
(* EditInv is inductive. *)
LEMMA EditNext == EditInv /\ [Live!Next]_Live!vars => EditInv'
<1> SUFFICES ASSUME EditInv, [Live!Next]_Live!vars PROVE EditInv'
  OBVIOUS
<1>1. ASSUME NEW r \in Requests, Live!Open(r) PROVE EditInv'
  BY <1>1, OpenStep
<1>2. ASSUME NEW r \in Requests, Live!Lock(r) PROVE EditInv'
  <2>1. /\ ~Live!At(r, "idle") /\ Live!Goto(r, "gate") /\ UNCHANGED <<article, draft, plain>>
        /\ \A q \in Requests \ {r} : ~Live!LocksRow(q)
    BY <1>2 DEF Live!Lock, Live!At
  <2> QED BY <2>1, MoveStep
<1>3. ASSUME NEW r \in Requests,
             Live!Gate(r) \/ Live!ReadPre(r) \/ Live!ReadBase(r) \/ Live!Write(r) \/ Live!Commit(r)
      PROVE  EditInv'
  BY <1>3, GateStep, ReadPreStep, ReadBaseStep, WriteStep, CommitStep
<1>4. ASSUME NEW r \in Requests, Live!Rollback(r) \/ Live!Abandon(r) PROVE EditInv'
  BY <1>4, StopStep DEF Live!Rollback, Live!Abandon
<1>5. CASE Live!DraftBegin \/ Live!PlainBegin \/ UNCHANGED Live!vars
  <2>1. UNCHANGED <<article, edit>> /\ draft' \in {Live!None} \cup Live!Begun /\ plain' \in {Live!None} \cup Live!Begun
    <3>1. article.latest \in Live!LiveRow /\ draft \in {Live!None} \cup Live!Begun /\ plain \in {Live!None} \cup Live!Begun
      BY DEF EditInv, Live!TypeOK
    <3>2. [begun |-> TRUE, base |-> article.latest] \in Live!Begun
      BY <3>1 DEF Live!Begun
    <3> QED BY <1>5, <3>1, <3>2 DEF Live!DraftBegin, Live!PlainBegin, Live!vars
  <2> QED BY <2>1 DEF EditInv, Live!TypeOK, PublishedIsLive, OneLock, Live!LocksRow, Knows
<1>6. CASE Live!DraftStore
  BY <1>6, DraftStoreStep
<1>7. CASE Live!Publish \/ Live!HideOrRepublish \/ Live!Touch
  BY <1>7, PlainKinds, PlainStoreStep
<1> QED BY <1>1, <1>2, <1>3, <1>4, <1>5, <1>6, <1>7 DEF Live!Next

(* A published article, and nobody at work. *)
LEMMA EditInit == Live!Init => EditInv
<1> SUFFICES ASSUME Live!Init PROVE EditInv
  OBVIOUS
<1>1. PICK text \in Live!Columns :
        LET row == [ws |-> "published", st |-> "published", ver |-> 1, text |-> text, human |-> TRUE]
        IN  article = [main |-> row, latest |-> row]
  BY DEF Live!Init
<1>2. [ws |-> "published", st |-> "published", ver |-> 1, text |-> text, human |-> TRUE] \in Live!LiveRow
  BY DEF Live!LiveRow, Live!WorkflowStatus, Live!NativeStatus
<1>3. article \in Pair /\ article.main = article.latest
  BY <1>1, <1>2, OneRow
<1>4. \A r \in Requests : edit[r] = Live!Idle
  BY DEF Live!Init
<1>5. Live!TypeOK
  BY <1>3 DEF Live!Init, Live!TypeOK, Pair
<1> QED BY <1>3, <1>4, <1>5 DEF EditInv, PublishedIsLive, OneLock, Live!LocksRow, Knows, Live!Idle

(* Every reachable state satisfies the inductive invariant. *)
LEMMA EditInvHolds == Live!Spec => []EditInv
BY EditInit, EditNext, PTL DEF Live!Spec

(* Every reachable state has its types. *)
THEOREM LiveTypes == Live!Spec => []Live!TypeOK
<1>1. EditInv => Live!TypeOK
  BY DEF EditInv
<1> QED BY <1>1, EditInvHolds, PTL

(* What a commit finds: it passes the check only if its update has read    *)
(* the live row; and that is the latest version still, or a draft has come *)
(* in between.                                                             *)
LEMMA CommitFacts ==
  ASSUME EditInv, NEW r \in Requests, Live!Commit(r)
  PROVE  /\ edit[r].base = article.main
         /\ article.latest = article.main \/ edit[r].overtaken = TRUE
         /\ article.main.ver = edit[r].ver
         /\ article'.main = edit[r].next
         /\ Result(article.main, edit[r].word, edit[r].next)
<1>1. edit[r].at = "check" /\ Live!Passes(r)
  BY DEF Live!Commit, Live!At
<1>2. Knows(edit[r])
  BY DEF EditInv
<1>3. /\ article.main.ver = edit[r].ver /\ Result(edit[r].base, edit[r].word, edit[r].next)
      /\ edit[r].base.st = "published" => edit[r].base = article.main
      /\ article.latest = edit[r].base \/ edit[r].overtaken = TRUE
  BY <1>1, <1>2 DEF Knows
<1>4. edit[r].next.st = "published"
  BY <1>1 DEF Live!Passes, Live!PostWriteCheck, Live!Live
<1>6. edit[r].base = article.main
  BY <1>3, <1>4 DEF Result
<1> QED BY <1>3, <1>6 DEF Live!Commit

(* livePostWriteCheck and the row lock together let no draft be swallowed  *)
(* but one stored within the edit's own update: a live edit that commits   *)
(* started from the live row.                                              *)
LEMMA DraftsKept == Live!Spec => Live!NoDraftSwallowed
<1>1. EditInv /\ [Live!Next]_Live!vars =>
        [\A r \in Requests : Live!Commit(r) =>
           /\ edit[r].base = article.main
           /\ article.latest = article.main \/ edit[r].overtaken]_Live!vars
  BY CommitFacts
<1> QED BY <1>1, EditInvHolds, PTL DEF Live!Spec, Live!NoDraftSwallowed

(* A live edit lands on the version its caller named (expectedVersion), on *)
(* whatever the tenant translates, and moves it on.                        *)
LEMMA VersionNamed == Live!Spec => Live!LandsOnItsVersion
<1>1. EditInv /\ [Live!Next]_Live!vars =>
        [\A r \in Requests : Live!Commit(r) =>
           article.main.ver = edit[r].ver /\ article'.main.ver > edit[r].ver]_Live!vars
  BY CommitFacts DEF Result
<1> QED BY <1>1, EditInvHolds, PTL DEF Live!Spec, Live!LandsOnItsVersion

(* Readers see the same row with the hub's words in it. *)
LEMMA NothingElseLive == Live!Spec => Live!OnlyTheEditGoesLive
<1>1. EditInv /\ [Live!Next]_Live!vars =>
        [\A r \in Requests : Live!Commit(r) =>
           article'.main = [article.main EXCEPT !.text = Live!Edited(@, edit[r].word), !.ver = article'.main.ver]]_Live!vars
  <2> SUFFICES ASSUME EditInv, NEW r \in Requests, Live!Commit(r)
               PROVE  article'.main = [article.main EXCEPT !.text = Live!Edited(@, edit[r].word), !.ver = article'.main.ver]
    OBVIOUS
  <2>1. Result(article.main, edit[r].word, article'.main) /\ article.main \in Live!LiveRow
    BY CommitFacts DEF EditInv, Live!TypeOK
  <2> QED BY <2>1 DEF Result, Live!LiveRow
<1> QED BY <1>1, EditInvHolds, PTL DEF Live!Spec, Live!OnlyTheEditGoesLive

-----------------------------------------------------------------------------
(* Beside the other writers the live edits are what they are alone.        *)
LEMMA LiveAlone == MCSpec => Live!Spec
<1>1. MCInit => Live!Init
  BY DEF MCInit
<1>2. [MCNext]_MCvars => [Live!Next]_Live!vars
  BY DEF MCNext, MCvars, liveVars, Live!vars
<1>. QED BY <1>1, <1>2, PTL DEF MCSpec, Live!Spec

(* livePostWriteCheck and the row lock together let no draft be swallowed  *)
(* that was there when the edit's update read the latest version: an edit  *)
(* that commits started from the live row.  A draft that is lost to it was *)
(* stored between that reading and the update's own store.                 *)
THEOREM DraftsAreKept == MCSpec => NoDraftSwallowed
BY LiveAlone, DraftsKept DEF NoDraftSwallowed

(* A live edit lands on the version its caller named (expectedVersion), on *)
(* whatever the tenant translates, and moves it on.                        *)
THEOREM VersionIsNamed == MCSpec => LandsOnItsVersion
BY LiveAlone, VersionNamed DEF LandsOnItsVersion

(* Readers see the same row with the hub's words in it.                    *)
THEOREM NothingElseGoesLive == MCSpec => OnlyTheEditGoesLive
BY LiveAlone, NothingElseLive DEF OnlyTheEditGoesLive

-----------------------------------------------------------------------------
(* The translation queue.                                                  *)

QueueSteps == Queue!Init /\ [][Queue!Next]_Queue!vars

-----------------------------------------------------------------------------
(* The last job of a language decides: it is newest, and not completed.    *)

Newest(l, j) ==
  /\ j \in jobs /\ j.locale = l
  /\ \A k \in jobs : k.locale = l => k.ver <= j.ver

Open(l) == \E j \in jobs : Newest(l, j) /\ j.status # "completed"
OpenAfter(l, v) == \E j \in jobs : Newest(l, j) /\ j.status # "completed" /\ j.ver > v

Submitting == submission.at \in {"read", "written", "marked"}
Serves(l) == submission # Queue!Idle /\ submission.job.locale = l

(* Nothing is stamped with a version that is still to come. *)
VersionsExist ==
  /\ \A j \in jobs : j.ver <= doc.ver
  /\ \A l \in Locales : rows[l].stamp <= doc.ver
  /\ submission # Queue!Idle => submission.job.ver <= doc.ver
  /\ Submitting => submission.ver <= doc.ver /\ \A l \in Locales : submission.rows[l].stamp <= doc.ver

(* Only reviewed languages are ever protected. *)
OnlyReviewedProtected ==
  \A l \in Locales \ Reviewed :
    /\ rows[l].state \notin Queue!Protected
    /\ Submitting => submission.rows[l].state \notin Queue!Protected

(* The words a submission has written are still there. *)
WordsStand ==
  \A l \in Locales \ Reviewed :
    Serves(l) /\ submission.at \in {"written", "marked"} => stored[l] = submission.text

(* A language that is behind has an open job, a later one than the job of  *)
(* a request whose words are already outdated.                             *)
BehindIsOpen ==
  doc.live => \A l \in Locales \ Reviewed :
    /\ stored[l] # doc.text => Open(l)
    /\ Serves(l) => submission.text = doc.text \/ OpenAfter(l, submission.job.ver)

(* A pending language has an open job, also according to the array that a  *)
(* submission is about to write back.                                      *)
PendingIsOpen ==
  \A l \in Locales :
    /\ rows[l].state = "pending" =>
         Open(l) /\ (Serves(l) /\ submission.at = "marked" => OpenAfter(l, submission.job.ver))
    /\ Submitting /\ submission.at # "marked" /\ ~Serves(l) /\ submission.rows[l].state = "pending" => Open(l)

QueueInv ==
  Queue!TypeOK /\ VersionsExist /\ OnlyReviewedProtected /\ WordsStand /\ BehindIsOpen /\ PendingIsOpen

-----------------------------------------------------------------------------
(* The types. *)

(* A request that is not idle has its fields. *)
LEMMA RequestType ==
  ASSUME Queue!TypeOK, submission # Queue!Idle
  PROVE  /\ submission.at \in {"translating", "read", "written", "marked"}
         /\ submission.job \in Queue!Job /\ submission.job.locale \in Locales /\ submission.job.ver \in Nat /\ submission.text \in Nat
         /\ Submitting => submission.ver \in Nat /\ submission.rows \in Queue!Rows
BY DEF Queue!TypeOK, Queue!Request, Submitting, Queue!Job

(* Flagging leaves an array of the same stamps, and protected rows alone.  *)
LEMMA OutdateType ==
  ASSUME NEW rs \in Queue!Rows, NEW l \in Locales
  PROVE  /\ Queue!Outdate(rs) \in Queue!Rows
         /\ Queue!Outdate(rs)[l].stamp = rs[l].stamp
         /\ rs[l].state \in Queue!Protected => Queue!Outdate(rs)[l] = rs[l]
         /\ Queue!Outdate(rs)[l].state \in Queue!Protected => rs[l].state \in Queue!Protected
         /\ Queue!Outdate(rs)[l].state = "pending" => rs[l].state = "pending"
<1>1. ASSUME NEW m \in Locales
      PROVE  \/ Queue!Outdate(rs)[m] = rs[m]
             \/ /\ rs[m].state \notin Queue!Protected \cup {"none", "pending"}
                /\ Queue!Outdate(rs)[m] = [rs[m] EXCEPT !.state = "outdated"]
  BY DEF Queue!Outdate
<1>2. ASSUME NEW m \in Locales PROVE Queue!Outdate(rs)[m] \in [state: Queue!States, stamp: Nat]
  BY <1>1, <1>2 DEF Queue!Rows, Queue!States
<1>3. Queue!Outdate(rs) \in Queue!Rows
  BY <1>2 DEF Queue!Outdate, Queue!Rows
<1> QED BY <1>1, <1>3 DEF Queue!Rows, Queue!Protected

(* What a save does, in terms of the languages it queues. *)
Saved(W, rs, text, live) ==
  /\ W \subseteq Locales
  /\ doc' \in Queue!Doc /\ doc'.ver > doc.ver /\ doc'.text = text /\ doc'.live = live
  /\ rows' \in Queue!Rows
  /\ \A l \in Locales : rows'[l].stamp = rs[l].stamp
  /\ \A l \in Locales \ W :
       /\ rs[l].state \in Queue!Protected => rows'[l] = rs[l]
       /\ rows'[l].state \in Queue!Protected => rs[l].state \in Queue!Protected
       /\ rows'[l].state = "pending" => rs[l].state = "pending"
  /\ \A l \in W : rows'[l].state = "pending" /\ rs[l].state \notin Queue!Protected
  /\ jobs' = jobs \cup Queue!NewJobs(W, doc.ver + 1)
  /\ ~live => W = {}
  /\ live => \A l \in Locales :
       rs[l].state \notin Queue!Protected /\ rs[l].stamp <= doc.ver => l \in W

(* Save does that.  A language whose stamp is of an earlier version is     *)
(* never up to date.                                                       *)
LEMMA SaveLemma ==
  ASSUME Queue!TypeOK, NEW rs \in Queue!Rows, NEW text \in Nat, NEW live \in BOOLEAN, NEW changed \in BOOLEAN,
         Queue!Save(rs, text, live, changed)
  PROVE  \E W \in SUBSET Locales : Saved(W, rs, text, live)
<1> DEFINE ver    == doc.ver + 1
           marked == IF changed THEN Queue!Outdate(rs) ELSE rs
           W      == IF live THEN Queue!Wanted(marked, ver) ELSE {}
<1>1. doc.ver \in Nat
  BY DEF Queue!TypeOK, Queue!Doc
<1>2. /\ marked \in Queue!Rows
      /\ \A l \in Locales :
           /\ marked[l].stamp = rs[l].stamp
           /\ rs[l].state \in Queue!Protected => marked[l] = rs[l]
           /\ marked[l].state \in Queue!Protected => rs[l].state \in Queue!Protected
           /\ marked[l].state = "pending" => rs[l].state = "pending"
  <2>1. CASE changed
    <3>1. CASE Locales = {}
      BY <2>1, <3>1 DEF Queue!Outdate, Queue!Rows
    <3>2. CASE Locales # {}
      BY <2>1, <3>2, OutdateType
    <3> QED BY <3>1, <3>2
  <2>2. CASE ~changed
    BY <2>2
  <2> QED BY <2>1, <2>2
<1> HIDE DEF marked
<1>3. W \subseteq Locales
  BY DEF Queue!Wanted
<1>4. /\ doc' = [ver |-> IF W = {} THEN ver ELSE ver + 1, text |-> text, live |-> live]
      /\ rows' = [l \in Locales |-> IF l \in W THEN [marked[l] EXCEPT !.state = "pending"] ELSE marked[l]]
      /\ jobs' = jobs \cup Queue!NewJobs(W, ver)
  BY DEF Queue!Save, marked
<1>5. \A l \in W : marked[l].state \notin Queue!Protected
  BY DEF Queue!Wanted
<1>6. live => \A l \in Locales : rs[l].state \notin Queue!Protected /\ rs[l].stamp <= doc.ver => l \in W
  <2> SUFFICES ASSUME live, NEW l \in Locales, rs[l].state \notin Queue!Protected, rs[l].stamp <= doc.ver
               PROVE  l \in W
    OBVIOUS
  <2>1. marked[l].stamp \in Nat /\ marked[l].stamp <= doc.ver /\ marked[l].state \notin Queue!Protected
    BY <1>2 DEF Queue!Rows
  <2>2. ~Queue!UpToDate(marked[l], ver)
    BY <1>1, <2>1 DEF Queue!UpToDate
  <2> QED BY <2>1, <2>2 DEF Queue!Wanted
<1>7. ~live => W = {}
  OBVIOUS
<1> HIDE DEF W
<1>8. doc' \in Queue!Doc /\ doc'.ver > doc.ver /\ doc'.text = text /\ doc'.live = live
  BY <1>1, <1>4 DEF Queue!Doc
<1>9. ASSUME NEW l \in Locales
      PROVE  /\ rows'[l] \in [state: Queue!States, stamp: Nat]
             /\ rows'[l].stamp = rs[l].stamp
             /\ l \in W => rows'[l].state = "pending"
             /\ l \notin W => rows'[l] = marked[l]
  BY <1>2, <1>4 DEF Queue!Rows, Queue!States
<1>10. rows' \in Queue!Rows
  BY <1>4, <1>9 DEF Queue!Rows
<1> QED BY <1>2, <1>3, <1>4, <1>5, <1>6, <1>7, <1>8, <1>9, <1>10 DEF Saved

-----------------------------------------------------------------------------
(* What happens to open jobs. *)

(* A job that stays the newest and is not completed keeps its language     *)
(* open.                                                                   *)
LEMMA StaysOpen ==
  ASSUME NEW l, NEW n \in jobs, Newest(l, n),
         NEW m \in jobs', m.locale = l, m.ver = n.ver, m.status # "completed",
         \A k \in jobs' : k.locale = l => \E i \in jobs : i.locale = l /\ i.ver = k.ver
  PROVE  Open(l)' /\ \A v : n.ver > v => OpenAfter(l, v)'
<1>1. Newest(l, m)'
  BY DEF Newest
<1> QED BY <1>1 DEF Open, OpenAfter

(* New jobs are newer than all others. *)
LEMMA QueuedIsOpen ==
  ASSUME Queue!TypeOK, \A j \in jobs : j.ver <= doc.ver, NEW W \in SUBSET Locales,
         jobs' = jobs \cup Queue!NewJobs(W, doc.ver + 1), NEW l \in W
  PROVE  Open(l)' /\ \A v \in Nat : v <= doc.ver => OpenAfter(l, v)'
<1>1. doc.ver \in Nat /\ \A j \in jobs : j.ver \in Nat
  BY DEF Queue!TypeOK, Queue!Doc, Queue!Job
<1>2. PICK ver \in Nat : ver = doc.ver + 1
  BY <1>1
<1>3. PICK n : n = [locale |-> l, ver |-> ver, status |-> "queued"]
  OBVIOUS
<1>4. n.locale = l /\ n.ver = ver /\ n.status # "completed"
  BY <1>3
<1>5. ~\E j \in jobs : j.locale = l /\ j.ver = ver
  BY <1>1, <1>2
<1>6. n \in jobs'
  BY <1>2, <1>3, <1>5 DEF Queue!NewJobs
<1>7. \A k \in Queue!NewJobs(W, doc.ver + 1) : k.ver = ver
  BY <1>2 DEF Queue!NewJobs
<1>8. \A k \in jobs' : k.ver <= n.ver
  BY <1>1, <1>2, <1>4, <1>7
<1>9. Newest(l, n)'
  BY <1>4, <1>6, <1>8 DEF Newest
<1>10. \A v \in Nat : v <= doc.ver => n.ver > v
  BY <1>1, <1>2, <1>4
<1> QED BY <1>4, <1>6, <1>9, <1>10 DEF Open, OpenAfter

(* Queueing other languages leaves a language as open as it was. *)
LEMMA OthersQueued ==
  ASSUME NEW W \in SUBSET Locales, NEW v,
         jobs' = jobs \cup Queue!NewJobs(W, v), NEW l \in Locales \ W
  PROVE  (Open(l) => Open(l)') /\ \A u : OpenAfter(l, u) => OpenAfter(l, u)'
<1>1. \A k \in Queue!NewJobs(W, v) : k.locale # l
  BY DEF Queue!NewJobs
<1>2. \A n : Newest(l, n) => Newest(l, n)'
  BY <1>1 DEF Newest
<1>3. jobs \subseteq jobs'
  OBVIOUS
<1> QED BY <1>2, <1>3 DEF Open, OpenAfter

(* New jobs are jobs. *)
LEMMA NewJobsType ==
  ASSUME NEW W \in SUBSET Locales, NEW v \in Nat
  PROVE  Queue!NewJobs(W, v) \subseteq Queue!Job /\ \A j \in Queue!NewJobs(W, v) : j.ver = v /\ j.locale \in W
BY DEF Queue!NewJobs, Queue!Job, Queue!JobStatuses

-----------------------------------------------------------------------------
(* A save of an editor keeps QueueInv: what it puts on the site is queued, *)
(* and what it keeps off the site need not be.                             *)
LEMMA SaveStep ==
  ASSUME QueueInv, NEW rs \in Queue!Rows, NEW text \in Nat, NEW live \in BOOLEAN,
         NEW changed \in BOOLEAN, Queue!Save(rs, text, live, changed),
         \A l \in Locales : rs[l].stamp <= doc.ver,
         \A l \in Locales \ Reviewed : rs[l].state \notin Queue!Protected,
         \A l \in Locales : rs[l].state = "pending" => rows[l].state = "pending",
         stored' \in [Locales -> Nat],
         \A l \in Locales \ Reviewed : stored'[l] = stored[l],
         UNCHANGED <<submission, failures>>
  PROVE  QueueInv'
<1>0. Queue!TypeOK
  BY DEF QueueInv
<1>1. PICK W \in SUBSET Locales : Saved(W, rs, text, live)
  BY <1>0, SaveLemma
<1>2. doc.ver \in Nat /\ doc'.ver \in Nat /\ doc'.ver >= doc.ver + 1
  BY <1>0, <1>1 DEF Queue!TypeOK, Queue!Doc, Saved
<1>3. jobs' = jobs \cup Queue!NewJobs(W, doc.ver + 1)
  BY <1>1 DEF Saved
<1>4. /\ Queue!NewJobs(W, doc.ver + 1) \subseteq Queue!Job
      /\ \A j \in Queue!NewJobs(W, doc.ver + 1) : j.ver = doc.ver + 1
  BY <1>2, NewJobsType
<1>5. Queue!TypeOK'
  BY <1>0, <1>1, <1>3, <1>4 DEF Queue!TypeOK, Saved
<1>6. \A j \in jobs : j.ver \in Nat /\ j.ver <= doc.ver
  BY <1>0 DEF QueueInv, Queue!TypeOK, Queue!Job, VersionsExist
<1>7. VersionsExist'
  <2>1. \A j \in jobs' : j.ver <= doc'.ver
    BY <1>2, <1>3, <1>4, <1>6
  <2>2. ASSUME NEW l \in Locales PROVE rows'[l].stamp <= doc'.ver
    <3>1. rows'[l].stamp = rs[l].stamp /\ rs[l].stamp \in Nat
      BY <1>1 DEF Saved, Queue!Rows
    <3> QED BY <1>2, <3>1
  <2>3. submission # Queue!Idle => submission.job.ver <= doc'.ver
    BY <1>0, <1>2, RequestType DEF QueueInv, VersionsExist
  <2>4. ASSUME Submitting
        PROVE  submission.ver <= doc'.ver /\ \A l \in Locales : submission.rows[l].stamp <= doc'.ver
    <3>1. submission # Queue!Idle
      BY <2>4 DEF Submitting, Queue!Idle
    <3>2. submission.ver \in Nat /\ submission.rows \in Queue!Rows
      BY <1>0, <2>4, <3>1, RequestType
    <3>3. \A l \in Locales : submission.rows[l].stamp \in Nat
      BY <3>2 DEF Queue!Rows
    <3> QED BY <1>2, <2>4, <3>2, <3>3 DEF QueueInv, VersionsExist
  <2> QED BY <2>1, <2>2, <2>3, <2>4 DEF VersionsExist, Submitting
<1>8. OnlyReviewedProtected'
  <2> SUFFICES ASSUME NEW l \in Locales \ Reviewed
               PROVE  /\ rows'[l].state \notin Queue!Protected
                      /\ Submitting => submission.rows[l].state \notin Queue!Protected
    BY DEF OnlyReviewedProtected, Submitting
  <2>1. rows'[l].state \notin Queue!Protected
    BY <1>1 DEF Saved, Queue!Protected
  <2> QED BY <2>1 DEF QueueInv, OnlyReviewedProtected
<1>9. WordsStand'
  BY DEF QueueInv, WordsStand, Serves
<1>10. \A l \in W : Open(l)' /\ (submission # Queue!Idle => OpenAfter(l, submission.job.ver)')
  BY <1>0, <1>3, <1>6, QueuedIsOpen, RequestType DEF QueueInv, VersionsExist
<1>11. BehindIsOpen'
  <2> SUFFICES ASSUME doc'.live, NEW l \in Locales \ Reviewed
               PROVE  Open(l)' /\ (Serves(l) => OpenAfter(l, submission.job.ver)')
    BY DEF BehindIsOpen, Serves
  <2>1. l \in W
    BY <1>1 DEF Saved
  <2> QED BY <1>10, <2>1 DEF Serves
<1>12. PendingIsOpen'
  <2> SUFFICES ASSUME NEW l \in Locales
               PROVE  /\ rows'[l].state = "pending" =>
                           Open(l)' /\ (Serves(l) /\ submission.at = "marked" => OpenAfter(l, submission.job.ver)')
                      /\ Submitting /\ submission.at # "marked" /\ ~Serves(l) /\ submission.rows[l].state = "pending"
                           => Open(l)'
    BY DEF PendingIsOpen, Serves, Submitting
  <2>1. CASE l \in W
    BY <1>10, <2>1 DEF Serves
  <2>2. CASE l \notin W
    <3>1. rows'[l].state = "pending" => rows[l].state = "pending"
      BY <1>1, <2>2 DEF Saved
    <3>2. (Open(l) => Open(l)') /\ \A u : OpenAfter(l, u) => OpenAfter(l, u)'
      BY <1>3, <2>2, OthersQueued
    <3> QED BY <3>1, <3>2 DEF QueueInv, PendingIsOpen
  <2> QED BY <2>1, <2>2
<1> QED BY <1>5, <1>7, <1>8, <1>9, <1>11, <1>12 DEF QueueInv

(* The saves of editors. *)
LEMMA EditorStep ==
  ASSUME QueueInv,
         \/ \E live \in BOOLEAN : Queue!EditSource(live) \/ Queue!SaveUnchanged(live)
         \/ \E l \in Reviewed, state \in {"needs_review"} \cup Queue!Protected : Queue!Review(l, state)
         \/ \E l \in Reviewed : Queue!Rewrite(l)
  PROVE  QueueInv'
<1>1. /\ rows \in Queue!Rows /\ stored \in [Locales -> Nat] /\ doc.text \in Nat /\ doc.text + 1 \in Nat
      /\ doc.live \in BOOLEAN
  BY DEF QueueInv, Queue!TypeOK, Queue!Doc
<1>2. /\ \A l \in Locales : rows[l].stamp <= doc.ver
      /\ \A l \in Locales \ Reviewed : rows[l].state \notin Queue!Protected
  BY DEF QueueInv, VersionsExist, OnlyReviewedProtected
<1>3. ASSUME NEW live \in BOOLEAN, Queue!EditSource(live) PROVE QueueInv'
  <2>1. Queue!Save(rows, doc.text + 1, live, TRUE) /\ UNCHANGED <<stored, submission, failures>>
    BY <1>3 DEF Queue!EditSource
  <2> QED BY <1>1, <1>2, <2>1, SaveStep
<1>4. ASSUME NEW live \in BOOLEAN, Queue!SaveUnchanged(live) PROVE QueueInv'
  <2>1. Queue!Save(rows, doc.text, live, FALSE) /\ UNCHANGED <<stored, submission, failures>>
    BY <1>4 DEF Queue!SaveUnchanged
  <2> QED BY <1>1, <1>2, <2>1, SaveStep
<1>5. ASSUME NEW l \in Reviewed, NEW state \in {"needs_review"} \cup Queue!Protected
      PROVE  LET rs == [rows EXCEPT ![l].state = state]
             IN  /\ rs \in Queue!Rows
                 /\ \A m \in Locales : rs[m].stamp <= doc.ver
                 /\ \A m \in Locales \ Reviewed : rs[m].state \notin Queue!Protected
                 /\ \A m \in Locales : rs[m].state = "pending" => rows[m].state = "pending"
  <2> DEFINE rs == [rows EXCEPT ![l].state = state]
  <2>1. l \in Locales /\ state \in Queue!States /\ state # "pending"
    BY QueueAssumption DEF Queue!LocalesAssumption, Queue!States, Queue!Protected
  <2>2. rs[l] = [rows[l] EXCEPT !.state = state] /\ \A m \in Locales \ {l} : rs[m] = rows[m]
    BY <1>1, <2>1 DEF Queue!Rows
  <2>3. rs[l] \in [state: Queue!States, stamp: Nat] /\ rs[l].stamp = rows[l].stamp /\ rs[l].state = state
    BY <1>1, <2>1, <2>2 DEF Queue!Rows
  <2>4. rs \in Queue!Rows
    <3>1. \A m \in Locales : rs[m] \in [state: Queue!States, stamp: Nat]
      BY <1>1, <2>2, <2>3 DEF Queue!Rows
    <3>2. rs = [m \in Locales |-> rs[m]]
      BY <1>1 DEF Queue!Rows
    <3> HIDE DEF rs
    <3> QED BY <3>1, <3>2 DEF Queue!Rows
  <2> HIDE DEF rs
  <2>5. \A m \in Locales : rs[m].stamp <= doc.ver
    BY <1>2, <2>1, <2>2, <2>3
  <2>6. \A m \in Locales \ Reviewed : rs[m].state \notin Queue!Protected
    BY <1>2, <2>2
  <2>7. \A m \in Locales : rs[m].state = "pending" => rows[m].state = "pending"
    BY <2>1, <2>2, <2>3
  <2> QED BY <2>4, <2>5, <2>6, <2>7 DEF rs
<1>6. ASSUME NEW l \in Reviewed, NEW state \in {"needs_review"} \cup Queue!Protected, Queue!Review(l, state)
      PROVE  QueueInv'
  <2> DEFINE rs == [rows EXCEPT ![l].state = state]
  <2>1. Queue!Save(rs, doc.text, doc.live, FALSE) /\ UNCHANGED <<stored, submission, failures>>
    BY <1>6 DEF Queue!Review
  <2>2. /\ rs \in Queue!Rows
        /\ \A m \in Locales : rs[m].stamp <= doc.ver
        /\ \A m \in Locales \ Reviewed : rs[m].state \notin Queue!Protected
        /\ \A m \in Locales : rs[m].state = "pending" => rows[m].state = "pending"
    BY <1>5
  <2> HIDE DEF rs
  <2> QED BY <1>1, <2>1, <2>2, SaveStep
<1>7. ASSUME NEW l \in Reviewed, Queue!Rewrite(l) PROVE QueueInv'
  <2> DEFINE rs == [rows EXCEPT ![l].state = "locked"]
  <2>1. Queue!Save(rs, doc.text, doc.live, TRUE) /\ UNCHANGED <<submission, failures>>
    BY <1>7 DEF Queue!Rewrite
  <2>2. stored' \in [Locales -> Nat] /\ \A m \in Locales \ Reviewed : stored'[m] = stored[m]
    BY <1>1, <1>7, QueueAssumption DEF Queue!LocalesAssumption, Queue!Rewrite
  <2>3. "locked" \in {"needs_review"} \cup Queue!Protected
    BY DEF Queue!Protected
  <2>4. /\ rs \in Queue!Rows
        /\ \A m \in Locales : rs[m].stamp <= doc.ver
        /\ \A m \in Locales \ Reviewed : rs[m].state \notin Queue!Protected
        /\ \A m \in Locales : rs[m].state = "pending" => rows[m].state = "pending"
    BY <1>5, <2>3
  <2> HIDE DEF rs
  <2> QED BY <1>1, <2>1, <2>2, <2>4, SaveStep
<1> QED BY <1>3, <1>4, <1>6, <1>7

(* Cancelling a job, or putting it back, closes no language. *)
LEMMA SetJobStep ==
  ASSUME QueueInv, NEW j \in jobs, NEW status \in {"queued", "cancelled"}, Queue!SetJob(j, status)
  PROVE  QueueInv'
<1>1. PICK i : i = [j EXCEPT !.status = status]
  OBVIOUS
<1>2. j \in Queue!Job /\ jobs \subseteq Queue!Job
  BY DEF QueueInv, Queue!TypeOK
<1>3. i \in Queue!Job /\ i.locale = j.locale /\ i.ver = j.ver /\ i.status = status
  BY <1>1, <1>2 DEF Queue!Job, Queue!JobStatuses
<1>4. jobs' = (jobs \ {j}) \cup {i} /\ UNCHANGED <<doc, rows, stored, submission, failures>>
  BY <1>1 DEF Queue!SetJob
<1>5. ASSUME NEW l, NEW n \in jobs, Newest(l, n), n.status # "completed"
      PROVE  Open(l)' /\ \A v : n.ver > v => OpenAfter(l, v)'
  <2>1. PICK m \in jobs' : m.locale = l /\ m.ver = n.ver /\ m.status # "completed"
    <3>1. CASE n = j
      BY <1>3, <1>4, <1>5, <3>1 DEF Newest
    <3>2. CASE n # j
      BY <1>4, <1>5, <3>2 DEF Newest
    <3> QED BY <3>1, <3>2
  <2>2. \A k \in jobs' : k.locale = l => \E h \in jobs : h.locale = l /\ h.ver = k.ver
    BY <1>3, <1>4
  <2> QED BY <1>5, <2>1, <2>2, StaysOpen
<1>6. \A l : (Open(l) => Open(l)') /\ \A v : OpenAfter(l, v) => OpenAfter(l, v)'
  BY <1>5 DEF Open, OpenAfter
<1>7. Queue!TypeOK'
  BY <1>2, <1>3, <1>4 DEF QueueInv, Queue!TypeOK
<1>8. VersionsExist'
  BY <1>3, <1>4 DEF QueueInv, VersionsExist, Submitting
<1>9. OnlyReviewedProtected' /\ WordsStand'
  BY <1>4 DEF QueueInv, OnlyReviewedProtected, WordsStand, Submitting, Serves
<1>10. BehindIsOpen'
  <2>1. \A l : OpenAfter(l, submission.job.ver) => OpenAfter(l, submission.job.ver)'
    BY <1>4, <1>6
  <2> QED BY <1>4, <1>6, <2>1 DEF QueueInv, BehindIsOpen, Serves
<1>11. PendingIsOpen'
  <2>1. \A l : OpenAfter(l, submission.job.ver) => OpenAfter(l, submission.job.ver)'
    BY <1>4, <1>6
  <2> QED BY <1>4, <1>6, <2>1 DEF QueueInv, PendingIsOpen, Serves, Submitting
<1> QED BY <1>7, <1>8, <1>9, <1>10, <1>11 DEF QueueInv

(* A request that ends without a word leaves everything as it is. *)
LEMMA EndStep ==
  ASSUME QueueInv, submission' = Queue!Idle, failures' \in Nat, UNCHANGED <<doc, rows, stored, jobs>>
  PROVE  QueueInv'
<1>1. ~Submitting' /\ \A l : ~Serves(l)'
  BY DEF Submitting, Serves, Queue!Idle
<1>2. Queue!TypeOK'
  BY DEF QueueInv, Queue!TypeOK, Queue!Request
<1>3. VersionsExist' /\ OnlyReviewedProtected' /\ WordsStand'
  BY <1>1 DEF QueueInv, VersionsExist, OnlyReviewedProtected, WordsStand
<1>4. \A l : Open(l) => Open(l)'
  BY DEF Open, Newest
<1>5. BehindIsOpen' /\ PendingIsOpen'
  BY <1>1, <1>4 DEF QueueInv, BehindIsOpen, PendingIsOpen
<1> QED BY <1>2, <1>3, <1>5 DEF QueueInv

(* The engine takes the words of the moment. *)
LEMMA ClaimStep ==
  ASSUME QueueInv, NEW l \in Locales, Queue!Claim(l)
  PROVE  QueueInv'
<1>1. PICK j \in jobs : submission' = [at |-> "translating", job |-> j, text |-> doc.text]
  BY DEF Queue!Claim
<1>2. UNCHANGED <<doc, rows, stored, jobs, failures>>
  BY DEF Queue!Claim
<1>3. /\ submission'.at = "translating" /\ submission'.job = j /\ submission'.text = doc.text
      /\ j \in Queue!Job /\ doc.text \in Nat /\ j.ver <= doc.ver
  BY <1>1 DEF QueueInv, Queue!TypeOK, Queue!Doc, VersionsExist
<1>4. ~Submitting'
  BY <1>3 DEF Submitting
<1>5. Queue!TypeOK'
  <2>1. submission' \in Queue!Request
    BY <1>1, <1>3 DEF Queue!Request
  <2> QED BY <1>2, <2>1 DEF QueueInv, Queue!TypeOK
<1>6. VersionsExist' /\ OnlyReviewedProtected' /\ WordsStand'
  BY <1>2, <1>3, <1>4 DEF QueueInv, VersionsExist, OnlyReviewedProtected, WordsStand
<1>7. \A m : Open(m) => Open(m)'
  BY <1>2 DEF Open, Newest
<1>8. BehindIsOpen'
  BY <1>2, <1>3, <1>7 DEF QueueInv, BehindIsOpen
<1>9. PendingIsOpen'
  BY <1>2, <1>3, <1>4, <1>7 DEF QueueInv, PendingIsOpen
<1> QED BY <1>5, <1>6, <1>8, <1>9 DEF QueueInv

(* POST takes the article as it is, or answers 409. *)
LEMMA SubmitReadStep ==
  ASSUME QueueInv, Queue!SubmitRead
  PROVE  QueueInv'
<1>1. UNCHANGED <<doc, rows, stored, jobs, failures>> /\ submission.at = "translating" /\ submission # Queue!Idle
  BY DEF Queue!SubmitRead, Queue!Idle
<1>2. CASE submission' = Queue!Idle
  BY <1>1, <1>2, EndStep DEF QueueInv, Queue!TypeOK
<1>3. CASE submission' # Queue!Idle
  <2> DEFINE new == [at |-> "read", job |-> submission.job, text |-> submission.text, ver |-> doc.ver, rows |-> rows]
  <2>1. submission' = new
    BY <1>3 DEF Queue!SubmitRead
  <2>2. /\ submission'.at = "read" /\ submission'.job = submission.job /\ submission'.text = submission.text
        /\ submission'.ver = doc.ver /\ submission'.rows = rows
    BY <2>1
  <2>3. submission.job \in Queue!Job /\ submission.text \in Nat /\ doc.ver \in Nat /\ rows \in Queue!Rows
    BY <1>1, RequestType DEF QueueInv, Queue!TypeOK, Queue!Doc
  <2>4. Queue!TypeOK'
    <3>1. submission' \in Queue!Request
      BY <2>1, <2>3 DEF Queue!Request
    <3> QED BY <1>1, <3>1 DEF QueueInv, Queue!TypeOK
  <2>5. VersionsExist'
    BY <1>1, <2>2, <2>3 DEF QueueInv, VersionsExist
  <2>6. OnlyReviewedProtected' /\ WordsStand'
    BY <1>1, <2>2 DEF QueueInv, OnlyReviewedProtected, WordsStand
  <2>7. \A m : Open(m) => Open(m)'
    BY <1>1 DEF Open, Newest
  <2>8. \A m : OpenAfter(m, submission.job.ver) => OpenAfter(m, submission.job.ver)'
    BY <1>1, <2>2 DEF OpenAfter, Newest
  <2>9. \A m : Serves(m)' <=> Serves(m)
    BY <1>1, <1>3, <2>2 DEF Serves
  <2>10. BehindIsOpen'
    BY <1>1, <2>2, <2>7, <2>8, <2>9 DEF QueueInv, BehindIsOpen
  <2>11. PendingIsOpen'
    BY <1>1, <2>2, <2>7, <2>9 DEF QueueInv, PendingIsOpen
  <2> QED BY <2>4, <2>5, <2>6, <2>10, <2>11 DEF QueueInv
<1> QED BY <1>2, <1>3

(* The words are stored.  If they are already outdated, a later job is     *)
(* open.                                                                   *)
LEMMA SubmitWordsStep ==
  ASSUME QueueInv, Queue!SubmitWords
  PROVE  QueueInv'
<1>1. UNCHANGED <<doc, rows, jobs, failures>> /\ submission.at = "read" /\ submission # Queue!Idle
  BY DEF Queue!SubmitWords, Queue!Idle
<1>2. /\ submission \in [at: {"translating"}, job: Queue!Job, text: Nat]
               \cup [at: {"read", "written", "marked"}, job: Queue!Job, text: Nat, ver: Nat, rows: Queue!Rows]
      /\ submission.job.locale \in Locales /\ submission.text \in Nat
  BY <1>1, RequestType DEF QueueInv, Queue!TypeOK, Queue!Request
<1>3. submission' = [submission EXCEPT !.at = "written"]
  BY DEF Queue!SubmitWords
<1>4. /\ submission' \in Queue!Request /\ submission' # Queue!Idle
      /\ submission'.at = "written" /\ submission'.job = submission.job /\ submission'.text = submission.text
      /\ submission'.ver = submission.ver /\ submission'.rows = submission.rows
  BY <1>1, <1>2, <1>3 DEF Queue!Request, Queue!Idle
<1>5. /\ stored' \in [Locales -> Nat]
      /\ stored'[submission.job.locale] = submission.text
      /\ \A l \in Locales : l # submission.job.locale => stored'[l] = stored[l]
  BY <1>2 DEF Queue!SubmitWords, QueueInv, Queue!TypeOK
<1>6. Queue!TypeOK'
  BY <1>1, <1>4, <1>5 DEF QueueInv, Queue!TypeOK
<1>7. Submitting /\ Submitting' /\ \A l : Serves(l)' <=> Serves(l)
  BY <1>1, <1>4 DEF Submitting, Serves
<1>8. VersionsExist' /\ OnlyReviewedProtected'
  BY <1>1, <1>4, <1>7 DEF QueueInv, VersionsExist, OnlyReviewedProtected
<1>9. WordsStand'
  BY <1>4, <1>5 DEF WordsStand, Serves
<1>10. \A m : (Open(m) => Open(m)') /\ (OpenAfter(m, submission.job.ver) => OpenAfter(m, submission.job.ver)')
  BY <1>1, <1>4 DEF Open, OpenAfter, Newest
<1>11. \A m, v : OpenAfter(m, v) => Open(m)
  BY DEF Open, OpenAfter
<1>12. BehindIsOpen'
  <2> SUFFICES ASSUME doc.live, NEW l \in Locales \ Reviewed
               PROVE  /\ stored'[l] # doc.text => Open(l)'
                      /\ Serves(l) => submission.text = doc.text \/ OpenAfter(l, submission.job.ver)'
    BY <1>1, <1>4, <1>7 DEF BehindIsOpen
  <2>1. CASE Serves(l)
    BY <1>5, <1>10, <1>11, <2>1 DEF QueueInv, BehindIsOpen, Serves
  <2>2. CASE ~Serves(l)
    <3>1. stored'[l] = stored[l]
      BY <1>1, <1>5, <2>2 DEF Serves
    <3> QED BY <1>10, <2>2, <3>1 DEF QueueInv, BehindIsOpen
  <2> QED BY <2>1, <2>2
<1>13. PendingIsOpen'
  BY <1>1, <1>4, <1>7, <1>10 DEF QueueInv, PendingIsOpen
<1> QED BY <1>6, <1>8, <1>9, <1>12, <1>13 DEF QueueInv

(* The array is written back as it was read, with this language's row. *)
LEMMA SubmitStatusStep ==
  ASSUME QueueInv, Queue!SubmitStatus
  PROVE  QueueInv'
<1>1. UNCHANGED <<doc, stored, jobs, failures>> /\ submission.at = "written" /\ submission # Queue!Idle
  BY DEF Queue!SubmitStatus, Queue!Idle
<1>2. /\ submission \in [at: {"translating"}, job: Queue!Job, text: Nat]
               \cup [at: {"read", "written", "marked"}, job: Queue!Job, text: Nat, ver: Nat, rows: Queue!Rows]
      /\ submission.job.locale \in Locales
  BY <1>1, RequestType DEF QueueInv, Queue!TypeOK, Queue!Request
<1>3. submission' = [submission EXCEPT !.at = "marked"]
  BY DEF Queue!SubmitStatus
<1>4. /\ submission' \in Queue!Request /\ submission' # Queue!Idle
      /\ submission'.at = "marked" /\ submission'.job = submission.job /\ submission'.text = submission.text
      /\ submission'.ver = submission.ver /\ submission'.rows = submission.rows
  BY <1>1, <1>2, <1>3 DEF Queue!Request, Queue!Idle
<1>5. Submitting /\ Submitting' /\ \A l : Serves(l)' <=> Serves(l)
  BY <1>1, <1>4 DEF Submitting, Serves
<1>6. submission.rows \in Queue!Rows /\ submission.ver \in Nat
  BY <1>1, <1>5, RequestType DEF QueueInv
<1>7. /\ rows'[submission.job.locale] = [state |-> "machine_translated", stamp |-> submission.ver]
      /\ \A l \in Locales : l # submission.job.locale => rows'[l] = submission.rows[l]
  BY <1>2, <1>6 DEF Queue!SubmitStatus, Queue!Rows
<1>8. rows' \in Queue!Rows
  <2>1. [state |-> "machine_translated", stamp |-> submission.ver] \in [state: Queue!States, stamp: Nat]
    BY <1>6 DEF Queue!States
  <2> QED BY <1>2, <1>6, <2>1 DEF Queue!SubmitStatus, Queue!Rows
<1>9. Queue!TypeOK'
  BY <1>1, <1>4, <1>8 DEF QueueInv, Queue!TypeOK
<1>10. VersionsExist'
  <2>1. \A l \in Locales : rows'[l].stamp <= doc.ver
    BY <1>5, <1>7 DEF QueueInv, VersionsExist
  <2> QED BY <1>1, <1>4, <1>5, <2>1 DEF QueueInv, VersionsExist
<1>11. OnlyReviewedProtected'
  <2>1. \A l \in Locales \ Reviewed : rows'[l].state \notin Queue!Protected
    BY <1>5, <1>7 DEF QueueInv, OnlyReviewedProtected, Queue!Protected
  <2> QED BY <1>4, <1>5, <2>1 DEF QueueInv, OnlyReviewedProtected
<1>12. WordsStand'
  BY <1>1, <1>4, <1>5 DEF QueueInv, WordsStand
<1>13. \A m : (Open(m) => Open(m)') /\ (OpenAfter(m, submission.job.ver) => OpenAfter(m, submission.job.ver)')
  BY <1>1, <1>4 DEF Open, OpenAfter, Newest
<1>14. BehindIsOpen'
  BY <1>1, <1>4, <1>5, <1>13 DEF QueueInv, BehindIsOpen
<1>15. PendingIsOpen'
  <2> SUFFICES ASSUME NEW l \in Locales, rows'[l].state = "pending"
               PROVE  Open(l)' /\ ~Serves(l)
    BY <1>4, <1>5 DEF PendingIsOpen
  <2>1. l # submission.job.locale /\ submission.rows[l].state = "pending"
    BY <1>7
  <2> QED BY <1>1, <1>5, <1>13, <2>1 DEF QueueInv, PendingIsOpen, Serves
<1> QED BY <1>9, <1>10, <1>11, <1>12, <1>14, <1>15 DEF QueueInv

(* The job that was answered is completed.  If it was the last one of its  *)
(* language, the language is not behind and not pending.                   *)
LEMMA SubmitCompleteStep ==
  ASSUME GivesJobId, QueueInv, Queue!SubmitComplete
  PROVE  QueueInv'
<1> DEFINE done == Queue!Answered(submission.job)
<1>1. submission.at = "marked" /\ submission # Queue!Idle /\ submission' = Queue!Idle /\ UNCHANGED <<doc, rows, stored, failures>>
  BY DEF Queue!SubmitComplete, Queue!Idle
<1>2. /\ done = {k \in jobs : k.locale = submission.job.locale /\ k.ver = submission.job.ver}
      /\ jobs' = (jobs \ done) \cup {[k EXCEPT !.status = "completed"] : k \in done}
  BY DEF Queue!SubmitComplete, Queue!Answered
<1> HIDE DEF done
<1>3. jobs \subseteq Queue!Job /\ submission.job.locale \in Locales /\ submission.job.ver \in Nat
  BY <1>1, RequestType DEF QueueInv, Queue!TypeOK
<1>4. ASSUME NEW k \in jobs'
      PROVE  k \in Queue!Job /\ \E i \in jobs : i.locale = k.locale /\ i.ver = k.ver
  <2>1. CASE k \in jobs
    BY <1>3, <2>1
  <2>2. CASE k \notin jobs
    <3>1. PICK i \in done : k = [i EXCEPT !.status = "completed"]
      BY <1>2, <2>2
    <3>2. i \in jobs /\ i \in Queue!Job
      BY <1>2, <1>3
    <3>3. k \in Queue!Job /\ k.locale = i.locale /\ k.ver = i.ver
      BY <3>1, <3>2 DEF Queue!Job, Queue!JobStatuses
    <3> QED BY <3>2, <3>3
  <2> QED BY <2>1, <2>2
<1>5. ASSUME NEW l, NEW n \in jobs, Newest(l, n), n.status # "completed", n \notin done
      PROVE  Open(l)'
  <2>1. n \in jobs' /\ n.locale = l
    BY <1>2, <1>5 DEF Newest
  <2>2. \A k \in jobs' : k.locale = l => \E i \in jobs : i.locale = l /\ i.ver = k.ver
    BY <1>4
  <2> QED BY <1>5, <2>1, <2>2, StaysOpen
<1>6. \A l : l # submission.job.locale /\ Open(l) => Open(l)'
  <2> SUFFICES ASSUME NEW l, l # submission.job.locale, NEW n \in jobs, Newest(l, n), n.status # "completed"
               PROVE  Open(l)'
    BY DEF Open
  <2>1. n \notin done
    BY <1>2 DEF Newest
  <2> QED BY <1>5, <2>1
<1>7. \A l : OpenAfter(l, submission.job.ver) => Open(l)'
  <2> SUFFICES ASSUME NEW l, NEW n \in jobs, Newest(l, n), n.status # "completed", n.ver > submission.job.ver
               PROVE  Open(l)'
    BY DEF OpenAfter
  <2>1. n \notin done
    BY <1>2, <1>3 DEF Queue!Job
  <2> QED BY <1>5, <2>1
<1>8. Queue!TypeOK'
  BY <1>1, <1>4 DEF QueueInv, Queue!TypeOK, Queue!Request
<1>9. ~Submitting' /\ \A l : ~Serves(l)'
  BY <1>1 DEF Submitting, Serves, Queue!Idle
<1>10. VersionsExist'
  BY <1>1, <1>4, <1>9 DEF QueueInv, VersionsExist
<1>11. OnlyReviewedProtected' /\ WordsStand'
  BY <1>1, <1>9 DEF QueueInv, OnlyReviewedProtected, WordsStand
<1>12. BehindIsOpen'
  <2> SUFFICES ASSUME doc.live, NEW l \in Locales \ Reviewed, stored[l] # doc.text
               PROVE  Open(l)'
    BY <1>1, <1>9 DEF BehindIsOpen
  <2>1. CASE l # submission.job.locale
    BY <1>6, <2>1 DEF QueueInv, BehindIsOpen
  <2>2. CASE l = submission.job.locale
    <3>1. Serves(l) /\ stored[l] = submission.text
      BY <1>1, <2>2 DEF QueueInv, WordsStand, Serves
    <3>2. OpenAfter(l, submission.job.ver)
      BY <3>1 DEF QueueInv, BehindIsOpen
    <3> QED BY <1>7, <3>2
  <2> QED BY <2>1, <2>2
<1>13. PendingIsOpen'
  <2> SUFFICES ASSUME NEW l \in Locales, rows[l].state = "pending" PROVE Open(l)'
    BY <1>1, <1>9 DEF PendingIsOpen
  <2>1. Open(l) /\ (Serves(l) => OpenAfter(l, submission.job.ver))
    BY <1>1 DEF QueueInv, PendingIsOpen
  <2> QED BY <1>1, <1>6, <1>7, <2>1 DEF Serves
<1> QED BY <1>8, <1>10, <1>11, <1>12, <1>13 DEF QueueInv

(* QueueInv is inductive. *)
LEMMA QueueNext ==
  ASSUME GivesJobId
  PROVE  QueueInv /\ [Queue!Next]_Queue!vars => QueueInv'
<1> SUFFICES ASSUME QueueInv, [Queue!Next]_Queue!vars PROVE QueueInv'
  OBVIOUS
<1>1. CASE \/ \E live \in BOOLEAN : Queue!EditSource(live) \/ Queue!SaveUnchanged(live)
           \/ \E l \in Reviewed, state \in {"needs_review"} \cup Queue!Protected : Queue!Review(l, state)
           \/ \E l \in Reviewed : Queue!Rewrite(l)
  BY <1>1, EditorStep
<1>2. CASE \E j \in jobs, status \in {"queued", "cancelled"} : Queue!SetJob(j, status)
  BY <1>2, SetJobStep
<1>3. CASE \E l \in Locales : Queue!Claim(l)
  BY <1>3, ClaimStep
<1>4. CASE Queue!SubmitRead \/ Queue!SubmitWords \/ Queue!SubmitStatus \/ Queue!SubmitComplete
  BY <1>4, SubmitReadStep, SubmitWordsStep, SubmitStatusStep, SubmitCompleteStep
<1>5. CASE Queue!SubmitDies
  <2>1. submission' = Queue!Idle /\ failures' \in Nat /\ UNCHANGED <<doc, rows, stored, jobs>>
    BY <1>5 DEF Queue!SubmitDies, QueueInv, Queue!TypeOK
  <2> QED BY <2>1, EndStep
<1>6. CASE UNCHANGED Queue!vars
  <2>1. QueueInv' <=> QueueInv
    BY <1>6 DEF Queue!vars, QueueInv, Queue!TypeOK, VersionsExist, OnlyReviewedProtected, WordsStand,
                BehindIsOpen, PendingIsOpen, Open, OpenAfter, Newest, Serves, Submitting
  <2> QED BY <2>1
<1> QED BY <1>1, <1>2, <1>3, <1>4, <1>5, <1>6 DEF Queue!Next, Queue!EngineStep, Queue!Submit

(* At first nothing is live and nothing is queued. *)
LEMMA QueueInit == Queue!Init => QueueInv
<1> SUFFICES ASSUME Queue!Init PROVE QueueInv
  OBVIOUS
<1>1. Queue!TypeOK
  BY DEF Queue!Init, Queue!TypeOK, Queue!Doc, Queue!Rows, Queue!States, Queue!NotYet, Queue!Request
<1>2. VersionsExist /\ OnlyReviewedProtected /\ WordsStand /\ BehindIsOpen
  BY DEF Queue!Init, VersionsExist, OnlyReviewedProtected, WordsStand, BehindIsOpen, Queue!NotYet, Queue!Protected,
         Submitting, Serves, Queue!Idle
<1>3. PendingIsOpen
  BY DEF Queue!Init, PendingIsOpen, Queue!NotYet, Submitting, Queue!Idle
<1> QED BY <1>1, <1>2, <1>3 DEF QueueInv

(* A language with an open last job is queued, or was taken out by hand.   *)
LEMMA OpenIsQueued ==
  ASSUME Queue!TypeOK, NEW l, Open(l)
  PROVE  Queue!QueuedFor(l) \/ Queue!Withdrawn(l)
<1>1. PICK j \in jobs : Newest(l, j) /\ j.status # "completed"
  BY DEF Open
<1>2. j.status = "queued" \/ j.status = "cancelled"
  BY <1>1 DEF Queue!TypeOK, Queue!Job, Queue!JobStatuses
<1> QED BY <1>1, <1>2 DEF Newest, Queue!QueuedFor, Queue!Withdrawn

-----------------------------------------------------------------------------
(* Every reachable state has its types, for engines that name their job.   *)
THEOREM QueueTyped ==
  ASSUME GivesJobId
  PROVE  QueueSteps => []Queue!TypeOK
<1>1. QueueInv /\ [Queue!Next]_Queue!vars => QueueInv'
  BY QueueNext
<1>2. QueueInv => Queue!TypeOK
  BY DEF QueueInv
<1> QED BY <1>1, <1>2, QueueInit, PTL DEF QueueSteps

(* An engine that names the job it answers never closes the job of a later *)
(* edit: published words that are not yet translated stay in the queue,    *)
(* over every interleaving of saves, submissions and deaths; and what the  *)
(* admin shows as pending is waiting for an engine, although a submission  *)
(* writes the whole array back as it read it.                              *)
LEMMA QueueHeld ==
  ASSUME GivesJobId
  PROVE  QueueSteps => []Queue!QueueHoldsWhatIsOwed
<1>1. QueueInv /\ [Queue!Next]_Queue!vars => QueueInv'
  BY QueueNext
<1>2. QueueInv => Queue!StaleIsQueued
  BY OpenIsQueued DEF QueueInv, BehindIsOpen, Queue!StaleIsQueued, Queue!Stale
<1>3. QueueInv => Queue!PendingIsQueued
  BY OpenIsQueued DEF QueueInv, PendingIsOpen, Queue!PendingIsQueued
<1>4. QueueInv => Queue!QueueHoldsWhatIsOwed
  BY <1>2, <1>3 DEF Queue!QueueHoldsWhatIsOwed
<1> QED BY <1>1, <1>4, QueueInit, PTL DEF QueueSteps

(* No save of the source flags or queues an approved or locked language    *)
(* (PROTECTED_TRANSLATION_STATES in both hooks).                           *)
LEMMA SavesSpareStep ==
  ASSUME Queue!TypeOK
  PROVE  Queue!SavesSpare
<1> SUFFICES ASSUME NEW live \in BOOLEAN, Queue!EditSource(live) \/ Queue!SaveUnchanged(live),
                    NEW l \in Locales, rows[l].state \in Queue!Protected
             PROVE  rows'[l] = rows[l] /\ \A j \in jobs' \ jobs : j.locale # l
  BY DEF Queue!SavesSpare
<1>1. PICK text \in Nat, changed \in BOOLEAN : Queue!Save(rows, text, live, changed)
  <2>1. doc.text \in Nat /\ doc.text + 1 \in Nat
    BY DEF Queue!TypeOK, Queue!Doc
  <2>2. Queue!Save(rows, doc.text + 1, live, TRUE) \/ Queue!Save(rows, doc.text, live, FALSE)
    BY DEF Queue!EditSource, Queue!SaveUnchanged
  <2> QED BY <2>1, <2>2
<1>2. PICK W \in SUBSET Locales : Saved(W, rows, text, live)
  BY <1>1, SaveLemma DEF Queue!TypeOK
<1>3. l \notin W /\ rows'[l] = rows[l] /\ jobs' = jobs \cup Queue!NewJobs(W, doc.ver + 1)
  BY <1>2 DEF Saved
<1>4. doc.ver + 1 \in Nat
  BY DEF Queue!TypeOK, Queue!Doc
<1> QED BY <1>3, <1>4, NewJobsType

-----------------------------------------------------------------------------
(* The language a submission is writing was open when it read the array. *)
AnswersOpen ==
  submission.at \in {"read", "written"} => submission.rows[submission.job.locale].state \notin Queue!Protected

(* Only SubmitRead starts one, and it refuses a protected language. *)
LEMMA AnswersOpenStep ==
  ASSUME Queue!TypeOK, AnswersOpen, [Queue!Next]_Queue!vars
  PROVE  AnswersOpen'
<1>1. CASE UNCHANGED submission
  BY <1>1 DEF AnswersOpen
<1>2. CASE submission'.at \notin {"read", "written"}
  BY <1>2 DEF AnswersOpen
<1>3. CASE Queue!SubmitRead
  <2>1. CASE Queue!Refuses(submission.job.locale)
    BY <1>3, <2>1 DEF Queue!SubmitRead, Queue!Idle, AnswersOpen
  <2>2. CASE ~Queue!Refuses(submission.job.locale)
    <3>1. submission' = [at |-> "read", job |-> submission.job, text |-> submission.text, ver |-> doc.ver, rows |-> rows]
      BY <1>3, <2>2 DEF Queue!SubmitRead
    <3>2. submission'.rows = rows /\ submission'.job = submission.job
      BY <3>1
    <3> QED BY <2>2, <3>2 DEF Queue!Refuses, AnswersOpen
  <2> QED BY <2>1, <2>2
<1>4. CASE Queue!SubmitWords
  <2>1. submission.at = "read" /\ submission' = [submission EXCEPT !.at = "written"]
    BY <1>4 DEF Queue!SubmitWords
  <2>2. submission'.rows = submission.rows /\ submission'.job = submission.job
    BY <2>1 DEF Queue!TypeOK, Queue!Request, Queue!Idle
  <2> QED BY <2>1, <2>2 DEF AnswersOpen
<1>5. CASE Queue!SubmitStatus
  <2>1. submission.at = "written" /\ submission' = [submission EXCEPT !.at = "marked"]
    BY <1>5 DEF Queue!SubmitStatus
  <2>2. submission'.at = "marked"
    BY <2>1 DEF Queue!TypeOK, Queue!Request, Queue!Idle
  <2> QED BY <1>2, <2>2
<1>6. CASE Queue!SubmitComplete \/ Queue!SubmitDies
  BY <1>2, <1>6 DEF Queue!SubmitComplete, Queue!SubmitDies, Queue!Idle
<1>7. CASE \E l \in Locales : Queue!Claim(l)
  <2>1. PICK j \in jobs : submission' = [at |-> "translating", job |-> j, text |-> doc.text]
    BY <1>7 DEF Queue!Claim
  <2> QED BY <1>2, <2>1
<1>8. CASE \/ \E live \in BOOLEAN : Queue!EditSource(live) \/ Queue!SaveUnchanged(live)
           \/ \E l \in Reviewed, state \in {"needs_review"} \cup Queue!Protected : Queue!Review(l, state)
           \/ \E l \in Reviewed : Queue!Rewrite(l)
           \/ \E j \in jobs, status \in {"queued", "cancelled"} : Queue!SetJob(j, status)
  BY <1>1, <1>8 DEF Queue!EditSource, Queue!SaveUnchanged, Queue!Review, Queue!Rewrite, Queue!SetJob
<1>9. CASE UNCHANGED Queue!vars
  BY <1>1, <1>9 DEF Queue!vars
<1> QED BY <1>3, <1>4, <1>5, <1>6, <1>7, <1>8, <1>9 DEF Queue!Next, Queue!EngineStep, Queue!Submit

(* No step of the engine takes the words or the standing of a protected    *)
(* language, but through an array it had read before the protection.       *)
LEMMA FallsOnlyToStale ==
  ASSUME Queue!TypeOK, AnswersOpen, Queue!EngineStep, NEW l \in Locales, rows[l].state \in Queue!Protected,
         stored'[l] # stored[l] \/ rows'[l].state \notin Queue!Protected
  PROVE  submission.at \in {"read", "written"} /\ submission.rows[l].state \notin Queue!Protected
<1>1. ~UNCHANGED <<stored, rows>>
  OBVIOUS
<1>2. Queue!SubmitWords \/ Queue!SubmitStatus
  BY <1>1 DEF Queue!EngineStep, Queue!Submit, Queue!Claim, Queue!SubmitRead, Queue!SubmitComplete, Queue!SubmitDies
<1>3. CASE Queue!SubmitWords
  <2>1. submission.at = "read" /\ UNCHANGED rows /\ stored' = [stored EXCEPT ![submission.job.locale] = submission.text]
    BY <1>3 DEF Queue!SubmitWords
  <2>2. l = submission.job.locale
    BY <2>1 DEF Queue!TypeOK
  <2> QED BY <2>1, <2>2 DEF AnswersOpen
<1>4. CASE Queue!SubmitStatus
  <2>1. /\ submission.at = "written" /\ UNCHANGED stored
        /\ rows' = [submission.rows EXCEPT ![submission.job.locale] = [state |-> "machine_translated", stamp |-> submission.ver]]
    BY <1>4 DEF Queue!SubmitStatus
  <2>2. submission.rows \in Queue!Rows
    BY <2>1, RequestType DEF Submitting, Queue!Idle
  <2>3. CASE l = submission.job.locale
    BY <2>1, <2>3 DEF AnswersOpen
  <2>4. CASE l # submission.job.locale
    BY <2>1, <2>2, <2>4 DEF Queue!Rows
  <2> QED BY <2>1, <2>3, <2>4
<1> QED BY <1>2, <1>3, <1>4

(* An approved or locked language is neither flagged nor queued by a save, *)
(* and keeps its words and its standing, unless the request that takes     *)
(* them had read it before it was protected.                               *)
LEMMA ProtectedStays ==
  ASSUME GivesJobId
  PROVE  QueueSteps => Queue!ProtectionHolds
<1> DEFINE Inv == QueueInv /\ AnswersOpen
<1>1. Queue!Init => Inv
  BY QueueInit DEF Queue!Init, AnswersOpen, Queue!Idle
<1>2. Inv /\ [Queue!Next]_Queue!vars => Inv'
  BY QueueNext, AnswersOpenStep DEF QueueInv
<1>3. Inv => Queue!SavesSpare /\ Queue!EngineTakesOnlyStale
  BY SavesSpareStep, FallsOnlyToStale DEF QueueInv, Queue!EngineTakesOnlyStale
<1>4. Inv /\ [Queue!Next]_Queue!vars => [Queue!SavesSpare /\ Queue!EngineTakesOnlyStale]_Queue!vars
  BY <1>3
<1> QED BY <1>1, <1>2, <1>4, PTL DEF QueueSteps, Queue!ProtectionHolds

-----------------------------------------------------------------------------
(* Beside the writers the queue is what it is alone.                       *)
LEMMA QueueAlone == MCSpec => QueueSteps
<1>1. MCInit => Queue!Init
  BY DEF MCInit
<1>2. [MCNext]_MCvars => [Queue!Next]_Queue!vars
  BY DEF MCNext, MCvars, queueVars, Queue!vars
<1>. QED BY <1>1, <1>2, PTL DEF MCSpec, QueueSteps

(* An engine that names the job it answers never closes the job of a later *)
(* edit: published words that are not yet translated stay in the queue,    *)
(* over every interleaving of saves, submissions and deaths; and what the  *)
(* admin shows as pending is waiting for an engine, although a submission  *)
(* writes the whole array back as it read it.                              *)
THEOREM QueueHolds ==
  ASSUME GivesJobId
  PROVE  MCSpec => []QueueHoldsWhatIsOwed
BY QueueAlone, QueueHeld DEF QueueHoldsWhatIsOwed

(* Nobody but an editor takes a language out of an editor's protection.    *)
THEOREM ProtectedIsTheEditors ==
  ASSUME GivesJobId
  PROVE  MCSpec => ProtectionHolds
BY QueueAlone, ProtectedStays DEF ProtectionHolds
===============================================================================
