----------------------------- MODULE Imports_proofs -----------------------------
(***************************************************************************)
(* Proofs about the imports.                                               *)
(***************************************************************************)
EXTENDS MCImports, Sequences, FiniteSetTheorems, TLAPS

(***************************************************************************)
(* The legacy import.  Rows, journals and plans agree on what is whose.    *)
(***************************************************************************)

Entered(r, i) == journal[r][i] # NoEntry
EntryOf(r, i) == journal[r][i].id

(* Ids, runs and names are drawn in order; people's changes count versions.*)
Numbered ==
  /\ begun <= NRuns /\ last <= MaxIds
  /\ \A a \in Stored : /\ a <= last /\ art[a].by <= begun /\ art[a].ver >= 1
                       /\ art[a].slug.item = art[a].item /\ art[a].slug.name <= edits
                       /\ a \in touched => art[a].ver > 1
  /\ \A a \in touched : a <= last
  /\ \A r \in Runs, i \in Items : plan[r][i].item = i /\ plan[r][i].name <= edits
  /\ \A r \in Runs, i \in Items : EntryOf(r, i) <= last

SlugsUnique == \A a, b \in Stored : art[a].slug = art[b].slug => a = b

(* An entry is of the run that made the article, and as old as the article *)
(* or older; older, where people have changed it.                          *)
JournalsFit == \A r \in Runs, i \in Items : LET a == EntryOf(r, i) IN
  a \in Stored => /\ art[a].item = i /\ art[a].by = r
                  /\ journal[r][i].ver <= art[a].ver
                  /\ a \in touched => journal[r][i].ver < art[a].ver

(* What is in no journal is the newest run's, which will find it by its    *)
(* slug, or it was renamed.                                                *)
OrphansAreFound == \A a \in Stored \ Journaled :
  /\ art[a].by = begun
  /\ Renamed(a) \/ (art[a].slug = plan[begun][art[a].item] /\ ~Entered(begun, art[a].item))

(* Of an item: it is in a journal, and so are its articles.                *)
Covered(i) ==
  /\ \E r \in Runs : Entered(r, i)
  /\ \A a \in Stored : art[a].item = i => a \in Journaled \/ Renamed(a)

(* The import at work: what it knows of the journals, what it is about to  *)
(* create or has created, and what it has passed.                          *)
Working == LET r == imp.run  i == imp.item  named == BySlug(plan[r][i]) IN
  /\ r = begun
  /\ imp.foreign = UNION {JournaledBy(q) : q \in Runs \ {r}}
  /\ imp.pc # "finish" => i \in Items
  /\ imp.pc \notin {"consider", "finish"} => ~Entered(r, i)
  /\ imp.pc \in {"hero", "upload", "heroJournal", "tag", "create"} => named = {}
  /\ imp.pc = "retry" => \A a \in named : art[a].by = r /\ a \notin touched
  /\ imp.pc = "readback" =>
       /\ imp.id \in 1..last /\ imp.id \notin touched /\ named \subseteq {imp.id}
       /\ imp.id \in Stored => art[imp.id].by = r /\ art[imp.id].item = i
  /\ imp.fails > 0 => imp.bad
  /\ ~imp.bad => \A j \in Items : j < i => Covered(j)
  /\ ~imp.bad /\ imp.pc = "finish" => i > NItems

(* The image, once a run has put it there, is in the run's journal.        *)
Lines(r, origin) == \E i \in Items : mediaJ[r][i].origin = origin
LinedAs(r, n) == \E i \in Items : mediaJ[r][i] = [origin |-> "created", n |-> n]
ImageKnown ==
  /\ imp.on /\ imp.pc \in {"upload", "heroJournal"} =>
       mediaJ[imp.run][imp.item].origin = "created-pending"
  /\ imp.on /\ imp.pc = "upload" => media.doc = NoDoc
  /\ imp.on /\ imp.pc = "heroJournal" =>
       media.doc # NoDoc /\ media.doc.by = imp.run /\ media.doc.n = imp.hero
  /\ media.doc # NoDoc =>
       /\ media.doc.n > 0 /\ media.doc.by <= begun
       /\ IF imp.on /\ imp.run = media.doc.by /\ imp.pc # "heroJournal"
          THEN LinedAs(media.doc.by, media.doc.n) /\ imp.made
          ELSE LinedAs(media.doc.by, media.doc.n) \/ Lines(media.doc.by, "created-pending")

(* The rollback at work, which runs alone: its list is of articles nobody  *)
(* has changed, and the image it will delete is shown by those only.       *)
Rolling ==
  /\ ~(imp.on /\ roll.on)
  /\ roll.doomed \cap touched = {}
  /\ roll.on => roll.deleting \subseteq roll.doomed
  /\ roll.on /\ roll.pc = "delete" /\ media.doc # NoDoc /\ media.doc.n = roll.heroDoomed =>
       \A a \in Stored : art[a].hero = media.doc.n => a \in roll.doomed

-----------------------------------------------------------------------------
(* Shapes. *)

LEMMA RowIs == ASSUME TypeOK, NEW a \in Stored PROVE a \in Ids /\ art[a] \in Row
BY DEF TypeOK, Stored

LEMMA EntryIs ==
  ASSUME TypeOK, NEW r \in Runs, NEW i \in Items
  PROVE  /\ Entered(r, i) => journal[r][i] \in Entry /\ EntryOf(r, i) \in Ids
         /\ ~Entered(r, i) => EntryOf(r, i) = 0
         /\ EntryOf(r, i) \in Nat
<1>1. journal[r][i] \in {NoEntry} \cup Entry
  BY DEF TypeOK
<1>2. MaxIds \in Nat
  BY SizesAssumption
<1>. QED BY <1>1, <1>2 DEF Entered, EntryOf, Entry, NoEntry, Ids

LEMMA PlanIs ==
  ASSUME TypeOK, NEW r \in Runs, NEW i \in Items
  PROVE  plan[r][i] \in Slugs /\ plan[r][i].name \in Nat
<1>1. plan[r][i] \in Slugs
  BY DEF TypeOK
<1>. QED BY <1>1, BoundsAssumption DEF Slugs

(* Who is journaled has an entry.                                          *)
LEMMA JournaledIs ==
  ASSUME TypeOK
  PROVE  \A a \in Ids : a \in Journaled <=> \E r \in Runs, i \in Items : EntryOf(r, i) = a
BY DEF Journaled, JournaledBy, EntryOf, Ids

LEMMA ImportIs ==
  ASSUME TypeOK, imp.on
  PROVE  imp \in Import /\ imp.run \in Runs /\ imp.item \in Nat /\ imp.fails \in Nat
<1>1. ~NoImport.on
  BY DEF NoImport
<1>2. imp \in Import
  BY <1>1 DEF TypeOK
<1>. QED BY <1>2 DEF Import

-----------------------------------------------------------------------------
(* People and rollbacks: rows stay, leave, or change. *)

(* Whoever stays is the same article, at the same version or a later one,  *)
(* and one may have a new name; people have changed who is touched.        *)
Moves ==
  /\ UNCHANGED <<last, begun, plan, journal, imp>>
  /\ edits' \in Nat /\ edits <= edits'
  /\ Stored' \subseteq Stored
  /\ \A a \in Stored' :
       /\ art'[a].item = art[a].item /\ art'[a].by = art[a].by /\ art[a].ver <= art'[a].ver
       /\ \/ art'[a].slug = art[a].slug
          \/ /\ art'[a].slug.item = art[a].slug.item /\ art'[a].slug.name = edits'
             /\ edits < edits'
  /\ \E b : \A a \in Stored' \ {b} : art'[a].slug = art[a].slug
  /\ \A a \in touched' :
       \/ a \in touched
       \/ a \in Stored /\ ~Held(a) /\ (a \in Stored' => art[a].ver < art'[a].ver)

LEMMA MovesNumbered ==
  ASSUME TypeOK, TypeOK', Numbered, Moves
  PROVE  Numbered'
<1>1. \A a \in Stored : a \in Ids /\ art[a] \in Row
  BY RowIs
<1>2. \A a \in Stored' : a \in Stored /\ art'[a] \in Row
  BY DEF TypeOK, Stored, Moves
<1>3. edits \in Nat
  BY DEF TypeOK
<1>4. ASSUME NEW a \in Stored'
      PROVE  /\ a <= last' /\ art'[a].by <= begun' /\ art'[a].ver >= 1
             /\ art'[a].slug.item = art'[a].item /\ art'[a].slug.name <= edits'
             /\ a \in touched' => art'[a].ver > 1
  <2>1. art[a] \in Row /\ art'[a] \in Row /\ a \in Stored
    BY <1>1, <1>2
  <2>2. art[a].ver \in Nat /\ art'[a].ver \in Nat /\ art[a].slug.name \in Nat
    BY <2>1, BoundsAssumption DEF Row, Slugs
  <2>. QED BY <1>3, <2>1, <2>2 DEF Numbered, Moves
<1>5. \A a \in touched' : a <= last'
  BY DEF Numbered, Moves
<1>6. \A r \in Runs, i \in Items : plan'[r][i].item = i /\ plan'[r][i].name <= edits'
  BY <1>3, PlanIs DEF Numbered, Moves
<1>7. \A r \in Runs, i \in Items : EntryOf(r, i)' <= last'
  BY DEF Numbered, Moves, EntryOf
<1>. QED BY <1>4, <1>5, <1>6, <1>7 DEF Numbered, Moves

LEMMA MovesRows ==
  ASSUME TypeOK, TypeOK', Numbered, SlugsUnique, JournalsFit, OrphansAreFound, Moves
  PROVE  SlugsUnique' /\ JournalsFit' /\ OrphansAreFound'
<1>1. \A a \in Stored : art[a].slug.name \in Nat /\ art[a].slug.name <= edits
  BY RowIs, BoundsAssumption DEF Row, Slugs, Numbered
<1>2. edits \in Nat /\ edits' \in Nat /\ Stored' \subseteq Stored
  BY DEF TypeOK, Moves
<1>3. SlugsUnique'
  <2> SUFFICES ASSUME NEW a \in Stored', NEW c \in Stored', art'[a].slug = art'[c].slug
               PROVE  a = c
    BY DEF SlugsUnique
  <2>1. PICK b : \A d \in Stored' \ {b} : art'[d].slug = art[d].slug
    BY DEF Moves
  <2>2. \A d \in Stored' : art'[d].slug = art[d].slug
                           \/ (art'[d].slug.name = edits' /\ edits < edits')
    BY DEF Moves
  <2>3. CASE art'[a].slug = art[a].slug /\ art'[c].slug = art[c].slug
    BY <1>2, <2>3 DEF SlugsUnique
  <2>4. ASSUME NEW d \in Stored', NEW e \in Stored', art'[d].slug # art[d].slug,
               art'[e].slug = art[e].slug
        PROVE  art'[d].slug # art'[e].slug
    <3>1. art'[d].slug.name = edits' /\ edits < edits'
      BY <2>2, <2>4
    <3>2. art[e].slug.name \in Nat /\ art[e].slug.name <= edits
      BY <1>1, <1>2, <2>4
    <3>3. art'[d].slug.name # art[e].slug.name
      BY <1>2, <3>1, <3>2
    <3>. QED BY <2>4, <3>3
  <2>5. art'[a].slug = art[a].slug <=> art'[c].slug = art[c].slug
    BY <2>4
  <2>6. CASE art'[a].slug # art[a].slug /\ art'[c].slug # art[c].slug
    BY <2>1, <2>6
  <2>. QED BY <2>3, <2>5, <2>6
<1>4. JournalsFit'
  <2> SUFFICES ASSUME NEW r \in Runs, NEW i \in Items, EntryOf(r, i)' \in Stored'
               PROVE  LET a == EntryOf(r, i)' IN
                      /\ art'[a].item = i /\ art'[a].by = r
                      /\ journal'[r][i].ver <= art'[a].ver
                      /\ a \in touched' => journal'[r][i].ver < art'[a].ver
    BY DEF JournalsFit
  <2> DEFINE a == EntryOf(r, i)
  <2>1. EntryOf(r, i)' = a /\ journal' = journal
    BY DEF Moves, EntryOf
  <2>2. a \in Stored /\ a \in Stored'
    BY <1>2, <2>1
  <2>3. art[a].ver \in Nat /\ journal[r][i].ver \in Nat
    <3>1. Entered(r, i)
      BY <2>2, EntryIs, RowIs DEF Ids
    <3>. QED BY <2>2, <3>1, EntryIs, RowIs DEF Row, Entry
  <2>4. art'[a].ver >= art[a].ver /\ art'[a].item = art[a].item /\ art'[a].by = art[a].by
    BY <2>2 DEF Moves
  <2>5. art[a].item = i /\ art[a].by = r /\ journal[r][i].ver <= art[a].ver
        /\ (a \in touched => journal[r][i].ver < art[a].ver)
    BY <2>2 DEF JournalsFit
  <2>6. a \in touched' => a \in touched \/ art[a].ver < art'[a].ver
    BY <2>2 DEF Moves
  <2>7. art'[a].ver \in Nat
    BY <2>2 DEF TypeOK, Stored, Row
  <2> HIDE DEF a
  <2>. QED BY <2>1, <2>3, <2>4, <2>5, <2>6, <2>7
<1>5. OrphansAreFound'
  <2>1. Journaled' = Journaled /\ begun' = begun /\ plan' = plan /\ journal' = journal
    BY DEF Moves, Journaled, JournaledBy
  <2>2. \A a \in Stored' : art'[a].item = art[a].item /\ art'[a].by = art[a].by
    BY DEF Moves
  <2>3. \A a \in Stored' : art'[a].slug = art[a].slug \/ art'[a].slug.name # 0
    BY <1>2 DEF Moves, TypeOK
  <2>. QED BY <1>2, <2>1, <2>2, <2>3 DEF OrphansAreFound, Renamed, Entered
<1>. QED BY <1>3, <1>4, <1>5

LEMMA MovesWorking ==
  ASSUME TypeOK, TypeOK', Numbered, imp.on => Working, Moves
  PROVE  imp'.on => Working'
<1> SUFFICES ASSUME imp.on
             PROVE  Working'
  BY DEF Moves
<1> DEFINE r == imp.run
           i == imp.item
<1>1. Working /\ imp' = imp /\ begun' = begun /\ plan' = plan /\ journal' = journal /\ last' = last
  BY DEF Moves
<1>2. r \in Runs /\ i \in Nat /\ r = begun
  BY <1>1, ImportIs DEF Working
<1>3. edits \in Nat /\ edits' \in Nat /\ Stored' \subseteq Stored
  BY DEF TypeOK, Moves
<1>4. \A a \in Stored' : art'[a].slug = art[a].slug \/ (art'[a].slug.name = edits' /\ edits < edits')
  BY DEF Moves
<1>5. \A a \in Stored' : art'[a].item = art[a].item /\ art'[a].by = art[a].by
  BY DEF Moves
<1>6. ASSUME i \in Items, NEW a \in BySlug(plan[r][i])'
      PROVE  a \in BySlug(plan[r][i]) /\ a \in Stored' /\ art'[a].slug = art[a].slug
  <2>1. a \in Stored' /\ art'[a].slug = plan[r][i]
    BY <1>1, <1>6 DEF BySlug
  <2>2. plan[r][i].name \in Nat /\ plan[r][i].name <= edits
    BY <1>2, <1>6, PlanIs DEF Numbered
  <2>3. art'[a].slug = art[a].slug
    BY <1>3, <1>4, <2>1, <2>2
  <2>. QED BY <1>3, <2>1, <2>3 DEF BySlug
<1>7. \A a \in touched' : a \in touched \/ ~Held(a)
  BY DEF Moves
<1>8. imp.foreign = UNION {JournaledBy(q)' : q \in Runs \ {r}}
  BY <1>1 DEF Working, JournaledBy
<1>9. \A j \in Items : Covered(j) => Covered(j)'
  <2> SUFFICES ASSUME NEW j \in Items, Covered(j)
               PROVE  Covered(j)'
    OBVIOUS
  <2>1. \E q \in Runs : Entered(q, j)'
    BY <1>1 DEF Covered, Entered
  <2>2. Journaled' = Journaled
    BY <1>1 DEF Journaled, JournaledBy
  <2>3. \A a \in Stored' : Renamed(a) => Renamed(a)'
    BY <1>3, <1>4 DEF Renamed
  <2>. QED BY <1>3, <1>5, <2>1, <2>2, <2>3 DEF Covered
<1>10. imp.pc \in {"hero", "upload", "heroJournal", "tag", "create"} => BySlug(plan[r][i])' = {}
  <2>1. imp.pc \in {"hero", "upload", "heroJournal", "tag", "create"} =>
          i \in Items /\ BySlug(plan[r][i]) = {}
    BY <1>1 DEF Working
  <2>. QED BY <1>6, <2>1
<1>11. imp.pc = "retry" => \A a \in BySlug(plan[r][i])' : art'[a].by = r /\ a \notin touched'
  <2> SUFFICES ASSUME imp.pc = "retry", NEW a \in BySlug(plan[r][i])'
               PROVE  art'[a].by = r /\ a \notin touched'
    OBVIOUS
  <2>1. i \in Items /\ \A c \in BySlug(plan[r][i]) : art[c].by = r /\ c \notin touched
    BY <1>1 DEF Working
  <2>2. a \in BySlug(plan[r][i]) /\ a \in Stored'
    BY <1>6, <2>1
  <2>3. Held(a)
    BY <2>2 DEF Held, At, BySlug
  <2>. QED BY <1>5, <1>7, <2>1, <2>2, <2>3
<1>12. imp.pc = "readback" =>
         /\ imp.id \in 1..last /\ imp.id \notin touched' /\ BySlug(plan[r][i])' \subseteq {imp.id}
         /\ imp.id \in Stored' => art'[imp.id].by = r /\ art'[imp.id].item = i
  <2> SUFFICES ASSUME imp.pc = "readback"
               PROVE  /\ imp.id \in 1..last /\ imp.id \notin touched'
                      /\ BySlug(plan[r][i])' \subseteq {imp.id}
                      /\ imp.id \in Stored' => art'[imp.id].by = r /\ art'[imp.id].item = i
    OBVIOUS
  <2>1. /\ i \in Items /\ imp.id \in 1..last /\ imp.id \notin touched
        /\ BySlug(plan[r][i]) \subseteq {imp.id}
        /\ imp.id \in Stored => art[imp.id].by = r /\ art[imp.id].item = i
    BY <1>1 DEF Working
  <2>2. Held(imp.id)
    BY DEF Held, At
  <2>3. BySlug(plan[r][i])' \subseteq {imp.id}
    BY <1>6, <2>1
  <2>4. imp.id \in Stored' => art'[imp.id].by = r /\ art'[imp.id].item = i
    BY <1>3, <1>5, <2>1
  <2>. QED BY <1>7, <2>1, <2>2, <2>3, <2>4
<1>13. /\ imp.pc # "finish" => i \in Items
       /\ imp.pc \notin {"consider", "finish"} => ~Entered(r, i)
       /\ imp.fails > 0 => imp.bad
       /\ ~imp.bad => \A j \in Items : j < i => Covered(j)
       /\ ~imp.bad /\ imp.pc = "finish" => i > NItems
  BY <1>1 DEF Working
<1>14. Entered(r, i)' = Entered(r, i)
  BY <1>1 DEF Entered
<1>15. Working' <=> /\ r = begun
                    /\ imp.foreign = UNION {JournaledBy(q)' : q \in Runs \ {r}}
                    /\ imp.pc # "finish" => i \in Items
                    /\ imp.pc \notin {"consider", "finish"} => ~Entered(r, i)
                    /\ imp.pc \in {"hero", "upload", "heroJournal", "tag", "create"} =>
                         BySlug(plan[r][i])' = {}
                    /\ imp.pc = "retry" =>
                         \A a \in BySlug(plan[r][i])' : art'[a].by = r /\ a \notin touched'
                    /\ imp.pc = "readback" =>
                         /\ imp.id \in 1..last /\ imp.id \notin touched'
                         /\ BySlug(plan[r][i])' \subseteq {imp.id}
                         /\ imp.id \in Stored' => art'[imp.id].by = r /\ art'[imp.id].item = i
                    /\ imp.fails > 0 => imp.bad
                    /\ ~imp.bad => \A j \in Items : j < i => Covered(j)'
                    /\ ~imp.bad /\ imp.pc = "finish" => i > NItems
  BY <1>1, <1>14 DEF Working
<1>. QED BY <1>2, <1>8, <1>9, <1>10, <1>11, <1>12, <1>13, <1>15

-----------------------------------------------------------------------------
(* Rows, journals and the import at work, in one.                          *)
RowsInv ==
  Numbered /\ SlugsUnique /\ JournalsFit /\ OrphansAreFound /\ (imp.on => Working)

LEMMA MovesKeep ==
  ASSUME TypeOK, TypeOK', RowsInv, Moves
  PROVE  RowsInv'
<1>1. Numbered /\ SlugsUnique /\ JournalsFit /\ OrphansAreFound /\ (imp.on => Working)
  BY DEF RowsInv
<1>2. Numbered'
  BY <1>1, MovesNumbered
<1>3. SlugsUnique' /\ JournalsFit' /\ OrphansAreFound'
  BY <1>1, MovesRows
<1>4. imp'.on => Working'
  BY <1>1, MovesWorking
<1>. QED BY <1>2, <1>3, <1>4 DEF RowsInv

(* The parts of RowsInv that are about rows, when none of them moves.      *)
LEMMA SameRows ==
  ASSUME RowsInv, UNCHANGED <<art, last, begun, plan, journal, edits, touched>>
  PROVE  /\ Numbered' /\ SlugsUnique' /\ JournalsFit' /\ OrphansAreFound'
         /\ Stored' = Stored /\ \A s : BySlug(s)' = BySlug(s)
         /\ \A r \in Runs, i \in Items : Entered(r, i)' = Entered(r, i)
         /\ \A j \in Items : Covered(j)' = Covered(j)
         /\ \A r \in Runs : JournaledBy(r)' = JournaledBy(r)
<1>0. Numbered /\ SlugsUnique /\ JournalsFit /\ OrphansAreFound
  BY DEF RowsInv
<1>1. Stored' = Stored /\ Journaled' = Journaled
  BY DEF Stored, Journaled, JournaledBy
<1>2. \A r, i : EntryOf(r, i)' = EntryOf(r, i) /\ Entered(r, i)' = Entered(r, i)
  BY DEF EntryOf, Entered
<1>3. \A a : Renamed(a)' = Renamed(a)
  BY DEF Renamed
<1>4. Numbered'
  BY <1>0, <1>1, <1>2 DEF Numbered
<1>5. SlugsUnique'
  BY <1>0, <1>1 DEF SlugsUnique
<1>6. JournalsFit'
  BY <1>0, <1>1, <1>2 DEF JournalsFit
<1>7. OrphansAreFound'
  BY <1>0, <1>1, <1>2, <1>3 DEF OrphansAreFound
<1>8. \A s : BySlug(s)' = BySlug(s)
  BY <1>1 DEF BySlug
<1>9. \A j \in Items : Covered(j)' = Covered(j)
  BY <1>1, <1>2, <1>3 DEF Covered
<1>10. \A r \in Runs : JournaledBy(r)' = JournaledBy(r)
  BY DEF JournaledBy
<1>. QED BY <1>1, <1>2, <1>4, <1>5, <1>6, <1>7, <1>8, <1>9, <1>10

(* What a step that is about other things leaves.                          *)
LEMMA RestsKeep ==
  ASSUME TypeOK, RowsInv,
         UNCHANGED <<art, last, begun, plan, journal, imp, edits, touched>>
  PROVE  RowsInv'
<1>1. Numbered' /\ SlugsUnique' /\ JournalsFit' /\ OrphansAreFound'
  BY SameRows
<1>2. ASSUME imp.on PROVE Working'
  <2>1. /\ Working /\ Stored' = Stored /\ \A s : BySlug(s)' = BySlug(s)
        /\ \A r \in Runs, i \in Items : Entered(r, i)' = Entered(r, i)
        /\ \A j \in Items : Covered(j)' = Covered(j)
        /\ \A r \in Runs : JournaledBy(r)' = JournaledBy(r)
    BY <1>2, SameRows DEF RowsInv
  <2>2. imp.run \in Runs
    BY <1>2, ImportIs
  <2>3. imp.foreign = UNION {JournaledBy(q)' : q \in Runs \ {imp.run}}
    BY <2>1 DEF Working
  <2>. QED BY <2>1, <2>2, <2>3 DEF Working
<1>. QED BY <1>1, <1>2 DEF RowsInv

LEMMA ImageStays ==
  ASSUME ImageKnown, UNCHANGED <<media, mediaJ, begun, imp>>
  PROVE  ImageKnown'
BY DEF ImageKnown, LinedAs, Lines

(* One article changes by a person or a tool.                              *)
LEMMA OneMoves ==
  ASSUME TypeOK, NEW a \in Stored, NEW row \in Row \cup {NoRow}, art' = [art EXCEPT ![a] = row],
         UNCHANGED <<last, begun, plan, journal, imp>>, edits' \in Nat, edits <= edits',
         row # NoRow =>
           /\ row.item = art[a].item /\ row.by = art[a].by /\ row.hero \in {0, art[a].hero}
           /\ art[a].ver <= row.ver
           /\ \/ row.slug = art[a].slug
              \/ row.slug.item = art[a].slug.item /\ row.slug.name = edits' /\ edits < edits',
         touched' \subseteq touched
         \/ (touched' \subseteq touched \cup {a} /\ ~Held(a) /\ (row # NoRow => art[a].ver < row.ver))
  PROVE  /\ Moves /\ Stored' \subseteq Stored /\ \A c \in Stored' : art'[c].hero \in {0, art[c].hero}
         /\ art' \in [Ids -> {NoRow} \cup Row]
<1>1. \A c \in Ids : art'[c] = IF c = a THEN row ELSE art[c]
  BY DEF TypeOK
<1>2. \A c \in Stored : c \in Ids /\ art[c] \in Row
  BY RowIs
<1>3. Stored' \subseteq Stored
  BY <1>1 DEF Stored
<1>4. a \in Stored' => row # NoRow
  BY <1>1, <1>2 DEF Stored
<1>5. \A c \in Stored' : c \in Ids /\ c \in Stored /\ art[c].ver \in Nat
  BY <1>2, <1>3 DEF Row
<1>6. \A c \in Stored' : /\ art'[c].item = art[c].item /\ art'[c].by = art[c].by
                         /\ art'[c].hero \in {0, art[c].hero} /\ art[c].ver <= art'[c].ver
  BY <1>1, <1>4, <1>5
<1>7. \A c \in Stored' : \/ art'[c].slug = art[c].slug
                         \/ /\ art'[c].slug.item = art[c].slug.item /\ art'[c].slug.name = edits'
                            /\ edits < edits'
  BY <1>1, <1>4, <1>5
<1>8. \E b : \A c \in Stored' \ {b} : art'[c].slug = art[c].slug
  BY <1>1, <1>2, <1>5
<1>9. \A c \in touched' :
        \/ c \in touched
        \/ c \in Stored /\ ~Held(c) /\ (c \in Stored' => art[c].ver < art'[c].ver)
  BY <1>1, <1>2, <1>4
<1>10. art' \in [Ids -> {NoRow} \cup Row]
  BY <1>1 DEF TypeOK
<1>. QED BY <1>3, <1>6, <1>7, <1>8, <1>9, <1>10 DEF Moves

(* The rollback's part, as long as it only sees rows leave.                *)
LEMMA RollingStays ==
  ASSUME Rolling, ImageKnown, UNCHANGED <<media, imp, roll>>, Stored' \subseteq Stored,
         \A c \in Stored' : art'[c].hero \in {0, art[c].hero},
         touched' \cap roll.doomed \subseteq touched
  PROVE  Rolling'
<1>1. media.doc # NoDoc => media.doc.n # 0
  BY DEF ImageKnown
<1>. QED BY <1>1 DEF Rolling

GtpInv == TypeOK /\ RowsInv /\ ImageKnown /\ Rolling

LEMMA EditKeeps ==
  ASSUME GtpInv, NEW a \in Ids, Edit(a)
  PROVE  GtpInv'
<1>1. TypeOK /\ RowsInv /\ ImageKnown /\ Rolling /\ a \in Stored
  BY DEF GtpInv, Edit
<1>2. PICK renamed, asDraft \in BOOLEAN, hero \in {art[a].hero, 0} :
        art' = [art EXCEPT ![a].ver = @ + 1,
                           ![a].slug = IF renamed THEN [@ EXCEPT !.name = edits'] ELSE @,
                           ![a].hero = hero,
                           ![a].shown = IF asDraft THEN @ ELSE hero]
  BY DEF Edit
<1> DEFINE slug == IF renamed THEN [art[a].slug EXCEPT !.name = edits'] ELSE art[a].slug
           shown == IF asDraft THEN art[a].shown ELSE hero
           row == [art[a] EXCEPT !.ver = art[a].ver + 1, !.slug = slug, !.hero = hero, !.shown = shown]
<1>3. art[a] \in Row /\ edits' = edits + 1 /\ edits \in Nat /\ edits' \in 0..MaxEdits
  BY <1>1, RowIs, BoundsAssumption DEF TypeOK, Edit
<1>4. slug \in Slugs /\ (slug = art[a].slug \/ (slug.item = art[a].slug.item /\ slug.name = edits'))
  BY <1>3 DEF Slugs, Row
<1>. hero \in Nat /\ shown \in Nat
  BY <1>3 DEF Row
<1> HIDE DEF slug, shown
<1>5. /\ row \in Row /\ row.item = art[a].item /\ row.by = art[a].by /\ row.hero = hero
      /\ row.ver = art[a].ver + 1 /\ row.slug = slug /\ art[a].ver \in Nat
  <2>1. art[a] \in Row /\ art[a].ver \in Nat /\ art[a].ver + 1 \in Nat
    BY <1>3 DEF Row
  <2>2. row \in Row
    BY <1>4, <2>1 DEF Row
  <2>. QED BY <2>1, <2>2 DEF Row
<1>6. art' = [art EXCEPT ![a] = row]
  BY <1>2 DEF slug, shown
<1> HIDE DEF row
<1>7. /\ UNCHANGED <<last, media, tag, disk, imp, roll, crashes, lost>>
      /\ touched' = IF Held(a) \/ a \in roll.doomed THEN touched ELSE touched \cup {a}
  BY DEF Edit
<1>8. UNCHANGED <<last, begun, plan, journal, imp>>
  BY <1>7 DEF disk
<1>9. /\ Moves /\ Stored' \subseteq Stored /\ \A c \in Stored' : art'[c].hero \in {0, art[c].hero}
      /\ art' \in [Ids -> {NoRow} \cup Row]
  <2>1. edits' \in Nat /\ edits <= edits' /\ edits < edits' /\ art[a].ver < row.ver
    BY <1>3, <1>5
  <2>2. \/ row.slug = art[a].slug
        \/ row.slug.item = art[a].slug.item /\ row.slug.name = edits' /\ edits < edits'
    BY <1>4, <1>5, <2>1
  <2>3. touched' \subseteq touched
        \/ (touched' \subseteq touched \cup {a} /\ ~Held(a) /\ (row # NoRow => art[a].ver < row.ver))
    BY <1>7, <2>1
  <2>4. art[a].ver <= row.ver /\ row.hero \in {0, art[a].hero}
    BY <1>5
  <2>. QED BY <1>1, <1>5, <1>6, <1>8, <2>1, <2>2, <2>3, <2>4, OneMoves
<1>10. TypeOK'
  BY <1>1, <1>3, <1>7, <1>9 DEF TypeOK, disk
<1>11. RowsInv'
  BY <1>1, <1>9, <1>10, MovesKeep
<1>12. ImageKnown'
  BY <1>1, <1>7, ImageStays DEF disk
<1>13. Rolling'
  BY <1>1, <1>7, <1>9, RollingStays
<1>. QED BY <1>10, <1>11, <1>12, <1>13 DEF GtpInv

LEMMA RemoveKeeps ==
  ASSUME GtpInv, NEW a \in Ids, Remove(a)
  PROVE  GtpInv'
<1>1. TypeOK /\ RowsInv /\ ImageKnown /\ Rolling /\ a \in Stored
  BY DEF GtpInv, Remove
<1>2. /\ UNCHANGED <<last, media, tag, disk, imp, roll, crashes, lost>>
      /\ art' = [art EXCEPT ![a] = NoRow] /\ touched' = touched \ {a} /\ edits' = edits + 1
  BY DEF Remove
<1>3. edits \in Nat /\ edits' \in Nat /\ edits <= edits'
  BY <1>1, <1>2 DEF TypeOK
<1>4. UNCHANGED <<last, begun, plan, journal, imp>>
  BY <1>2 DEF disk
<1>5. /\ Moves /\ Stored' \subseteq Stored /\ \A c \in Stored' : art'[c].hero \in {0, art[c].hero}
      /\ art' \in [Ids -> {NoRow} \cup Row]
  BY <1>1, <1>2, <1>3, <1>4, OneMoves
<1>6. TypeOK'
  BY <1>1, <1>2, <1>3, <1>5 DEF TypeOK, disk
<1>7. RowsInv'
  BY <1>1, <1>5, <1>6, MovesKeep
<1>8. ImageKnown'
  BY <1>1, <1>2, ImageStays DEF disk
<1>9. Rolling'
  BY <1>1, <1>2, <1>5, RollingStays
<1>. QED BY <1>6, <1>7, <1>8, <1>9 DEF GtpInv

-----------------------------------------------------------------------------
(* The rollback. *)

LEMMA RollbackIs ==
  ASSUME TypeOK, roll.on
  PROVE  roll \in Rollback
<1>1. ~NoRollback.on
  BY DEF NoRollback
<1>. QED BY <1>1 DEF TypeOK

(* The rollback's own steps leave rows and journals alone.                 *)
LEMMA RollKeeps ==
  ASSUME GtpInv, UNCHANGED <<art, last, media, disk, imp, edits, touched>>,
         tag' \in {0} \cup Runs, crashes' \in Nat, lost' \in Nat,
         roll' \in {NoRollback} \cup Rollback, Rolling'
  PROVE  GtpInv'
<1>1. TypeOK /\ RowsInv /\ ImageKnown
  BY DEF GtpInv
<1>2. TypeOK'
  BY <1>1 DEF TypeOK, disk
<1>3. RowsInv'
  BY <1>1, RestsKeep DEF disk
<1>4. ImageKnown'
  BY <1>1, ImageStays DEF disk
<1>. QED BY <1>2, <1>3, <1>4 DEF GtpInv

LEMMA RollStartKeeps ==
  ASSUME GtpInv, NEW r \in Runs, RollStart(r)
  PROVE  GtpInv'
<1> DEFINE new == [on |-> TRUE, run |-> r, pc |-> "judge", todo |-> {i \in Items : journal[r][i] # NoEntry},
                   gone |-> {}, doomed |-> {}, deleting |-> {}, heroDoomed |-> 0]
<1>1. new \in Rollback /\ new.pc = "judge" /\ new.doomed = {} /\ new.deleting = {}
  BY DEF Rollback
<1>2. roll' = new /\ ~imp.on /\ UNCHANGED <<central, disk, imp, counters, touched>>
  BY DEF RollStart
<1> HIDE DEF new
<1>3. Rolling'
  BY <1>1, <1>2 DEF Rolling
<1>4. tag' \in {0} \cup Runs /\ crashes' \in Nat /\ lost' \in Nat
  BY <1>2 DEF GtpInv, TypeOK, central, counters
<1>. QED BY <1>1, <1>2, <1>3, <1>4, RollKeeps DEF central, counters

LEMMA JudgeKeeps ==
  ASSUME GtpInv, NEW i \in Items, Judge(i)
  PROVE  GtpInv'
<1> DEFINE e == journal[roll.run][i]
           gone == IF e.id \in Stored THEN roll.gone ELSE roll.gone \cup {i}
           doomed == IF e.id \in Stored /\ Untouched(e) THEN roll.doomed \cup {e.id} ELSE roll.doomed
           new == [roll EXCEPT !.todo = @ \ {i}, !.gone = gone, !.doomed = doomed]
<1>1. TypeOK /\ RowsInv /\ Rolling /\ roll.on /\ roll.pc = "judge"
  BY DEF GtpInv, Judge, RollAt
<1>2. roll \in Rollback /\ roll.run \in Runs
  BY <1>1, RollbackIs DEF Rollback
<1>3. roll' = new /\ UNCHANGED <<central, disk, imp, counters, touched>>
  BY DEF Judge
<1>4. doomed \in SUBSET Ids /\ doomed \cap touched = {}
  <2>1. roll.doomed \in SUBSET Ids /\ roll.doomed \cap touched = {}
    BY <1>1, <1>2 DEF Rollback, Rolling
  <2>2. ASSUME e.id \in Stored, Untouched(e)
        PROVE  e.id \in Ids /\ e.id \notin touched
    <3>1. EntryOf(roll.run, i) \in Stored /\ EntryOf(roll.run, i) = e.id
      BY <2>2 DEF EntryOf
    <3>2. e.id \in touched => e.ver < art[e.id].ver
      BY <1>1, <1>2, <3>1 DEF RowsInv, JournalsFit
    <3>3. art[e.id].ver = e.ver /\ art[e.id].ver \in Nat /\ e.id \in Ids
      BY <1>1, <2>2, RowIs DEF Untouched, Row
    <3>. QED BY <3>2, <3>3
  <2>. QED BY <2>1, <2>2
<1>5. gone \in SUBSET Items
  BY <1>2 DEF Rollback
<1>. roll.doomed \subseteq doomed
  OBVIOUS
<1> HIDE DEF gone, doomed
<1>6. new \in Rollback /\ new.pc = "judge" /\ new.doomed = doomed /\ new.on /\ new.deleting = roll.deleting
  BY <1>1, <1>2, <1>4, <1>5 DEF Rollback
<1> HIDE DEF new
<1>7. Rolling'
  BY <1>1, <1>3, <1>4, <1>6 DEF Rolling
<1>8. tag' \in {0} \cup Runs /\ crashes' \in Nat /\ lost' \in Nat
  BY <1>1, <1>3 DEF TypeOK, central, counters
<1>. QED BY <1>3, <1>6, <1>7, <1>8, RollKeeps DEF central, counters

LEMMA DecideMediaKeeps ==
  ASSUME GtpInv, DecideMedia
  PROVE  GtpInv'
<1> DEFINE hero == IF HeroDoomed THEN media.doc.n ELSE 0
           new == [roll EXCEPT !.pc = "delete", !.deleting = roll.doomed, !.heroDoomed = hero]
<1>1. TypeOK /\ Rolling /\ ImageKnown /\ roll.on
  BY DEF GtpInv, DecideMedia, RollAt
<1>2. roll \in Rollback
  BY <1>1, RollbackIs
<1>3. roll' = new /\ UNCHANGED <<central, disk, imp, counters, touched>>
  BY DEF DecideMedia
<1>4. media.doc.n \in Nat
  BY <1>1 DEF TypeOK, NoDoc, Doc
<1>5. /\ hero \in Nat
      /\ media.doc # NoDoc /\ media.doc.n = hero =>
           \A a \in Stored : art[a].hero = media.doc.n => a \in roll.doomed
  <2>1. CASE HeroDoomed
    BY <1>4, <2>1 DEF HeroDoomed, ShownByDoomedOnly
  <2>2. CASE ~HeroDoomed
    BY <1>1, <2>2 DEF ImageKnown
  <2>. QED BY <2>1, <2>2
<1> HIDE DEF hero
<1>6. new \in Rollback /\ new.heroDoomed = hero /\ new.doomed = roll.doomed /\ new.on /\ new.deleting = roll.doomed
  BY <1>2, <1>5 DEF Rollback
<1> HIDE DEF new
<1>7. UNCHANGED <<art, media, imp, touched>> /\ Stored' = Stored
  BY <1>3 DEF central, Stored
<1>8. Rolling'
  BY <1>1, <1>3, <1>5, <1>6, <1>7 DEF Rolling
<1>9. tag' \in {0} \cup Runs /\ crashes' \in Nat /\ lost' \in Nat
  BY <1>1, <1>3 DEF TypeOK, central, counters
<1>. QED BY <1>3, <1>6, <1>8, <1>9, RollKeeps DEF central, counters

LEMMA DeleteArticleKeeps ==
  ASSUME GtpInv, NEW a \in Ids, DeleteArticle(a)
  PROVE  GtpInv'
<1> DEFINE new == [roll EXCEPT !.deleting = @ \ {a}]
<1>1. TypeOK /\ RowsInv /\ ImageKnown /\ Rolling /\ roll.on /\ roll.pc = "delete"
  BY DEF GtpInv, DeleteArticle, RollAt
<1>2. roll \in Rollback
  BY <1>1, RollbackIs
<1>3. roll' = new /\ UNCHANGED <<last, media, tag, disk, imp, counters, touched>>
  BY DEF DeleteArticle
<1>4. /\ new \in Rollback /\ new.pc = roll.pc /\ new.doomed = roll.doomed
      /\ new.heroDoomed = roll.heroDoomed /\ new.on = roll.on /\ new.deleting \subseteq roll.deleting
  BY <1>2 DEF Rollback
<1> HIDE DEF new
<1>5. UNCHANGED <<last, begun, plan, journal, imp, edits, touched, media>>
  BY <1>3 DEF disk, counters
<1>6. edits' \in Nat /\ edits <= edits' /\ touched' \subseteq touched /\ edits \in Nat
  BY <1>1, <1>5 DEF TypeOK
<1>7. /\ Moves /\ Stored' \subseteq Stored /\ \A c \in Stored' : art'[c].hero \in {0, art[c].hero}
      /\ art' \in [Ids -> {NoRow} \cup Row]
  <2>1. ASSUME UNCHANGED art
        PROVE  Moves /\ Stored' \subseteq Stored /\ (\A c \in Stored' : art'[c].hero \in {0, art[c].hero})
               /\ art' \in [Ids -> {NoRow} \cup Row]
    <3>1. Stored' = Stored
      BY <2>1 DEF Stored
    <3>2. \A c \in Stored : art[c].ver \in Nat
      BY <1>1, RowIs DEF Row
    <3>3. Moves
      BY <1>5, <1>6, <2>1, <3>1, <3>2 DEF Moves
    <3>. QED BY <1>1, <2>1, <3>1, <3>3 DEF TypeOK
  <2>2. CASE a \notin Stored
    <3>1. art[a] = NoRow /\ art' = [art EXCEPT ![a] = NoRow]
      BY <2>2 DEF DeleteArticle, Stored
    <3>2. UNCHANGED art
      BY <1>1, <3>1 DEF TypeOK
    <3>. QED BY <2>1, <3>2
  <2>3. CASE a \in Stored /\ art' = [art EXCEPT ![a] = NoRow]
    <3>1. UNCHANGED <<last, begun, plan, journal, imp>> /\ NoRow \in Row \cup {NoRow}
      BY <1>5
    <3>. QED BY <1>1, <1>6, <2>3, <3>1, OneMoves
  <2>4. CASE a \in Stored /\ art' = [art EXCEPT ![a].ver = @ + 1, ![a].shown = art[a].hero]
    <3> DEFINE row == [art[a] EXCEPT !.ver = art[a].ver + 1, !.shown = art[a].hero]
    <3>1. art[a] \in Row /\ art[a].ver + 1 \in Nat /\ art[a].hero \in Nat
      BY <1>1, <2>4, RowIs DEF Row
    <3> DEFINE next == art[a].ver + 1  bare == [art[a] EXCEPT !.ver = next]
    <3>9. bare \in Row /\ bare.hero = art[a].hero /\ bare.ver = next /\ bare.item = art[a].item
          /\ bare.by = art[a].by /\ bare.slug = art[a].slug
      <4> HIDE DEF next
      <4>. QED BY <3>1 DEF Row, next
    <3>8. row = [bare EXCEPT !.shown = art[a].hero] /\ art[a].ver <= next
      BY <3>1 DEF Row
    <3> HIDE DEF row, bare, next
    <3>2. /\ row \in Row /\ row.item = art[a].item /\ row.by = art[a].by /\ row.hero = art[a].hero
          /\ row.slug = art[a].slug /\ art[a].ver <= row.ver
      BY <3>1, <3>8, <3>9 DEF Row
    <3>3. art' = [art EXCEPT ![a] = row]
      BY <2>4 DEF row
    <3>4. UNCHANGED <<last, begun, plan, journal, imp>> /\ row \in Row \cup {NoRow}
      BY <1>5, <3>2
    <3>5. row # NoRow =>
            /\ row.item = art[a].item /\ row.by = art[a].by /\ row.hero \in {0, art[a].hero}
            /\ art[a].ver <= row.ver
            /\ \/ row.slug = art[a].slug
               \/ row.slug.item = art[a].slug.item /\ row.slug.name = edits' /\ edits < edits'
      BY <3>2
    <3>6. edits' \in Nat /\ edits <= edits' /\ touched' \subseteq touched
      BY <1>6
    <3>7. a \in Stored
      BY <2>4
    <3> HIDE <2>4
    <3>. QED BY <1>1, <3>3, <3>4, <3>5, <3>6, <3>7, OneMoves
  <2>. QED BY <2>1, <2>2, <2>3, <2>4 DEF DeleteArticle
<1>8. TypeOK'
  BY <1>1, <1>3, <1>4, <1>7 DEF TypeOK, disk, counters
<1>9. RowsInv'
  BY <1>1, <1>7, <1>8, MovesKeep
<1>10. ImageKnown'
  BY <1>1, <1>3, ImageStays DEF disk
<1>11. Rolling'
  <2>1. media.doc # NoDoc => media.doc.n # 0
    BY <1>1 DEF ImageKnown
  <2>. QED BY <1>1, <1>3, <1>4, <1>5, <1>7, <2>1 DEF Rolling
<1>. QED BY <1>8, <1>9, <1>10, <1>11 DEF GtpInv

LEMMA DeleteRestKeeps ==
  ASSUME GtpInv, DeleteRest
  PROVE  GtpInv'
<1> DEFINE drop == media.doc # NoDoc /\ media.doc.n = roll.heroDoomed
<1>1. TypeOK /\ RowsInv /\ ImageKnown /\ Rolling /\ roll.on /\ ~imp.on
  BY DEF GtpInv, DeleteRest, RollAt, Rolling
<1>2. /\ roll' = NoRollback /\ UNCHANGED <<last, disk, imp, counters, touched>>
      /\ media' = IF drop THEN [media EXCEPT !.doc = NoDoc] ELSE media
      /\ art' = [a \in Ids |-> IF drop /\ a \in Stored THEN Without(art[a], media.doc.n)
                               ELSE art[a]]
      /\ tag' \in {0, tag}
  BY DEF DeleteRest
<1>3. \A a \in Stored : a \in Ids /\ art[a] \in Row
  BY <1>1, RowIs
<1>4. \A a \in Stored : Without(art[a], media.doc.n) \in Row
  BY <1>3 DEF Row, Without
<1>5. \A a \in Ids : \/ art'[a] = art[a]
                     \/ a \in Stored /\ art'[a] = Without(art[a], media.doc.n)
  BY <1>2
<1>6. art' \in [Ids -> {NoRow} \cup Row]
  <2>1. art \in [Ids -> {NoRow} \cup Row]
    BY <1>1 DEF TypeOK
  <2>2. DOMAIN art' = Ids /\ art' = [a \in Ids |-> art'[a]]
    BY <1>2
  <2>3. \A a \in Ids : art'[a] \in {NoRow} \cup Row
    BY <1>4, <1>5, <2>1
  <2>. QED BY <2>2, <2>3
<1>7. Stored' \subseteq Stored
  BY <1>5 DEF Stored
<1>8. Moves
  <2>1. ASSUME NEW a \in Stored'
        PROVE  /\ art'[a].item = art[a].item /\ art'[a].by = art[a].by /\ art[a].ver <= art'[a].ver
               /\ art'[a].slug = art[a].slug
    <3> DEFINE row == Without(art[a], media.doc.n)
    <3>1. a \in Ids /\ a \in Stored /\ art[a] \in Row
      BY <1>3, <1>7
    <3>2. /\ row.item = art[a].item /\ row.by = art[a].by /\ row.ver = art[a].ver
          /\ row.slug = art[a].slug /\ art[a].ver \in Nat
      BY <3>1 DEF Row, Without
    <3>3. art'[a] = art[a] \/ art'[a] = row
      BY <1>5, <3>1
    <3> HIDE DEF row
    <3>4. art[a].ver <= art[a].ver
      BY <3>2
    <3>. QED BY <3>2, <3>3, <3>4
  <2>2. UNCHANGED <<last, begun, plan, journal, imp, edits, touched>> /\ edits \in Nat
    BY <1>1, <1>2 DEF disk, counters, TypeOK
  <2>3. \E b : \A a \in Stored' \ {b} : art'[a].slug = art[a].slug
    BY <2>1
  <2>4. edits' \in Nat /\ edits <= edits'
    BY <2>2
  <2>. QED BY <1>7, <2>1, <2>2, <2>3, <2>4, Zenon DEF Moves
<1>9. TypeOK'
  <2>1. media' \in [uploads: Nat, doc: {NoDoc} \cup Doc]
    <3>1. media \in [uploads: Nat, doc: {NoDoc} \cup Doc]
      BY <1>1 DEF TypeOK
    <3>2. [media EXCEPT !.doc = NoDoc] \in [uploads: Nat, doc: {NoDoc} \cup Doc]
      BY <3>1
    <3>. QED BY <1>2, <3>1, <3>2
  <2>2. tag' \in {0} \cup Runs
    BY <1>1, <1>2 DEF TypeOK
  <2>. QED BY <1>1, <1>2, <1>6, <2>1, <2>2 DEF TypeOK, disk, counters
<1>10. RowsInv'
  BY <1>1, <1>8, <1>9, MovesKeep
<1>11. ImageKnown'
  <2>1. UNCHANGED <<mediaJ, begun, imp>>
    BY <1>2 DEF disk
  <2>2. CASE drop
    <3>1. media'.doc = NoDoc
      BY <1>1, <1>2, <2>2 DEF TypeOK
    <3>. QED BY <1>1, <2>1, <3>1 DEF ImageKnown
  <2>3. CASE ~drop
    BY <1>1, <1>2, <2>1, <2>3, ImageStays
  <2>. QED BY <2>2, <2>3
<1>12. Rolling'
  BY <1>1, <1>2 DEF Rolling, NoRollback
<1>. QED BY <1>9, <1>10, <1>11, <1>12 DEF GtpInv

LEMMA RollDiesKeeps ==
  ASSUME GtpInv, RollDies
  PROVE  GtpInv'
<1>1. TypeOK /\ Rolling
  BY DEF GtpInv
<1>2. /\ roll' = NoRollback /\ crashes' = crashes + 1
      /\ UNCHANGED <<central, disk, imp, lost, edits, touched>>
  BY DEF RollDies
<1>3. Rolling'
  BY <1>2 DEF Rolling, NoRollback
<1>4. tag' \in {0} \cup Runs /\ crashes' \in Nat /\ lost' \in Nat
  BY <1>1, <1>2 DEF TypeOK, central
<1>. QED BY <1>2, <1>3, <1>4, RollKeeps DEF central

-----------------------------------------------------------------------------
(* The import. *)

(* On to the next item: what is kept, and when the run is at its end.      *)
LEMMA AdvanceIs ==
  ASSUME TypeOK, NEW p \in Import, Advance(p), p.item \in Items
  PROVE  /\ imp' \in Import /\ tagsMade' \in [Runs -> BOOLEAN]
         /\ imp'.on /\ imp'.run = p.run /\ imp'.foreign = p.foreign /\ imp'.made = p.made
         /\ imp'.item = p.item + 1 /\ imp'.fails = p.fails /\ imp'.bad = p.bad
         /\ imp'.pc \in {"consider", "finish"}
         /\ imp'.pc = "consider" => p.item < NItems
         /\ imp'.pc = "finish" => p.item = NItems \/ p.fails >= StopAfter
<1> DEFINE pc == IF p.item < NItems /\ p.fails < StopAfter THEN "consider" ELSE "finish"
           new == [p EXCEPT !.item = p.item + 1, !.id = 0, !.hero = 0, !.pc = pc]
<1>1. imp' = new
  BY DEF Advance
<1>2. p.item \in 1..NItems /\ p.fails \in Nat /\ NItems \in Nat /\ StopAfter \in Nat
      /\ p.tagMade \in BOOLEAN /\ p.run \in Runs
  BY SizesAssumption DEF Import, Items
<1>3. /\ pc \in {"consider", "finish"}
      /\ pc = "consider" => p.item < NItems
      /\ pc = "finish" => p.item = NItems \/ p.fails >= StopAfter
  BY <1>2
<1> HIDE DEF pc
<1>4. p.item + 1 \in Nat
  BY <1>2
<1>5. new \in Import
  BY <1>3, <1>4 DEF Import
<1>6. /\ new.on /\ new.run = p.run /\ new.foreign = p.foreign /\ new.made = p.made
      /\ new.item = p.item + 1 /\ new.fails = p.fails /\ new.bad = p.bad /\ new.pc = pc
  BY DEF Import
<1> HIDE DEF new
<1>7. tagsMade' \in [Runs -> BOOLEAN]
  BY <1>2 DEF Advance, TypeOK
<1>. QED BY <1>1, <1>3, <1>5, <1>6, <1>7

(* The import at work, once it has passed an item that is covered, or one  *)
(* it will report.                                                         *)
LEMMA Passed ==
  ASSUME TypeOK, NEW p \in Import, Advance(p), p.item \in Items, p.run = begun',
         p.foreign = UNION {JournaledBy(q)' : q \in Runs \ {p.run}},
         p.fails > 0 => p.bad,
         ~p.bad => \A j \in Items : j <= p.item => Covered(j)'
  PROVE  Working'
<1>1. /\ imp'.on /\ imp'.run = p.run /\ imp'.foreign = p.foreign
      /\ imp'.item = p.item + 1 /\ imp'.fails = p.fails /\ imp'.bad = p.bad
      /\ imp'.pc \in {"consider", "finish"}
      /\ imp'.pc = "consider" => p.item < NItems
      /\ imp'.pc = "finish" => p.item = NItems \/ p.fails >= StopAfter
  BY AdvanceIs
<1>2. p.item \in 1..NItems /\ p.fails \in Nat /\ NItems \in Nat /\ StopAfter \in Nat \ {0}
  BY SizesAssumption DEF Import, Items
<1>3. imp'.pc # "finish" => imp'.item \in Items
  BY <1>1, <1>2 DEF Items
<1>4. ~imp'.bad /\ imp'.pc = "finish" => imp'.item > NItems
  BY <1>1, <1>2
<1>5. ~imp'.bad => \A j \in Items : j < imp'.item => Covered(j)'
  BY <1>1, <1>2 DEF Items
<1>6. /\ imp'.pc \notin {"hero", "upload", "heroJournal", "tag", "create", "retry", "readback"}
      /\ ~(imp'.pc \notin {"consider", "finish"})
  BY <1>1
<1>7. imp'.run = begun' /\ imp'.foreign = UNION {JournaledBy(q)' : q \in Runs \ {imp'.run}}
      /\ (imp'.fails > 0 => imp'.bad)
  BY <1>1
<1>. QED BY <1>3, <1>4, <1>5, <1>6, <1>7 DEF Working

(* An entry is made for an article of the newest run, or one that is gone. *)
LEMMA Enters ==
  ASSUME TypeOK, Numbered, SlugsUnique, JournalsFit, OrphansAreFound, begun \in Runs,
         NEW i \in Items, NEW e \in Entry, journal' = [journal EXCEPT ![begun][i] = e],
         UNCHANGED <<art, last, begun, plan, edits, touched>>,
         ~Entered(begun, i), e.id <= last, BySlug(plan[begun][i]) \subseteq {e.id},
         e.id \in Stored => /\ art[e.id].by = begun /\ art[e.id].item = i
                            /\ e.ver <= art[e.id].ver
                            /\ e.id \in touched => e.ver < art[e.id].ver
  PROVE  /\ Numbered' /\ SlugsUnique' /\ JournalsFit' /\ OrphansAreFound'
         /\ journal' \in [Runs -> [Items -> {NoEntry} \cup Entry]]
         /\ UNION {JournaledBy(q)' : q \in Runs \ {begun}} =
            UNION {JournaledBy(q) : q \in Runs \ {begun}}
         /\ Covered(i)' /\ \A j \in Items : Covered(j) => Covered(j)'
<1>1. /\ Stored' = Stored
      /\ \A s : BySlug(s)' = BySlug(s)
  BY DEF Stored, BySlug
<1>2. journal' \in [Runs -> [Items -> {NoEntry} \cup Entry]]
  BY DEF TypeOK
<1>3. \A r \in Runs, j \in Items : journal'[r][j] = IF r = begun /\ j = i THEN e ELSE journal[r][j]
  BY DEF TypeOK
<1>4. e.id \in Ids /\ e # NoEntry /\ e.id # 0
  <2>1. e.id \in Ids
    BY DEF Entry
  <2>2. e.id # 0
    BY <2>1, SizesAssumption DEF Ids
  <2>. QED BY <2>1, <2>2 DEF NoEntry
<1>5. /\ \A r \in Runs, j \in Items : Entered(r, j) => Entered(r, j)' /\ EntryOf(r, j)' = EntryOf(r, j)
      /\ Entered(begun, i)' /\ EntryOf(begun, i)' = e.id
      /\ \A r \in Runs, j \in Items : (r # begun \/ j # i) => Entered(r, j)' = Entered(r, j)
                                                       /\ EntryOf(r, j)' = EntryOf(r, j)
  BY <1>3, <1>4 DEF Entered, EntryOf
<1>6. \A a \in Journaled : a \in Journaled'
  <2>1. \A r \in Runs : JournaledBy(r) \subseteq JournaledBy(r)'
    <3> SUFFICES ASSUME NEW r \in Runs, NEW j \in Items, EntryOf(r, j) # 0
                 PROVE  EntryOf(r, j) \in JournaledBy(r)'
      BY DEF JournaledBy, EntryOf
    <3>1. EntryOf(r, j)' = EntryOf(r, j)
      BY <1>5, EntryIs
    <3>. QED BY <3>1 DEF JournaledBy, EntryOf
  <2>. QED BY <2>1 DEF Journaled
<1>7. e.id \in Journaled'
  BY <1>4, <1>5 DEF Journaled, JournaledBy, EntryOf
<1>8. \A r \in Runs \ {begun} : JournaledBy(r)' = JournaledBy(r)
  <2> SUFFICES ASSUME NEW r \in Runs \ {begun}
               PROVE  JournaledBy(r)' = JournaledBy(r)
    OBVIOUS
  <2>1. \A j \in Items : journal'[r][j] = journal[r][j]
    BY <1>3
  <2>. QED BY <2>1 DEF JournaledBy
<1>9. Numbered'
  <2>1. \A r \in Runs, j \in Items : EntryOf(r, j)' <= last'
    BY <1>5 DEF Numbered
  <2>. QED BY <1>1, <2>1 DEF Numbered
<1>10. SlugsUnique'
  BY <1>1 DEF SlugsUnique
<1>11. JournalsFit'
  <2> SUFFICES ASSUME NEW r \in Runs, NEW j \in Items, EntryOf(r, j)' \in Stored
               PROVE  LET a == EntryOf(r, j)' IN
                      /\ art[a].item = j /\ art[a].by = r
                      /\ journal'[r][j].ver <= art[a].ver
                      /\ a \in touched => journal'[r][j].ver < art[a].ver
    BY <1>1 DEF JournalsFit
  <2>1. CASE r = begun /\ j = i
    BY <1>3, <1>5, <2>1
  <2>2. CASE r # begun \/ j # i
    BY <1>3, <1>5, <2>2 DEF JournalsFit
  <2>. QED BY <2>1, <2>2
<1>12. OrphansAreFound'
  <2> SUFFICES ASSUME NEW a \in Stored, a \notin Journaled'
               PROVE  /\ art[a].by = begun
                      /\ Renamed(a) \/ (art[a].slug = plan[begun][art[a].item]
                                        /\ ~Entered(begun, art[a].item)')
    BY <1>1 DEF OrphansAreFound, Renamed
  <2>1. a \notin Journaled /\ a # e.id
    BY <1>6, <1>7
  <2>2. /\ art[a].by = begun
        /\ Renamed(a) \/ (art[a].slug = plan[begun][art[a].item] /\ ~Entered(begun, art[a].item))
    BY <2>1 DEF OrphansAreFound
  <2>3. art[a].item = i => art[a].slug # plan[begun][i]
    BY <2>1 DEF BySlug
  <2>4. art[a].item \in Items
    BY RowIs DEF Row
  <2>. QED BY <1>5, <2>2, <2>3, <2>4
<1>13. Covered(i)'
  <2>1. \A a \in Stored' : art'[a].item = i => a \in Journaled' \/ Renamed(a)'
    BY <1>5, <1>12 DEF OrphansAreFound
  <2>. QED BY <1>5, <2>1 DEF Covered
<1>14. \A j \in Items : Covered(j) => Covered(j)'
  BY <1>1, <1>5, <1>6 DEF Covered, Renamed
<1>15. UNION {JournaledBy(q)' : q \in Runs \ {begun}} = UNION {JournaledBy(q) : q \in Runs \ {begun}}
  BY <1>8
<1>. QED BY <1>2, <1>9, <1>10, <1>11, <1>12, <1>13, <1>14, <1>15

(* A row is inserted for an item of the newest run whose slug is free.     *)
LEMMA Inserts ==
  ASSUME TypeOK, Numbered, SlugsUnique, JournalsFit, OrphansAreFound, begun \in Runs, imp \in Import,
         imp.run = begun, NEW i \in Items, Insert(i), ~Entered(begun, i),
         BySlug(plan[begun][i]) = {},
         UNCHANGED <<begun, plan, journal, edits, touched>>
  PROVE  /\ Numbered' /\ SlugsUnique' /\ JournalsFit' /\ OrphansAreFound'
         /\ art' \in [Ids -> {NoRow} \cup Row] /\ last' \in Nat
         /\ last' \in 1..last' /\ last' \in Stored' /\ last' \in Ids /\ BySlug(plan[begun][i])' = {last'}
         /\ last' \notin touched /\ art'[last'].by = begun /\ art'[last'].item = i
         /\ \A j \in Items \ {i} : Covered(j) => Covered(j)'
<1> DEFINE row == [item |-> i, slug |-> plan[imp.run][i], ver |-> 1, by |-> imp.run,
                   hero |-> imp.hero, shown |-> imp.hero, tagged |-> i \in WithTag]
           new == last + 1
<1>1. last \in Nat /\ MaxIds \in Nat /\ last < MaxIds /\ last' = new /\ art' = [art EXCEPT ![new] = row]
  BY SizesAssumption DEF TypeOK, Insert
<1>2. new \in Ids /\ new \in Nat /\ last < new /\ new \in 1..new /\ new <= MaxIds
  BY <1>1 DEF Ids
<1>3. row \in Row
  BY PlanIs DEF Row, Import
<1>4. row.item = i /\ row.slug = plan[begun][i] /\ row.ver = 1 /\ row.by = begun /\ row # NoRow
  <2>1. row.ver = 1 /\ row.item = i /\ row.slug = plan[begun][i] /\ row.by = begun
    OBVIOUS
  <2>2. i # 0
    BY SizesAssumption DEF Items
  <2>. QED BY <2>1, <2>2 DEF NoRow
<1> HIDE DEF row, new
<1>5. art' \in [Ids -> {NoRow} \cup Row]
  BY <1>1, <1>3 DEF TypeOK
<1>6. \A a \in Ids : art'[a] = IF a = new THEN row ELSE art[a]
  BY <1>1 DEF TypeOK
<1>7. \A a \in Stored : a \in Ids /\ a # new /\ a <= last /\ art[a] \in Row
  <2>1. \A a \in Stored : a \in Ids /\ a <= last /\ art[a] \in Row
    BY RowIs DEF Numbered
  <2>. QED BY <1>1, <1>2, <2>1 DEF Ids
<1>8. Stored' = Stored \cup {new} /\ art'[new] = row /\ \A a \in Stored : art'[a] = art[a]
  BY <1>2, <1>4, <1>6, <1>7 DEF Stored
<1>9. BySlug(plan[begun][i])' = {new}
  <2>1. \A a \in Stored : art[a].slug # plan[begun][i]
    BY DEF BySlug
  <2>. QED BY <1>4, <1>8, <2>1 DEF BySlug
<1>10. new \notin touched
  BY <1>1, <1>2 DEF Numbered
<1>11. \A r \in Runs, j \in Items : EntryOf(r, j)' = EntryOf(r, j) /\ Entered(r, j)' = Entered(r, j)
                                    /\ EntryOf(r, j) # new
  <2>1. \A r \in Runs, j \in Items : EntryOf(r, j) <= last
    BY DEF Numbered
  <2>2. \A r \in Runs, j \in Items : EntryOf(r, j) \in Nat
    BY EntryIs
  <2>3. \A r \in Runs, j \in Items : EntryOf(r, j) # new
    BY <1>1, <1>2, <2>1, <2>2
  <2>. QED BY <2>3 DEF EntryOf, Entered
<1>12. Journaled' = Journaled
  BY DEF Journaled, JournaledBy
<1>13. Numbered'
  <2>1. plan[begun][i].item = i /\ plan[begun][i].name <= edits
    BY DEF Numbered
  <2>2. begun <= begun
    BY DEF TypeOK
  <2>3. \A a \in Stored' : /\ a <= last' /\ art'[a].by <= begun' /\ art'[a].ver >= 1
                           /\ art'[a].slug.item = art'[a].item /\ art'[a].slug.name <= edits'
                           /\ a \in touched' => art'[a].ver > 1
    <3> SUFFICES ASSUME NEW a \in Stored'
                 PROVE  /\ a <= new /\ art'[a].by <= begun /\ art'[a].ver >= 1
                        /\ art'[a].slug.item = art'[a].item /\ art'[a].slug.name <= edits
                        /\ a \in touched => art'[a].ver > 1
      BY <1>1
    <3>1. CASE a = new
      BY <1>2, <1>4, <1>8, <1>10, <2>1, <2>2, <3>1
    <3>2. CASE a \in Stored
      <4>1. a <= new
        BY <1>1, <1>2, <1>7, <3>2 DEF Ids
      <4>. QED BY <1>8, <3>2, <4>1 DEF Numbered
    <3>. QED BY <1>8, <3>1, <3>2
  <2>4. \A a \in touched' : a <= last'
    BY <1>1, <1>2 DEF Numbered, TypeOK, Ids
  <2>5. \A r \in Runs, j \in Items : EntryOf(r, j)' <= last'
    BY <1>1, <1>2, <1>11, EntryIs DEF Numbered
  <2>6. \A r \in Runs, j \in Items : plan'[r][j].item = j /\ plan'[r][j].name <= edits'
    BY DEF Numbered
  <2>7. begun' <= NRuns /\ last' <= MaxIds
    BY <1>1, <1>2 DEF Numbered
  <2>. QED BY <2>3, <2>4, <2>5, <2>6, <2>7 DEF Numbered
<1>14. SlugsUnique'
  <2>1. \A a \in Stored : art[a].slug # plan[begun][i]
    BY DEF BySlug
  <2>. QED BY <1>4, <1>8, <2>1 DEF SlugsUnique
<1>15. JournalsFit'
  <2> SUFFICES ASSUME NEW r \in Runs, NEW j \in Items, EntryOf(r, j) \in Stored'
               PROVE  LET a == EntryOf(r, j) IN
                      /\ art'[a].item = j /\ art'[a].by = r
                      /\ journal[r][j].ver <= art'[a].ver
                      /\ a \in touched => journal[r][j].ver < art'[a].ver
    BY <1>11 DEF JournalsFit
  <2>1. EntryOf(r, j) \in Stored
    BY <1>8, <1>11
  <2>. QED BY <1>8, <2>1 DEF JournalsFit
<1>16. OrphansAreFound'
  <2> SUFFICES ASSUME NEW a \in Stored', a \notin Journaled
               PROVE  /\ art'[a].by = begun
                      /\ Renamed(a)' \/ (art'[a].slug = plan[begun][art'[a].item]
                                         /\ ~Entered(begun, art'[a].item))
    BY <1>12 DEF OrphansAreFound, Entered
  <2>1. CASE a = new
    BY <1>4, <1>8, <2>1
  <2>2. CASE a \in Stored
    BY <1>8, <2>2 DEF OrphansAreFound, Renamed
  <2>. QED BY <1>8, <2>1, <2>2
<1>17. \A j \in Items \ {i} : Covered(j) => Covered(j)'
  <2>1. art'[new].item = i
    BY <1>4, <1>8
  <2>. QED BY <1>8, <1>11, <1>12, <2>1 DEF Covered, Renamed
<1>18. art'[new].by = begun /\ art'[new].item = i
  BY <1>4, <1>8
<1>. QED BY <1>1, <1>2, <1>5, <1>8, <1>9, <1>10, <1>13, <1>14, <1>15, <1>16, <1>17, <1>18

-----------------------------------------------------------------------------
(* While an import is at work there is no rollback, and its image stays    *)
(* known as long as it goes on.                                            *)
LEMMA NoneRolls ==
  ASSUME TypeOK, Rolling, imp.on, roll' = roll
  PROVE  Rolling'
<1>1. ~roll.on
  BY DEF Rolling
<1>2. roll = NoRollback
  BY <1>1 DEF TypeOK, Rollback
<1>. QED BY <1>2 DEF Rolling, NoRollback

LEMMA ImageGoesOn ==
  ASSUME ImageKnown, UNCHANGED <<media, mediaJ, begun>>,
         imp.on, imp'.on, imp'.run = imp.run, imp'.made = imp.made, imp.pc # "heroJournal",
         imp'.pc \notin {"upload", "heroJournal"}
  PROVE  ImageKnown'
BY DEF ImageKnown, LinedAs, Lines

LEMMA ImageLeft ==
  ASSUME ImageKnown, UNCHANGED <<media, mediaJ, begun>>, ~imp'.on
  PROVE  ImageKnown'
BY DEF ImageKnown, LinedAs, Lines

(* The steps before the create leave rows and journals alone.              *)
BeforeCreate == {"hero", "upload", "heroJournal", "tag", "create"}
LEMMA Prepares ==
  ASSUME TypeOK, RowsInv, imp.on, imp.pc \in BeforeCreate, imp'.pc \in BeforeCreate,
         UNCHANGED <<art, last, begun, plan, journal, edits, touched>>,
         imp'.run = imp.run, imp'.item = imp.item, imp'.foreign = imp.foreign,
         imp'.fails = imp.fails, imp'.bad = imp.bad
  PROVE  RowsInv'
<1>3. Numbered' /\ SlugsUnique' /\ JournalsFit' /\ OrphansAreFound'
  BY SameRows
<1>4. Working'
  <2>1. /\ Working /\ imp.run \in Runs
        /\ imp'.pc \notin {"consider", "finish", "retry", "readback"}
        /\ imp.pc \notin {"consider", "finish", "retry", "readback"}
    BY ImportIs DEF RowsInv, BeforeCreate
  <2>2. imp.item \in Items /\ ~Entered(imp.run, imp.item) /\ BySlug(plan[imp.run][imp.item]) = {}
    BY <2>1 DEF Working, BeforeCreate
  <2>3. BySlug(plan[imp.run][imp.item])' = {} /\ ~Entered(imp.run, imp.item)'
    BY <2>2 DEF BySlug, Stored, Entered
  <2>4. \A j \in Items : Covered(j) => Covered(j)'
    BY SameRows
  <2>5. imp'.foreign = UNION {JournaledBy(q)' : q \in Runs \ {imp'.run}}
    BY <2>1 DEF Working, JournaledBy
  <2>6. ~imp'.bad => \A j \in Items : j < imp'.item => Covered(j)'
    BY <2>1, <2>4 DEF Working
  <2>7. imp'.run = begun' /\ (imp'.fails > 0 => imp'.bad)
    BY <2>1 DEF Working
  <2>. QED BY <2>1, <2>2, <2>3, <2>5, <2>6, <2>7 DEF Working
<1>. QED BY <1>3, <1>4 DEF RowsInv

(* What an import that has not reached its end is at.                      *)
LEMMA AtWork ==
  ASSUME GtpInv, imp.on, imp.pc # "finish"
  PROVE  /\ TypeOK /\ RowsInv /\ ImageKnown /\ Rolling /\ Working
         /\ Numbered /\ SlugsUnique /\ JournalsFit /\ OrphansAreFound
         /\ imp \in Import /\ imp.run = begun /\ begun \in Runs /\ imp.item \in Items
<1>1. TypeOK /\ RowsInv /\ ImageKnown /\ Rolling
  BY DEF GtpInv
<1>2. Working /\ Numbered /\ SlugsUnique /\ JournalsFit /\ OrphansAreFound
  BY <1>1 DEF RowsInv
<1>3. imp \in Import /\ imp.run \in Runs
  BY <1>1, ImportIs
<1>. QED BY <1>1, <1>2, <1>3 DEF Working

(* The type of what such a step leaves.                                    *)
LEMMA HeroShapes ==
  ASSUME TypeOK, UNCHANGED <<art, last, begun, plan, journal, tagsMade, roll, counters, touched>>,
         media' \in [uploads: Nat, doc: {NoDoc} \cup Doc], tag' \in {0} \cup Runs,
         mediaJ' \in [Runs -> [Items -> [origin: Origins, n: Nat]]],
         imp' \in {NoImport} \cup Import
  PROVE  TypeOK'
BY DEF TypeOK, counters

(* A line of the journal of images is set, and no other.                   *)
Line == [origin: Origins, n: Nat]
Sets(r, i, line) == mediaJ' = [mediaJ EXCEPT ![r][i] = line]
OneLineSet(r, i, line) ==
  /\ mediaJ' \in [Runs -> [Items -> [origin: Origins, n: Nat]]]
  /\ \A q \in Runs, j \in Items :
       mediaJ'[q][j] = IF q = r /\ j = i THEN line ELSE mediaJ[q][j]

LEMMA LineChanges ==
  ASSUME TypeOK, NEW r \in Runs, NEW i \in Items, NEW line \in Line, Sets(r, i, line)
  PROVE  OneLineSet(r, i, line)
BY DEF TypeOK, Line, Sets, OneLineSet

LEMMA DocIs ==
  ASSUME TypeOK
  PROVE  /\ media.doc.n \in Nat /\ media.uploads \in Nat
         /\ media.doc # NoDoc => media.doc.by \in Runs
<1>1. media.doc \in {NoDoc} \cup Doc /\ media.uploads \in Nat
  BY DEF TypeOK
<1>. QED BY <1>1 DEF NoDoc, Doc

LEMMA EnsureHeroKeeps ==
  ASSUME GtpInv, EnsureHero
  PROVE  GtpInv'
<1> DEFINE r == imp.run
           i == imp.item
<1>1. imp.on /\ imp.pc = "hero"
  BY DEF EnsureHero, At
<1>2. /\ TypeOK /\ RowsInv /\ ImageKnown /\ Rolling
      /\ imp \in Import /\ r = begun /\ r \in Runs /\ i \in Items
  BY <1>1, AtWork
<1>3. /\ UNCHANGED <<art, last, media, tag, begun, plan, journal, tagsMade, roll, counters, touched>>
      /\ UNCHANGED edits
  BY DEF EnsureHero, central, counters
<1>4. Rolling'
  BY <1>1, <1>2, <1>3, NoneRolls
<1>5. media' \in [uploads: Nat, doc: {NoDoc} \cup Doc] /\ tag' \in {0} \cup Runs
  BY <1>2, <1>3 DEF TypeOK
<1>6. media.doc.n \in Nat /\ (media.doc # NoDoc => media.doc.by \in Runs)
  BY <1>2, DocIs
<1>7. ASSUME NEW hero \in Nat, NEW cached \in BOOLEAN, NEW pc \in {"tag", "upload"},
             imp' = [imp EXCEPT !.pc = pc, !.hero = hero, !.cached = cached]
      PROVE  /\ imp' \in Import /\ RowsInv'
             /\ imp'.on /\ imp'.run = r /\ imp'.item = i /\ imp'.made = imp.made /\ imp'.pc = pc
  <2>1. imp' \in Import
    BY <1>2, <1>7 DEF Import
  <2>2. /\ imp'.on /\ imp'.run = r /\ imp'.item = i /\ imp'.made = imp.made /\ imp'.pc = pc
        /\ imp'.foreign = imp.foreign /\ imp'.fails = imp.fails /\ imp'.bad = imp.bad
    BY <1>1, <1>2, <1>7 DEF Import
  <2>3. RowsInv'
    BY <1>1, <1>2, <1>3, <2>2, Prepares DEF BeforeCreate
  <2>. QED BY <2>1, <2>2, <2>3
<1>8. imp.hero \in Nat /\ imp.cached \in BOOLEAN /\ imp.made \in BOOLEAN
  BY <1>2 DEF Import
<1>9. ASSUME UNCHANGED mediaJ,
             \E hero \in Nat, cached \in BOOLEAN :
               imp' = [imp EXCEPT !.pc = "tag", !.hero = hero, !.cached = cached]
      PROVE  GtpInv'
  <2>1. /\ imp' \in Import /\ RowsInv'
        /\ imp'.on /\ imp'.run = r /\ imp'.made = imp.made /\ imp'.pc = "tag"
    BY <1>7, <1>9
  <2>2. mediaJ' \in [Runs -> [Items -> [origin: Origins, n: Nat]]]
    BY <1>2, <1>9 DEF TypeOK
  <2>3. TypeOK'
    BY <1>2, <1>3, <1>5, <2>1, <2>2, HeroShapes
  <2>4. ImageKnown'
    BY <1>1, <1>2, <1>3, <1>9, <2>1, ImageGoesOn
  <2>. QED BY <1>4, <2>1, <2>3, <2>4 DEF GtpInv
<1>10. CASE i \notin WithHero /\ imp' = [imp EXCEPT !.pc = "tag"] /\ UNCHANGED mediaJ
  <2>1. imp' = [imp EXCEPT !.pc = "tag", !.hero = imp.hero, !.cached = imp.cached]
    BY <1>2, <1>10 DEF Import
  <2>. QED BY <1>8, <1>9, <1>10, <2>1
<1>11. CASE /\ imp.cached \/ media.doc # NoDoc
            /\ imp' = [imp EXCEPT !.pc = "tag", !.hero = media.doc.n, !.cached = TRUE]
            /\ mediaJ' = IF imp.cached THEN mediaJ
                         ELSE [mediaJ EXCEPT ![r][i] =
                                 [origin |-> IF imp.made THEN "created" ELSE "adopted",
                                  n |-> media.doc.n]]
  <2>1. CASE imp.cached
    BY <1>6, <1>9, <1>11, <2>1
  <2>2. CASE ~imp.cached
    <3> DEFINE line == [origin |-> IF imp.made THEN "created" ELSE "adopted", n |-> media.doc.n]
    <3>1. line \in [origin: Origins, n: Nat] /\ mediaJ' = [mediaJ EXCEPT ![r][i] = line]
      BY <1>6, <1>11, <2>2 DEF Origins
    <3>2. imp.made => line = [origin |-> "created", n |-> media.doc.n]
      OBVIOUS
    <3> HIDE DEF line
    <3>3. /\ mediaJ' \in [Runs -> [Items -> [origin: Origins, n: Nat]]]
          /\ \A q \in Runs, j \in Items :
               mediaJ'[q][j] = IF q = r /\ j = i THEN line ELSE mediaJ[q][j]
      <4>1. TypeOK /\ r \in Runs /\ i \in Items
        BY <1>2
      <4>2. line \in Line /\ Sets(r, i, line)
        BY <3>1 DEF Line, Sets
      <4>3. OneLineSet(r, i, line)
        BY <4>1, <4>2, LineChanges
      <4>. QED BY <4>3 DEF OneLineSet
    <3>4. /\ imp' \in Import /\ RowsInv'
          /\ imp'.on /\ imp'.run = r /\ imp'.made = imp.made /\ imp'.pc = "tag"
      BY <1>6, <1>7, <1>11
    <3>5. TypeOK'
      BY <1>2, <1>3, <1>5, <3>3, <3>4, HeroShapes
    <3>6. media.doc # NoDoc
      BY <1>11, <2>2
    <3>7. CASE media.doc.by = r
      <4>1. imp.made /\ media.doc.n > 0 /\ media.doc.by <= begun
        BY <1>1, <1>2, <3>6, <3>7 DEF ImageKnown
      <4>2. LinedAs(media.doc.by, media.doc.n)'
        BY <1>2, <1>3, <3>2, <3>3, <3>7, <4>1 DEF LinedAs
      <4>. QED BY <1>3, <3>4, <3>5, <3>7, <1>4, <4>1, <4>2 DEF GtpInv, ImageKnown
    <3>8. CASE media.doc.by # r
      <4>1. /\ media.doc.n > 0 /\ media.doc.by <= begun /\ media.doc.by \in Runs
            /\ LinedAs(media.doc.by, media.doc.n) \/ Lines(media.doc.by, "created-pending")
        BY <1>2, <1>6, <3>6, <3>8 DEF ImageKnown
      <4>2. LinedAs(media.doc.by, media.doc.n)' \/ Lines(media.doc.by, "created-pending")'
        BY <1>2, <1>3, <3>3, <3>8, <4>1 DEF LinedAs, Lines
      <4>. QED BY <1>3, <3>4, <3>5, <3>8, <1>4, <4>1, <4>2 DEF GtpInv, ImageKnown
    <3>. QED BY <3>7, <3>8
  <2>. QED BY <2>1, <2>2
<1>12. CASE imp' = [imp EXCEPT !.pc = "tag", !.cached = TRUE] /\ UNCHANGED mediaJ
  <2>1. imp' = [imp EXCEPT !.pc = "tag", !.hero = imp.hero, !.cached = TRUE]
    BY <1>2, <1>12 DEF Import
  <2>. QED BY <1>8, <1>9, <1>12, <2>1
<1>13. CASE /\ media.doc = NoDoc
            /\ mediaJ' = [mediaJ EXCEPT ![r][i] = Pending(@)]
            /\ imp' = [imp EXCEPT !.pc = "upload"]
  <2> DEFINE line == Pending(mediaJ[r][i])
  <2>1. line \in [origin: Origins, n: Nat] /\ line.origin = "created-pending"
    <3>1. mediaJ[r][i] \in [origin: Origins, n: Nat]
      BY <1>2 DEF TypeOK
    <3>. QED BY <3>1 DEF Pending, Origins
  <2>2. mediaJ' = [mediaJ EXCEPT ![r][i] = line]
    BY <1>2, <1>13 DEF TypeOK
  <2> HIDE DEF line
  <2>3. /\ mediaJ' \in [Runs -> [Items -> [origin: Origins, n: Nat]]]
        /\ \A q \in Runs, j \in Items :
             mediaJ'[q][j] = IF q = r /\ j = i THEN line ELSE mediaJ[q][j]
    <3>1. TypeOK /\ r \in Runs /\ i \in Items
      BY <1>2
    <3>2. line \in Line /\ Sets(r, i, line)
      BY <2>1, <2>2 DEF Line, Sets
    <3>3. OneLineSet(r, i, line)
      BY <3>1, <3>2, LineChanges
    <3>. QED BY <3>3 DEF OneLineSet
  <2>4. imp' = [imp EXCEPT !.pc = "upload", !.hero = imp.hero, !.cached = imp.cached]
    BY <1>2, <1>13 DEF Import
  <2>5. /\ imp' \in Import /\ RowsInv'
        /\ imp'.on /\ imp'.run = r /\ imp'.item = i /\ imp'.pc = "upload"
    BY <1>7, <1>8, <2>4
  <2>6. TypeOK'
    BY <1>2, <1>3, <1>5, <2>3, <2>5, HeroShapes
  <2>7. ImageKnown'
    BY <1>2, <1>3, <1>13, <2>1, <2>3, <2>5 DEF ImageKnown
  <2>. QED BY <1>4, <2>5, <2>6, <2>7 DEF GtpInv
<1>. QED BY <1>10, <1>11, <1>12, <1>13 DEF EnsureHero

LEMMA UploadKeeps ==
  ASSUME GtpInv, Upload
  PROVE  GtpInv'
<1> DEFINE r == imp.run
           i == imp.item
           n == media.uploads + 1
<1>1. imp.on /\ imp.pc = "upload"
  BY DEF Upload, At
<1>2. /\ TypeOK /\ RowsInv /\ ImageKnown /\ Rolling
      /\ imp \in Import /\ r = begun /\ r \in Runs /\ i \in Items
  BY <1>1, AtWork
<1>3. /\ UNCHANGED <<art, last, tag, begun, plan, journal, mediaJ, tagsMade, roll, counters, touched>>
      /\ UNCHANGED edits
      /\ media' = [uploads |-> n, doc |-> [n |-> n, by |-> r]]
      /\ imp' = [imp EXCEPT !.pc = "heroJournal", !.hero = n]
  BY DEF Upload, disk, counters
<1>4. Rolling'
  BY <1>1, <1>2, <1>3, NoneRolls
<1>5. n \in Nat /\ n > 0
  BY <1>2, DocIs
<1> HIDE DEF n
<1>6. imp' \in Import
  BY <1>2, <1>3, <1>5 DEF Import
<1>7. /\ imp'.on /\ imp'.run = r /\ imp'.item = i /\ imp'.pc = "heroJournal" /\ imp'.hero = n
      /\ imp'.foreign = imp.foreign /\ imp'.fails = imp.fails /\ imp'.bad = imp.bad
  BY <1>1, <1>2, <1>3 DEF Import
<1>8. RowsInv'
  BY <1>1, <1>2, <1>3, <1>7, Prepares DEF BeforeCreate
<1>9. TypeOK'
  <2>1. media' \in [uploads: Nat, doc: {NoDoc} \cup Doc] /\ tag' \in {0} \cup Runs
        /\ mediaJ' \in [Runs -> [Items -> [origin: Origins, n: Nat]]]
    BY <1>2, <1>3, <1>5 DEF TypeOK, Doc
  <2>. QED BY <1>2, <1>3, <1>6, <2>1, HeroShapes
<1>10. ImageKnown'
  <2>1. mediaJ'[r][i].origin = "created-pending"
    BY <1>1, <1>2, <1>3 DEF ImageKnown
  <2>2. media'.doc.n = n /\ media'.doc.by = r /\ media'.doc # NoDoc
    BY <1>3 DEF NoDoc
  <2>3. r <= begun'
    BY <1>2, <1>3 DEF TypeOK
  <2>4. Lines(r, "created-pending")'
    BY <1>2, <1>7, <2>1 DEF Lines
  <2>. QED BY <1>5, <1>7, <2>1, <2>2, <2>3, <2>4 DEF ImageKnown
<1>. QED BY <1>4, <1>8, <1>9, <1>10 DEF GtpInv

LEMMA JournalHeroKeeps ==
  ASSUME GtpInv, JournalHero
  PROVE  GtpInv'
<1> DEFINE r == imp.run
           i == imp.item
           line == [origin |-> "created", n |-> imp.hero]
<1>1. imp.on /\ imp.pc = "heroJournal"
  BY DEF JournalHero, At
<1>2. /\ TypeOK /\ RowsInv /\ ImageKnown /\ Rolling
      /\ imp \in Import /\ r = begun /\ r \in Runs /\ i \in Items /\ imp.hero \in Nat
  BY <1>1, AtWork DEF Import
<1>3. /\ UNCHANGED <<art, last, media, tag, begun, plan, journal, tagsMade, roll, counters, touched>>
      /\ UNCHANGED edits
      /\ mediaJ' = [mediaJ EXCEPT ![r][i] = line]
      /\ imp' = [imp EXCEPT !.pc = "tag", !.made = TRUE, !.cached = TRUE]
  BY DEF JournalHero, central, counters
<1>4. Rolling'
  BY <1>1, <1>2, <1>3, NoneRolls
<1>5. imp' \in Import
  BY <1>2, <1>3 DEF Import
<1>6. /\ imp'.on /\ imp'.run = r /\ imp'.item = i /\ imp'.pc = "tag" /\ imp'.made
      /\ imp'.foreign = imp.foreign /\ imp'.fails = imp.fails /\ imp'.bad = imp.bad
  BY <1>1, <1>2, <1>3 DEF Import
<1>7. RowsInv'
  BY <1>1, <1>2, <1>3, <1>6, Prepares DEF BeforeCreate
<1>8. /\ mediaJ' \in [Runs -> [Items -> [origin: Origins, n: Nat]]]
      /\ mediaJ'[r][i] = line
  <2>1. line \in [origin: Origins, n: Nat]
    BY <1>2 DEF Origins
  <2> HIDE DEF line
  <2>2. TypeOK /\ r \in Runs /\ i \in Items
    BY <1>2
  <2>3. line \in Line /\ Sets(r, i, line)
    BY <1>3, <2>1 DEF Line, Sets
  <2>4. OneLineSet(r, i, line)
    BY <2>2, <2>3, LineChanges
  <2>. QED BY <2>2, <2>4 DEF OneLineSet
<1>9. TypeOK'
  <2>1. media' \in [uploads: Nat, doc: {NoDoc} \cup Doc] /\ tag' \in {0} \cup Runs
    BY <1>2, <1>3 DEF TypeOK
  <2>. QED BY <1>2, <1>3, <1>5, <1>8, <2>1, HeroShapes
<1>10. ImageKnown'
  <2>1. media.doc # NoDoc /\ media.doc.by = r /\ media.doc.n = imp.hero
        /\ media.doc.n > 0 /\ media.doc.by <= begun
    BY <1>1, <1>2 DEF ImageKnown
  <2>2. LinedAs(media.doc.by, media.doc.n)'
    BY <1>2, <1>3, <1>8, <2>1 DEF LinedAs
  <2>. QED BY <1>3, <1>6, <2>1, <2>2 DEF ImageKnown
<1>. QED BY <1>4, <1>7, <1>9, <1>10 DEF GtpInv

LEMMA EnsureTagKeeps ==
  ASSUME GtpInv, EnsureTag
  PROVE  GtpInv'
<1>1. imp.on /\ imp.pc = "tag"
  BY DEF EnsureTag, At
<1>2. /\ TypeOK /\ RowsInv /\ ImageKnown /\ Rolling /\ imp \in Import /\ imp.run \in Runs
  BY <1>1, AtWork
<1>3. /\ UNCHANGED <<art, last, media, begun, plan, journal, mediaJ, tagsMade, roll, counters, touched>>
      /\ UNCHANGED edits
      /\ tag' \in {tag, imp.run}
      /\ \/ imp' = [imp EXCEPT !.pc = "create", !.tagKnown = TRUE, !.tagMade = TRUE]
         \/ imp' = [imp EXCEPT !.pc = "create"]
  BY DEF EnsureTag, disk, counters
<1>4. imp' \in Import
  <2>1. CASE imp' = [imp EXCEPT !.pc = "create", !.tagKnown = TRUE, !.tagMade = TRUE]
    BY <1>2, <2>1 DEF Import
  <2>2. CASE imp' = [imp EXCEPT !.pc = "create"]
    BY <1>2, <2>2 DEF Import
  <2>. QED BY <1>3, <2>1, <2>2
<1>5. /\ imp'.on /\ imp'.run = imp.run /\ imp'.item = imp.item /\ imp'.pc = "create"
      /\ imp'.made = imp.made /\ imp'.foreign = imp.foreign /\ imp'.fails = imp.fails
      /\ imp'.bad = imp.bad
  BY <1>1, <1>2, <1>3 DEF Import
<1>6. RowsInv'
  BY <1>1, <1>2, <1>3, <1>5, Prepares DEF BeforeCreate
<1>7. TypeOK'
  <2>1. media' \in [uploads: Nat, doc: {NoDoc} \cup Doc] /\ tag' \in {0} \cup Runs
        /\ mediaJ' \in [Runs -> [Items -> [origin: Origins, n: Nat]]]
    BY <1>2, <1>3 DEF TypeOK
  <2>. QED BY <1>2, <1>3, <1>4, <2>1, HeroShapes
<1>8. ImageKnown'
  BY <1>1, <1>2, <1>3, <1>5, ImageGoesOn
<1>9. Rolling'
  BY <1>1, <1>2, <1>3, NoneRolls
<1>. QED BY <1>6, <1>7, <1>8, <1>9 DEF GtpInv

-----------------------------------------------------------------------------
(* From the create to the journal. *)

LEMMA ItemShapes ==
  ASSUME TypeOK, UNCHANGED <<media, tag, begun, plan, mediaJ, roll, crashes, edits, touched>>,
         art' \in [Ids -> {NoRow} \cup Row], last' \in Nat, lost' \in Nat,
         journal' \in [Runs -> [Items -> {NoEntry} \cup Entry]],
         tagsMade' \in [Runs -> BOOLEAN], imp' \in {NoImport} \cup Import
  PROVE  TypeOK'
BY DEF TypeOK

(* An item with an article that is in a journal is covered.                *)
LEMMA FoundIsCovered ==
  ASSUME GtpInv, imp.on, imp.pc # "finish", NEW a \in BySlug(plan[imp.run][imp.item]),
         a \in imp.foreign
  PROVE  Covered(imp.item)
<1> DEFINE r == imp.run
           i == imp.item
<1>1. /\ TypeOK /\ Working /\ Numbered /\ SlugsUnique /\ JournalsFit /\ OrphansAreFound
      /\ r = begun /\ r \in Runs /\ i \in Items
  BY AtWork
<1>2. a \in Stored /\ art[a].slug = plan[r][i] /\ a \in Ids /\ a # 0
  BY <1>1, RowIs, SizesAssumption DEF BySlug, Ids
<1>3. art[a].item = i
  BY <1>1, <1>2 DEF Numbered
<1>4. PICK q \in Runs, j \in Items : a = EntryOf(q, j)
  BY <1>1 DEF Working, JournaledBy, EntryOf
<1>5. j = i
  BY <1>1, <1>2, <1>3, <1>4 DEF JournalsFit
<1>6. Entered(q, i)
  BY <1>1, <1>2, <1>4, <1>5, EntryIs
<1>7. a \in Journaled
  BY <1>1, <1>2, <1>4, JournaledIs
<1>8. ASSUME NEW c \in Stored, art[c].item = i, c \notin Journaled
      PROVE  Renamed(c)
  <2>1. Renamed(c) \/ art[c].slug = plan[r][i]
    BY <1>1, <1>8 DEF OrphansAreFound
  <2>2. c # a
    BY <1>7, <1>8
  <2>. QED BY <1>1, <1>2, <2>1, <2>2 DEF SlugsUnique
<1>. QED BY <1>6, <1>8 DEF Covered

LEMMA ItemsOrdered ==
  \A i, j \in Items : (j < i => j # i) /\ (j <= i => j < i \/ j = i)
BY DEF Items

LEMMA BelowIsNat == \A n \in Nat : \A b \in 1..n : b \in Nat
OBVIOUS

LEMMA ConsiderKeeps ==
  ASSUME GtpInv, Consider
  PROVE  GtpInv'
<1>1. imp.on /\ imp.pc = "consider"
  BY DEF Consider, At
<1>0. PICK r \in Runs, i \in Items : r = imp.run /\ i = imp.item
  BY <1>1, AtWork
<1>2. /\ TypeOK /\ RowsInv /\ ImageKnown /\ Rolling /\ Working
      /\ Numbered /\ SlugsUnique /\ JournalsFit /\ OrphansAreFound
      /\ imp \in Import /\ r = begun /\ r = imp.run /\ i = imp.item
  BY <1>0, <1>1, AtWork
<1>3. /\ UNCHANGED <<art, last, media, tag, begun, plan, mediaJ, roll, crashes, lost, edits, touched>>
      /\ lost' \in Nat /\ art' \in [Ids -> {NoRow} \cup Row] /\ last' \in Nat
  BY <1>2 DEF Consider, central, counters, TypeOK
<1>4. Rolling'
  BY <1>1, <1>2, <1>3, NoneRolls
<1>5. ASSUME NEW p \in Import, Advance(p), p.item = i, p.run = r, p.made = imp.made,
             journal' \in [Runs -> [Items -> {NoEntry} \cup Entry]], RowsInv'
      PROVE  GtpInv'
  <2>1. /\ imp' \in Import /\ tagsMade' \in [Runs -> BOOLEAN]
        /\ imp'.on /\ imp'.run = r /\ imp'.made = imp.made /\ imp'.pc \in {"consider", "finish"}
    BY <1>2, <1>5, AdvanceIs
  <2>2. TypeOK'
    BY <1>2, <1>3, <1>5, <2>1, ItemShapes
  <2>3. ImageKnown'
    BY <1>1, <1>2, <1>3, <2>1, ImageGoesOn
  <2>. QED BY <1>4, <1>5, <2>2, <2>3 DEF GtpInv
<1>6. ASSUME NEW p \in Import, Advance(p), UNCHANGED journal,
             p.item = i, p.run = r, p.made = imp.made, p.foreign = imp.foreign,
             p.fails = imp.fails, imp.bad => p.bad, ~p.bad => Covered(i)
      PROVE  GtpInv'
  <2>1. /\ Numbered' /\ SlugsUnique' /\ JournalsFit' /\ OrphansAreFound'
        /\ \A j \in Items : Covered(j)' = Covered(j)
        /\ \A q \in Runs : JournaledBy(q)' = JournaledBy(q)
    BY <1>2, <1>3, <1>6, SameRows
  <2>2. p.foreign = UNION {JournaledBy(q)' : q \in Runs \ {p.run}}
    BY <1>2, <1>6, <2>1 DEF Working
  <2>3. p.fails > 0 => p.bad
    BY <1>2, <1>6 DEF Working
  <2>4. ~p.bad => \A j \in Items : j <= p.item => Covered(j)'
    BY <1>2, <1>6, <2>1 DEF Working, Items
  <2>5. p.run = begun' /\ p.item \in Items
    BY <1>2, <1>3, <1>6
  <2>6. Working'
    BY <1>2, <1>6, <2>2, <2>3, <2>4, <2>5, Passed
  <2>7. journal' \in [Runs -> [Items -> {NoEntry} \cup Entry]]
    BY <1>2, <1>6 DEF TypeOK
  <2>8. RowsInv'
    BY <2>1, <2>6 DEF RowsInv
  <2>. QED BY <1>5, <1>6, <2>7, <2>8
<1>7. CASE journal[r][i] # NoEntry /\ Advance(imp) /\ UNCHANGED journal
  <2>1. Entered(r, i)
    BY <1>7 DEF Entered
  <2>2. Covered(i)
    BY <1>2, <2>1 DEF Covered, OrphansAreFound
  <2>. QED BY <1>2, <1>6, <1>7, <2>2
<1>8. ASSUME journal[r][i] = NoEntry, NEW a \in BySlug(plan[r][i]), Adoptable(a),
             journal' = [journal EXCEPT ![r][i] = [id |-> a, ver |-> 1]], Advance(imp)
      PROVE  GtpInv'
  <2> DEFINE e == [id |-> a, ver |-> 1]
  <2>1. a \in Stored /\ a \in Ids /\ art[a] \in Row /\ art[a].slug = plan[r][i] /\ art[a].ver = 1
        /\ a \notin imp.foreign /\ a <= last
    BY <1>2, <1>8, RowIs DEF BySlug, Adoptable, Numbered
  <2>2. art[a].item = i /\ a \notin touched
    BY <1>2, <2>1 DEF Numbered
  <2>3. a \notin Journaled
    <3> SUFFICES ASSUME a \in Journaled PROVE FALSE
      OBVIOUS
    <3>1. PICK q \in Runs, j \in Items : EntryOf(q, j) = a
      BY <1>2, <2>1, JournaledIs
    <3>2. a \in JournaledBy(q)
      BY <2>1, <3>1, SizesAssumption DEF JournaledBy, EntryOf, Ids
    <3>3. q = r
      BY <1>2, <2>1, <3>2 DEF Working
    <3>4. j = i
      BY <1>2, <2>1, <2>2, <3>1 DEF JournalsFit
    <3>5. EntryOf(r, i) = 0
      BY <1>2, <1>8, EntryIs DEF Entered
    <3>. QED BY <2>1, <3>1, <3>3, <3>4, <3>5, SizesAssumption DEF Ids
  <2>4. art[a].by = begun
    BY <2>1, <2>3, <1>2 DEF OrphansAreFound
  <2>5. BySlug(plan[begun][i]) \subseteq {a}
    BY <1>2, <2>1 DEF BySlug, SlugsUnique
  <2>6. e \in Entry /\ e.id = a /\ e.ver = 1 /\ ~Entered(begun, i)
    BY <1>2, <1>8, <2>1 DEF Entry, Entered
  <2>7. journal' = [journal EXCEPT ![begun][i] = e]
    BY <1>2, <1>8
  <2> HIDE DEF e
  <2>8. e.id \in Stored => /\ art[e.id].by = begun /\ art[e.id].item = i
                           /\ e.ver <= art[e.id].ver
                           /\ e.id \in touched => e.ver < art[e.id].ver
    BY <2>1, <2>2, <2>4, <2>6
  <2>9. e.id <= last /\ BySlug(plan[begun][i]) \subseteq {e.id}
    BY <2>1, <2>5, <2>6
  <2>10. /\ Numbered' /\ SlugsUnique' /\ JournalsFit' /\ OrphansAreFound'
         /\ journal' \in [Runs -> [Items -> {NoEntry} \cup Entry]]
         /\ UNION {JournaledBy(q)' : q \in Runs \ {begun}} =
            UNION {JournaledBy(q) : q \in Runs \ {begun}}
         /\ Covered(i)' /\ \A j \in Items : Covered(j) => Covered(j)'
    <3>1. UNCHANGED <<art, last, begun, plan, edits, touched>> /\ begun \in Runs
      BY <1>2, <1>3
    <3>. QED BY <1>2, <2>6, <2>7, <2>8, <2>9, <3>1, Enters
  <2>11. imp.foreign = UNION {JournaledBy(q)' : q \in Runs \ {r}}
    BY <1>2, <2>10 DEF Working
  <2>12. ~imp.bad => \A j \in Items : j <= i => Covered(j)'
    <3>1. ~imp.bad => \A j \in Items : j < i => Covered(j)
      BY <1>2 DEF Working
    <3>2. \A j \in Items : j <= i => j < i \/ j = i
      BY ItemsOrdered
    <3>. QED BY <2>10, <3>1, <3>2
  <2>13. (imp.fails > 0 => imp.bad) /\ r = begun'
    BY <1>2, <1>3 DEF Working
  <2>14. Working'
    BY <1>2, <1>8, <2>11, <2>12, <2>13, Passed
  <2>15. RowsInv'
    BY <2>10, <2>14 DEF RowsInv
  <2>. QED BY <1>2, <1>5, <1>8, <2>10, <2>15
<1>9. ASSUME NEW a \in BySlug(plan[r][i]), ~Adoptable(a), UNCHANGED journal,
             Advance([imp EXCEPT !.bad = @ \/ a \notin imp.foreign])
      PROVE  GtpInv'
  <2> DEFINE p == [imp EXCEPT !.bad = @ \/ a \notin imp.foreign]
  <2>1. /\ p \in Import /\ p.item = i /\ p.run = r /\ p.made = imp.made /\ p.foreign = imp.foreign
        /\ p.fails = imp.fails /\ p.bad = (imp.bad \/ a \notin imp.foreign)
    BY <1>2 DEF Import
  <2>2. Advance(p)
    BY <1>9
  <2> HIDE DEF p
  <2>3. ~p.bad => Covered(i)
    BY <1>1, <1>2, <1>9, <2>1, FoundIsCovered
  <2>4. imp.bad => p.bad
    BY <2>1
  <2>. QED BY <1>6, <1>9, <2>1, <2>2, <2>3, <2>4
<1>10. CASE /\ journal[r][i] = NoEntry /\ BySlug(plan[r][i]) = {}
            /\ imp' = [imp EXCEPT !.pc = "hero"] /\ UNCHANGED <<journal, tagsMade>>
  <2>1. /\ imp' \in Import /\ imp'.on /\ imp'.run = r /\ imp'.item = i /\ imp'.made = imp.made
        /\ imp'.foreign = imp.foreign /\ imp'.fails = imp.fails /\ imp'.bad = imp.bad
        /\ imp'.pc = "hero"
    BY <1>1, <1>2, <1>10 DEF Import
  <2>2. /\ Numbered' /\ SlugsUnique' /\ JournalsFit' /\ OrphansAreFound'
        /\ Stored' = Stored /\ \A s : BySlug(s)' = BySlug(s)
        /\ \A q \in Runs, j \in Items : Entered(q, j)' = Entered(q, j)
        /\ \A j \in Items : Covered(j)' = Covered(j)
        /\ \A q \in Runs : JournaledBy(q)' = JournaledBy(q)
    BY <1>2, <1>3, <1>10, SameRows
  <2>3. imp'.foreign = UNION {JournaledBy(q)' : q \in Runs \ {imp'.run}}
    BY <1>2, <2>1, <2>2 DEF Working
  <2>4. BySlug(plan[imp.run][imp.item])' = {} /\ ~Entered(imp.run, imp.item)'
    BY <1>3, <1>10, <2>1 DEF BySlug, Stored, Entered
  <2>5. ~imp'.bad => \A j \in Items : j < imp'.item => Covered(j)'
    BY <1>2, <2>1, <2>2 DEF Working
  <2>6. imp'.run = begun' /\ (imp'.fails > 0 => imp'.bad) /\ imp'.item \in Items
        /\ imp'.pc \notin {"finish", "retry", "readback"}
    BY <1>2, <1>3, <2>1 DEF Working
  <2>7. Working'
    BY <2>3, <2>4, <2>5, <2>6 DEF Working
  <2>8. RowsInv'
    BY <2>2, <2>7 DEF RowsInv
  <2>9. TypeOK'
    <3>1. journal' \in [Runs -> [Items -> {NoEntry} \cup Entry]] /\ tagsMade' \in [Runs -> BOOLEAN]
      BY <1>2, <1>10 DEF TypeOK
    <3>. QED BY <1>2, <1>3, <2>1, <3>1, ItemShapes
  <2>10. ImageKnown'
    BY <1>1, <1>2, <1>3, <2>1, ImageGoesOn
  <2>. QED BY <1>4, <2>8, <2>9, <2>10 DEF GtpInv
<1>. QED BY <1>0, <1>7, <1>8, <1>9, <1>10 DEF Consider

(* What a create does to the rows, committed or not.                       *)
LEMMA RowsAfterCreate ==
  ASSUME GtpInv, imp.on, imp.pc \in {"create", "retry"},
         NEW r \in Runs, NEW i \in Items, imp.run = r, imp.item = i,
         UNCHANGED <<begun, plan, journal, edits, touched>>,
         \/ Insert(i) /\ BySlug(plan[r][i]) = {}
         \/ UNCHANGED <<art, last>>
  PROVE  /\ Numbered' /\ SlugsUnique' /\ JournalsFit' /\ OrphansAreFound'
         /\ art' \in [Ids -> {NoRow} \cup Row] /\ last' \in Nat
         /\ \A j \in Items \ {i} : Covered(j) => Covered(j)'
         /\ Insert(i) /\ BySlug(plan[r][i]) = {} =>
              /\ last' \in 1..last' /\ last' \notin touched /\ BySlug(plan[r][i])' = {last'}
              /\ last' \in Stored' /\ art'[last'].by = r /\ art'[last'].item = i
<1>1. /\ TypeOK /\ RowsInv /\ Working
      /\ Numbered /\ SlugsUnique /\ JournalsFit /\ OrphansAreFound
      /\ imp \in Import /\ r = begun /\ begun \in Runs /\ ~Entered(begun, i)
  BY AtWork DEF Working
<1>2. CASE Insert(i) /\ BySlug(plan[r][i]) = {}
  BY <1>1, <1>2, Inserts
<1>3. CASE ~(Insert(i) /\ BySlug(plan[r][i]) = {})
  <2>1. UNCHANGED <<art, last>>
    BY <1>3
  <2>2. /\ Numbered' /\ SlugsUnique' /\ JournalsFit' /\ OrphansAreFound'
        /\ \A j \in Items : Covered(j)' = Covered(j)
    BY <1>1, <2>1, SameRows
  <2>3. art' \in [Ids -> {NoRow} \cup Row] /\ last' \in Nat
    BY <1>1, <2>1 DEF TypeOK
  <2>. QED BY <1>3, <2>2, <2>3
<1>. QED BY <1>2, <1>3

(* What a run has journaled is read off the journal alone.                 *)
LEMMA JournaledStays ==
  ASSUME journal' = journal
  PROVE  \A q \in Runs : JournaledBy(q)' = JournaledBy(q)
BY DEF JournaledBy

(* What a create may do: go on to the second attempt, or to the readback of*)
(* an article of its item, having inserted a row or not.                   *)
Retries(r, i) ==
  /\ imp' = [imp EXCEPT !.pc = "retry"]
  /\ \A a \in BySlug(plan[r][i])' : art'[a].by = r /\ a \notin touched

ReadsBack(r, i) ==
  \E b \in 1..last' :
    /\ imp' = [imp EXCEPT !.pc = "readback", !.id = b]
    /\ b \notin touched /\ BySlug(plan[r][i])' \subseteq {b}
    /\ b \in Stored' => art'[b].by = r /\ art'[b].item = i

InsertsOrNot(r, i) ==
  \/ Insert(i) /\ BySlug(plan[r][i]) = {}
  \/ UNCHANGED <<art, last>>

(* A create that goes on keeps the invariant.                              *)
LEMMA CreateGoesOn ==
  ASSUME GtpInv, imp.on, imp.pc \in {"create", "retry"},
         NEW r \in Runs, NEW i \in Items, imp.run = r, imp.item = i,
         UNCHANGED <<media, tag, begun, plan, journal, mediaJ, tagsMade, roll, crashes, edits, touched>>,
         lost' \in Nat,
         InsertsOrNot(r, i), Retries(r, i) \/ ReadsBack(r, i)
  PROVE  GtpInv'
<1>1. /\ TypeOK /\ RowsInv /\ ImageKnown /\ Rolling /\ Working
      /\ imp \in Import /\ r = begun /\ ~Entered(r, i)
  BY AtWork DEF Working
<1>2. /\ Numbered' /\ SlugsUnique' /\ JournalsFit' /\ OrphansAreFound'
      /\ art' \in [Ids -> {NoRow} \cup Row] /\ last' \in Nat
      /\ \A j \in Items \ {i} : Covered(j) => Covered(j)'
  BY RowsAfterCreate DEF InsertsOrNot
<1>3. /\ imp' \in Import /\ imp'.on /\ imp'.run = r /\ imp'.item = i /\ imp'.made = imp.made
      /\ imp'.foreign = imp.foreign /\ imp'.fails = imp.fails /\ imp'.bad = imp.bad
      /\ \/ /\ imp'.pc = "retry"
            /\ \A a \in BySlug(plan[r][i])' : art'[a].by = r /\ a \notin touched
         \/ /\ imp'.pc = "readback" /\ imp'.id \in 1..last'
            /\ imp'.id \notin touched /\ BySlug(plan[r][i])' \subseteq {imp'.id}
            /\ imp'.id \in Stored' => art'[imp'.id].by = r /\ art'[imp'.id].item = i
  <2>1. CASE Retries(r, i)
    <3>1. /\ imp' \in Import /\ imp'.on /\ imp'.run = r /\ imp'.item = i /\ imp'.made = imp.made
          /\ imp'.foreign = imp.foreign /\ imp'.fails = imp.fails /\ imp'.bad = imp.bad
          /\ imp'.pc = "retry"
      BY <1>1, <2>1 DEF Import, Retries
    <3>. QED BY <2>1, <3>1 DEF Retries
  <2>2. ASSUME NEW b \in 1..last',
               imp' = [imp EXCEPT !.pc = "readback", !.id = b],
               b \notin touched, BySlug(plan[r][i])' \subseteq {b},
               b \in Stored' => art'[b].by = r /\ art'[b].item = i
        PROVE  /\ imp' \in Import /\ imp'.on /\ imp'.run = r /\ imp'.item = i
               /\ imp'.made = imp.made
               /\ imp'.foreign = imp.foreign /\ imp'.fails = imp.fails /\ imp'.bad = imp.bad
               /\ imp'.pc = "readback" /\ imp'.id = b
    <3>1. b \in Nat
      <4>1. last' \in Nat
        BY <1>2
      <4>2. b \in 1..last'
        BY <2>2
      <4>. QED BY <4>1, <4>2, BelowIsNat
    <3>. QED BY <1>1, <2>2, <3>1 DEF Import
  <2>. QED BY <2>1, <2>2 DEF ReadsBack
<1>4. Working'
  <2>1. imp'.foreign = UNION {JournaledBy(q)' : q \in Runs \ {imp'.run}}
    <3>1. \A q \in Runs : JournaledBy(q)' = JournaledBy(q)
      BY JournaledStays
    <3>2. imp.foreign = UNION {JournaledBy(q) : q \in Runs \ {r}}
      BY <1>1 DEF Working
    <3>3. imp'.foreign = imp.foreign /\ imp'.run = r
      BY <1>3
    <3>4. UNION {JournaledBy(q)' : q \in Runs \ {r}} = UNION {JournaledBy(q) : q \in Runs \ {r}}
      BY <3>1
    <3>. QED BY <3>2, <3>3, <3>4
  <2>2. ~imp'.bad => \A j \in Items : j < imp'.item => Covered(j)'
    <3>1. ~imp.bad => \A j \in Items : j < i => Covered(j)
      BY <1>1 DEF Working
    <3>2. \A j \in Items : j < i => j # i
      BY ItemsOrdered
    <3>. QED BY <1>2, <1>3, <3>1, <3>2
  <2>3. imp'.run = begun' /\ (imp'.fails > 0 => imp'.bad) /\ imp'.item \in Items
        /\ imp'.pc \notin {"finish", "hero", "upload", "heroJournal", "tag", "create"}
    BY <1>1, <1>3 DEF Working
  <2>4. ~Entered(imp.run, imp.item)'
    BY <1>1, <1>3 DEF Entered
  <2>5. BySlug(plan[imp.run][imp.item])' = BySlug(plan[r][i])'
    BY <1>3
  <2>. QED BY <1>3, <2>1, <2>2, <2>3, <2>4, <2>5 DEF Working
<1>5. RowsInv'
  BY <1>2, <1>4 DEF RowsInv
<1>6. TypeOK'
  <2>1. journal' \in [Runs -> [Items -> {NoEntry} \cup Entry]] /\ tagsMade' \in [Runs -> BOOLEAN]
    BY <1>1 DEF TypeOK
  <2>. QED BY <1>1, <1>2, <1>3, <2>1, ItemShapes
<1>7. ImageKnown'
  BY <1>1, <1>3, ImageGoesOn
<1>8. Rolling'
  BY <1>1, NoneRolls
<1>. QED BY <1>5, <1>6, <1>7, <1>8 DEF GtpInv

LEMMA CreateFails ==
  ASSUME GtpInv, imp.on, imp.pc \in {"create", "retry"},
         NEW r \in Runs, NEW i \in Items, imp.run = r, imp.item = i,
         UNCHANGED <<media, tag, begun, plan, journal, mediaJ, roll, crashes, edits, touched>>,
         lost' \in Nat, Failed,
         \/ Insert(i) /\ BySlug(plan[r][i]) = {}
         \/ UNCHANGED <<art, last>>
  PROVE  GtpInv'
<1> DEFINE p == [imp EXCEPT !.bad = TRUE, !.fails = imp.fails + 1]
<1>1. /\ TypeOK /\ RowsInv /\ ImageKnown /\ Rolling /\ Working /\ imp \in Import /\ r = begun
  BY AtWork
<1>2. /\ Numbered' /\ SlugsUnique' /\ JournalsFit' /\ OrphansAreFound'
      /\ art' \in [Ids -> {NoRow} \cup Row] /\ last' \in Nat
  BY RowsAfterCreate
<1>3. imp.fails + 1 \in Nat
  BY <1>1 DEF Import
<1>4. p \in Import /\ p.item = i /\ p.run = r /\ p.made = imp.made /\ p.foreign = imp.foreign /\ p.bad
  BY <1>1, <1>3 DEF Import
<1>5. Advance(p)
  BY DEF Failed
<1> HIDE DEF p
<1>6. p.foreign = UNION {JournaledBy(q)' : q \in Runs \ {p.run}} /\ p.run = begun'
  BY <1>1, <1>4 DEF Working, JournaledBy
<1>7. Working'
  <2>1. ~p.bad => \A j \in Items : j <= p.item => Covered(j)'
    BY <1>4
  <2>2. p.fails > 0 => p.bad
    BY <1>4
  <2>. QED BY <1>1, <1>4, <1>5, <1>6, <2>1, <2>2, Passed
<1>8. /\ imp' \in Import /\ tagsMade' \in [Runs -> BOOLEAN]
      /\ imp'.on /\ imp'.run = r /\ imp'.made = imp.made /\ imp'.pc \in {"consider", "finish"}
  BY <1>1, <1>4, <1>5, AdvanceIs
<1>9. TypeOK'
  <2>1. journal' \in [Runs -> [Items -> {NoEntry} \cup Entry]]
    BY <1>1 DEF TypeOK
  <2>. QED BY <1>1, <1>2, <1>8, <2>1, ItemShapes
<1>10. ImageKnown'
  BY <1>1, <1>8, ImageGoesOn
<1>11. Rolling'
  BY <1>1, NoneRolls
<1>. QED BY <1>2, <1>7, <1>9, <1>10, <1>11 DEF GtpInv, RowsInv

LEMMA CreateKeeps ==
  ASSUME GtpInv, Create
  PROVE  GtpInv'
<1> DEFINE r == imp.run
           i == imp.item
<1>1. imp.on /\ imp.pc = "create"
  BY DEF Create, At
<1>2. /\ TypeOK /\ Working /\ r \in Runs /\ i \in Items /\ BySlug(plan[r][i]) = {}
  BY <1>1, AtWork DEF Working
<1>3. UNCHANGED <<media, tag, begun, plan, journal, mediaJ, roll, crashes, edits, touched>>
  BY DEF Create
<1>4. lost \in Nat
  BY <1>2 DEF TypeOK
<1>5. PICK s \in Runs, k \in Items : s = imp.run /\ k = imp.item
  BY <1>2
<1>6. Insert(k) => /\ last' \in 1..last' /\ last' \notin touched /\ BySlug(plan[s][k])' = {last'}
                   /\ last' \in Stored' /\ art'[last'].by = s /\ art'[last'].item = k
  BY <1>1, <1>2, <1>3, <1>5, RowsAfterCreate
<1>7. CASE Insert(k) /\ Answered /\ UNCHANGED lost
  <2>1. imp' = [imp EXCEPT !.pc = "readback", !.id = last'] /\ UNCHANGED tagsMade
    BY <1>7 DEF Answered
  <2>2. ReadsBack(s, k) /\ InsertsOrNot(s, k) /\ lost' \in Nat
    <3>1. ReadsBack(s, k)
      BY <1>6, <1>7, <2>1 DEF ReadsBack
    <3>2. InsertsOrNot(s, k)
      BY <1>2, <1>5, <1>7 DEF InsertsOrNot
    <3>. QED BY <1>4, <1>7, <3>1, <3>2
  <2>. QED BY <1>1, <1>3, <1>5, <2>1, <2>2, CreateGoesOn
<1>8. CASE /\ lost' = lost + 1 /\ imp' = [imp EXCEPT !.pc = "retry"] /\ UNCHANGED tagsMade
           /\ Insert(k) \/ UNCHANGED <<art, last>>
  <2>1. \A a \in BySlug(plan[s][k])' : art'[a].by = s /\ a \notin touched
    <3>1. CASE Insert(k)
      BY <1>6, <3>1
    <3>2. CASE UNCHANGED <<art, last>>
      BY <1>2, <1>3, <1>5, <3>2 DEF BySlug, Stored
    <3>. QED BY <1>8, <3>1, <3>2
  <2>2. Retries(s, k) /\ InsertsOrNot(s, k) /\ lost' \in Nat /\ UNCHANGED tagsMade
    <3>1. Retries(s, k)
      BY <1>8, <2>1 DEF Retries
    <3>2. InsertsOrNot(s, k)
      BY <1>2, <1>5, <1>8 DEF InsertsOrNot
    <3>. QED BY <1>4, <1>8, <3>1, <3>2
  <2>. QED BY <1>1, <1>3, <1>5, <2>2, CreateGoesOn
<1>9. CASE lost' = lost + 1 /\ Failed /\ UNCHANGED <<art, last>>
  <2>1. lost' \in Nat
    BY <1>4, <1>9
  <2>. QED BY <1>1, <1>2, <1>3, <1>5, <1>9, <2>1, CreateFails
<1>. QED BY <1>5, <1>7, <1>8, <1>9 DEF Create

LEMMA RetryKeeps ==
  ASSUME GtpInv, Retry
  PROVE  GtpInv'
<1>1. imp.on /\ imp.pc = "retry"
  BY DEF Retry, At
<1>2. PICK r \in Runs, i \in Items : r = imp.run /\ i = imp.item
  BY <1>1, AtWork
<1>3. /\ TypeOK /\ Working /\ Numbered /\ SlugsUnique
      /\ \A a \in BySlug(plan[r][i]) : art[a].by = r /\ a \notin touched
  BY <1>1, <1>2, AtWork DEF Working
<1>4. UNCHANGED <<media, tag, begun, plan, journal, mediaJ, roll, crashes, edits, touched>>
  BY DEF Retry
<1>5. lost \in Nat /\ FoundAgain(i) = BySlug(plan[r][i])
  BY <1>2, <1>3 DEF TypeOK, FoundAgain
<1>6. ASSUME NEW a \in BySlug(plan[r][i]), imp' = [imp EXCEPT !.pc = "readback", !.id = a],
             UNCHANGED <<art, last, lost, tagsMade>>
      PROVE  GtpInv'
  <2>1. a \in Stored /\ a \in Ids /\ a <= last /\ art[a].item = i /\ art[a].by = r /\ a \notin touched
    BY <1>2, <1>3, <1>6, RowIs DEF BySlug, Numbered
  <2>2. a \in 1..last'
    BY <1>3, <1>6, <2>1 DEF Ids, TypeOK
  <2>3. BySlug(plan[r][i])' = BySlug(plan[r][i])
    BY <1>4, <1>6 DEF BySlug, Stored
  <2>4. BySlug(plan[r][i])' \subseteq {a}
    BY <1>3, <1>6, <2>3 DEF BySlug, SlugsUnique
  <2>5. ReadsBack(r, i) /\ InsertsOrNot(r, i)
    BY <1>6, <2>1, <2>2, <2>4 DEF ReadsBack, InsertsOrNot
  <2>6. lost' \in Nat /\ UNCHANGED tagsMade
    BY <1>5, <1>6
  <2>. QED BY <1>1, <1>2, <1>4, <2>5, <2>6, CreateGoesOn
<1>7. CASE BySlug(plan[r][i]) = {} /\ Insert(i) /\ Answered /\ UNCHANGED lost
  <2>1. imp' = [imp EXCEPT !.pc = "readback", !.id = last'] /\ UNCHANGED tagsMade
    BY <1>7 DEF Answered
  <2>2. /\ last' \in 1..last' /\ last' \notin touched /\ BySlug(plan[r][i])' = {last'}
        /\ last' \in Stored' /\ art'[last'].by = r /\ art'[last'].item = i
    BY <1>1, <1>2, <1>4, <1>7, RowsAfterCreate
  <2>3. ReadsBack(r, i) /\ InsertsOrNot(r, i)
    BY <1>7, <2>1, <2>2 DEF ReadsBack, InsertsOrNot
  <2>4. lost' \in Nat
    BY <1>5, <1>7
  <2>. QED BY <1>1, <1>2, <1>4, <2>1, <2>3, <2>4, CreateGoesOn
<1>8. CASE /\ lost' = lost + 1 /\ Failed
           /\ (BySlug(plan[r][i]) = {} /\ Insert(i)) \/ UNCHANGED <<art, last>>
  <2>1. lost' \in Nat
    BY <1>5, <1>8
  <2>. QED BY <1>1, <1>2, <1>4, <1>8, <2>1, CreateFails
<1>. QED BY <1>2, <1>5, <1>6, <1>7, <1>8 DEF Retry

LEMMA ReadbackKeeps ==
  ASSUME GtpInv, Readback
  PROVE  GtpInv'
<1> DEFINE ver == IF imp.id \in Stored THEN art[imp.id].ver ELSE 1
           e == [id |-> imp.id, ver |-> ver]
           p == [imp EXCEPT !.fails = 0]
<1>1. imp.on /\ imp.pc = "readback"
  BY DEF Readback, At
<1>0. PICK r \in Runs, i \in Items : r = imp.run /\ i = imp.item
  BY <1>1, AtWork
<1>2. /\ TypeOK /\ RowsInv /\ ImageKnown /\ Rolling /\ Working
      /\ Numbered /\ SlugsUnique /\ JournalsFit /\ OrphansAreFound
      /\ imp \in Import /\ r = begun /\ r = imp.run /\ i = imp.item
  BY <1>0, <1>1, AtWork
<1>3. /\ UNCHANGED <<art, last, media, tag, begun, plan, mediaJ, roll, crashes, lost, edits, touched>>
      /\ journal' = [journal EXCEPT ![begun][i] = e]
      /\ Advance(p)
  BY <1>2 DEF Readback, central, counters
<1>4. /\ ~Entered(begun, i) /\ imp.id \in 1..last /\ imp.id \notin touched
      /\ BySlug(plan[begun][i]) \subseteq {imp.id}
      /\ imp.id \in Stored => art[imp.id].by = begun /\ art[imp.id].item = i
  BY <1>1, <1>2 DEF Working
<1>5. imp.id \in Ids /\ imp.id <= last
  BY <1>2, <1>4, SizesAssumption DEF Numbered, Ids, TypeOK
<1>6. ver \in Nat /\ (imp.id \in Stored => ver <= art[imp.id].ver)
  BY <1>2, RowIs DEF Row
<1>7. e \in Entry /\ e.id = imp.id /\ e.ver = ver
  BY <1>5, <1>6 DEF Entry
<1>8. /\ p \in Import /\ p.item = i /\ p.run = r /\ p.made = imp.made /\ p.foreign = imp.foreign
      /\ p.fails = 0 /\ p.bad = imp.bad
  BY <1>2 DEF Import
<1> HIDE DEF ver, e, p
<1>9. /\ Numbered' /\ SlugsUnique' /\ JournalsFit' /\ OrphansAreFound'
      /\ journal' \in [Runs -> [Items -> {NoEntry} \cup Entry]]
      /\ UNION {JournaledBy(q)' : q \in Runs \ {begun}} =
         UNION {JournaledBy(q) : q \in Runs \ {begun}}
      /\ Covered(i)' /\ \A j \in Items : Covered(j) => Covered(j)'
  <2>1. e.id \in Stored => /\ art[e.id].by = begun /\ art[e.id].item = i
                           /\ e.ver <= art[e.id].ver
                           /\ e.id \in touched => e.ver < art[e.id].ver
    BY <1>4, <1>6, <1>7
  <2>2. e.id <= last /\ BySlug(plan[begun][i]) \subseteq {e.id} /\ begun \in Runs
    BY <1>2, <1>4, <1>5, <1>7
  <2>. QED BY <1>2, <1>3, <1>4, <1>7, <2>1, <2>2, Enters
<1>10. Working'
  <2>1. p.foreign = UNION {JournaledBy(q)' : q \in Runs \ {p.run}}
    BY <1>2, <1>8, <1>9 DEF Working
  <2>2. ~p.bad => \A j \in Items : j <= p.item => Covered(j)'
    <3>1. ~imp.bad => \A j \in Items : j < i => Covered(j)
      BY <1>2 DEF Working
    <3>2. \A j \in Items : j <= i => j < i \/ j = i
      BY ItemsOrdered
    <3>. QED BY <1>8, <1>9, <3>1, <3>2
  <2>3. p.run = begun' /\ ~(p.fails > 0)
    <3>1. begun' = begun /\ r = begun
      BY <1>2, <1>3
    <3>2. p.run = r /\ p.fails = 0
      BY <1>8
    <3>. QED BY <3>1, <3>2
  <2>. QED BY <1>2, <1>3, <1>8, <2>1, <2>2, <2>3, Passed
<1>11. /\ imp' \in Import /\ tagsMade' \in [Runs -> BOOLEAN]
       /\ imp'.on /\ imp'.run = r /\ imp'.made = imp.made /\ imp'.pc \in {"consider", "finish"}
  BY <1>2, <1>3, <1>8, AdvanceIs
<1>12. TypeOK'
  <2>1. art' \in [Ids -> {NoRow} \cup Row] /\ last' \in Nat /\ lost' \in Nat
    BY <1>2, <1>3 DEF TypeOK
  <2>. QED BY <1>2, <1>3, <1>9, <1>11, <2>1, ItemShapes
<1>13. ImageKnown'
  BY <1>1, <1>2, <1>3, <1>11, ImageGoesOn
<1>14. Rolling'
  BY <1>1, <1>2, <1>3, NoneRolls
<1>. QED BY <1>9, <1>10, <1>12, <1>13, <1>14 DEF GtpInv, RowsInv

-----------------------------------------------------------------------------
(* Where an import begins and ends. *)

LEMMA ImportLeaves ==
  ASSUME GtpInv, imp.on, imp' = NoImport, tagsMade' \in [Runs -> BOOLEAN], crashes' \in Nat,
         UNCHANGED <<art, last, media, tag, begun, plan, journal, mediaJ, roll, lost, edits, touched>>
  PROVE  GtpInv'
<1>1. TypeOK /\ RowsInv /\ ImageKnown /\ Rolling
  BY DEF GtpInv
<1>2. ~imp'.on
  BY DEF NoImport
<1>3. TypeOK'
  BY <1>1 DEF TypeOK
<1>4. RowsInv'
  BY <1>1, <1>2, SameRows DEF RowsInv
<1>5. ImageKnown'
  BY <1>1, <1>2, ImageLeft
<1>6. Rolling'
  BY <1>1, NoneRolls
<1>. QED BY <1>3, <1>4, <1>5, <1>6 DEF GtpInv

LEMMA FinishKeeps ==
  ASSUME GtpInv, Finish
  PROVE  GtpInv'
<1>1. TypeOK /\ imp.on
  BY DEF GtpInv, Finish, At
<1>2. imp.run \in Runs /\ imp.tagMade \in BOOLEAN
  BY <1>1, ImportIs DEF Import
<1>3. tagsMade' \in [Runs -> BOOLEAN]
  BY <1>1, <1>2 DEF Finish, TypeOK
<1>4. imp' = NoImport /\ crashes' \in Nat
      /\ UNCHANGED <<art, last, media, tag, begun, plan, journal, mediaJ, roll, lost, edits, touched>>
  BY <1>1 DEF Finish, central, counters, TypeOK
<1>. QED BY <1>1, <1>3, <1>4, ImportLeaves

LEMMA ImportDiesKeeps ==
  ASSUME GtpInv, ImportDies
  PROVE  GtpInv'
<1>1. TypeOK /\ imp.on
  BY DEF GtpInv, ImportDies
<1>2. imp' = NoImport /\ crashes' \in Nat /\ tagsMade' \in [Runs -> BOOLEAN]
      /\ UNCHANGED <<art, last, media, tag, begun, plan, journal, mediaJ, roll, lost, edits, touched>>
  BY <1>1 DEF ImportDies, central, disk, TypeOK
<1>. QED BY <1>1, <1>2, ImportLeaves

(* Who begins knows what other runs have journaled, and has passed nothing.*)
LEMMA BeginIs ==
  ASSUME TypeOK, NEW r \in Runs, r = begun', NEW fresh \in BOOLEAN, Begin(r, fresh),
         UNCHANGED journal
  PROVE  /\ imp' \in Import /\ Working'
         /\ imp'.on /\ imp'.run = r /\ imp'.pc = "consider"
         /\ imp'.made = \E i \in Items : mediaJ'[r][i].origin = "created"
<1> DEFINE foreign == UNION {JournaledBy(q) : q \in Runs \ {r}}
           made == \E i \in Items : mediaJ'[r][i].origin = "created"
<1>1. imp' = [on |-> TRUE, run |-> r, fresh |-> fresh, pc |-> "consider", item |-> 1, id |-> 0,
              foreign |-> foreign, cached |-> FALSE, hero |-> 0, made |-> made,
              tagKnown |-> tag # 0, tagMade |-> tagsMade[r], fails |-> 0, bad |-> FALSE]
  BY DEF Begin
<1>2. foreign \in SUBSET Ids
  <2>1. \A q \in Runs, i \in Items : EntryOf(q, i) \in Ids \cup {0}
    BY EntryIs
  <2>2. \A q \in Runs : JournaledBy(q) \subseteq Ids
    BY <2>1 DEF JournaledBy, EntryOf
  <2>. QED BY <2>2
<1>3. foreign = UNION {JournaledBy(q)' : q \in Runs \ {r}}
  BY DEF JournaledBy
<1>4. made \in BOOLEAN
  OBVIOUS
<1> HIDE DEF foreign, made
<1>5. tagsMade[r] \in BOOLEAN
  BY DEF TypeOK
<1>6. imp' \in Import
  BY <1>1, <1>2, <1>4, <1>5 DEF Import
<1>7. /\ imp'.on /\ imp'.run = r /\ imp'.pc = "consider" /\ imp'.item = 1 /\ imp'.foreign = foreign
      /\ imp'.made = made /\ imp'.fails = 0 /\ ~imp'.bad
  BY <1>1
<1>8. 1 \in Items /\ \A j \in Items : ~(j < 1)
  BY SizesAssumption DEF Items
<1>9. Working'
  <2>1. imp'.foreign = UNION {JournaledBy(q)' : q \in Runs \ {imp'.run}}
    BY <1>3, <1>7
  <2>2. /\ imp'.item \in Items /\ \A j \in Items : ~(j < imp'.item)
        /\ imp'.pc \notin {"finish", "hero", "upload", "heroJournal", "tag", "create", "retry", "readback"}
        /\ ~(imp'.pc \notin {"consider", "finish"})
        /\ ~(imp'.fails > 0) /\ imp'.run = begun'
    BY <1>7, <1>8
  <2>. QED BY <2>1, <2>2 DEF Working
<1>. QED BY <1>6, <1>7, <1>9 DEF made

LEMMA StartKeeps ==
  ASSUME GtpInv, Start
  PROVE  GtpInv'
<1>1. /\ TypeOK /\ RowsInv /\ ImageKnown /\ Rolling
      /\ Numbered /\ SlugsUnique /\ JournalsFit /\ OrphansAreFound
  BY DEF GtpInv, RowsInv
<1>2. /\ ~imp.on /\ ~roll.on /\ begun < NRuns /\ Stored \subseteq Journaled /\ begun' = begun + 1
      /\ Begin(begun', TRUE)
      /\ UNCHANGED <<art, last, media, tag, journal, mediaJ, tagsMade, roll, crashes, lost, edits, touched>>
  BY DEF Start, MayStart, central, counters
<1>3. PICK p \in [Items -> Slugs] :
        /\ \A i \in Items : \/ p[i] = PlannedSlug(i)
                            \/ p[i] \in PriorSlugs(begun', i)
        /\ plan' = [plan EXCEPT ![begun'] = p]
  BY DEF Start
<1>4. begun \in Nat /\ begun' \in Runs /\ begun < begun' /\ begun' <= NRuns /\ begun' \in Nat
  BY <1>1, <1>2, SizesAssumption DEF TypeOK, Runs
<1>5. edits \in Nat
  BY <1>1 DEF TypeOK
<1>6. \A i \in Items : p[i].item = i /\ p[i].name <= edits
  <2> SUFFICES ASSUME NEW i \in Items
               PROVE  p[i].item = i /\ p[i].name <= edits
    OBVIOUS
  <2>1. CASE p[i] = PlannedSlug(i)
    BY <1>5, <2>1 DEF PlannedSlug
  <2>2. CASE p[i] \in PriorSlugs(begun', i)
    <3>1. PICK q \in Runs : EntryOf(q, i) \in Stored /\ p[i] = art[EntryOf(q, i)].slug
      BY <2>2 DEF PriorSlugs, EntryOf
    <3>2. art[EntryOf(q, i)].item = i
      BY <1>1, <3>1 DEF JournalsFit
    <3>. QED BY <1>1, <3>1, <3>2 DEF Numbered
  <2>. QED BY <1>3, <2>1, <2>2
<1>7. plan' \in [Runs -> [Items -> Slugs]]
      /\ \A r \in Runs, i \in Items : plan'[r][i].item = i /\ plan'[r][i].name <= edits
  <2>1. \A r \in Runs : plan'[r] = IF r = begun' THEN p ELSE plan[r]
    BY <1>1, <1>3, <1>4 DEF TypeOK
  <2>2. plan' \in [Runs -> [Items -> Slugs]]
    BY <1>1, <1>3, <1>4 DEF TypeOK
  <2>. QED BY <1>1, <1>6, <2>1, <2>2 DEF Numbered
<1>8. Stored' = Stored /\ Journaled' = Journaled
      /\ \A r \in Runs, i \in Items : EntryOf(r, i)' = EntryOf(r, i)
  BY <1>2 DEF Stored, Journaled, JournaledBy, EntryOf
<1>9. Numbered'
  <2>1. \A a \in Stored : art[a].by <= begun'
    <3>1. \A a \in Stored : art[a].by \in Nat /\ art[a].by <= begun
      BY <1>1, RowIs, SizesAssumption DEF Row, Runs, Numbered
    <3>. QED BY <1>4, <3>1
  <2>. QED BY <1>1, <1>2, <1>4, <1>7, <1>8, <2>1 DEF Numbered
<1>10. SlugsUnique' /\ JournalsFit'
  <2>1. SlugsUnique'
    BY <1>1, <1>2, <1>8 DEF SlugsUnique
  <2>2. JournalsFit'
    BY <1>1, <1>2, <1>8 DEF JournalsFit
  <2>. QED BY <2>1, <2>2
<1>11. OrphansAreFound'
  BY <1>2, <1>8 DEF OrphansAreFound
<1>12. imp' \in Import /\ Working' /\ imp'.on /\ imp'.run = begun' /\ imp'.pc = "consider"
  BY <1>1, <1>2, <1>4, BeginIs
<1>13. RowsInv'
  BY <1>9, <1>10, <1>11, <1>12 DEF RowsInv
<1>14. TypeOK'
  BY <1>1, <1>2, <1>4, <1>7, <1>12 DEF TypeOK
<1>15. ImageKnown'
  <2>1. ASSUME media.doc # NoDoc
        PROVE  /\ media.doc.n > 0 /\ media.doc.by <= begun' /\ media.doc.by # imp'.run
               /\ LinedAs(media.doc.by, media.doc.n)' \/ Lines(media.doc.by, "created-pending")'
    <3>1. /\ media.doc.n > 0 /\ media.doc.by <= begun
          /\ LinedAs(media.doc.by, media.doc.n) \/ Lines(media.doc.by, "created-pending")
      BY <1>1, <1>2, <2>1 DEF ImageKnown
    <3>2. media.doc.by \in Nat
      BY <1>1, <2>1, DocIs DEF Runs
    <3>3. media.doc.by <= begun' /\ media.doc.by # begun'
      BY <1>4, <3>1, <3>2
    <3>. QED BY <1>2, <1>12, <3>1, <3>3 DEF LinedAs, Lines
  <2>. QED BY <1>2, <1>12, <2>1 DEF ImageKnown
<1>16. Rolling'
  <2>1. roll = NoRollback
    BY <1>1, <1>2 DEF TypeOK, Rollback
  <2>. QED BY <1>2, <2>1 DEF Rolling, NoRollback
<1>. QED BY <1>13, <1>14, <1>15, <1>16 DEF GtpInv

LEMMA ResumeKeeps ==
  ASSUME GtpInv, Resume
  PROVE  GtpInv'
<1>1. /\ TypeOK /\ RowsInv /\ ImageKnown /\ Rolling /\ Numbered
  BY DEF GtpInv, RowsInv
<1>2. /\ ~imp.on /\ ~roll.on /\ begun > 0 /\ Begin(begun, FALSE)
      /\ mediaJ' = [mediaJ EXCEPT ![begun] = [i \in Items |-> Resolved(@[i], begun)]]
      /\ UNCHANGED <<art, last, media, tag, begun, plan, journal, tagsMade, roll, crashes, lost,
                     edits, touched>>
  BY DEF Resume, central, counters
<1>3. begun \in Runs /\ begun \in Nat
  BY <1>1, <1>2, SizesAssumption DEF TypeOK, Numbered, Runs
<1>4. imp' \in Import /\ Working' /\ imp'.on /\ imp'.run = begun /\ imp'.pc = "consider"
      /\ imp'.made = \E i \in Items : mediaJ'[begun][i].origin = "created"
  BY <1>1, <1>2, <1>3, BeginIs
<1>5. RowsInv'
  BY <1>1, <1>2, <1>4, SameRows DEF RowsInv
<1>6. \A i \in Items : Resolved(mediaJ[begun][i], begun) \in [origin: Origins, n: Nat]
  <2> SUFFICES ASSUME NEW i \in Items
               PROVE  Resolved(mediaJ[begun][i], begun) \in [origin: Origins, n: Nat]
    OBVIOUS
  <2>1. mediaJ[begun][i] \in [origin: Origins, n: Nat]
    BY <1>1, <1>3 DEF TypeOK
  <2>2. media.doc.n \in Nat
    BY <1>1, DocIs
  <2>. QED BY <2>1, <2>2 DEF Resolved, Origins
<1>7. mediaJ' \in [Runs -> [Items -> [origin: Origins, n: Nat]]]
      /\ \A q \in Runs, j \in Items :
           mediaJ'[q][j] = IF q = begun THEN Resolved(mediaJ[begun][j], begun) ELSE mediaJ[q][j]
  <2> DEFINE lines == [i \in Items |-> Resolved(mediaJ[begun][i], begun)]
  <2>1. lines \in [Items -> [origin: Origins, n: Nat]]
        /\ \A i \in Items : lines[i] = Resolved(mediaJ[begun][i], begun)
    BY <1>6
  <2>2. mediaJ' = [mediaJ EXCEPT ![begun] = lines]
    BY <1>2
  <2> HIDE DEF lines
  <2>. QED BY <1>1, <1>3, <2>1, <2>2 DEF TypeOK
<1>8. TypeOK'
  BY <1>1, <1>2, <1>4, <1>7 DEF TypeOK
<1>9. ImageKnown'
  <2>1. ASSUME media.doc # NoDoc
        PROVE  /\ media.doc.n > 0 /\ media.doc.by <= begun /\ media.doc.by \in Runs
               /\ LinedAs(media.doc.by, media.doc.n) \/ Lines(media.doc.by, "created-pending")
    BY <1>1, <1>2, <2>1, DocIs DEF ImageKnown
  <2>2. ASSUME media.doc # NoDoc, media.doc.by = begun
        PROVE  \E i \in Items : mediaJ'[begun][i] = [origin |-> "created", n |-> media.doc.n]
    <3>1. CASE LinedAs(begun, media.doc.n)
      <4>1. PICK i \in Items : mediaJ[begun][i] = [origin |-> "created", n |-> media.doc.n]
        BY <3>1 DEF LinedAs
      <4>2. mediaJ[begun][i].origin # "created-pending"
        BY <4>1
      <4>3. mediaJ'[begun][i] = mediaJ[begun][i]
        BY <1>3, <1>7, <4>2 DEF Resolved
      <4>. QED BY <4>1, <4>3
    <3>2. CASE Lines(begun, "created-pending")
      <4>1. PICK i \in Items : mediaJ[begun][i].origin = "created-pending"
        BY <3>2 DEF Lines
      <4>2. media.doc.by >= begun
        BY <1>3, <2>2
      <4>3. mediaJ'[begun][i] = [origin |-> "created", n |-> media.doc.n]
        BY <1>3, <1>7, <2>2, <4>1, <4>2 DEF Resolved
      <4>. QED BY <4>3
    <3>. QED BY <2>1, <2>2, <3>1, <3>2
  <2>3. ASSUME media.doc # NoDoc, media.doc.by # begun
        PROVE  LinedAs(media.doc.by, media.doc.n)' \/ Lines(media.doc.by, "created-pending")'
    <3>1. \A j \in Items : mediaJ'[media.doc.by][j] = mediaJ[media.doc.by][j]
      BY <1>7, <2>1, <2>3
    <3>. QED BY <1>2, <2>1, <2>3, <3>1 DEF LinedAs, Lines
  <2>4. media' = media /\ begun' = begun
    BY <1>2
  <2>5. CASE media.doc = NoDoc
    BY <1>4, <2>4, <2>5 DEF ImageKnown
  <2>6. CASE media.doc # NoDoc /\ media.doc.by = begun
    <3>1. imp'.made
      <4>1. PICK i \in Items : mediaJ'[begun][i] = [origin |-> "created", n |-> media.doc.n]
        BY <2>2, <2>6
      <4>2. mediaJ'[begun][i].origin = "created"
        BY <4>1
      <4>. QED BY <1>4, <4>2
    <3>2. LinedAs(media.doc.by, media.doc.n)'
      BY <2>2, <2>4, <2>6 DEF LinedAs
    <3>. QED BY <1>4, <2>1, <2>4, <2>6, <3>1, <3>2 DEF ImageKnown
  <2>7. CASE media.doc # NoDoc /\ media.doc.by # begun
    BY <1>4, <2>1, <2>3, <2>4, <2>7 DEF ImageKnown
  <2>. QED BY <2>5, <2>6, <2>7
<1>10. Rolling'
  <2>1. roll = NoRollback
    BY <1>1, <1>2 DEF TypeOK, Rollback
  <2>. QED BY <1>2, <2>1 DEF Rolling, NoRollback
<1>. QED BY <1>5, <1>8, <1>9, <1>10 DEF GtpInv

-----------------------------------------------------------------------------
(* All steps. *)

LEMMA GtpStarts == Init => GtpInv
<1> SUFFICES ASSUME Init PROVE GtpInv
  OBVIOUS
<1>1. /\ art = [a \in Ids |-> NoRow] /\ last = 0 /\ tag = 0 /\ begun = 0
      /\ media = [uploads |-> 0, doc |-> NoDoc]
      /\ plan = [r \in Runs |-> [i \in Items |-> PlannedSlug(i)]]
      /\ journal = [r \in Runs |-> [i \in Items |-> NoEntry]]
      /\ mediaJ = [r \in Runs |-> [i \in Items |-> NoLine]]
      /\ tagsMade = [r \in Runs |-> FALSE]
      /\ imp = NoImport /\ roll = NoRollback
      /\ crashes = 0 /\ lost = 0 /\ edits = 0 /\ touched = {}
  BY DEF Init
<1>2. Stored = {}
  BY <1>1 DEF Stored
<1>3. \A i \in Items : PlannedSlug(i) \in Slugs /\ PlannedSlug(i).item = i /\ PlannedSlug(i).name = 0
  BY BoundsAssumption DEF PlannedSlug, Slugs
<1>4. NoLine \in [origin: Origins, n: Nat]
  BY DEF NoLine, Origins
<1>5. TypeOK
  <2>1. art \in [Ids -> {NoRow} \cup Row] /\ last \in Nat /\ tag \in {0} \cup Runs /\ begun \in Nat
        /\ media \in [uploads: Nat, doc: {NoDoc} \cup Doc]
    BY <1>1
  <2>2. plan \in [Runs -> [Items -> Slugs]]
    BY <1>1, <1>3
  <2>3. journal \in [Runs -> [Items -> {NoEntry} \cup Entry]]
    BY <1>1
  <2>4. mediaJ \in [Runs -> [Items -> [origin: Origins, n: Nat]]]
    BY <1>1, <1>4
  <2>5. tagsMade \in [Runs -> BOOLEAN] /\ {crashes, lost, edits} \subseteq Nat /\ touched \subseteq Ids
        /\ imp \in {NoImport} \cup Import /\ roll \in {NoRollback} \cup Rollback
    BY <1>1
  <2>. QED BY <2>1, <2>2, <2>3, <2>4, <2>5 DEF TypeOK
<1>6. ~imp.on /\ ~roll.on /\ roll.doomed = {} /\ media.doc = NoDoc
  BY <1>1 DEF NoImport, NoRollback
<1>7. \A r \in Runs, i \in Items : EntryOf(r, i) = 0
  BY <1>1 DEF EntryOf, NoEntry
<1>8. Numbered
  BY <1>1, <1>2, <1>3, <1>7, SizesAssumption DEF Numbered
<1>9. SlugsUnique /\ JournalsFit /\ OrphansAreFound
  BY <1>2 DEF SlugsUnique, JournalsFit, OrphansAreFound
<1>10. ImageKnown
  BY <1>6 DEF ImageKnown
<1>11. Rolling
  BY <1>1, <1>6 DEF Rolling
<1>. QED BY <1>5, <1>6, <1>8, <1>9, <1>10, <1>11 DEF GtpInv, RowsInv

LEMMA GtpStep == GtpInv /\ [Next]_vars => GtpInv'
<1> SUFFICES ASSUME GtpInv, [Next]_vars PROVE GtpInv'
  OBVIOUS
<1>1. CASE UNCHANGED vars
  <2>1. TypeOK /\ RowsInv /\ ImageKnown /\ Rolling
    BY DEF GtpInv
  <2>2. UNCHANGED <<art, last, media, tag, begun, plan, journal, mediaJ, tagsMade, imp, roll,
                    crashes, lost, edits, touched>>
    BY <1>1 DEF vars
  <2>3. TypeOK'
    BY <2>1, <2>2 DEF TypeOK
  <2>4. RowsInv'
    BY <2>1, <2>2, RestsKeep
  <2>5. ImageKnown'
    BY <2>1, <2>2, ImageStays
  <2>6. Rolling'
    BY <2>1, <2>2 DEF Rolling, Stored
  <2>. QED BY <2>3, <2>4, <2>5, <2>6 DEF GtpInv
<1>2. CASE Start \/ Resume \/ ImportDies \/ RollDies
  BY <1>2, StartKeeps, ResumeKeeps, ImportDiesKeeps, RollDiesKeeps
<1>3. CASE ImportStep
  BY <1>3, ConsiderKeeps, EnsureHeroKeeps, UploadKeeps, JournalHeroKeeps, EnsureTagKeeps, CreateKeeps,
     RetryKeeps, ReadbackKeeps, FinishKeeps DEF ImportStep
<1>4. CASE \E r \in Runs : RollStart(r)
  BY <1>4, RollStartKeeps
<1>5. CASE RollStep
  BY <1>5, JudgeKeeps, DecideMediaKeeps, DeleteArticleKeeps, DeleteRestKeeps DEF RollStep
<1>6. CASE \E a \in Ids : Edit(a) \/ Remove(a)
  BY <1>6, EditKeeps, RemoveKeeps
<1>. QED BY <1>1, <1>2, <1>3, <1>4, <1>5, <1>6 DEF Next

LEMMA GtpInvHolds == Spec => []GtpInv
<1>. QED BY GtpStarts, GtpStep, PTL DEF Spec

(* A behaviour of the run is a behaviour of the import.                    *)
LEMMA ImportsMove == MCSpec => Spec
<1>1. MCInit => Init
  BY DEF MCInit
<1>2. [MCNext]_MCvars => [Next]_vars
  BY DEF MCNext, MCvars
<1>. QED BY <1>1, <1>2, PTL DEF MCSpec, Spec

(* Articles, run directories and the tools at work have their shapes.      *)
THEOREM TypeCorrect == MCSpec => []TypeOK
<1>1. GtpInv => TypeOK
  BY DEF GtpInv
<1>. QED BY <1>1, GtpInvHolds, ImportsMove, PTL

(* However imports die, are answered by errors, are resumed and run again, *)
(* no item has two articles under the slugs its runs planned, a run's      *)
(* journal names its own articles only, and the image it has uploaded.     *)
THEOREM JournalsStayTrue == MCSpec => []JournalsAreTrue
<1>1. GtpInv => JournalsAreTrue
  <2> SUFFICES ASSUME GtpInv PROVE JournalsAreTrue
    OBVIOUS
  <2>1. /\ TypeOK /\ ImageKnown /\ Numbered /\ SlugsUnique /\ JournalsFit
    BY DEF GtpInv, RowsInv
  <2>2. OneArticlePerItem
    <3> SUFFICES ASSUME NEW a \in Stored, NEW b \in Stored, art[a].item = art[b].item,
                        ~Renamed(a), ~Renamed(b)
                 PROVE  a = b
      BY DEF OneArticlePerItem
    <3>1. art[a].slug \in Slugs /\ art[b].slug \in Slugs
      BY <2>1, RowIs DEF Row
    <3>2. art[a].slug.item = art[b].slug.item /\ art[a].slug.name = 0 /\ art[b].slug.name = 0
      BY <2>1 DEF Numbered, Renamed
    <3>3. art[a].slug = art[b].slug
      BY <3>1, <3>2 DEF Slugs
    <3>. QED BY <2>1, <3>3 DEF SlugsUnique
  <2>3. JournaledByItsCreator
    BY <2>1 DEF JournaledByItsCreator, JournalsFit, JournaledBy, EntryOf
  <2>4. UploadsAreJournaled
    BY <2>1 DEF UploadsAreJournaled, ImageKnown, LinedAs, Lines
  <2>. QED BY <2>2, <2>3, <2>4 DEF JournalsAreTrue
<1>. QED BY <1>1, GtpInvHolds, ImportsMove, PTL

(* No rollback has an article on its list that people have changed, except *)
(* as it was created or after it was judged.                               *)
THEOREM EditsSurvive == MCSpec => []HumanEditsSurvive
<1>1. GtpInv => HumanEditsSurvive
  BY DEF GtpInv, Rolling, HumanEditsSurvive
<1>. QED BY <1>1, GtpInvHolds, ImportsMove, PTL

(* An import that has nothing to report leaves every item in a journal, and*)
(* no article that is in none.                                             *)
THEOREM CleanRunsCoverAll == MCSpec => CleanFinishCoversAll
<1>1. ASSUME GtpInv, Finish, ~imp.bad
      PROVE  /\ \A i \in Items : \E r \in Runs : journal[r][i] # NoEntry
             /\ \A a \in Stored : a \in Journaled \/ Renamed(a)
  <2>1. imp.on /\ imp.pc = "finish" /\ TypeOK /\ Working
    BY <1>1 DEF Finish, At, GtpInv, RowsInv
  <2>2. imp.item \in Nat /\ imp.item > NItems /\ NItems \in Nat
    BY <1>1, <2>1, ImportIs, SizesAssumption DEF Working
  <2>3. \A i \in Items : i < imp.item
    BY <2>2 DEF Items
  <2>4. \A i \in Items : Covered(i)
    BY <1>1, <2>1, <2>3 DEF Working
  <2>5. \A a \in Stored : art[a].item \in Items
    BY <2>1, RowIs DEF Row
  <2>. QED BY <2>4, <2>5 DEF Covered, Entered
<1>2. GtpInv /\ [Next]_vars =>
        [Finish /\ ~imp.bad =>
           /\ \A i \in Items : \E r \in Runs : journal[r][i] # NoEntry
           /\ \A a \in Stored : a \in Journaled \/ Renamed(a)]_vars
  BY <1>1
<1>. QED BY <1>2, GtpInvHolds, ImportsMove, PTL DEF Spec, CleanFinishCoversAll

(* Wherever a rollback takes the image from an article that is not on its  *)
(* list, it takes it from a live row under a draft with another hero.      *)
THEOREM SurvivorsShowTheirHero == MCSpec => SurvivorsKeepTheirHero
<1> DEFINE Spared == \A a \in Stored \ roll.doomed :
             /\ art'[a].hero = art[a].hero
             /\ art'[a].shown = art[a].shown \/ art[a].hero # art[a].shown
<1>1. ASSUME GtpInv, RollStep PROVE Spared
  <2>1. TypeOK /\ Rolling
    BY <1>1 DEF GtpInv
  <2>2. CASE UNCHANGED art
    BY <2>2
  <2>3. ASSUME NEW b \in Ids, DeleteArticle(b) PROVE Spared
    <3>1. b \in roll.doomed
      BY <2>1, <2>3 DEF Rolling, DeleteArticle, RollAt
    <3>2. \A a \in Ids \ {b} : art'[a] = art[a]
      BY <2>1, <2>3 DEF DeleteArticle, TypeOK
    <3>. QED BY <2>1, <3>1, <3>2, RowIs
  <2>4. CASE DeleteRest
    <3>1. art' = [a \in Ids |-> IF media.doc # NoDoc /\ media.doc.n = roll.heroDoomed /\ a \in Stored
                                THEN Without(art[a], media.doc.n) ELSE art[a]]
      BY <2>4 DEF DeleteRest
    <3>2. CASE media.doc # NoDoc /\ media.doc.n = roll.heroDoomed
      <4> SUFFICES ASSUME NEW a \in Stored, a \notin roll.doomed
                   PROVE  /\ art'[a].hero = art[a].hero
                          /\ art'[a].shown = art[a].shown \/ art[a].hero # art[a].shown
        OBVIOUS
      <4>1. art[a].hero # media.doc.n
        BY <2>1, <2>4, <3>2 DEF Rolling, DeleteRest, RollAt
      <4>2. a \in Ids /\ art[a] \in Row
        BY <2>1, RowIs
      <4>3. art'[a] = Without(art[a], media.doc.n)
        BY <3>1, <3>2, <4>2
      <4>. QED BY <4>1, <4>2, <4>3 DEF Without, Row
    <3>3. CASE ~(media.doc # NoDoc /\ media.doc.n = roll.heroDoomed)
      BY <2>1, <3>1, <3>3, RowIs
    <3>. QED BY <3>2, <3>3
  <2>5. CASE DecideMedia \/ \E i \in Items : Judge(i)
    BY <2>2, <2>5 DEF DecideMedia, Judge, central
  <2>. QED BY <1>1, <2>3, <2>4, <2>5 DEF RollStep
<1>2. GtpInv => [RollStep => Spared]_vars
  BY <1>1
<1> HIDE DEF Spared
<1>3. Spec => [][RollStep => Spared]_vars
  BY <1>2, GtpInvHolds, PTL DEF Spec
<1>. QED BY <1>3, ImportsMove, PTL DEF SurvivorsKeepTheirHero, Spared

-----------------------------------------------------------------------------
(* The instance has its own copies of the operators on finite sets.        *)
LEMMA ExportSizes ==
  /\ \A S : Export!IsFiniteSet(S) <=> IsFiniteSet(S)
  /\ \A S : Export!Cardinality(S) = Cardinality(S)
<1>1. \A S : Export!IsFiniteSet(S) <=> IsFiniteSet(S)
  BY DEF Export!IsFiniteSet, IsFiniteSet
<1>2. \A S : Export!Cardinality(S) = Cardinality(S)
  BY DEF Export!Cardinality, Cardinality
<1>. QED BY <1>1, <1>2

(* A finite set in some order: every element once.                         *)
LEMMA SetToSeqIs ==
  ASSUME NEW S, IsFiniteSet(S)
  PROVE  /\ Export!SetToSeq(S) \in Seq(S)
         /\ \A i, j \in DOMAIN Export!SetToSeq(S) :
              Export!SetToSeq(S)[i] = Export!SetToSeq(S)[j] => i = j
         /\ \A x \in S : \E i \in DOMAIN Export!SetToSeq(S) : Export!SetToSeq(S)[i] = x
<1> DEFINE n == Cardinality(S)
           f == CHOOSE f \in [1..n -> S] : Export!IsInjective(f)
<1>1. n \in Nat /\ ExistsBijection(1..n, S)
  BY FS_CardinalityType
<1>2. Export!SetToSeq(S) = f
  BY ExportSizes DEF Export!SetToSeq
<1>3. \E g \in [1..n -> S] : Export!IsInjective(g)
  BY <1>1 DEF ExistsBijection, Bijection, Injection, IsInjective, Export!IsInjective
<1>4. f \in [1..n -> S] /\ Export!IsInjective(f)
  BY <1>3
<1> HIDE DEF f
<1>5. f \in Injection(1..n, S)
  BY <1>4 DEF Injection, IsInjective, Export!IsInjective
<1>6. IsFiniteSet(1..n) /\ Cardinality(1..n) = n
  BY <1>1, FS_Interval
<1>7. f \in Surjection(1..n, S)
  BY <1>5, <1>6, FS_Injection
<1> HIDE DEF n
<1>8. f \in Seq(S) /\ DOMAIN f = 1..n
  BY <1>1, <1>4
<1>9. \A x \in S : \E i \in DOMAIN f : f[i] = x
  BY <1>7, <1>8 DEF Surjection
<1>. QED BY <1>2, <1>4, <1>8, <1>9 DEF Export!IsInjective

(***************************************************************************)
(* The import of an export: what a run has mapped is what it says, and in  *)
(* the order of the collections nothing is referred to before it is there. *)
(***************************************************************************)
Docs == Export!Docs
Work == [todo: Seq(Docs), map: [Docs -> Nat], pc: {"find", "create", "locale"}]

(* A run has its documents left, and its maps point at rows.               *)
WorkFits ==
  /\ rows \in Seq(Export!Row)
  /\ source \in [Subs -> Export!SubRef] \X [Documents -> Export!ArticleRef]
  /\ run # Idle =>
       /\ run \in Work /\ \A d \in Docs : run.map[d] <= Len(rows)
       /\ run.todo = <<>> => run.pc = "find"
       /\ run.todo # <<>> /\ run.pc = "create" =>
            /\ Export!Existing(Head(run.todo)) = {}
            /\ Head(run.todo) \in Subs => run.map[Export!Sub(Head(run.todo)).pillar] # 0
       /\ run.todo # <<>> /\ run.pc = "locale" => run.map[Head(run.todo)] # 0

(* The row of a document is the one with its key.                          *)
MapsRight == run # Idle => \A d \in Docs : run.map[d] # 0 =>
  /\ rows[run.map[d]].key = Export!KeyOf(d)
  /\ d \in Subs => run.map[Export!Sub(d).pillar] # 0

(* References are to rows; the pillar of a subsection is in its key.       *)
RowsRight == \A i \in DOMAIN rows :
  /\ {rows[i].pillar, rows[i].sub, rows[i].hero} \subseteq 0..Len(rows)
  /\ rows[i].key.doc = "sub" => rows[i].pillar = rows[i].key.pillar

ExportInv == WorkFits /\ MapsRight /\ RowsRight /\ Export!OneRowPerKey /\ Export!RefersAsExported

LEMMA DocsDiffer ==
  /\ Docs = Pillars \cup Subs \cup Pictures \cup Documents
  /\ \A p \in Pillars : p \notin Subs /\ p \notin Pictures /\ p \notin Documents
  /\ \A s \in Subs : s \notin Pictures /\ s \notin Documents
  /\ \A m \in Pictures : m \notin Documents /\ m \notin Nat
  /\ \A d \in Docs : d # "sub" /\ d # Nothing
<1>1. Docs = Pillars \cup Subs \cup Pictures \cup Documents
  BY DEF Docs, Export!Docs
<1>2. /\ Pillars \cap (Subs \cup Pictures \cup Documents) = {}
      /\ Subs \cap (Pictures \cup Documents) = {} /\ Pictures \cap Documents = {}
      /\ Docs \cap {"sub", Nothing} = {} /\ \A m \in Pictures : m \notin Nat
  BY ExportAssumption DEF Export!DocsAssumption, Docs
<1>. QED BY <1>1, <1>2

(* What the documents of the export refer to.                              *)
LEMMA SourceIs ==
  ASSUME WorkFits
  PROVE  /\ \A s \in Subs : Export!Sub(s).pillar \in Pillars
         /\ \A a \in Documents : Export!Article(a) \in Export!ArticleRef
BY DEF WorkFits, Export!Sub, Export!Article, Export!SubRef

LEMMA MappedIs ==
  ASSUME WorkFits, run # Idle
  PROVE  /\ \A d \in Docs : Export!Mapped(d) = run.map[d] /\ run.map[d] \in 0..Len(rows)
         /\ Export!Mapped(Nothing) = 0
         /\ \A d \in Docs \cup {Nothing} : Export!Mapped(d) \in 0..Len(rows)
<1>1. \A d \in Docs : Export!Mapped(d) = run.map[d]
  BY DocsDiffer DEF Export!Mapped
<1>2. Export!Mapped(Nothing) = 0
  BY DEF Export!Mapped
<1>3. Len(rows) \in Nat /\ \A d \in Docs : run.map[d] \in Nat /\ run.map[d] <= Len(rows)
  BY DEF WorkFits, Work
<1>. QED BY <1>1, <1>2, <1>3

LEMMA KeyIs ==
  ASSUME WorkFits, run # Idle, NEW d \in Docs
  PROVE  /\ Export!KeyOf(d) \in Export!Key
         /\ d \in Subs => /\ Export!KeyOf(d).doc = "sub"
                          /\ Export!KeyOf(d).pillar = run.map[Export!Sub(d).pillar]
         /\ d \notin Subs => Export!KeyOf(d).doc = d /\ Export!KeyOf(d).pillar = 0
<1>1. CASE d \in Subs
  <2>1. Export!Sub(d).pillar \in Docs
    BY <1>1, SourceIs, DocsDiffer
  <2>2. Export!KeyOf(d) = [doc |-> "sub", pillar |-> run.map[Export!Sub(d).pillar]]
    BY <1>1, <2>1, MappedIs DEF Export!KeyOf
  <2>3. run.map[Export!Sub(d).pillar] \in Nat
    BY <2>1 DEF WorkFits, Work
  <2>. QED BY <1>1, <2>2, <2>3 DEF Export!Key
<1>2. CASE d \notin Subs
  <2>1. Export!KeyOf(d) = [doc |-> d, pillar |-> 0]
    BY <1>2 DEF Export!KeyOf
  <2>. QED BY <1>2, <2>1 DEF Export!Key, Docs
<1>. QED BY <1>1, <1>2

(* The document at hand, and what is left behind it.                       *)
LEMMA HeadIs ==
  ASSUME WorkFits, run # Idle, run.todo # <<>>
  PROVE  /\ Head(run.todo) \in Docs /\ Export!Doc = Head(run.todo)
         /\ Tail(run.todo) \in Seq(Docs)
BY DEF WorkFits, Work, Export!Doc

-----------------------------------------------------------------------------
(* Rows are kept: what is written later is a locale.                       *)
RowsKept ==
  /\ rows' \in Seq(Export!Row) /\ Len(rows) <= Len(rows')
  /\ \A i \in DOMAIN rows : /\ rows'[i].key = rows[i].key /\ rows'[i].pillar = rows[i].pillar
                            /\ rows'[i].sub = rows[i].sub /\ rows'[i].hero = rows[i].hero

(* The work after a document was passed, or while it goes on, given a row  *)
(* for it, or none.                                                        *)
LEMMA MapsStay ==
  ASSUME WorkFits, MapsRight, RowsKept, UNCHANGED source, run # Idle, run' \in Work,
         NEW d \in Docs, NEW n \in 0..Len(rows'),
         run'.map = [run.map EXCEPT ![d] = n],
         n # 0 => /\ rows'[n].key = Export!KeyOf(d)
                  /\ d \in Subs => run.map[Export!Sub(d).pillar] # 0,
         run.map[d] # 0 => n = run.map[d]
  PROVE  /\ \A c \in Docs : run'.map[c] <= Len(rows')
         /\ MapsRight'
<1>1. Len(rows) \in Nat /\ Len(rows') \in Nat /\ Len(rows) <= Len(rows') /\ run.map \in [Docs -> Nat]
      /\ \A c \in Docs : run.map[c] <= Len(rows)
  BY DEF WorkFits, RowsKept, Work
<1>2. \A c \in Docs : run'.map[c] = IF c = d THEN n ELSE run.map[c]
  BY <1>1
<1>3. \A c \in Docs : run'.map[c] \in Nat /\ run'.map[c] <= Len(rows')
  BY <1>1, <1>2
<1>4. \A c \in Docs : run.map[c] # 0 => run'.map[c] = run.map[c] /\ run.map[c] \in DOMAIN rows
  <2>1. \A c \in Docs : run.map[c] # 0 => run.map[c] \in 1..Len(rows)
    BY <1>1
  <2>2. DOMAIN rows = 1..Len(rows)
    BY DEF WorkFits
  <2>. QED BY <1>2, <2>1, <2>2
<1>5. MapsRight'
  <2> SUFFICES ASSUME run' # Idle, NEW c \in Docs, run'.map[c] # 0
               PROVE  /\ rows'[run'.map[c]].key = Export!KeyOf(c)'
                      /\ c \in Subs => run'.map[Export!Sub(c)'.pillar] # 0
    BY DEF MapsRight
  <2>1. \A s \in Subs : Export!Sub(s)' = Export!Sub(s) /\ Export!Sub(s).pillar \in Docs
    BY SourceIs, DocsDiffer DEF Export!Sub
  <2>2. /\ rows'[run'.map[c]].key = Export!KeyOf(c)
        /\ c \in Subs => run.map[Export!Sub(c).pillar] # 0
    <3>1. CASE c = d
      BY <1>2, <3>1
    <3>2. CASE c # d
      <4>1. run'.map[c] = run.map[c]
        BY <1>2, <3>2
      <4>. QED BY <1>4, <4>1 DEF MapsRight, RowsKept
    <3>. QED BY <3>1, <3>2
  <2>3. c \in Subs => run'.map[Export!Sub(c).pillar] = run.map[Export!Sub(c).pillar]
    BY <1>4, <2>1, <2>2
  <2>4. Export!KeyOf(c)' = Export!KeyOf(c)
    <3>1. CASE c \in Subs
      <4>1. Export!Sub(c).pillar # Nothing
        BY <2>1, <3>1, DocsDiffer
      <4>2. Export!Mapped(Export!Sub(c).pillar)' = Export!Mapped(Export!Sub(c).pillar)
        BY <2>1, <2>3, <3>1, <4>1 DEF Export!Mapped
      <4>. QED BY <3>1, <4>2 DEF Export!KeyOf
    <3>2. CASE c \notin Subs
      BY <3>2 DEF Export!KeyOf
    <3>. QED BY <3>1, <3>2
  <2>. QED BY <2>1, <2>2, <2>3, <2>4
<1>. QED BY <1>3, <1>5

(* The references of row i are those of document a.                        *)
RefersAt(a, i) ==
  /\ rows[i].sub # 0 => rows[rows[i].sub].pillar # 0 /\
       rows[rows[rows[i].sub].pillar].key.doc = Export!Sub(Export!Article(a).sub).pillar
  /\ rows[i].hero # 0 => rows[rows[i].hero].key.doc = Export!Article(a).hero

(* RefersAsExported, one row at a time, before a step and after it.        *)
LEMMA RefersIs ==
  /\ Export!RefersAsExported <=>
       \A a \in Documents : \A i \in DOMAIN rows : rows[i].key.doc = a => RefersAt(a, i)
  /\ Export!RefersAsExported' <=>
       \A a \in Documents : \A i \in DOMAIN rows' : rows'[i].key.doc = a => RefersAt(a, i)'
<1>1. Export!RefersAsExported <=>
        \A a \in Documents : \A i \in DOMAIN rows : rows[i].key.doc = a => RefersAt(a, i)
  BY Zenon DEF Export!RefersAsExported, RefersAt
<1>2. Export!RefersAsExported' <=>
        \A a \in Documents : \A i \in DOMAIN rows' : rows'[i].key.doc = a => RefersAt(a, i)'
  BY Zenon DEF Export!RefersAsExported, RefersAt
<1>. QED BY <1>1, <1>2

(* The documents of the source site are read off the source alone.         *)
LEMMA DocumentsStay ==
  ASSUME UNCHANGED source
  PROVE  \A d : Export!Sub(d)' = Export!Sub(d) /\ Export!Article(d)' = Export!Article(d)
BY DEF Export!Sub, Export!Article

LEMMA RowsStay ==
  ASSUME WorkFits, RowsRight, Export!OneRowPerKey, Export!RefersAsExported, UNCHANGED source,
         RowsKept, Len(rows') = Len(rows)
  PROVE  RowsRight' /\ Export!OneRowPerKey' /\ Export!RefersAsExported'
<1>1. DOMAIN rows' = DOMAIN rows /\ DOMAIN rows = 1..Len(rows)
  BY DEF WorkFits, RowsKept
<1>2. RowsRight'
  BY <1>1 DEF RowsRight, RowsKept
<1>3. Export!OneRowPerKey'
  BY <1>1 DEF Export!OneRowPerKey, RowsKept
<1>4. Export!RefersAsExported'
  <2> SUFFICES ASSUME NEW a \in Documents, NEW i \in DOMAIN rows, rows'[i].key.doc = a
               PROVE  RefersAt(a, i)'
    BY <1>1, RefersIs
  <2>1. RefersAt(a, i)
    <3>1. rows[i].key.doc = a
      BY DEF RowsKept
    <3>. QED BY <3>1, RefersIs
  <2>2. \A k \in 0..Len(rows) : k # 0 => k \in DOMAIN rows
    BY <1>1
  <2>3. /\ rows[i].sub # 0 => rows[i].sub \in DOMAIN rows
        /\ rows[i].hero # 0 => rows[i].hero \in DOMAIN rows
        /\ \A j \in DOMAIN rows : rows[j].pillar # 0 => rows[j].pillar \in DOMAIN rows
    BY <2>2 DEF RowsRight
  <2>4. rows'[i].sub = rows[i].sub /\ rows'[i].hero = rows[i].hero
        /\ \A j \in DOMAIN rows : rows'[j].key = rows[j].key /\ rows'[j].pillar = rows[j].pillar
    BY DEF RowsKept
  <2>5. rows[i].sub # 0 =>
          /\ rows'[rows[i].sub].pillar # 0
          /\ rows'[rows'[rows[i].sub].pillar].key.doc = Export!Sub(Export!Article(a).sub).pillar
    BY <2>1, <2>3, <2>4 DEF RefersAt
  <2>6. rows[i].hero # 0 => rows'[rows[i].hero].key.doc = Export!Article(a).hero
    BY <2>1, <2>3, <2>4 DEF RefersAt
  <2>. QED BY <2>4, <2>5, <2>6, DocumentsStay DEF RefersAt
<1>. QED BY <1>2, <1>3, <1>4

LEMMA SameRowsAreKept == ASSUME WorkFits, rows' = rows PROVE RowsKept
<1>1. rows \in Seq(Export!Row) /\ Len(rows) \in Nat
  BY DEF WorkFits
<1>. QED BY <1>1 DEF RowsKept

LEMMA WorkIs ==
  \A todo \in Seq(Docs), map \in [Docs -> Nat], pc \in {"find", "create", "locale"} :
    [todo |-> todo, map |-> map, pc |-> pc] \in Work
BY DEF Work

(* A document is passed: no row is added, and the run knows its row or not.*)
LEMMA PassKeeps ==
  ASSUME ExportInv, run # Idle, run.todo # <<>>, NEW n \in 0..Len(rows),
         LET d == Head(run.todo) IN
           /\ run' = Export!Passed([run.map EXCEPT ![d] = n])
           /\ n # 0 => /\ rows[n].key = Export!KeyOf(d)
                       /\ d \in Subs => run.map[Export!Sub(d).pillar] # 0
           /\ run.map[d] # 0 => n = run.map[d],
         UNCHANGED source, RowsKept, Len(rows') = Len(rows)
  PROVE  ExportInv'
<1> DEFINE d == Head(run.todo)
<1>1. WorkFits /\ MapsRight /\ RowsRight /\ Export!OneRowPerKey /\ Export!RefersAsExported
  BY DEF ExportInv
<1>2. d \in Docs /\ Tail(run.todo) \in Seq(Docs) /\ run \in Work /\ Len(rows) \in Nat
  BY <1>1, HeadIs DEF WorkFits
<1>3. run' = [todo |-> Tail(run.todo), map |-> [run.map EXCEPT ![d] = n], pc |-> "find"]
  BY DEF Export!Passed
<1>4. run' \in Work /\ run'.map = [run.map EXCEPT ![d] = n] /\ run'.pc = "find"
  <2> DEFINE map == [run.map EXCEPT ![d] = n]
             todo == Tail(run.todo)
  <2>1. map \in [Docs -> Nat]
    BY <1>2 DEF Work
  <2>2. run' = [todo |-> todo, map |-> map, pc |-> "find"] /\ todo \in Seq(Docs)
    BY <1>2, <1>3
  <2> HIDE DEF map, todo
  <2>3. run' \in Work
    BY <2>1, <2>2, WorkIs
  <2>4. run'.map = map /\ run'.pc = "find"
    BY <2>2
  <2>. QED BY <2>3, <2>4 DEF map
<1>5. n # 0 => /\ rows'[n].key = Export!KeyOf(d)
               /\ d \in Subs => run.map[Export!Sub(d).pillar] # 0
  <2>1. n # 0 => n \in DOMAIN rows
    BY <1>1 DEF WorkFits
  <2>. QED BY <2>1 DEF RowsKept
<1>6. run.map[d] # 0 => n = run.map[d]
  OBVIOUS
<1>7. n \in 0..Len(rows')
  OBVIOUS
<1> HIDE DEF d
<1>8. (\A c \in Docs : run'.map[c] <= Len(rows')) /\ MapsRight'
  BY <1>1, <1>2, <1>4, <1>5, <1>6, <1>7, MapsStay
<1>9. RowsRight' /\ Export!OneRowPerKey' /\ Export!RefersAsExported'
  BY <1>1, RowsStay
<1>10. WorkFits'
  BY <1>1, <1>4, <1>8 DEF WorkFits, RowsKept
<1>. QED BY <1>8, <1>9, <1>10 DEF ExportInv

(* It is passed as it is.                                                  *)
LEMMA PassesBy ==
  ASSUME ExportInv, run # Idle, run.todo # <<>>, run' = Export!Passed(run.map),
         UNCHANGED source, RowsKept, Len(rows') = Len(rows)
  PROVE  ExportInv'
<1> DEFINE d == Head(run.todo)
           n == run.map[d]
<1>1. WorkFits /\ MapsRight
  BY DEF ExportInv
<1>2. d \in Docs /\ run.map \in [Docs -> Nat] /\ n \in 0..Len(rows)
  BY <1>1, HeadIs, MappedIs DEF WorkFits, Work
<1>3. run.map = [run.map EXCEPT ![d] = n]
  BY <1>2
<1>4. n # 0 => /\ rows[n].key = Export!KeyOf(d)
               /\ d \in Subs => run.map[Export!Sub(d).pillar] # 0
  BY <1>1, <1>2 DEF MapsRight
<1>5. run' = Export!Passed([run.map EXCEPT ![d] = n])
  BY <1>3
<1>. QED BY <1>2, <1>4, <1>5, PassKeeps

LEMMA FindKeeps ==
  ASSUME ExportInv, Export!Find
  PROVE  ExportInv'
<1> DEFINE d == Head(run.todo)
           n == CHOOSE i \in Export!Existing(d) : TRUE
<1>1. /\ WorkFits /\ MapsRight /\ RowsRight /\ Export!OneRowPerKey /\ Export!RefersAsExported
      /\ run # Idle /\ run.todo # <<>> /\ UNCHANGED <<source, rows>>
  BY DEF ExportInv, Export!Find, Export!At
<1>2. d \in Docs /\ Export!Doc = d /\ run \in Work
  BY <1>1, HeadIs DEF WorkFits
<1>3. RowsKept /\ Len(rows') = Len(rows)
  BY <1>1, SameRowsAreKept
<1>4. CASE run' = Export!Passed(run.map)
  BY <1>1, <1>3, <1>4, PassesBy
<1>5. d \in Subs => Export!Mapped(Export!Sub(d).pillar) = run.map[Export!Sub(d).pillar]
  BY <1>1, SourceIs, MappedIs, DocsDiffer
<1>6. CASE /\ ~(d \in Subs /\ Export!Mapped(Export!Sub(d).pillar) = 0)
           /\ Export!Existing(d) # {} /\ run' = Export!Passed([run.map EXCEPT ![d] = n])
  <2>1. n \in Export!Existing(d)
    BY <1>6
  <2> HIDE DEF n
  <2>2. n \in DOMAIN rows /\ rows[n].key = Export!KeyOf(d)
    BY <2>1 DEF Export!Existing
  <2>3. DOMAIN rows = 1..Len(rows) /\ Len(rows) \in Nat
    BY <1>1 DEF WorkFits
  <2>4. n \in 0..Len(rows)
    BY <2>2, <2>3
  <2>5. run.map[d] # 0 => n = run.map[d]
    <3>1. run.map[d] # 0 => run.map[d] \in DOMAIN rows /\ rows[run.map[d]].key = Export!KeyOf(d)
      BY <1>1, <1>2, <2>3, MappedIs DEF MapsRight
    <3>. QED BY <1>1, <2>2, <3>1 DEF Export!OneRowPerKey
  <2>6. d \in Subs => run.map[Export!Sub(d).pillar] # 0
    BY <1>5, <1>6
  <2>. QED BY <1>1, <1>3, <1>6, <2>2, <2>4, <2>5, <2>6, PassKeeps
<1>7. CASE /\ ~(d \in Subs /\ Export!Mapped(Export!Sub(d).pillar) = 0)
           /\ Export!Existing(d) = {} /\ run' = [run EXCEPT !.pc = "create"]
  <2>1. run' \in Work /\ run'.todo = run.todo /\ run'.map = run.map /\ run'.pc = "create"
    BY <1>2, <1>7 DEF Work
  <2>2. run.map[d] \in 0..Len(rows') /\ run'.map = [run.map EXCEPT ![d] = run.map[d]]
    BY <1>1, <1>2, <2>1, MappedIs DEF Work
  <2>3. run.map[d] # 0 => /\ rows'[run.map[d]].key = Export!KeyOf(d)
                          /\ d \in Subs => run.map[Export!Sub(d).pillar] # 0
    BY <1>1, <1>2 DEF MapsRight
  <2>4. (\A c \in Docs : run'.map[c] <= Len(rows')) /\ MapsRight'
    BY <1>1, <1>2, <1>3, <2>1, <2>2, <2>3, MapsStay
  <2>5. RowsRight' /\ Export!OneRowPerKey' /\ Export!RefersAsExported'
    BY <1>1, <1>3, RowsStay
  <2>6. Export!Existing(Head(run.todo))' = {}
    <3>1. Head(run.todo)' = d
      BY <2>1
    <3>2. \A c : Export!Mapped(c)' = Export!Mapped(c) /\ Export!Sub(c)' = Export!Sub(c)
      BY <1>1, <2>1 DEF Export!Mapped, Export!Sub
    <3>3. \A c : Export!KeyOf(c)' = Export!KeyOf(c)
      BY <3>2 DEF Export!KeyOf
    <3>. QED BY <1>1, <1>7, <3>1, <3>3 DEF Export!Existing
  <2>7. d \in Subs => run'.map[Export!Sub(d)'.pillar] # 0
    BY <1>1, <1>5, <1>7, <2>1 DEF Export!Sub
  <2>8. WorkFits'
    BY <1>1, <1>3, <2>1, <2>4, <2>6, <2>7 DEF WorkFits, RowsKept, Export!Sub
  <2>. QED BY <2>4, <2>5, <2>8 DEF ExportInv
<1>. QED BY <1>2, <1>4, <1>6, <1>7 DEF Export!Find

(* What is appended is as the export has it.                               *)
LEMMA NewRowIs ==
  ASSUME WorkFits, MapsRight, run # Idle, NEW d \in Docs, d \in Subs => run.map[Export!Sub(d).pillar] # 0
  PROVE  LET row == Export!NewRow(d) IN
         /\ row \in Export!Row /\ row.key = Export!KeyOf(d)
         /\ {row.pillar, row.sub, row.hero} \subseteq 0..Len(rows)
         /\ d \in Subs => row.pillar = run.map[Export!Sub(d).pillar]
         /\ d \in Documents => /\ row.sub = Export!Mapped(Export!Article(d).sub)
                               /\ row.hero = Export!Mapped(Export!Article(d).hero)
                               /\ row.body = Export!Body(d)
         /\ row.locales = IF d \in Pictures /\ Adopt THEN {} ELSE {"en"}
<1>1. Export!KeyOf(d) \in Export!Key /\ Len(rows) \in Nat
  BY KeyIs DEF WorkFits
<1>2. CASE d \in Documents
  <2>1. Export!Article(d) \in Export!ArticleRef
    BY <1>2, SourceIs
  <2>2. /\ Export!Article(d).pillar \in Docs
        /\ {Export!Article(d).sub, Export!Article(d).hero, Export!Article(d).body} \subseteq Docs \cup {Nothing}
        /\ Export!Article(d).body \in Pictures \cup {Nothing}
        /\ Export!Article(d).published \in BOOLEAN
    BY <2>1, DocsDiffer DEF Export!ArticleRef
  <2>3. \A c \in Docs \cup {Nothing} : Export!Mapped(c) \in 0..Len(rows) /\ Export!Mapped(c) \in Nat
    BY <1>1, MappedIs
  <2>4. Export!Body(d) \in Nat \cup Pictures \cup {Nothing}
    BY <2>2, <2>3 DEF Export!Body
  <2>5. Export!NewRow(d) =
          [key |-> Export!KeyOf(d), locales |-> {"en"}, pillar |-> Export!Mapped(Export!Article(d).pillar),
           sub |-> Export!Mapped(Export!Article(d).sub), hero |-> Export!Mapped(Export!Article(d).hero),
           body |-> Export!Body(d), public |-> Export!Article(d).published]
    BY <1>2 DEF Export!NewRow
  <2>6. d \notin Subs /\ d \notin Pictures
    BY <1>2, DocsDiffer
  <2>7. Export!NewRow(d) \in Export!Row
    BY <1>1, <2>2, <2>3, <2>4, <2>5 DEF Export!Row, Export!Locales
  <2>. QED BY <1>2, <2>2, <2>3, <2>5, <2>6, <2>7
<1>3. CASE d \in Subs
  <2>1. d \notin Documents /\ d \notin Pictures /\ Export!Sub(d).pillar \in Docs
    BY <1>3, DocsDiffer, SourceIs
  <2>2. Export!Mapped(Export!Sub(d).pillar) = run.map[Export!Sub(d).pillar]
        /\ run.map[Export!Sub(d).pillar] \in 0..Len(rows)
    BY <2>1, MappedIs
  <2>3. Export!NewRow(d) = [Export!With(Export!KeyOf(d), {"en"}) EXCEPT
                              !.pillar = run.map[Export!Sub(d).pillar]]
    BY <1>3, <2>1, <2>2 DEF Export!NewRow
  <2>4. Export!NewRow(d) =
          [key |-> Export!KeyOf(d), locales |-> {"en"}, pillar |-> run.map[Export!Sub(d).pillar],
           sub |-> 0, hero |-> 0, body |-> Nothing, public |-> FALSE]
    BY <2>3 DEF Export!With
  <2>5. Export!NewRow(d) \in Export!Row
    BY <1>1, <2>2, <2>4 DEF Export!Row, Export!Locales
  <2>. QED BY <1>1, <1>3, <2>1, <2>2, <2>4, <2>5
<1>4. CASE d \notin Documents /\ d \notin Subs
  <2>1. PICK locales \in {{}, {"en"}} :
          /\ Export!NewRow(d) = Export!With(Export!KeyOf(d), locales)
          /\ locales = IF d \in Pictures /\ Adopt THEN {} ELSE {"en"}
    BY <1>4 DEF Export!NewRow
  <2>2. Export!NewRow(d) =
          [key |-> Export!KeyOf(d), locales |-> locales, pillar |-> 0,
           sub |-> 0, hero |-> 0, body |-> Nothing, public |-> FALSE]
    BY <2>1 DEF Export!With
  <2>3. Export!NewRow(d) \in Export!Row
    BY <1>1, <2>2 DEF Export!Row, Export!Locales
  <2> DEFINE row == Export!NewRow(d)
  <2>4. row.key = Export!KeyOf(d) /\ row.pillar = 0 /\ row.sub = 0 /\ row.hero = 0
        /\ row.locales = locales
    BY <2>2
  <2>5. 0 \in 0..Len(rows)
    BY <1>1
  <2> HIDE DEF row
  <2>. QED BY <1>4, <2>1, <2>3, <2>4, <2>5 DEF row
<1>. QED BY <1>2, <1>3, <1>4

(* An article's section and hero, as the maps give them.                   *)
LEMMA NewRefersRight ==
  ASSUME WorkFits, MapsRight, RowsRight, run # Idle, NEW a \in Documents
  PROVE  LET s == Export!Mapped(Export!Article(a).sub)
             h == Export!Mapped(Export!Article(a).hero) IN
         /\ s # 0 => /\ rows[s].pillar # 0
                     /\ rows[rows[s].pillar].key.doc = Export!Sub(Export!Article(a).sub).pillar
         /\ h # 0 => rows[h].key.doc = Export!Article(a).hero
<1> DEFINE sub == Export!Article(a).sub
           hero == Export!Article(a).hero
<1>1. sub \in Subs \cup {Nothing} /\ hero \in Pictures \cup {Nothing}
  BY SourceIs DEF Export!ArticleRef
<1> HIDE DEF sub, hero
<1>2. ASSUME Export!Mapped(sub) # 0
      PROVE  LET s == Export!Mapped(sub) IN
             rows[s].pillar # 0 /\ rows[rows[s].pillar].key.doc = Export!Sub(sub).pillar
  <2>1. sub \in Subs /\ sub \in Docs /\ Export!Mapped(sub) = run.map[sub]
    BY <1>1, <1>2, MappedIs, DocsDiffer
  <2>2. Export!Sub(sub).pillar \in Pillars /\ Export!Sub(sub).pillar \in Docs
        /\ Export!Sub(sub).pillar \notin Subs
    BY <2>1, SourceIs, DocsDiffer
  <2>3. /\ rows[run.map[sub]].key = Export!KeyOf(sub)
        /\ run.map[Export!Sub(sub).pillar] # 0
    BY <1>2, <2>1 DEF MapsRight
  <2>4. rows[run.map[sub]].key.doc = "sub"
        /\ rows[run.map[sub]].key.pillar = run.map[Export!Sub(sub).pillar]
    BY <2>1, <2>3, KeyIs
  <2>5. run.map[sub] \in DOMAIN rows
    <3>1. DOMAIN rows = 1..Len(rows) /\ run.map[sub] \in 0..Len(rows) /\ run.map[sub] # 0
      BY <1>2, <2>1, MappedIs DEF WorkFits
    <3>. QED BY <3>1
  <2>6. rows[run.map[sub]].pillar = run.map[Export!Sub(sub).pillar]
    BY <2>4, <2>5 DEF RowsRight
  <2>7. rows[run.map[Export!Sub(sub).pillar]].key = Export!KeyOf(Export!Sub(sub).pillar)
    BY <2>2, <2>3 DEF MapsRight
  <2>8. Export!KeyOf(Export!Sub(sub).pillar).doc = Export!Sub(sub).pillar
    BY <2>2, KeyIs
  <2>. QED BY <2>1, <2>3, <2>6, <2>7, <2>8
<1>3. ASSUME Export!Mapped(hero) # 0
      PROVE  rows[Export!Mapped(hero)].key.doc = hero
  <2>1. hero \in Docs /\ hero \notin Subs /\ Export!Mapped(hero) = run.map[hero]
    BY <1>1, <1>3, MappedIs, DocsDiffer
  <2>2. rows[run.map[hero]].key = Export!KeyOf(hero)
    BY <1>3, <2>1 DEF MapsRight
  <2>. QED BY <2>1, <2>2, KeyIs
<1>. QED BY <1>2, <1>3 DEF sub, hero

LEMMA RowCreateKeeps ==
  ASSUME ExportInv, Export!Create
  PROVE  ExportInv'
<1> DEFINE d == Head(run.todo)
           row == Export!NewRow(d)
           n == Len(rows) + 1
<1>1. /\ WorkFits /\ MapsRight /\ RowsRight /\ Export!OneRowPerKey /\ Export!RefersAsExported
      /\ run # Idle /\ run.todo # <<>> /\ run.pc = "create" /\ UNCHANGED source
  BY DEF ExportInv, Export!Create, Export!At
<1>2. d \in Docs /\ Export!Doc = d /\ Tail(run.todo) \in Seq(Docs) /\ run \in Work
  BY <1>1, HeadIs DEF WorkFits
<1>3. Export!Existing(d) = {} /\ (d \in Subs => run.map[Export!Sub(d).pillar] # 0)
  BY <1>1 DEF WorkFits
<1>4. rows' = Append(rows, row)
  BY <1>2 DEF Export!Create
<1>5. /\ row \in Export!Row /\ row.key = Export!KeyOf(d)
      /\ {row.pillar, row.sub, row.hero} \subseteq 0..Len(rows)
      /\ d \in Subs => row.pillar = run.map[Export!Sub(d).pillar]
      /\ d \in Documents => /\ row.sub = Export!Mapped(Export!Article(d).sub)
                            /\ row.hero = Export!Mapped(Export!Article(d).hero)
  BY <1>1, <1>2, <1>3, NewRowIs
<1>6. LET map == [run.map EXCEPT ![d] = n] IN
      run' = IF Export!Afterwards(d) = {} THEN Export!Passed(map)
             ELSE [run EXCEPT !.map = map, !.pc = "locale"]
  BY <1>2 DEF Export!Create
<1>7. \A c \in Documents : d = c \/ Export!KeyOf(d).doc # c
  BY <1>1, <1>2, KeyIs, DocsDiffer
<1>8. Export!KeyOf(d).doc = "sub" => d \in Subs
  BY <1>1, <1>2, KeyIs, DocsDiffer
<1>9. d \in Subs => Export!KeyOf(d).pillar = run.map[Export!Sub(d).pillar]
  BY <1>1, <1>2, KeyIs
<1>10. \A a \in Documents : d = a =>
         /\ row.sub # 0 => /\ rows[row.sub].pillar # 0
                           /\ rows[rows[row.sub].pillar].key.doc = Export!Sub(Export!Article(a).sub).pillar
         /\ row.hero # 0 => rows[row.hero].key.doc = Export!Article(a).hero
  BY <1>1, <1>5, NewRefersRight
<1> HIDE DEF d, row
<1>11. /\ rows \in Seq(Export!Row) /\ Len(rows) \in Nat /\ rows' \in Seq(Export!Row)
       /\ Len(rows') = n /\ DOMAIN rows = 1..Len(rows) /\ DOMAIN rows' = 1..n
       /\ rows'[n] = row /\ \A i \in DOMAIN rows : rows'[i] = rows[i]
  BY <1>1, <1>4, <1>5 DEF WorkFits
<1>12. RowsKept
  BY <1>11 DEF RowsKept
<1>13. /\ run' \in Work /\ run'.map = [run.map EXCEPT ![d] = n]
       /\ run'.pc = "find" \/ (run'.todo = run.todo /\ run'.pc = "locale")
  <2> DEFINE map == [run.map EXCEPT ![d] = n]
             todo == Tail(run.todo)
  <2>1. map \in [Docs -> Nat] /\ run \in Work /\ todo \in Seq(Docs)
    BY <1>2, <1>11 DEF Work, d
  <2>2. \/ run' = [todo |-> todo, map |-> map, pc |-> "find"]
        \/ run' = [run EXCEPT !.map = map, !.pc = "locale"]
    BY <1>6 DEF Export!Passed
  <2> HIDE DEF map, todo
  <2>3. CASE run' = [todo |-> todo, map |-> map, pc |-> "find"]
    <3>1. run' \in Work
      BY <2>1, <2>3, WorkIs
    <3>2. run'.map = map /\ run'.pc = "find"
      BY <2>3
    <3>. QED BY <3>1, <3>2 DEF map
  <2>4. CASE run' = [run EXCEPT !.map = map, !.pc = "locale"]
    <3>1. run' \in Work /\ run'.map = map /\ run'.pc = "locale" /\ run'.todo = run.todo
      BY <2>1, <2>4 DEF Work
    <3>. QED BY <3>1 DEF map
  <2>. QED BY <2>2, <2>3, <2>4
<1>14. run.map[d] = 0
  <2>1. run.map[d] # 0 => run.map[d] \in DOMAIN rows
    BY <1>1, <1>2, <1>11, MappedIs
  <2>2. run.map[d] # 0 => rows[run.map[d]].key = Export!KeyOf(d)
    BY <1>1, <1>2 DEF MapsRight
  <2>. QED BY <1>3, <2>1, <2>2 DEF Export!Existing, d
<1>15. n \in 0..Len(rows') /\ rows'[n].key = Export!KeyOf(d)
  BY <1>5, <1>11
<1>16. d \in Subs => run.map[Export!Sub(d).pillar] # 0
  BY <1>3
<1>17. (\A c \in Docs : run'.map[c] <= Len(rows')) /\ MapsRight'
  <2> HIDE DEF n
  <2>. QED BY <1>1, <1>2, <1>12, <1>13, <1>14, <1>15, <1>16, MapsStay
<1>18. WorkFits'
  <2>1. run'.pc = "locale" => run'.map[Head(run'.todo)] # 0
    <3>1. run'.pc = "locale" => Head(run'.todo) = d
      BY <1>13 DEF d
    <3>2. run'.map[d] = n /\ n # 0
      BY <1>2, <1>11, <1>13 DEF Work
    <3>. QED BY <3>1, <3>2
  <2>2. run'.todo = <<>> => run'.pc = "find"
    BY <1>1, <1>13
  <2>. QED BY <1>1, <1>11, <1>13, <1>17, <2>1, <2>2 DEF WorkFits
<1>19. RowsRight'
  <2> SUFFICES ASSUME NEW i \in 1..n
               PROVE  /\ {rows'[i].pillar, rows'[i].sub, rows'[i].hero} \subseteq 0..n
                      /\ rows'[i].key.doc = "sub" => rows'[i].pillar = rows'[i].key.pillar
    BY <1>11 DEF RowsRight
  <2>1. 0..Len(rows) \subseteq 0..n
    BY <1>11
  <2>2. CASE i \in DOMAIN rows
    <3>1. /\ {rows[i].pillar, rows[i].sub, rows[i].hero} \subseteq 0..Len(rows)
          /\ rows[i].key.doc = "sub" => rows[i].pillar = rows[i].key.pillar
      BY <1>1, <2>2 DEF RowsRight
    <3>2. rows'[i] = rows[i]
      BY <1>11, <2>2
    <3> HIDE DEF n
    <3>. QED BY <2>1, <3>1, <3>2
  <2>3. CASE i = n
    <3>1. rows'[i] = row
      BY <1>11, <2>3
    <3> HIDE DEF n
    <3>. QED BY <1>5, <1>8, <1>9, <2>1, <3>1
  <2>. QED BY <1>11, <2>2, <2>3
<1>20. Export!OneRowPerKey'
  <2>1. \A i \in DOMAIN rows : rows[i].key # row.key
    BY <1>3, <1>5 DEF Export!Existing, d
  <2>2. \A i \in 1..n : i \in DOMAIN rows \/ i = n
    BY <1>11
  <2>3. \A i, j \in DOMAIN rows : rows[i].key = rows[j].key => i = j
    BY <1>1 DEF Export!OneRowPerKey
  <2> HIDE DEF n
  <2>4. \A i, j \in 1..n : rows'[i].key = rows'[j].key => i = j
    BY <1>11, <2>1, <2>2, <2>3
  <2>. QED BY <1>11, <2>4 DEF Export!OneRowPerKey
<1>21. Export!RefersAsExported'
  <2>0. DOMAIN rows' = 1..n /\ UNCHANGED source
    BY <1>1, <1>11
  <2> SUFFICES ASSUME NEW a \in Documents, NEW i \in 1..n, rows'[i].key.doc = a
               PROVE  RefersAt(a, i)'
    BY <2>0, RefersIs
  <2>1. \A k \in 0..Len(rows) : k # 0 => k \in DOMAIN rows
    BY <1>11
  <2>2. \A k \in DOMAIN rows : rows[k].pillar # 0 => rows[k].pillar \in DOMAIN rows
    BY <1>1, <2>1 DEF RowsRight
  <2>3. i \in DOMAIN rows \/ i = n
    BY <1>11
  <2> HIDE DEF n
  <2>4. CASE i \in DOMAIN rows
    <3>1. rows'[i] = rows[i]
      BY <1>11, <2>4
    <3>2. /\ rows[i].sub # 0 => rows[i].sub \in DOMAIN rows
          /\ rows[i].hero # 0 => rows[i].hero \in DOMAIN rows
      BY <1>1, <2>1, <2>4 DEF RowsRight
    <3>3. RefersAt(a, i)
      BY <1>1, <2>4, <3>1, RefersIs
    <3>4. rows'[i].sub # 0 =>
            /\ rows'[rows'[i].sub].pillar # 0
            /\ rows'[rows'[rows'[i].sub].pillar].key.doc = Export!Sub(Export!Article(a).sub).pillar
      <4> SUFFICES ASSUME rows[i].sub # 0
                   PROVE  /\ rows'[rows[i].sub].pillar # 0
                          /\ rows'[rows'[rows[i].sub].pillar].key.doc = Export!Sub(Export!Article(a).sub).pillar
        BY <3>1
      <4>1. rows[i].sub \in DOMAIN rows /\ rows'[rows[i].sub] = rows[rows[i].sub]
        BY <1>11, <3>2
      <4>2. /\ rows[rows[i].sub].pillar # 0
            /\ rows[rows[rows[i].sub].pillar].key.doc = Export!Sub(Export!Article(a).sub).pillar
        BY <3>3 DEF RefersAt
      <4>3. rows'[rows[rows[i].sub].pillar] = rows[rows[rows[i].sub].pillar]
        BY <1>11, <2>2, <4>1, <4>2
      <4>. QED BY <4>1, <4>2, <4>3
    <3>5. rows'[i].hero # 0 => rows'[rows'[i].hero].key.doc = Export!Article(a).hero
      BY <1>11, <3>1, <3>2, <3>3 DEF RefersAt
    <3>. QED BY <2>0, <3>4, <3>5, DocumentsStay DEF RefersAt
  <2>5. CASE i = n
    <3>1. rows'[i] = row
      BY <1>11, <2>5
    <3>2. d = a
      BY <1>5, <1>7, <3>1
    <3>3. /\ row.sub # 0 => row.sub \in DOMAIN rows
          /\ row.hero # 0 => row.hero \in DOMAIN rows
      BY <1>5, <2>1
    <3>4. /\ row.sub # 0 => /\ rows[row.sub].pillar # 0
                            /\ rows[rows[row.sub].pillar].key.doc = Export!Sub(Export!Article(a).sub).pillar
          /\ row.hero # 0 => rows[row.hero].key.doc = Export!Article(a).hero
      BY <1>10, <3>2
    <3>5. row.sub # 0 =>
            /\ rows'[row.sub].pillar # 0
            /\ rows'[rows'[row.sub].pillar].key.doc = Export!Sub(Export!Article(a).sub).pillar
      BY <1>11, <2>2, <3>3, <3>4
    <3>6. row.hero # 0 => rows'[row.hero].key.doc = Export!Article(a).hero
      BY <1>11, <3>3, <3>4
    <3>. QED BY <2>0, <3>1, <3>5, <3>6, DocumentsStay DEF RefersAt
  <2>. QED BY <2>3, <2>4, <2>5
<1>. QED BY <1>17, <1>18, <1>19, <1>20, <1>21 DEF ExportInv

LEMMA CreateFailsKeeps ==
  ASSUME ExportInv, Export!CreateFails
  PROVE  ExportInv'
<1>1. /\ WorkFits /\ run # Idle /\ run.todo # <<>> /\ run' = Export!Passed(run.map)
      /\ UNCHANGED <<source, rows>>
  BY DEF ExportInv, Export!CreateFails, Export!At
<1>2. RowsKept /\ Len(rows') = Len(rows)
  BY <1>1, SameRowsAreKept
<1>. QED BY <1>1, <1>2, PassesBy

LEMMA LocaleFailsKeeps ==
  ASSUME ExportInv, Export!LocaleFails
  PROVE  ExportInv'
<1>1. /\ WorkFits /\ run # Idle /\ run.todo # <<>> /\ run' = Export!Passed(run.map)
      /\ UNCHANGED <<source, rows>>
  BY DEF ExportInv, Export!LocaleFails, Export!At
<1>2. RowsKept /\ Len(rows') = Len(rows)
  BY <1>1, SameRowsAreKept
<1>. QED BY <1>1, <1>2, PassesBy

(* A locale is written into the row of the document at hand.               *)
LEMMA WriteLocaleKeeps ==
  ASSUME ExportInv, Export!WriteLocale
  PROVE  ExportInv'
<1>1. /\ WorkFits /\ MapsRight /\ RowsRight /\ Export!OneRowPerKey /\ Export!RefersAsExported
      /\ run # Idle /\ run.todo # <<>> /\ run.pc = "locale" /\ UNCHANGED source
  BY DEF ExportInv, Export!WriteLocale, Export!At
<1>2. CASE run' = Export!Passed(run.map) /\ UNCHANGED rows
  BY <1>1, <1>2, SameRowsAreKept, PassesBy
<1>3. CASE UNCHANGED run /\ \E loc \in Export!Locales :
             rows' = [rows EXCEPT ![run.map[Export!Doc]].locales = @ \cup {loc}]
  <2> DEFINE k == run.map[Export!Doc]
  <2>1. PICK loc \in Export!Locales : rows' = [rows EXCEPT ![k].locales = @ \cup {loc}]
    BY <1>3
  <2>2. k \in DOMAIN rows /\ rows \in Seq(Export!Row) /\ Len(rows) \in Nat
    <3>1. Export!Doc = Head(run.todo) /\ Head(run.todo) \in Docs
      BY <1>1, HeadIs
    <3>2. k # 0 /\ k \in 0..Len(rows) /\ DOMAIN rows = 1..Len(rows)
      BY <1>1, <3>1, MappedIs DEF WorkFits
    <3>. QED BY <1>1, <3>2 DEF WorkFits
  <2> HIDE DEF k
  <2>3. rows[k] \in Export!Row
    BY <2>2
  <2>4. [rows[k] EXCEPT !.locales = @ \cup {loc}] \in Export!Row
    BY <2>3 DEF Export!Row
  <2>5. rows' = [rows EXCEPT ![k] = [rows[k] EXCEPT !.locales = @ \cup {loc}]]
    BY <2>1
  <2>6. rows' \in Seq(Export!Row) /\ Len(rows') = Len(rows)
    BY <2>2, <2>4, <2>5
  <2>7. \A i \in DOMAIN rows : i # k => rows'[i] = rows[i]
    BY <2>2, <2>5
  <2>8. rows'[k] = [rows[k] EXCEPT !.locales = @ \cup {loc}]
    BY <2>2, <2>5
  <2>9. /\ rows'[k].key = rows[k].key /\ rows'[k].pillar = rows[k].pillar
        /\ rows'[k].sub = rows[k].sub /\ rows'[k].hero = rows[k].hero
    BY <2>3, <2>8 DEF Export!Row
  <2>10. RowsKept
    BY <2>2, <2>6, <2>7, <2>9 DEF RowsKept
  <2>11. RowsRight' /\ Export!OneRowPerKey' /\ Export!RefersAsExported'
    BY <1>1, <2>6, <2>10, RowsStay
  <2>12. run' = run /\ run \in Work /\ run.todo # <<>>
    BY <1>1, <1>3 DEF WorkFits
  <2>13. LET d == Head(run.todo) IN
         /\ d \in Docs /\ run.map[d] \in 0..Len(rows') /\ run'.map = [run.map EXCEPT ![d] = run.map[d]]
         /\ run.map[d] # 0 => /\ rows'[run.map[d]].key = Export!KeyOf(d)
                              /\ d \in Subs => run.map[Export!Sub(d).pillar] # 0
    <3> DEFINE d == Head(run.todo)
    <3>1. d \in Docs /\ run.map[d] \in 0..Len(rows)
      BY <1>1, HeadIs, MappedIs
    <3>2. run.map[d] # 0 => run.map[d] \in DOMAIN rows
      BY <3>1, <2>2
    <3>3. run.map[d] # 0 => /\ rows[run.map[d]].key = Export!KeyOf(d)
                            /\ d \in Subs => run.map[Export!Sub(d).pillar] # 0
      BY <1>1, <3>1 DEF MapsRight
    <3>4. run.map = [run.map EXCEPT ![d] = run.map[d]]
      BY <2>12, <3>1 DEF Work
    <3> HIDE DEF d
    <3>5. run.map[d] # 0 => rows'[run.map[d]].key = rows[run.map[d]].key
      BY <3>2, <2>10 DEF RowsKept
    <3>6. run'.map = [run.map EXCEPT ![d] = run.map[d]]
      BY <2>12, <3>4
    <3>. QED BY <2>6, <3>1, <3>3, <3>5, <3>6 DEF d
  <2>14. MapsRight'
    <3> DEFINE d == Head(run.todo)
               n == run.map[d]
    <3>1. /\ d \in Docs /\ n \in 0..Len(rows') /\ run'.map = [run.map EXCEPT ![d] = n]
          /\ n # 0 => /\ rows'[n].key = Export!KeyOf(d)
                      /\ d \in Subs => run.map[Export!Sub(d).pillar] # 0
          /\ run.map[d] # 0 => n = run.map[d]
      BY <2>13
    <3>2. run' \in Work
      BY <2>12
    <3> HIDE DEF d, n
    <3>. QED BY <1>1, <2>10, <3>1, <3>2, MapsStay
  <2>15. WorkFits'
    BY <1>1, <2>6, <2>12 DEF WorkFits, Export!Sub
  <2>. QED BY <2>11, <2>14, <2>15 DEF ExportInv
<1>. QED BY <1>2, <1>3 DEF Export!WriteLocale, Export!Missing, Export!Afterwards, Export!Locales

(* Without a run at work there is nothing to be said of one.               *)
LEMMA StopKeeps ==
  ASSUME ExportInv, run' = Idle, UNCHANGED <<source, rows>>
  PROVE  ExportInv'
<1>1. WorkFits /\ RowsRight /\ Export!OneRowPerKey /\ Export!RefersAsExported
  BY DEF ExportInv
<1>2. RowsKept /\ Len(rows') = Len(rows)
  BY <1>1, SameRowsAreKept
<1>3. RowsRight' /\ Export!OneRowPerKey' /\ Export!RefersAsExported'
  BY <1>1, <1>2, RowsStay
<1>4. WorkFits' /\ MapsRight'
  BY <1>1 DEF WorkFits, MapsRight
<1>. QED BY <1>3, <1>4 DEF ExportInv

(* The plan has every document, and no other.                              *)
LEMMA ExportPlanIs ==
  /\ Export!Plan \in Seq(Docs)
  /\ \A d \in Docs : \E i \in DOMAIN Export!Plan : Export!Plan[i] = d
<1>1. IsFiniteSet(Pillars) /\ IsFiniteSet(Subs) /\ IsFiniteSet(Pictures) /\ IsFiniteSet(Documents)
  BY ExportAssumption, ExportSizes DEF Export!DocsAssumption
<1> DEFINE P == Export!SetToSeq(Pillars)
           S == Export!SetToSeq(Subs)
           M == Export!SetToSeq(Pictures)
           A == Export!SetToSeq(Documents)
<1>2. /\ P \in Seq(Pillars) /\ \A x \in Pillars : \E i \in DOMAIN P : P[i] = x
      /\ S \in Seq(Subs) /\ \A x \in Subs : \E i \in DOMAIN S : S[i] = x
      /\ M \in Seq(Pictures) /\ \A x \in Pictures : \E i \in DOMAIN M : M[i] = x
      /\ A \in Seq(Documents) /\ \A x \in Documents : \E i \in DOMAIN A : A[i] = x
  BY <1>1, SetToSeqIs
<1>3. Export!Plan = P \o S \o M \o A
  BY DEF Export!Plan
<1> HIDE DEF P, S, M, A
<1>4. P \in Seq(Docs) /\ S \in Seq(Docs) /\ M \in Seq(Docs) /\ A \in Seq(Docs)
  <2>1. Pillars \subseteq Docs /\ Subs \subseteq Docs /\ Pictures \subseteq Docs /\ Documents \subseteq Docs
    BY DocsDiffer
  <2>2. ASSUME NEW T, T \subseteq Docs, NEW q \in Seq(T) PROVE q \in Seq(Docs)
    BY <2>2
  <2>. QED BY <1>2, <2>1, <2>2
<1>5. ASSUME NEW q \in Seq(Docs), NEW r \in Seq(Docs)
      PROVE  /\ q \o r \in Seq(Docs)
             /\ \A i \in DOMAIN q : \E j \in DOMAIN (q \o r) : (q \o r)[j] = q[i]
             /\ \A i \in DOMAIN r : \E j \in DOMAIN (q \o r) : (q \o r)[j] = r[i]
  <2>1. /\ q \o r \in Seq(Docs) /\ Len(q \o r) = Len(q) + Len(r) /\ Len(q) \in Nat /\ Len(r) \in Nat
        /\ DOMAIN q = 1..Len(q) /\ DOMAIN r = 1..Len(r) /\ DOMAIN (q \o r) = 1..Len(q \o r)
    OBVIOUS
  <2>2. \A i \in DOMAIN q : i \in DOMAIN (q \o r) /\ (q \o r)[i] = q[i]
    BY <2>1
  <2>3. \A i \in DOMAIN r : Len(q) + i \in DOMAIN (q \o r) /\ (q \o r)[Len(q) + i] = r[i]
    BY <2>1
  <2>. QED BY <2>1, <2>2, <2>3
<1> DEFINE Has(q, T) == \A x \in T : \E i \in DOMAIN q : q[i] = x
<1>6. ASSUME NEW q \in Seq(Docs), NEW r \in Seq(Docs), NEW T, NEW U, Has(q, T), Has(r, U)
      PROVE  q \o r \in Seq(Docs) /\ Has(q \o r, T \cup U)
  <2>1. q \o r \in Seq(Docs)
    BY <1>5
  <2>2. ASSUME NEW x \in T PROVE \E j \in DOMAIN (q \o r) : (q \o r)[j] = x
    <3>1. PICK i \in DOMAIN q : q[i] = x
      BY <1>6
    <3>2. \E j \in DOMAIN (q \o r) : (q \o r)[j] = q[i]
      BY <1>5
    <3>. QED BY <3>1, <3>2
  <2>3. ASSUME NEW x \in U PROVE \E j \in DOMAIN (q \o r) : (q \o r)[j] = x
    <3>1. PICK i \in DOMAIN r : r[i] = x
      BY <1>6
    <3>2. \E j \in DOMAIN (q \o r) : (q \o r)[j] = r[i]
      BY <1>5
    <3>. QED BY <3>1, <3>2
  <2>. QED BY <2>1, <2>2, <2>3
<1>7. Has(P, Pillars) /\ Has(S, Subs) /\ Has(M, Pictures) /\ Has(A, Documents)
  BY <1>2
<1> HIDE DEF Has
<1>8. P \o S \in Seq(Docs) /\ Has(P \o S, Pillars \cup Subs)
  BY <1>4, <1>6, <1>7
<1>9. P \o S \o M \in Seq(Docs) /\ Has(P \o S \o M, Pillars \cup Subs \cup Pictures)
  BY <1>4, <1>6, <1>7, <1>8
<1>10. P \o S \o M \o A \in Seq(Docs) /\ Has(P \o S \o M \o A, Pillars \cup Subs \cup Pictures \cup Documents)
  BY <1>4, <1>6, <1>7, <1>9
<1>. QED BY <1>3, <1>10, DocsDiffer DEF Has

LEMMA ExportStartKeeps ==
  ASSUME ExportInv, Export!Start
  PROVE  ExportInv'
<1>1. /\ WorkFits /\ RowsRight /\ Export!OneRowPerKey /\ Export!RefersAsExported
      /\ UNCHANGED <<source, rows>>
      /\ run' = [todo |-> Export!Plan, map |-> [d \in Docs |-> 0], pc |-> "find"]
  BY DEF ExportInv, Export!Start, Docs
<1>2. [d \in Docs |-> 0] \in [Docs -> Nat] /\ \A c \in Docs : [d \in Docs |-> 0][c] = 0
  OBVIOUS
<1> DEFINE map == [d \in Docs |-> 0]
           todo == Export!Plan
<1>3. run' = [todo |-> todo, map |-> map, pc |-> "find"] /\ todo \in Seq(Docs)
      /\ map \in [Docs -> Nat] /\ \A c \in Docs : map[c] = 0
  BY <1>1, <1>2, ExportPlanIs
<1> HIDE DEF map, todo
<1>4. run' \in Work /\ run'.pc = "find" /\ run'.map = map
  <2>1. run' \in Work
    BY <1>3, WorkIs
  <2>. QED BY <1>3, <2>1
<1>5. RowsKept /\ Len(rows') = Len(rows) /\ Len(rows) \in Nat
  BY <1>1, SameRowsAreKept DEF WorkFits
<1>6. RowsRight' /\ Export!OneRowPerKey' /\ Export!RefersAsExported'
  BY <1>1, <1>5, RowsStay
<1>7. \A c \in Docs : run'.map[c] = 0
  BY <1>3, <1>4
<1>8. WorkFits'
  BY <1>1, <1>4, <1>5, <1>7 DEF WorkFits
<1>9. MapsRight'
  BY <1>7 DEF MapsRight
<1>. QED BY <1>6, <1>8, <1>9 DEF ExportInv

(* The tenant starts with some of the pillars, each once, in every locale.  *)
LEMMA SeededRows ==
  ASSUME Export!Init
  PROVE  /\ rows \in Seq(Export!Row)
         /\ \A i \in DOMAIN rows :
              /\ rows[i].pillar = 0 /\ rows[i].sub = 0 /\ rows[i].hero = 0
              /\ rows[i].key.doc \in Pillars /\ rows[i].locales = Export!Locales
         /\ Export!OneRowPerKey
<1> DEFINE W(p) == Export!With([doc |-> p, pillar |-> 0], Export!Locales)
<1>1. PICK seeded \in SUBSET Pillars : rows = Export!SetToSeq({W(p) : p \in seeded})
  BY DEF Export!Init
<1> DEFINE S == {W(p) : p \in seeded}
           f == [p \in seeded |-> W(p)]
<1>2. IsFiniteSet(S)
  <2>1. IsFiniteSet(seeded)
    BY ExportAssumption, ExportSizes, FS_Subset DEF Export!DocsAssumption
  <2>2. f \in Surjection(seeded, S)
    BY DEF Surjection
  <2> HIDE DEF f, S
  <2>. QED BY <2>1, <2>2, FS_Surjection
<1>3. ASSUME NEW p \in Pillars
      PROVE  /\ W(p) \in Export!Row /\ W(p).pillar = 0 /\ W(p).sub = 0 /\ W(p).hero = 0
             /\ W(p).key.doc = p /\ W(p).locales = Export!Locales
  <2>1. [doc |-> p, pillar |-> 0] \in Export!Key
    BY DEF Export!Key, Export!Docs
  <2>2. W(p) = [key |-> [doc |-> p, pillar |-> 0], locales |-> Export!Locales, pillar |-> 0,
                sub |-> 0, hero |-> 0, body |-> Nothing, public |-> FALSE]
    BY DEF Export!With
  <2> HIDE DEF W
  <2>. QED BY <2>1, <2>2 DEF Export!Row
<1>4. \A row \in S : \E p \in Pillars : row = W(p)
  OBVIOUS
<1>5. rows = Export!SetToSeq(S)
  BY <1>1
<1> HIDE DEF W, S
<1>6. \A row \in S : /\ row \in Export!Row /\ row.pillar = 0 /\ row.sub = 0 /\ row.hero = 0
                      /\ row.key.doc \in Pillars /\ row = W(row.key.doc)
                      /\ row.locales = Export!Locales
  BY <1>3, <1>4
<1>7. rows \in Seq(S) /\ \A i, j \in DOMAIN rows : rows[i] = rows[j] => i = j
  BY <1>2, <1>5, SetToSeqIs
<1>8. S \subseteq Export!Row
  BY <1>6
<1>9. rows \in Seq(Export!Row) /\ \A i \in DOMAIN rows : rows[i] \in S
  BY <1>7, <1>8
<1>10. Export!OneRowPerKey
  BY <1>6, <1>7, <1>9 DEF Export!OneRowPerKey
<1>. QED BY <1>6, <1>9, <1>10

LEMMA SeededIs == Export!Init => ExportInv
<1> SUFFICES ASSUME Export!Init PROVE ExportInv
  OBVIOUS
<1>1. /\ source \in [Subs -> Export!SubRef] \X [Documents -> Export!ArticleRef]
      /\ run = Idle
  BY DEF Export!Init
<1>2. /\ rows \in Seq(Export!Row) /\ Export!OneRowPerKey
      /\ \A i \in DOMAIN rows : /\ rows[i].pillar = 0 /\ rows[i].sub = 0 /\ rows[i].hero = 0
                                /\ rows[i].key.doc \in Pillars
  BY SeededRows
<1>3. WorkFits /\ MapsRight
  BY <1>1, <1>2 DEF WorkFits, MapsRight
<1>4. RowsRight
  <2>1. 0 \in 0..Len(rows) /\ \A p \in Pillars : p # "sub"
    BY <1>2, DocsDiffer
  <2>. QED BY <1>2, <2>1 DEF RowsRight
<1>5. Export!RefersAsExported
  BY <1>2 DEF Export!RefersAsExported
<1>. QED BY <1>2, <1>3, <1>4, <1>5 DEF ExportInv

LEMMA ExportStepKeeps == ExportInv /\ [MCNext]_MCvars => ExportInv'
<1> SUFFICES ASSUME ExportInv, [MCNext]_MCvars PROVE ExportInv'
  OBVIOUS
<1>1. CASE Export!Next
  <2>1. CASE Export!Finish \/ Export!Dies
    BY <2>1, StopKeeps DEF Export!Finish, Export!Dies
  <2>. QED BY <1>1, <2>1, ExportStartKeeps, FindKeeps, RowCreateKeeps, CreateFailsKeeps,
              WriteLocaleKeeps, LocaleFailsKeeps DEF Export!Next
<1>2. CASE UNCHANGED exportVars
  BY <1>2 DEF exportVars, ExportInv, WorkFits, MapsRight, RowsRight, Export!OneRowPerKey,
     Export!RefersAsExported, Export!Existing, Export!KeyOf, Export!Mapped, Export!Sub, Export!Article
<1>. QED BY <1>1, <1>2 DEF MCNext, MCvars

(* However often the import of an export dies and is run again, no document
   of it has two rows, and the section and the hero of an imported article
   are those that the export gives it.                                     *)
THEOREM RowsAreAsExported == MCSpec => []ImportedAsExported
<1>1. MCInit => ExportInv
  BY SeededIs DEF MCInit
<1>2. ExportInv /\ [MCNext]_MCvars => ExportInv'
  BY ExportStepKeeps
<1>3. ExportInv => ImportedAsExported
  BY DEF ExportInv, ImportedAsExported, Export!ImportedAsExported
<1>. QED BY <1>1, <1>2, <1>3, PTL DEF MCSpec

-----------------------------------------------------------------------------
(***************************************************************************)
(* A run in which nothing fails has passed no document without a row for   *)
(* it, because what a document needs is of an earlier collection; and what *)
(* the first run has passed is there in every locale.                      *)
(***************************************************************************)
Rank(d) == IF d \in Pillars THEN 1 ELSE IF d \in Subs THEN 2 ELSE IF d \in Pictures THEN 3 ELSE 4

Ordered(todo) == \A i, j \in DOMAIN todo : i < j => Rank(todo[i]) <= Rank(todo[j])

NoneForgotten == \A d \in Docs : run.map[d] # 0 \/ \E i \in DOMAIN run.todo : run.todo[i] = d

(* A row has every locale, or the rest is being written.                   *)
Written(i) ==
  \/ rows[i].locales = Export!Locales
  \/ /\ run # Idle /\ run.pc = "locale" /\ i = run.map[Head(run.todo)]
     /\ Export!Locales \subseteq rows[i].locales \cup Export!Afterwards(Head(run.todo))

CleanInv ==
  /\ runs \in Nat
  /\ run # Idle => Ordered(run.todo)
  /\ clean /\ run # Idle => NoneForgotten
  /\ runs = 0 => run = Idle /\ \A i \in DOMAIN rows : rows[i].locales = Export!Locales
  /\ Adopt /\ clean /\ runs = 1 /\ run # Idle => \A i \in DOMAIN rows : Written(i)

LEMMA RankIs == \A d : Rank(d) \in 1..4
BY DEF Rank

LEMMA TailIs ==
  ASSUME NEW q \in Seq(Docs), q # <<>>
  PROVE  /\ Head(q) = q[1] /\ 1 \in DOMAIN q
         /\ \A i \in DOMAIN Tail(q) : i + 1 \in DOMAIN q /\ Tail(q)[i] = q[i + 1] /\ i \in Nat
         /\ \A i \in DOMAIN q : i = 1 \/ \E j \in DOMAIN Tail(q) : Tail(q)[j] = q[i]
<1>1. /\ Len(q) \in Nat \ {0} /\ DOMAIN q = 1..Len(q) /\ Tail(q) \in Seq(Docs)
      /\ Len(Tail(q)) = Len(q) - 1 /\ DOMAIN Tail(q) = 1..(Len(q) - 1)
      /\ \A i \in 1..(Len(q) - 1) : Tail(q)[i] = q[i + 1]
  OBVIOUS
<1>2. \A i \in DOMAIN q : i # 1 => i - 1 \in DOMAIN Tail(q) /\ Tail(q)[i - 1] = q[i]
  BY <1>1
<1>3. \A i \in DOMAIN Tail(q) : i + 1 \in DOMAIN q /\ i \in Nat
  BY <1>1
<1>4. Head(q) = q[1] /\ 1 \in DOMAIN q
  BY <1>1
<1>5. \A i \in DOMAIN q : i # 1 => \E j \in DOMAIN Tail(q) : Tail(q)[j] = q[i]
  BY <1>2, Zenon
<1>6. \A i \in DOMAIN Tail(q) : Tail(q)[i] = q[i + 1]
  BY <1>1
<1>. QED BY <1>3, <1>4, <1>5, <1>6, Zenon

(* What is left stays in order, and the first of it has the lowest rank.   *)
LEMMA OrderedTail ==
  ASSUME NEW q \in Seq(Docs), q # <<>>, Ordered(q)
  PROVE  /\ Ordered(Tail(q))
         /\ \A i \in DOMAIN q : Rank(Head(q)) <= Rank(q[i])
<1>1. /\ Head(q) = q[1] /\ 1 \in DOMAIN q
      /\ \A i \in DOMAIN Tail(q) : i + 1 \in DOMAIN q /\ Tail(q)[i] = q[i + 1] /\ i \in Nat
  BY TailIs
<1>2. \A i, j \in Nat : i < j => i + 1 < j + 1
  OBVIOUS
<1>3. Ordered(Tail(q))
  BY <1>1, <1>2 DEF Ordered
<1>4. ASSUME NEW i \in DOMAIN q PROVE Rank(Head(q)) <= Rank(q[i])
  <2>1. DOMAIN q = 1..Len(q) /\ Len(q) \in Nat
    OBVIOUS
  <2>2. i = 1 \/ 1 < i
    BY <2>1
  <2>3. CASE i = 1
    BY <1>1, <2>3, RankIs
  <2>4. CASE 1 < i
    BY <1>1, <2>4 DEF Ordered
  <2>. QED BY <2>2, <2>3, <2>4
<1>. QED BY <1>3, <1>4

(* What is of an earlier collection than the document at hand has a row.   *)
LEMMA EarlierHasRow ==
  ASSUME WorkFits, NoneForgotten, run # Idle, run.todo # <<>>, Ordered(run.todo),
         NEW d \in Docs, Rank(d) < Rank(Head(run.todo))
  PROVE  run.map[d] # 0
<1>1. run.todo \in Seq(Docs)
  BY DEF WorkFits, Work
<1>2. \A i \in DOMAIN run.todo : Rank(Head(run.todo)) <= Rank(run.todo[i])
  BY <1>1, OrderedTail
<1>3. ~ Rank(Head(run.todo)) <= Rank(d)
  BY RankIs
<1>. QED BY <1>2, <1>3 DEF NoneForgotten

LEMMA PassedIs ==
  \A map : LET w == Export!Passed(map) IN w.todo = Tail(run.todo) /\ w.map = map /\ w.pc = "find"
BY DEF Export!Passed

(* A document is passed, with a row or after a failure.                    *)
LEMMA PassedForgetsNone ==
  ASSUME WorkFits, CleanInv, run # Idle, run.todo # <<>>, NEW map \in [Docs -> Nat],
         run' = Export!Passed(map), \A c \in Docs : run.map[c] # 0 => map[c] # 0,
         clean' => clean /\ map[Head(run.todo)] # 0
  PROVE  Ordered(run'.todo) /\ (clean' => NoneForgotten')
<1>1. run'.todo = Tail(run.todo) /\ run'.map = map
  BY PassedIs
<1>2. run.todo \in Seq(Docs)
  BY DEF WorkFits, Work
<1>3. Ordered(run'.todo)
  BY <1>1, <1>2, OrderedTail DEF CleanInv
<1>4. ASSUME clean', NEW d \in Docs, map[d] = 0
      PROVE  \E i \in DOMAIN Tail(run.todo) : Tail(run.todo)[i] = d
  <2>1. NoneForgotten /\ run.map[d] = 0 /\ d # Head(run.todo)
    BY <1>4 DEF CleanInv
  <2>2. PICK i \in DOMAIN run.todo : run.todo[i] = d
    BY <2>1 DEF NoneForgotten
  <2>3. i # 1
    BY <1>2, <2>1, <2>2, TailIs
  <2>. QED BY <1>2, <2>2, <2>3, TailIs
<1>5. clean' => NoneForgotten'
  BY <1>1, <1>4 DEF NoneForgotten
<1>. QED BY <1>3, <1>5

(* The plan goes through the collections in their order.                   *)
Ranked(q, low, high) == q \in Seq(Docs) /\ Ordered(q) /\ \A i \in DOMAIN q : Rank(q[i]) \in low..high

LEMMA RankedBoth ==
  ASSUME NEW q, NEW r, NEW k \in Nat, Ranked(q, 1, k), Ranked(r, k + 1, k + 1)
  PROVE  Ranked(q \o r, 1, k + 1)
<1>1. /\ q \in Seq(Docs) /\ r \in Seq(Docs) /\ Ordered(q) /\ Ordered(r)
      /\ \A i \in DOMAIN q : Rank(q[i]) \in 1..k
      /\ \A i \in DOMAIN r : Rank(r[i]) = k + 1
  BY DEF Ranked
<1>2. /\ q \o r \in Seq(Docs) /\ Len(q) \in Nat /\ Len(r) \in Nat
      /\ DOMAIN q = 1..Len(q) /\ DOMAIN r = 1..Len(r) /\ DOMAIN (q \o r) = 1..(Len(q) + Len(r))
  BY <1>1
<1>3. \A i \in DOMAIN (q \o r) :
        \/ i \in DOMAIN q /\ (q \o r)[i] = q[i]
        \/ i - Len(q) \in DOMAIN r /\ (q \o r)[i] = r[i - Len(q)] /\ i > Len(q)
  BY <1>1, <1>2
<1> DEFINE s == q \o r
<1>4. s \in Seq(Docs) /\ DOMAIN s = 1..(Len(q) + Len(r))
  BY <1>2
<1>5. \A i \in DOMAIN s : \/ i \in DOMAIN q /\ s[i] = q[i]
                          \/ i > Len(q) /\ Rank(s[i]) = k + 1
  BY <1>1, <1>3
<1> HIDE DEF s
<1>6. \A i \in DOMAIN s : Rank(s[i]) \in 1..(k + 1)
  BY <1>1, <1>5
<1>7. ASSUME NEW i \in DOMAIN s, NEW j \in DOMAIN s, i < j
      PROVE  Rank(s[i]) <= Rank(s[j])
  <2>1. CASE i \in DOMAIN q /\ j \in DOMAIN q /\ s[i] = q[i] /\ s[j] = q[j]
    BY <1>1, <1>7, <2>1 DEF Ordered
  <2>2. CASE Rank(s[j]) = k + 1
    BY <1>6, <2>2
  <2>3. j \in DOMAIN q => i \in DOMAIN q /\ ~ i > Len(q)
    BY <1>2, <1>4, <1>7
  <2>. QED BY <1>5, <2>1, <2>2, <2>3
<1>8. Ordered(s)
  BY <1>7 DEF Ordered
<1>. QED BY <1>4, <1>6, <1>8 DEF Ranked, s

LEMMA PlanIsOrdered == Ordered(Export!Plan)
<1>1. IsFiniteSet(Pillars) /\ IsFiniteSet(Subs) /\ IsFiniteSet(Pictures) /\ IsFiniteSet(Documents)
  BY ExportAssumption, ExportSizes DEF Export!DocsAssumption
<1> DEFINE P == Export!SetToSeq(Pillars)
           S == Export!SetToSeq(Subs)
           M == Export!SetToSeq(Pictures)
           A == Export!SetToSeq(Documents)
<1>2. P \in Seq(Pillars) /\ S \in Seq(Subs) /\ M \in Seq(Pictures) /\ A \in Seq(Documents)
  BY <1>1, SetToSeqIs
<1>3. Export!Plan = P \o S \o M \o A
  BY DEF Export!Plan
<1> HIDE DEF P, S, M, A
<1>4. /\ \A d \in Pillars : d \in Docs /\ Rank(d) = 1
      /\ \A d \in Subs : d \in Docs /\ Rank(d) = 2
      /\ \A d \in Pictures : d \in Docs /\ Rank(d) = 3
      /\ \A d \in Documents : d \in Docs /\ Rank(d) = 4
  BY DocsDiffer DEF Rank
<1>5. ASSUME NEW T, NEW q \in Seq(T), NEW k \in Nat, \A d \in T : d \in Docs /\ Rank(d) = k
      PROVE  Ranked(q, k, k)
  <2>1. q \in Seq(Docs)
    BY <1>5
  <2>2. \A i \in DOMAIN q : Rank(q[i]) = k
    BY <1>5
  <2>. QED BY <2>1, <2>2 DEF Ranked, Ordered
<1>6. Ranked(P, 1, 1) /\ Ranked(S, 2, 2) /\ Ranked(M, 3, 3) /\ Ranked(A, 4, 4)
  BY <1>2, <1>4, <1>5
<1>7. 1 + 1 = 2 /\ 2 + 1 = 3 /\ 3 + 1 = 4
  OBVIOUS
<1>8. Ranked(P \o S, 1, 2)
  BY <1>6, <1>7, RankedBoth
<1>9. Ranked(P \o S \o M, 1, 3)
  BY <1>6, <1>7, <1>8, RankedBoth
<1>10. Ranked(P \o S \o M \o A, 1, 4)
  BY <1>6, <1>7, <1>9, RankedBoth
<1>. QED BY <1>3, <1>10 DEF Ranked

LEMMA SeededIsClean == Export!Init => CleanInv
<1> SUFFICES ASSUME Export!Init PROVE CleanInv
  OBVIOUS
<1>1. run = Idle /\ runs = 0
  BY DEF Export!Init
<1>2. \A i \in DOMAIN rows : rows[i].locales = Export!Locales
  BY SeededRows
<1>. QED BY <1>1, <1>2 DEF CleanInv

LEMMA StartStaysClean ==
  ASSUME ExportInv, CleanInv, Export!Start
  PROVE  CleanInv'
<1>1. /\ run' = [todo |-> Export!Plan, map |-> [d \in Docs |-> 0], pc |-> "find"]
      /\ runs \in Nat /\ runs' = runs + 1 /\ rows' = rows
  BY DEF Export!Start, Docs, CleanInv
<1>2. run'.todo = Export!Plan
  BY <1>1
<1>3. Ordered(run'.todo)
  BY <1>2, PlanIsOrdered
<1>4. NoneForgotten'
  BY <1>2, ExportPlanIs DEF NoneForgotten
<1>5. runs' \in Nat /\ runs' # 0 /\ (runs' = 1 => runs = 0)
  BY <1>1
<1>6. runs = 0 => \A i \in DOMAIN rows' : Written(i)'
  BY <1>1 DEF CleanInv, Written
<1>. QED BY <1>3, <1>4, <1>5, <1>6 DEF CleanInv

(* All rows are written while no locale is.                                *)
LEMMA WrittenBefore ==
  ASSUME CleanInv, Adopt, clean, runs = 1, run # Idle, run.pc # "locale"
  PROVE  \A i \in DOMAIN rows : rows[i].locales = Export!Locales
BY DEF CleanInv, Written

LEMMA FindStaysClean ==
  ASSUME ExportInv, CleanInv, Export!Find
  PROVE  CleanInv'
<1> DEFINE d == Head(run.todo)
           n == CHOOSE i \in Export!Existing(d) : TRUE
<1>1. /\ WorkFits /\ run # Idle /\ run.todo # <<>> /\ run.pc = "find"
      /\ rows' = rows /\ runs' = runs /\ clean' = clean /\ runs \in Nat
  BY DEF ExportInv, CleanInv, Export!Find, Export!At
<1>2. d \in Docs /\ Export!Doc = d /\ run \in Work
  BY <1>1, HeadIs DEF WorkFits
<1>3. d \in Subs => Export!Mapped(Export!Sub(d).pillar) = run.map[Export!Sub(d).pillar]
                    /\ Export!Sub(d).pillar \in Docs /\ Rank(Export!Sub(d).pillar) < Rank(d)
  <2> SUFFICES ASSUME d \in Subs
               PROVE  /\ Export!Mapped(Export!Sub(d).pillar) = run.map[Export!Sub(d).pillar]
                      /\ Export!Sub(d).pillar \in Docs /\ Rank(Export!Sub(d).pillar) < Rank(d)
    OBVIOUS
  <2>1. Export!Sub(d).pillar \in Pillars /\ Export!Sub(d).pillar \in Docs /\ d \notin Pillars
    BY <1>1, SourceIs, DocsDiffer
  <2>2. Rank(d) = 2 /\ Rank(Export!Sub(d).pillar) = 1
    BY <2>1 DEF Rank
  <2>. QED BY <1>1, <2>1, <2>2, MappedIs
<1>4. clean => ~(d \in Subs /\ Export!Mapped(Export!Sub(d).pillar) = 0)
  <2> SUFFICES ASSUME clean, d \in Subs PROVE Export!Mapped(Export!Sub(d).pillar) # 0
    OBVIOUS
  <2>1. NoneForgotten /\ Ordered(run.todo)
    BY <1>1 DEF CleanInv
  <2>2. Export!Sub(d).pillar \in Docs /\ Rank(Export!Sub(d).pillar) < Rank(Head(run.todo))
    BY <1>3
  <2> HIDE DEF d
  <2>3. run.map[Export!Sub(d).pillar] # 0
    BY <1>1, <2>1, <2>2, EarlierHasRow
  <2>. QED BY <1>3, <2>3
<1>5. run.map \in [Docs -> Nat] /\ run.todo \in Seq(Docs)
  BY <1>2 DEF Work
<1>6. (run' # Idle => Ordered(run'.todo)) /\ (clean' /\ run' # Idle => NoneForgotten')
  <2>1. CASE run' = Export!Passed(run.map) /\ ~clean
    BY <1>1, <1>5, <2>1, PassedForgetsNone
  <2>2. CASE Export!Existing(d) # {} /\ run' = Export!Passed([run.map EXCEPT ![d] = n])
    <3> DEFINE map == [run.map EXCEPT ![d] = n]
    <3>1. n \in Export!Existing(d)
      BY <2>2
    <3> HIDE DEF n
    <3>2. n \in Nat /\ n # 0
      BY <1>1, <3>1 DEF Export!Existing, WorkFits
    <3>3. map \in [Docs -> Nat] /\ map[d] # 0 /\ \A c \in Docs : run.map[c] # 0 => map[c] # 0
      BY <1>2, <1>5, <3>2
    <3>4. run' = Export!Passed(map)
      BY <2>2
    <3> HIDE DEF map
    <3>. QED BY <1>1, <3>3, <3>4, PassedForgetsNone
  <2>3. CASE run' = [run EXCEPT !.pc = "create"]
    <3>1. run'.todo = run.todo /\ run'.map = run.map
      BY <1>2, <2>3 DEF Work
    <3>. QED BY <1>1, <3>1 DEF CleanInv, NoneForgotten
  <2>. QED BY <1>2, <1>4, <2>1, <2>2, <2>3 DEF Export!Find
<1>7. Adopt /\ clean' /\ runs' = 1 => \A i \in DOMAIN rows' : Written(i)'
  BY <1>1, WrittenBefore DEF Written
<1>8. runs' # 0
  BY <1>1 DEF CleanInv
<1>. QED BY <1>1, <1>6, <1>7, <1>8 DEF CleanInv

LEMMA CreateStaysClean ==
  ASSUME ExportInv, CleanInv, Export!Create
  PROVE  CleanInv'
<1> DEFINE d == Head(run.todo)
           n == Len(rows) + 1
           row == Export!NewRow(d)
<1>1. /\ WorkFits /\ MapsRight /\ run # Idle /\ run.todo # <<>> /\ run.pc = "create"
      /\ runs' = runs /\ clean' = clean /\ runs \in Nat
  BY DEF ExportInv, CleanInv, Export!Create, Export!At
<1>2. d \in Docs /\ Export!Doc = d /\ run \in Work /\ run.map \in [Docs -> Nat]
      /\ run.todo \in Seq(Docs) /\ n \in Nat /\ n # 0
  BY <1>1, HeadIs DEF WorkFits, Work
<1>3. rows' = Append(rows, row)
  BY <1>2 DEF Export!Create
<1>4. LET map == [run.map EXCEPT ![d] = n] IN
      run' = IF Export!Afterwards(d) = {} THEN Export!Passed(map)
             ELSE [run EXCEPT !.map = map, !.pc = "locale"]
  BY <1>2 DEF Export!Create
<1> DEFINE map == [run.map EXCEPT ![d] = n]
<1>5. map \in [Docs -> Nat] /\ map[d] = n /\ \A c \in Docs : run.map[c] # 0 => map[c] # 0
  BY <1>2
<1>6. row.locales = IF d \in Pictures /\ Adopt THEN {} ELSE {"en"}
  BY <1>1, <1>2, NewRowIs DEF WorkFits
<1>7. Adopt => Export!Afterwards(d) # {} /\ Export!Locales \subseteq row.locales \cup Export!Afterwards(d)
  BY <1>6 DEF Export!Afterwards, Export!Locales
<1>8. /\ Len(rows) \in Nat /\ DOMAIN rows = 1..Len(rows) /\ DOMAIN rows' = 1..n
      /\ rows'[n] = row /\ \A i \in DOMAIN rows : rows'[i] = rows[i]
  BY <1>1, <1>3 DEF WorkFits
<1> HIDE DEF d, row, map
<1>9. CASE run' = Export!Passed(map) /\ ~Adopt
  <2>1. Ordered(run'.todo) /\ (clean' => NoneForgotten')
    <3>1. clean' => clean /\ map[Head(run.todo)] # 0
      BY <1>1, <1>2, <1>5 DEF d
    <3>. QED BY <1>1, <1>5, <1>9, <3>1, PassedForgetsNone
  <2>2. runs' # 0
    BY <1>1 DEF CleanInv
  <2>. QED BY <1>1, <1>9, <2>1, <2>2 DEF CleanInv
<1>10. CASE run' = [run EXCEPT !.map = map, !.pc = "locale"]
  <2>1. run'.todo = run.todo /\ run'.map = map /\ run'.pc = "locale"
    BY <1>2, <1>10 DEF Work
  <2>2. Ordered(run'.todo) /\ (clean' => NoneForgotten')
    BY <1>1, <1>5, <2>1 DEF CleanInv, NoneForgotten
  <2>3. runs' # 0
    BY <1>1 DEF CleanInv
  <2>4. run' # Idle /\ Adopt /\ clean' /\ runs' = 1 => \A i \in DOMAIN rows' : Written(i)'
    <3> SUFFICES ASSUME run' # Idle, Adopt, clean', runs' = 1, NEW i \in DOMAIN rows' PROVE Written(i)'
      OBVIOUS
    <3>1. CASE i \in DOMAIN rows
      <4>1. rows[i].locales = Export!Locales
        BY <1>1, <3>1, WrittenBefore
      <4>. QED BY <1>8, <3>1, <4>1 DEF Written
    <3>2. CASE i = n
      <4>1. i = run'.map[Head(run'.todo)] /\ Head(run'.todo) = d
        BY <1>5, <2>1, <3>2 DEF d
      <4>2. Export!Locales \subseteq rows'[i].locales \cup Export!Afterwards(d)
        BY <1>7, <1>8, <3>2
      <4>. QED BY <2>1, <4>1, <4>2 DEF Written, Export!Afterwards
    <3>3. i \in DOMAIN rows \/ i = n
      BY <1>8
    <3>. QED BY <3>1, <3>2, <3>3
  <2>. QED BY <1>1, <2>2, <2>3, <2>4 DEF CleanInv
<1>. QED BY <1>4, <1>7, <1>9, <1>10 DEF map

(* After a failure nothing is clean.                                       *)
LEMMA FailureStaysClean ==
  ASSUME ExportInv, CleanInv, Export!CreateFails \/ Export!LocaleFails
  PROVE  CleanInv'
<1>1. /\ WorkFits /\ run # Idle /\ run.todo # <<>> /\ run' = Export!Passed(run.map)
      /\ runs' = runs /\ ~clean'
  BY DEF ExportInv, Export!CreateFails, Export!LocaleFails, Export!At, Export!Fails
<1>2. run.map \in [Docs -> Nat]
  BY <1>1 DEF WorkFits, Work
<1>3. Ordered(run'.todo)
  BY <1>1, <1>2, PassedForgetsNone
<1>. QED BY <1>1, <1>3 DEF CleanInv

LEMMA WriteLocaleStaysClean ==
  ASSUME ExportInv, CleanInv, Export!WriteLocale
  PROVE  CleanInv'
<1> DEFINE d == Head(run.todo)
           k == run.map[d]
<1>1. /\ WorkFits /\ run # Idle /\ run.todo # <<>> /\ run.pc = "locale"
      /\ runs' = runs /\ clean' = clean /\ runs \in Nat /\ runs # 0
  BY DEF ExportInv, CleanInv, Export!WriteLocale, Export!At
<1>2. d \in Docs /\ Export!Doc = d /\ run \in Work /\ run.map \in [Docs -> Nat] /\ k # 0
  BY <1>1, HeadIs DEF WorkFits, Work
<1>3. k \in DOMAIN rows /\ rows[k].locales \subseteq Export!Locales
  <2>1. k \in 0..Len(rows) /\ DOMAIN rows = 1..Len(rows) /\ Len(rows) \in Nat
    BY <1>1, <1>2, MappedIs DEF WorkFits
  <2>2. k \in DOMAIN rows
    BY <1>2, <2>1
  <2>3. rows[k] \in Export!Row
    BY <1>1, <2>2 DEF WorkFits
  <2>. QED BY <2>2, <2>3 DEF Export!Row
<1>4. \A i \in DOMAIN rows : i # k /\ Adopt /\ clean /\ runs = 1 => rows[i].locales = Export!Locales
  BY <1>1 DEF CleanInv, Written
<1>5. Adopt /\ clean /\ runs = 1 =>
        Export!Locales \subseteq rows[k].locales \cup Export!Afterwards(d)
  BY <1>1, <1>3 DEF CleanInv, Written
<1> HIDE DEF d, k
<1>6. CASE Export!Missing = {} /\ run' = Export!Passed(run.map) /\ rows' = rows
  <2>1. Ordered(run'.todo) /\ (clean' => NoneForgotten')
    <3>1. clean' => clean /\ run.map[Head(run.todo)] # 0
      BY <1>1, <1>2 DEF d, k
    <3>. QED BY <1>1, <1>2, <1>6, <3>1, PassedForgetsNone
  <2>2. Export!Afterwards(d) \subseteq rows[k].locales
    BY <1>2, <1>6 DEF Export!Missing, k
  <2>3. Adopt /\ clean' /\ runs' = 1 => \A i \in DOMAIN rows' : Written(i)'
    <3> SUFFICES ASSUME Adopt, clean', runs' = 1, NEW i \in DOMAIN rows PROVE rows[i].locales = Export!Locales
      BY <1>6 DEF Written
    <3>1. i = k => rows[k].locales = Export!Locales
      BY <1>1, <1>3, <1>5, <2>2
    <3>. QED BY <1>1, <1>4, <3>1
  <2>. QED BY <1>1, <2>1, <2>3 DEF CleanInv
<1>7. CASE run' = run /\ \E loc \in Export!Locales : rows' = [rows EXCEPT ![k].locales = @ \cup {loc}]
  <2>1. PICK loc \in Export!Locales : rows' = [rows EXCEPT ![k].locales = @ \cup {loc}]
    BY <1>7
  <2>2. /\ DOMAIN rows' = DOMAIN rows /\ rows[k].locales \subseteq rows'[k].locales
        /\ \A i \in DOMAIN rows : i # k => rows'[i] = rows[i]
    <3>1. rows[k] \in Export!Row
      BY <1>1, <1>3 DEF WorkFits
    <3>2. rows'[k] = [rows[k] EXCEPT !.locales = @ \cup {loc}]
      BY <1>3, <2>1
    <3>3. rows'[k].locales = rows[k].locales \cup {loc}
      BY <3>1, <3>2 DEF Export!Row
    <3>. QED BY <1>3, <2>1, <3>3
  <2>3. Adopt /\ clean' /\ runs' = 1 => \A i \in DOMAIN rows' : Written(i)'
    <3> SUFFICES ASSUME Adopt, clean', runs' = 1, NEW i \in DOMAIN rows PROVE Written(i)'
      BY <2>2
    <3>1. CASE i = k
      <4>1. Export!Locales \subseteq rows'[k].locales \cup Export!Afterwards(d)
        BY <1>1, <1>5, <2>2
      <4>2. run'.pc = "locale" /\ i = run'.map[Head(run'.todo)] /\ Head(run'.todo) = d /\ run' # Idle
        BY <1>1, <1>7, <3>1 DEF d, k
      <4>. QED BY <3>1, <4>1, <4>2 DEF Written, Export!Afterwards
    <3>2. CASE i # k
      BY <1>1, <1>4, <2>2, <3>2 DEF Written
    <3>. QED BY <3>1, <3>2
  <2>. QED BY <1>1, <1>7, <2>3 DEF CleanInv, NoneForgotten
<1>. QED BY <1>2, <1>6, <1>7 DEF Export!WriteLocale, Export!Missing, Export!Afterwards, Export!Locales, k

LEMMA StopStaysClean ==
  ASSUME CleanInv, Export!Finish \/ Export!Dies
  PROVE  CleanInv'
BY DEF CleanInv, Export!Finish, Export!Dies

LEMMA CleanStepKeeps == ExportInv /\ CleanInv /\ [MCNext]_MCvars => CleanInv'
<1> SUFFICES ASSUME ExportInv, CleanInv, [MCNext]_MCvars PROVE CleanInv'
  OBVIOUS
<1>1. CASE Export!Next
  BY <1>1, StartStaysClean, FindStaysClean, CreateStaysClean, FailureStaysClean,
     WriteLocaleStaysClean, StopStaysClean DEF Export!Next
<1>2. CASE UNCHANGED exportVars
  BY <1>2 DEF exportVars, CleanInv, NoneForgotten, Written, Export!Afterwards
<1>. QED BY <1>1, <1>2 DEF MCNext, MCvars

(* A new article's body keeps no id of the source site.                    *)
LEMMA NewBodyIsMapped ==
  ASSUME ExportInv, CleanInv, Export!Create, clean
  PROVE  Export!BodiesAreMapped
<1> DEFINE d == Head(run.todo)
           row == Export!NewRow(d)
<1>1. WorkFits /\ MapsRight /\ run # Idle /\ run.todo # <<>> /\ run.pc = "create"
      /\ NoneForgotten /\ Ordered(run.todo)
  BY DEF ExportInv, CleanInv, Export!Create, Export!At
<1>2. d \in Docs /\ Export!Doc = d
  BY <1>1, HeadIs
<1>3. rows' = Append(rows, row)
  BY <1>2 DEF Export!Create
<1>4. rows'[Len(rows')] = row
  BY <1>1, <1>3 DEF WorkFits
<1>5. row.key = Export!KeyOf(d) /\ (d \in Documents => row.body = Export!Body(d))
  BY <1>1, <1>2, NewRowIs DEF WorkFits
<1>6. \A a \in Documents : Export!KeyOf(d).doc = a => d = a
  BY <1>1, <1>2, KeyIs, DocsDiffer
<1>7. ASSUME d \in Documents PROVE Export!Body(d) \notin Pictures
  <2> DEFINE b == Export!Article(d).body
  <2>1. b \in Pictures \cup {Nothing}
    BY <1>1, <1>7, SourceIs DEF Export!ArticleRef
  <2>2. Rank(d) = 4 /\ \A m \in Pictures : m \in Docs /\ Rank(m) = 3 /\ m \notin Nat /\ m # Nothing
    BY <1>7, DocsDiffer DEF Rank
  <2>3. \A c \in Docs \cup {Nothing} : Export!Mapped(c) \in Nat
    BY <1>1, MappedIs DEF WorkFits
  <2>4. \A c \in Docs : Export!Mapped(c) = run.map[c]
    BY <1>1, MappedIs
  <2> HIDE DEF b
  <2>5. CASE b = Nothing
    BY <2>2, <2>3, <2>5 DEF Export!Body, b
  <2>6. CASE b \in Pictures
    <3>1. b \in Docs /\ Rank(b) < Rank(Head(run.todo))
      BY <2>2, <2>6
    <3>2. run.map[b] # 0
      BY <1>1, <3>1, EarlierHasRow
    <3>3. Export!Mapped(b) # 0 /\ Export!Mapped(b) \in Nat
      BY <2>3, <2>4, <3>1, <3>2
    <3>4. Export!Body(d) = Export!Mapped(b)
      BY <3>3 DEF Export!Body, b
    <3>. QED BY <2>2, <3>3, <3>4
  <2>. QED BY <2>1, <2>5, <2>6
<1>. QED BY <1>4, <1>5, <1>6, <1>7 DEF Export!BodiesAreMapped

LEMMA NoNewRow ==
  ASSUME WorkFits, [Export!Next]_(Export!vars), ~Export!Create
  PROVE  ~(Len(rows') > Len(rows))
<1>1. Len(rows) \in Nat
  BY DEF WorkFits
<1>2. rows' = rows \/ Export!WriteLocale
  BY DEF Export!Next, Export!vars, Export!Start, Export!Find, Export!CreateFails, Export!LocaleFails,
     Export!Finish, Export!Dies
<1>3. CASE rows' = rows
  BY <1>1, <1>3
<1>4. CASE Export!WriteLocale
  <2>1. rows' = rows \/ \E k, row : rows' = [rows EXCEPT ![k] = row]
    BY <1>4 DEF Export!WriteLocale
  <2>2. CASE \E k, row : rows' = [rows EXCEPT ![k] = row]
    <3>1. PICK k, row : rows' = [rows EXCEPT ![k] = row]
      BY <2>2
    <3>2. DOMAIN rows' = 1..Len(rows)
      BY <3>1 DEF WorkFits
    <3>3. Len(rows') = Len(rows)
      BY <1>1, <3>2
    <3>. QED BY <1>1, <3>3
  <2>. QED BY <1>3, <2>1, <2>2
<1>. QED BY <1>2, <1>3, <1>4

(* A run that ends clean has a row for every document.                     *)
LEMMA CleanEndIsComplete ==
  ASSUME ExportInv, CleanInv, [Export!Next]_(Export!vars)
  PROVE  Export!CleanRunIsComplete
<1> SUFFICES ASSUME run # Idle, run.todo = <<>>, run' = Idle, clean'
             PROVE  /\ \A d \in Docs : run.map[d] # 0
                    /\ \A a \in Documents : rows[file'[a]].key.doc = a
                    /\ Adopt /\ runs = 1 => \A d \in Docs : rows[run.map[d]].locales = Export!Locales
  BY DEF Export!CleanRunIsComplete, Docs
<1>1. WorkFits /\ MapsRight
  BY DEF ExportInv
<1>2. Export!Finish
  <2>1. ~UNCHANGED run
    OBVIOUS
  <2>2. ~Export!Dies
    BY DEF Export!Dies, Export!Fails
  <2>3. ~Export!Start /\ ~Export!Find /\ ~Export!Create /\ ~Export!CreateFails /\ ~Export!WriteLocale
        /\ ~Export!LocaleFails
    BY DEF Export!Start, Export!Find, Export!Create, Export!CreateFails, Export!WriteLocale,
       Export!LocaleFails, Export!At
  <2>. QED BY <2>1, <2>2, <2>3 DEF Export!Next, Export!vars
<1>3. clean /\ file' = [a \in Documents |-> run.map[a]]
  BY <1>2 DEF Export!Finish
<1>4. \A d \in Docs : run.map[d] # 0
  <2>1. NoneForgotten
    BY <1>3 DEF CleanInv
  <2>2. DOMAIN run.todo = {}
    OBVIOUS
  <2>. QED BY <2>1, <2>2 DEF NoneForgotten
<1>5. ASSUME NEW a \in Documents PROVE rows[file'[a]].key.doc = a
  <2>1. a \in Docs /\ a \notin Subs
    BY DocsDiffer
  <2>2. rows[run.map[a]].key = Export!KeyOf(a)
    BY <1>1, <1>4, <2>1 DEF MapsRight
  <2>3. file'[a] = run.map[a]
    BY <1>3
  <2>. QED BY <1>1, <2>1, <2>2, <2>3, KeyIs
<1>6. ASSUME Adopt, runs = 1, NEW d \in Docs PROVE rows[run.map[d]].locales = Export!Locales
  <2>1. run.pc # "locale"
    BY <1>1 DEF WorkFits
  <2>2. \A i \in DOMAIN rows : rows[i].locales = Export!Locales
    BY <1>3, <1>6, <2>1, WrittenBefore
  <2>3. run.map[d] \in 0..Len(rows) /\ run.map[d] # 0 /\ DOMAIN rows = 1..Len(rows)
    BY <1>1, <1>4, MappedIs DEF WorkFits
  <2>. QED BY <2>2, <2>3
<1>. QED BY <1>4, <1>5, <1>6

LEMMA CleanStepLacksNothing ==
  ASSUME ExportInv, CleanInv, [MCNext]_MCvars
  PROVE  [Export!BodiesAreMapped /\ Export!CleanRunIsComplete]_(Export!vars)
<1>1. [Export!Next]_(Export!vars)
  BY DEF MCNext, MCvars, exportVars, Export!vars
<1>2. Export!CleanRunIsComplete
  BY <1>1, CleanEndIsComplete
<1>3. Export!BodiesAreMapped
  <2>1. CASE ~clean
    BY <2>1 DEF Export!BodiesAreMapped
  <2>2. CASE clean /\ Export!Create
    BY <2>2, NewBodyIsMapped
  <2>3. CASE ~Export!Create
    BY <1>1, <2>3, NoNewRow DEF ExportInv, Export!BodiesAreMapped
  <2>. QED BY <2>1, <2>2, <2>3
<1>. QED BY <1>2, <1>3

(* A body keeps an id of the source site only after a failure, and a run in
   which nothing fails leaves every document with a row; the first run, with
   adopted images, every row in every locale.                              *)
THEOREM CleanRunsLackNothing == MCSpec => CleanLacksNothing
<1>1. MCInit => ExportInv /\ CleanInv
  BY SeededIs, SeededIsClean DEF MCInit
<1>2. ExportInv /\ CleanInv /\ [MCNext]_MCvars => (ExportInv /\ CleanInv)'
  BY ExportStepKeeps, CleanStepKeeps
<1>3. ExportInv /\ CleanInv /\ [MCNext]_MCvars
        => [Export!BodiesAreMapped /\ Export!CleanRunIsComplete]_(Export!vars)
  BY CleanStepLacksNothing
<1>. QED BY <1>1, <1>2, <1>3, PTL DEF MCSpec, CleanLacksNothing, Export!CleanLacksNothing

-----------------------------------------------------------------------------
(***************************************************************************)
(* The plans of slugs.  What a loop computes is a recursive function; that *)
(* there is one, and what it computes, is shown by induction on the number *)
(* of rows it has seen.                                                    *)
(***************************************************************************)
LEMMA LeastOf ==
  ASSUME NEW T, T \subseteq Nat, T # {}
  PROVE  \E x \in T : \A y \in T : x <= y
<1> DEFINE R == {p \in Nat \X Nat : p[1] < p[2]}
<1>1. IsWellFoundedOn(R, Nat)
  BY NatLessThanWellFounded DEF OpToRel
<1> HIDE DEF R
<1>2. PICK x \in T : \A y \in T : ~ (<<y, x>> \in R)
  BY <1>1, WFMin
<1>3. \A y \in T : ~ (y < x)
  BY <1>2 DEF R
<1>. QED BY <1>3

LEMMA AllUpTo ==
  ASSUME NEW k \in Nat, NEW T, 0 \in T, \A n \in 1..k : n - 1 \in T => n \in T
  PROVE  \A n \in 0..k : n \in T
<1> SUFFICES ASSUME (0..k) \ T # {} PROVE FALSE
  OBVIOUS
<1> DEFINE R == (0..k) \ T
<1>1. R \subseteq Nat /\ R # {}
  OBVIOUS
<1> HIDE DEF R
<1>2. PICK x \in R : \A y \in R : x <= y
  BY <1>1, LeastOf
<1>3. x \in (0..k) \ T /\ \A y \in (0..k) \ T : x <= y
  BY <1>2 DEF R
<1>4. x \in 1..k /\ x - 1 \in 0..k /\ ~(x <= x - 1)
  BY <1>3
<1>. QED BY <1>3, <1>4

(* There is a function that takes the steps of g.                          *)
Steps(k, S) == [(1..k) \X S -> S]
Taking(f, g, k, S, start) ==
  f \in [0..k -> S] /\ f[0] = start /\ \A n \in 1..k : f[n] = g[<<n, f[n-1]>>]

LEMMA StepsCanBeTaken ==
  ASSUME NEW k \in Nat, NEW S, NEW start \in S, NEW g \in Steps(k, S)
  PROVE  \E f : Taking(f, g, k, S, start)
<1> DEFINE T == {j \in 0..k : \E f : Taking(f, g, j, S, start)}
<1>1. 0 \in T
  <2> DEFINE f == [n \in 0..0 |-> start]
  <2>1. f \in [0..0 -> S] /\ f[0] = start /\ 1..0 = {}
    OBVIOUS
  <2> HIDE DEF f
  <2>2. Taking(f, g, 0, S, start)
    BY <2>1 DEF Taking
  <2>3. 0 \in 0..k
    OBVIOUS
  <2>. QED BY <2>2, <2>3
<1>2. ASSUME NEW j \in 1..k, j - 1 \in T PROVE j \in T
  <2>1. PICK f : Taking(f, g, j - 1, S, start)
    BY <1>2
  <2> HIDE DEF T
  <2>2. /\ f \in [0..(j-1) -> S] /\ f[0] = start
        /\ \A n \in 1..(j-1) : f[n] = g[<<n, f[n-1]>>]
    BY <2>1 DEF Taking
  <2>3. /\ j \in Nat /\ j - 1 \in 0..(j-1) /\ 0 \in 0..(j-1)
        /\ \A n \in 0..j : n # j => n \in 0..(j-1)
        /\ \A n \in 1..j : n \in 0..j /\ n - 1 \in 0..(j-1) /\ (n # j => n \in 1..(j-1))
        /\ \A n \in 0..(j-1) : n \in 0..j /\ n # j
    OBVIOUS
  <2> DEFINE next == g[<<j, f[j-1]>>]
  <2>4. next \in S
    <3>1. f[j-1] \in S
      BY <2>2, <2>3
    <3>2. <<j, f[j-1]>> \in (1..k) \X S
      BY <3>1
    <3>. QED BY <3>2 DEF Steps
  <2> HIDE DEF next
  <2> DEFINE h == [n \in 0..j |-> IF n = j THEN next ELSE f[n]]
  <2>5. /\ h \in [0..j -> S] /\ h[j] = next
        /\ \A n \in 0..(j-1) : h[n] = f[n]
    <3>1. \A n \in 0..j : (IF n = j THEN next ELSE f[n]) \in S
      BY <2>2, <2>3, <2>4
    <3>2. j \in 0..j
      OBVIOUS
    <3>3. h \in [0..j -> S] /\ h[j] = next
      BY <3>1, <3>2
    <3>4. ASSUME NEW n \in 0..(j-1) PROVE h[n] = f[n]
      <4>1. n \in 0..j /\ n # j
        BY <2>3
      <4>. QED BY <4>1
    <3>. QED BY <3>3, <3>4
  <2> HIDE DEF h
  <2>6. h[0] = start
    BY <2>2, <2>3, <2>5
  <2>7. ASSUME NEW n \in 1..j PROVE h[n] = g[<<n, h[n-1]>>]
    <3>1. h[n-1] = f[n-1]
      BY <2>3, <2>5
    <3>2. CASE n = j
      BY <2>5, <3>1, <3>2 DEF next
    <3>3. CASE n # j
      <4>1. n \in 1..(j-1) /\ n \in 0..(j-1)
        BY <2>3, <3>3
      <4>2. h[n] = f[n]
        BY <2>5, <4>1
      <4>3. f[n] = g[<<n, f[n-1]>>]
        BY <2>2, <4>1
      <4>. QED BY <3>1, <4>2, <4>3
    <3>. QED BY <3>2, <3>3
  <2>8. Taking(h, g, j, S, start)
    BY <2>5, <2>6, <2>7 DEF Taking
  <2>9. j \in 0..k
    OBVIOUS
  <2>. QED BY <2>8, <2>9 DEF T
<1> HIDE DEF T
<1>3. k \in T
  BY <1>1, <1>2, AllUpTo
<1>. QED BY <1>3 DEF T

LEMMA PlanSizes ==
  /\ \A S : Plans!IsFiniteSet(S) <=> IsFiniteSet(S)
  /\ \A S : Plans!Cardinality(S) = Cardinality(S)
<1>1. \A S : Plans!IsFiniteSet(S) <=> IsFiniteSet(S)
  BY DEF Plans!IsFiniteSet, IsFiniteSet
<1>2. \A S : Plans!Cardinality(S) = Cardinality(S)
  BY DEF Plans!Cardinality, Cardinality
<1>. QED BY <1>1, <1>2

Word == Seq(Nat)
Entries == Seq(Plans!Entry)

(* Of the numbers up to one more than there are slugs in use, one is free. *)
LEMMA FirstFreeIs ==
  ASSUME NEW stem \in Word, NEW used, IsFiniteSet(used)
  PROVE  Plans!FirstFree(stem, used) \in Word /\ Plans!FirstFree(stem, used) \notin used
<1> DEFINE c == Cardinality(used)
           free == {n \in 2..(c + 2) : Append(stem, n) \notin used}
<1>1. c \in Nat
  BY FS_CardinalityType
<1>2. Plans!FirstFree(stem, used) = Append(stem, CHOOSE n \in free : \A m \in free : n <= m)
  BY PlanSizes DEF Plans!FirstFree
<1> HIDE DEF c
<1>3. \A n, m \in Nat : Append(stem, n) = Append(stem, m) => n = m
  <2>1. ASSUME NEW n \in Nat, NEW m \in Nat, Append(stem, n) = Append(stem, m) PROVE n = m
    <3>1. Append(stem, n)[Len(stem) + 1] = n /\ Append(stem, m)[Len(stem) + 1] = m
      BY DEF Word
    <3>. QED BY <2>1, <3>1
  <2>. QED BY <2>1
<1>4. free # {}
  <2> SUFFICES ASSUME \A n \in 2..(c + 2) : Append(stem, n) \in used PROVE FALSE
    OBVIOUS
  <2> DEFINE f == [n \in 2..(c + 2) |-> Append(stem, n)]
  <2>1. f \in [2..(c + 2) -> used] /\ \A n, m \in 2..(c + 2) : f[n] = f[m] => n = m
    BY <1>1, <1>3
  <2>2. f \in Injection(2..(c + 2), used)
    BY <2>1 DEF Injection, IsInjective
  <2> HIDE DEF f
  <2>3. Cardinality(2..(c + 2)) <= c
    BY <2>2, FS_Injection DEF c
  <2>4. Cardinality(2..(c + 2)) = c + 1
    BY <1>1, FS_Interval
  <2>. QED BY <1>1, <2>3, <2>4
<1>5. free \subseteq Nat /\ \A n \in free : Append(stem, n) \notin used
  BY <1>1
<1> HIDE DEF free
<1>6. \E n \in free : \A m \in free : n <= m
  BY <1>4, <1>5, LeastOf
<1> DEFINE n == CHOOSE n \in free : \A m \in free : n <= m
<1>7. n \in free
  BY <1>6
<1> HIDE DEF n
<1>8. n \in Nat /\ Append(stem, n) \in Word /\ Append(stem, n) \notin used
  BY <1>5, <1>7 DEF Word
<1>. QED BY <1>2, <1>8 DEF n

LEMMA BasesAre ==
  Bases \subseteq Word /\ Reserved \subseteq Word /\ IsFiniteSet(Reserved) /\ Year \in Nat
BY PlansAssumption, PlanSizes DEF Plans!BasesAssumption, Plans!BoundsAssumption, Word

(* A slug that is given is free.                                           *)
LEMMA ArticleSlugIs ==
  ASSUME NEW base \in Word, NEW used, IsFiniteSet(used)
  PROVE  Plans!ArticleSlug(base, used) \in Word /\ Plans!ArticleSlug(base, used) \notin used
BY FirstFreeIs DEF Plans!ArticleSlug

LEMMA EventSlugIs ==
  ASSUME NEW base \in Word, NEW used, IsFiniteSet(used)
  PROVE  Plans!EventSlug(base, used) \in Word /\ Plans!EventSlug(base, used) \notin used
<1>1. Append(base, Year) \in Word
  BY BasesAre DEF Word
<1>. QED BY <1>1, FirstFreeIs DEF Plans!EventSlug

LEMMA EntryFits ==
  \A id \in LegacyIds, slug \in Word :
    /\ [id |-> id, slug |-> slug] \in Plans!Entry
    /\ [id |-> id, slug |-> slug].id = id /\ [id |-> id, slug |-> slug].slug = slug
BY DEF Plans!Entry, Word

LEMMA EntriesFit ==
  ASSUME NEW p \in Entries
  PROVE  /\ Len(p) \in Nat /\ DOMAIN p = 1..Len(p)
         /\ \A n \in DOMAIN p : p[n].id \in LegacyIds /\ p[n].slug \in Word
<1>1. Len(p) \in Nat /\ DOMAIN p = 1..Len(p) /\ \A n \in DOMAIN p : p[n] \in Plans!Entry
  BY DEF Entries
<1>2. \A e \in Plans!Entry : e.id \in LegacyIds /\ e.slug \in Word
  BY DEF Plans!Entry, Word
<1>. QED BY <1>1, <1>2

LEMMA SlugsAreFinite ==
  ASSUME NEW p \in Entries
  PROVE  IsFiniteSet(Plans!SlugsOf(p)) /\ Plans!SlugsOf(p) \subseteq Word
<1> DEFINE f == [n \in DOMAIN p |-> p[n].slug]
<1>1. IsFiniteSet(DOMAIN p)
  <2>1. DOMAIN p = 1..Len(p) /\ Len(p) \in Nat
    BY DEF Entries
  <2>. QED BY <2>1, FS_Interval
<1>2. f \in Surjection(DOMAIN p, Plans!SlugsOf(p))
  BY DEF Surjection, Plans!SlugsOf
<1> HIDE DEF f
<1>3. IsFiniteSet(Plans!SlugsOf(p))
  BY <1>1, <1>2, FS_Surjection
<1>4. \A n \in DOMAIN p : p[n] \in Plans!Entry
  BY DEF Entries
<1>. QED BY <1>3, <1>4 DEF Plans!SlugsOf, Plans!Entry, Word

(* No slug twice, no row twice.                                            *)
SlugsDiffer(p) == \A n, m \in DOMAIN p : p[n].slug = p[m].slug => n = m
IdsDiffer(p) == \A n, m \in DOMAIN p : p[n].id = p[m].id => n = m

LegacyRow == [id: LegacyIds, kind: Plans!Kinds, base: Bases]
LegacyFits == legacy \in Seq(LegacyRow) /\ \A n, m \in DOMAIN legacy : legacy[n].id = legacy[m].id => n = m

(* One more entry.                                                         *)
LEMMA AppendIs ==
  ASSUME NEW p \in Entries, NEW e \in Plans!Entry
  PROVE  /\ Append(p, e) \in Entries /\ Len(Append(p, e)) = Len(p) + 1
         /\ Append(p, e)[Len(p) + 1] = e
         /\ \A m \in DOMAIN p : m \in DOMAIN Append(p, e) /\ Append(p, e)[m] = p[m]
         /\ \A m \in DOMAIN Append(p, e) : m \in DOMAIN p \/ m = Len(p) + 1
         /\ Len(p) \in Nat /\ Len(p) + 1 \notin DOMAIN p
<1>1. /\ Append(p, e) \in Entries /\ Len(Append(p, e)) = Len(p) + 1 /\ Len(p) \in Nat
      /\ DOMAIN p = 1..Len(p) /\ DOMAIN Append(p, e) = 1..(Len(p) + 1)
      /\ Append(p, e)[Len(p) + 1] = e
  BY DEF Entries
<1>2. \A m \in 1..Len(p) : Append(p, e)[m] = p[m]
  BY DEF Entries
<1>. QED BY <1>1, <1>2

(* A loop over the rows of a kind plans slugs that differ, and none taken. *)
Loops(u, kind, taken) ==
  /\ u[0] = <<>>
  /\ \A n \in 1..Len(legacy) : u[n-1] \in Entries =>
       \/ u[n] = u[n-1]
       \/ \E e \in Plans!Entry : /\ u[n] = Append(u[n-1], e)
                                 /\ legacy[n].kind = kind /\ e.id = legacy[n].id
                                 /\ e.slug \notin taken \cup Plans!SlugsOf(u[n-1])

Looped(p, n, kind, taken) ==
  /\ p \in Entries /\ SlugsDiffer(p) /\ IdsDiffer(p)
  /\ \A m \in DOMAIN p : p[m].slug \notin taken
  /\ \A m \in DOMAIN p : \E j \in 1..n : legacy[j].kind = kind /\ p[m].id = legacy[j].id

LEMMA LoopIs ==
  ASSUME LegacyFits, NEW u, NEW kind, NEW taken, Loops(u, kind, taken)
  PROVE  Looped(u[Len(legacy)], Len(legacy), kind, taken)
<1> DEFINE T == {n \in 0..Len(legacy) : Looped(u[n], n, kind, taken)}
<1>1. Len(legacy) \in Nat /\ DOMAIN legacy = 1..Len(legacy)
  BY DEF LegacyFits
<1>2. 0 \in T
  <2>1. u[0] \in Entries /\ DOMAIN u[0] = {}
    BY DEF Loops, Entries
  <2>. QED BY <1>1, <2>1 DEF Looped, SlugsDiffer, IdsDiffer
<1>3. ASSUME NEW n \in 1..Len(legacy), n - 1 \in T PROVE n \in T
  <2> DEFINE p == u[n-1]
  <2>1. Looped(p, n - 1, kind, taken)
    BY <1>3
  <2>2. n \in 0..Len(legacy) /\ \A j \in 1..(n-1) : j \in 1..n /\ j # n /\ j \in DOMAIN legacy
    BY <1>1
  <2>3. CASE u[n] = p
    BY <2>1, <2>2, <2>3 DEF Looped
  <2>4. CASE \E e \in Plans!Entry : /\ u[n] = Append(p, e)
                                    /\ legacy[n].kind = kind /\ e.id = legacy[n].id
                                    /\ e.slug \notin taken \cup Plans!SlugsOf(p)
    <3>1. PICK e \in Plans!Entry : /\ u[n] = Append(p, e)
                                   /\ legacy[n].kind = kind /\ e.id = legacy[n].id
                                   /\ e.slug \notin taken \cup Plans!SlugsOf(p)
      BY <2>4
    <3> DEFINE q == u[n]
    <3> HIDE DEF p, q
    <3>2. p \in Entries
      BY <2>1 DEF Looped
    <3>3. /\ q \in Entries /\ q[Len(p) + 1] = e
          /\ \A m \in DOMAIN p : m \in DOMAIN q /\ q[m] = p[m]
          /\ \A m \in DOMAIN q : m \in DOMAIN p \/ m = Len(p) + 1
      BY <3>1, <3>2, AppendIs DEF q
    <3>4. \A m \in DOMAIN p : p[m].slug # e.slug
      BY <3>1 DEF Plans!SlugsOf
    <3>5. \A m \in DOMAIN p : p[m].id # e.id
      <4>1. n \in DOMAIN legacy
        BY <1>1
      <4>. QED BY <2>1, <2>2, <3>1, <4>1 DEF Looped, LegacyFits
    <3>6. SlugsDiffer(q)
      BY <2>1, <3>3, <3>4 DEF Looped, SlugsDiffer
    <3>7. IdsDiffer(q)
      BY <2>1, <3>3, <3>5 DEF Looped, IdsDiffer
    <3>8. \A m \in DOMAIN q : q[m].slug \notin taken
      BY <2>1, <3>1, <3>3 DEF Looped
    <3>9. \A m \in DOMAIN q : \E j \in 1..n : legacy[j].kind = kind /\ q[m].id = legacy[j].id
      <4>1. n \in 1..n
        OBVIOUS
      <4>. QED BY <2>1, <2>2, <3>1, <3>3, <4>1 DEF Looped
    <3>10. Looped(q, n, kind, taken)
      BY <3>3, <3>6, <3>7, <3>8, <3>9 DEF Looped
    <3>. QED BY <2>2, <3>10 DEF q
  <2>. QED BY <2>1, <2>3, <2>4 DEF Loops, Looped
<1> HIDE DEF T
<1>4. Len(legacy) \in T
  <2>1. \A n \in 1..Len(legacy) : n - 1 \in T => n \in T
    BY <1>3
  <2>2. Len(legacy) \in Nat /\ Len(legacy) \in 0..Len(legacy)
    BY <1>1
  <2>3. \A n \in 0..Len(legacy) : n \in T
    BY <1>2, <2>1, <2>2, AllUpTo
  <2>. QED BY <2>2, <2>3
<1>. QED BY <1>4 DEF T

(* buildSlugPlan takes one step per row.                                   *)
LEMMA ArticlePlanIs ==
  ASSUME LegacyFits
  PROVE  Looped(Plans!ArticlePlan, Len(legacy), "article", Reserved)
<1> DEFINE k == Len(legacy)
           Slug(n, p) == Plans!ArticleSlug(legacy[n].base, Reserved \cup Plans!SlugsOf(p))
           Step(n, p) == IF legacy[n].kind # "article" THEN p
                         ELSE Append(p, [id |-> legacy[n].id, slug |-> Slug(n, p)])
           Upto(u) == [n \in 0..k |-> IF n = 0 THEN <<>> ELSE Step(n, u[n-1])]
           upto == CHOOSE u : u = Upto(u)
<1>1. Plans!ArticlePlan = upto[k]
  BY DEF Plans!ArticlePlan
<1>2. k \in Nat /\ \A n \in 1..k : legacy[n] \in LegacyRow
  BY DEF LegacyFits
<1>3. \A n \in 1..k : legacy[n].id \in LegacyIds /\ legacy[n].base \in Word
  BY <1>2, BasesAre DEF LegacyRow
<1>4. ASSUME NEW n \in 1..k, NEW p \in Entries
      PROVE  /\ Slug(n, p) \in Word
             /\ Slug(n, p) \notin Reserved \cup Plans!SlugsOf(p)
  <2>1. IsFiniteSet(Reserved \cup Plans!SlugsOf(p))
    BY SlugsAreFinite, BasesAre, FS_Union
  <2>. QED BY <1>3, <2>1, ArticleSlugIs
<1> HIDE DEF Slug
<1>5. ASSUME NEW n \in 1..k, NEW p \in Entries
      PROVE  /\ Step(n, p) \in Entries
             /\ \/ Step(n, p) = p
                \/ \E e \in Plans!Entry : /\ Step(n, p) = Append(p, e)
                                          /\ legacy[n].kind = "article" /\ e.id = legacy[n].id
                                          /\ e.slug \notin Reserved \cup Plans!SlugsOf(p)
  <2> DEFINE e == [id |-> legacy[n].id, slug |-> Slug(n, p)]
  <2>1. e \in Plans!Entry /\ e.id = legacy[n].id /\ e.slug = Slug(n, p)
    BY <1>3, <1>4, EntryFits
  <2>2. Step(n, p) = IF legacy[n].kind # "article" THEN p ELSE Append(p, e)
    OBVIOUS
  <2> HIDE DEF e, Step
  <2>3. Append(p, e) \in Entries
    BY <2>1, AppendIs
  <2>. QED BY <1>4, <2>1, <2>2, <2>3
<1> HIDE DEF Step, k
<1>6. upto = Upto(upto)
  <2> DEFINE g == [s \in (1..k) \X Entries |-> Step(s[1], s[2])]
  <2>1. <<>> \in Entries /\ g \in Steps(k, Entries)
    BY <1>5 DEF Entries, Steps
  <2> HIDE DEF g
  <2>2. PICK f : Taking(f, g, k, Entries, <<>>)
    BY <1>2, <2>1, StepsCanBeTaken
  <2>3. ASSUME NEW n \in 1..k PROVE f[n] = Step(n, f[n-1])
    <3>1. n - 1 \in 0..k
      BY <1>2
    <3>2. f[n-1] \in Entries
      BY <2>2, <3>1 DEF Taking
    <3>3. g[<<n, f[n-1]>>] = Step(n, f[n-1])
      BY <3>2 DEF g
    <3>. QED BY <2>2, <3>3 DEF Taking
  <2>4. \A n \in 0..k : f[n] = IF n = 0 THEN <<>> ELSE Step(n, f[n-1])
    <3>1. f[0] = <<>> /\ \A n \in 0..k : n = 0 \/ n \in 1..k
      BY <1>2, <2>2 DEF Taking
    <3>. QED BY <2>3, <3>1
  <2>5. f = Upto(f)
    BY <2>2, <2>4 DEF Taking
  <2> HIDE DEF Upto
  <2>. QED BY <2>5
<1> HIDE DEF upto
<1>7. upto[0] = <<>> /\ \A n \in 1..k : upto[n] = Step(n, upto[n-1])
  <2>1. 0 \in 0..k /\ \A n \in 1..k : n \in 0..k /\ n # 0
    BY <1>2
  <2>2. ASSUME NEW w, w = Upto(w)
        PROVE  \A n \in 0..k : w[n] = IF n = 0 THEN <<>> ELSE Step(n, w[n-1])
    BY <2>2
  <2> HIDE DEF Upto
  <2>3. \A n \in 0..k : upto[n] = IF n = 0 THEN <<>> ELSE Step(n, upto[n-1])
    BY <1>6, <2>2
  <2>. QED BY <2>1, <2>3
<1>8. Loops(upto, "article", Reserved)
  BY <1>5, <1>7 DEF Loops, k
<1>. QED BY <1>1, <1>8, LoopIs DEF k

(* planEventSlugs does too, around what is taken.                          *)
LEMMA EventPlanIs ==
  ASSUME LegacyFits, NEW taken, IsFiniteSet(taken)
  PROVE  Looped(Plans!EventPlan(taken), Len(legacy), "event", taken)
<1> DEFINE k == Len(legacy)
           Slug(n, p) == Plans!EventSlug(legacy[n].base, taken \cup Plans!SlugsOf(p))
           Step(n, p) == IF legacy[n].kind # "event" THEN p
                         ELSE Append(p, [id |-> legacy[n].id, slug |-> Slug(n, p)])
           Upto(u) == [n \in 0..k |-> IF n = 0 THEN <<>> ELSE Step(n, u[n-1])]
           upto == CHOOSE u : u = Upto(u)
<1>1. Plans!EventPlan(taken) = upto[k]
  BY DEF Plans!EventPlan
<1>2. k \in Nat /\ \A n \in 1..k : legacy[n] \in LegacyRow
  BY DEF LegacyFits
<1>3. \A n \in 1..k : legacy[n].id \in LegacyIds /\ legacy[n].base \in Word
  BY <1>2, BasesAre DEF LegacyRow
<1>4. ASSUME NEW n \in 1..k, NEW p \in Entries
      PROVE  /\ Slug(n, p) \in Word
             /\ Slug(n, p) \notin taken \cup Plans!SlugsOf(p)
  <2>1. IsFiniteSet(taken \cup Plans!SlugsOf(p))
    BY SlugsAreFinite, FS_Union
  <2>. QED BY <1>3, <2>1, EventSlugIs
<1> HIDE DEF Slug
<1>5. ASSUME NEW n \in 1..k, NEW p \in Entries
      PROVE  /\ Step(n, p) \in Entries
             /\ \/ Step(n, p) = p
                \/ \E e \in Plans!Entry : /\ Step(n, p) = Append(p, e)
                                          /\ legacy[n].kind = "event" /\ e.id = legacy[n].id
                                          /\ e.slug \notin taken \cup Plans!SlugsOf(p)
  <2> DEFINE e == [id |-> legacy[n].id, slug |-> Slug(n, p)]
  <2>1. e \in Plans!Entry /\ e.id = legacy[n].id /\ e.slug = Slug(n, p)
    BY <1>3, <1>4, EntryFits
  <2>2. Step(n, p) = IF legacy[n].kind # "event" THEN p ELSE Append(p, e)
    OBVIOUS
  <2> HIDE DEF e, Step
  <2>3. Append(p, e) \in Entries
    BY <2>1, AppendIs
  <2>. QED BY <1>4, <2>1, <2>2, <2>3
<1> HIDE DEF Step, k
<1>6. upto = Upto(upto)
  <2> DEFINE g == [s \in (1..k) \X Entries |-> Step(s[1], s[2])]
  <2>1. <<>> \in Entries /\ g \in Steps(k, Entries)
    BY <1>5 DEF Entries, Steps
  <2> HIDE DEF g
  <2>2. PICK f : Taking(f, g, k, Entries, <<>>)
    BY <1>2, <2>1, StepsCanBeTaken
  <2>3. ASSUME NEW n \in 1..k PROVE f[n] = Step(n, f[n-1])
    <3>1. n - 1 \in 0..k
      BY <1>2
    <3>2. f[n-1] \in Entries
      BY <2>2, <3>1 DEF Taking
    <3>3. g[<<n, f[n-1]>>] = Step(n, f[n-1])
      BY <3>2 DEF g
    <3>. QED BY <2>2, <3>3 DEF Taking
  <2>4. \A n \in 0..k : f[n] = IF n = 0 THEN <<>> ELSE Step(n, f[n-1])
    <3>1. f[0] = <<>> /\ \A n \in 0..k : n = 0 \/ n \in 1..k
      BY <1>2, <2>2 DEF Taking
    <3>. QED BY <2>3, <3>1
  <2>5. f = Upto(f)
    BY <2>2, <2>4 DEF Taking
  <2> HIDE DEF Upto
  <2>. QED BY <2>5
<1> HIDE DEF upto
<1>7. upto[0] = <<>> /\ \A n \in 1..k : upto[n] = Step(n, upto[n-1])
  <2>1. 0 \in 0..k /\ \A n \in 1..k : n \in 0..k /\ n # 0
    BY <1>2
  <2>2. ASSUME NEW w, w = Upto(w)
        PROVE  \A n \in 0..k : w[n] = IF n = 0 THEN <<>> ELSE Step(n, w[n-1])
    BY <2>2
  <2> HIDE DEF Upto
  <2>3. \A n \in 0..k : upto[n] = IF n = 0 THEN <<>> ELSE Step(n, upto[n-1])
    BY <1>6, <2>2
  <2>. QED BY <2>1, <2>3
<1>8. Loops(upto, "event", taken)
  BY <1>5, <1>7 DEF Loops, k
<1>. QED BY <1>1, <1>8, LoopIs DEF k

(* Articles first, events after them.                                      *)
LEMMA BothPlansAre ==
  ASSUME LegacyFits, NEW taken, IsFiniteSet(taken)
  PROVE  LET p == Plans!ArticlePlan \o Plans!EventPlan(Plans!SlugsOf(Plans!ArticlePlan) \cup taken) IN
         /\ p \in Entries /\ SlugsDiffer(p) /\ IdsDiffer(p)
         /\ \A n \in DOMAIN p : \E j \in DOMAIN legacy : p[n].id = legacy[j].id
<1> DEFINE a == Plans!ArticlePlan
           k == Len(legacy)
           around == Plans!SlugsOf(a) \cup taken
           e == Plans!EventPlan(around)
           p == a \o e
<1>1. Looped(a, k, "article", Reserved)
  BY ArticlePlanIs
<1>2. IsFiniteSet(around)
  <2>1. a \in Entries
    BY <1>1 DEF Looped
  <2> HIDE DEF a
  <2>. QED BY <2>1, SlugsAreFinite, FS_Union
<1> HIDE DEF a, around
<1>3. Looped(e, k, "event", around)
  BY <1>2, EventPlanIs
<1>4. Plans!SlugsOf(a) \subseteq around
  BY DEF around
<1> HIDE DEF e
<1>5. a \in Entries /\ e \in Entries
  BY <1>1, <1>3 DEF Looped
<1>6. /\ p \in Entries /\ DOMAIN p = 1..(Len(a) + Len(e)) /\ Len(a) \in Nat /\ Len(e) \in Nat
      /\ DOMAIN a = 1..Len(a) /\ DOMAIN e = 1..Len(e)
      /\ \A n \in 1..Len(a) : p[n] = a[n]
      /\ \A n \in 1..Len(e) : p[Len(a) + n] = e[n]
  BY <1>5 DEF Entries
<1> HIDE DEF p
<1>7. \A n \in DOMAIN p : \/ n \in DOMAIN a /\ p[n] = a[n]
                          \/ n - Len(a) \in DOMAIN e /\ p[n] = e[n - Len(a)]
  <2> SUFFICES ASSUME NEW n \in DOMAIN p
               PROVE  \/ n \in DOMAIN a /\ p[n] = a[n]
                      \/ n - Len(a) \in DOMAIN e /\ p[n] = e[n - Len(a)]
    OBVIOUS
  <2>1. n \in 1..Len(a) \/ n - Len(a) \in 1..Len(e)
    BY <1>6
  <2>2. n - Len(a) \in 1..Len(e) => Len(a) + (n - Len(a)) = n
    BY <1>6
  <2>. QED BY <1>6, <2>1, <2>2
<1>8. \A n, m \in DOMAIN p : n - Len(a) = m - Len(a) => n = m
  BY <1>6
<1>9. \A n \in DOMAIN a, m \in DOMAIN e : a[n].slug # e[m].slug
  <2>1. \A n \in DOMAIN a : a[n].slug \in around
    BY <1>4 DEF Plans!SlugsOf
  <2>. QED BY <1>3, <2>1 DEF Looped
<1>10. \A n \in DOMAIN a, m \in DOMAIN e : a[n].id # e[m].id
  <2> SUFFICES ASSUME NEW n \in DOMAIN a, NEW m \in DOMAIN e PROVE a[n].id # e[m].id
    OBVIOUS
  <2>1. PICK i \in 1..k : legacy[i].kind = "article" /\ a[n].id = legacy[i].id
    BY <1>1 DEF Looped
  <2>2. PICK j \in 1..k : legacy[j].kind = "event" /\ e[m].id = legacy[j].id
    BY <1>3 DEF Looped
  <2>3. i # j /\ i \in DOMAIN legacy /\ j \in DOMAIN legacy
    BY <2>1, <2>2 DEF LegacyFits
  <2>. QED BY <2>1, <2>2, <2>3 DEF LegacyFits
<1>11. SlugsDiffer(p)
  <2>1. SlugsDiffer(a) /\ SlugsDiffer(e)
    BY <1>1, <1>3 DEF Looped
  <2>. QED BY <1>7, <1>8, <1>9, <2>1 DEF SlugsDiffer
<1>12. IdsDiffer(p)
  <2>1. IdsDiffer(a) /\ IdsDiffer(e)
    BY <1>1, <1>3 DEF Looped
  <2>. QED BY <1>7, <1>8, <1>10, <2>1 DEF IdsDiffer
<1>13. \A n \in DOMAIN p : \E j \in DOMAIN legacy : p[n].id = legacy[j].id
  <2>1. \A j \in 1..k : j \in DOMAIN legacy
    BY DEF LegacyFits
  <2>2. /\ \A n \in DOMAIN a : \E j \in 1..k : a[n].id = legacy[j].id
        /\ \A n \in DOMAIN e : \E j \in 1..k : e[n].id = legacy[j].id
    BY <1>1, <1>3 DEF Looped
  <2>. QED BY <1>7, <2>1, <2>2
<1>. QED BY <1>6, <1>11, <1>12, <1>13 DEF p, e, around, a

(* A map from rows to slugs, no slug twice.                                *)
IsOneToOne(f) ==
  /\ IsFiniteSet(DOMAIN f) /\ \A id \in DOMAIN f : f[id] \in Word
  /\ \A id, other \in DOMAIN f : f[id] = f[other] => id = other

LEMMA TakenIsFinite ==
  ASSUME NEW f, IsOneToOne(f)
  PROVE  IsFiniteSet(Plans!Taken(f))
<1> DEFINE g == [id \in DOMAIN f |-> f[id]]
<1>1. g \in Surjection(DOMAIN f, Plans!Taken(f))
  BY DEF Surjection, Plans!Taken
<1> HIDE DEF g
<1>. QED BY <1>1, FS_Surjection DEF IsOneToOne

(* What has been pinned, up to an entry.                                   *)
PinnedUpTo(q, n, p, prior) ==
  /\ q \in Entries /\ Len(q) = n
  /\ \A m \in 1..n :
       /\ q[m].id = p[m].id
       /\ p[m].id \in DOMAIN prior => q[m].slug = prior[p[m].id]
       /\ m \in Plans!Kept(p, prior) => q[m].slug = p[m].slug
       /\ p[m].id \notin DOMAIN prior /\ p[m].slug \in Plans!Taken(prior) =>
            q[m].slug \notin Plans!Taken(prior) \cup {p[i].slug : i \in Plans!Kept(p, prior)}
  /\ \A m, i \in 1..n :
       /\ p[m].id \notin DOMAIN prior /\ p[m].slug \in Plans!Taken(prior)
       /\ p[i].id \notin DOMAIN prior /\ p[i].slug \in Plans!Taken(prior)
       /\ q[m].slug = q[i].slug
       => m = i

LEMMA PinnedSlugsAre ==
  ASSUME NEW p \in Entries, NEW prior, IsOneToOne(prior)
  PROVE  PinnedUpTo(Plans!Pinned(p, prior), Len(p), p, prior)
<1> DEFINE k == Len(p)
           used == Plans!Taken(prior) \cup {p[n].slug : n \in Plans!Kept(p, prior)}
           Slug(n, q) == Plans!Repinned(p[n], prior, used \cup Plans!SlugsOf(q))
           Step(n, q) == Append(q, [id |-> p[n].id, slug |-> Slug(n, q)])
           Upto(u) == [n \in 0..k |-> IF n = 0 THEN <<>> ELSE Step(n, u[n-1])]
           upto == CHOOSE u : u = Upto(u)
<1>1. Plans!Pinned(p, prior) = upto[k]
  BY DEF Plans!Pinned
<1>2. k \in Nat /\ DOMAIN p = 1..k /\ \A n \in 1..k : p[n].id \in LegacyIds /\ p[n].slug \in Word
  BY EntriesFit
<1>3. IsFiniteSet(used)
  <2>1. Plans!Kept(p, prior) \subseteq DOMAIN p
    BY DEF Plans!Kept
  <2>2. {p[n].slug : n \in Plans!Kept(p, prior)} \subseteq Plans!SlugsOf(p)
    BY <2>1 DEF Plans!SlugsOf
  <2>. QED BY <2>2, TakenIsFinite, SlugsAreFinite, FS_Subset, FS_Union
<1> HIDE DEF used
<1>4. ASSUME NEW n \in 1..k, NEW q \in Entries
      PROVE  /\ Slug(n, q) \in Word
             /\ p[n].id \in DOMAIN prior => Slug(n, q) = prior[p[n].id]
             /\ n \in Plans!Kept(p, prior) => Slug(n, q) = p[n].slug
             /\ p[n].id \notin DOMAIN prior /\ p[n].slug \in Plans!Taken(prior) =>
                  Slug(n, q) \notin used \cup Plans!SlugsOf(q)
  <2>1. IsFiniteSet(used \cup Plans!SlugsOf(q))
    BY <1>3, SlugsAreFinite, FS_Union
  <2>2. /\ Plans!FirstFree(p[n].slug, used \cup Plans!SlugsOf(q)) \in Word
        /\ Plans!FirstFree(p[n].slug, used \cup Plans!SlugsOf(q)) \notin used \cup Plans!SlugsOf(q)
    BY <1>2, <2>1, FirstFreeIs
  <2>. QED BY <1>2, <2>2 DEF Plans!Repinned, Plans!Kept, IsOneToOne
<1> HIDE DEF Slug
<1>5. ASSUME NEW n \in 1..k, NEW q \in Entries
      PROVE  LET e == [id |-> p[n].id, slug |-> Slug(n, q)] IN
             e \in Plans!Entry /\ e.id = p[n].id /\ e.slug = Slug(n, q)
  BY <1>2, <1>4, EntryFits
<1>6. ASSUME NEW n \in 1..k, NEW q \in Entries PROVE Step(n, q) \in Entries
  BY <1>5, AppendIs
<1>7. ASSUME NEW n \in 1..k, NEW q, PinnedUpTo(q, n - 1, p, prior)
      PROVE  PinnedUpTo(Step(n, q), n, p, prior)
  <2> DEFINE e == [id |-> p[n].id, slug |-> Slug(n, q)]
             r == Step(n, q)
             Moved(m) == p[m].id \notin DOMAIN prior /\ p[m].slug \in Plans!Taken(prior)
  <2>1. q \in Entries /\ Len(q) = n - 1
    BY <1>7 DEF PinnedUpTo
  <2>2. e \in Plans!Entry /\ e.id = p[n].id /\ e.slug = Slug(n, q) /\ r = Append(q, e)
    BY <1>5, <2>1
  <2> HIDE DEF e, r
  <2>3. /\ r \in Entries /\ Len(r) = n /\ r[n] = e
        /\ \A m \in 1..(n-1) : r[m] = q[m] /\ q[m].slug \in Plans!SlugsOf(q)
    <3>1. (n - 1) + 1 = n /\ DOMAIN q = 1..(n - 1)
      BY <2>1 DEF Entries
    <3>2. /\ r \in Entries /\ Len(r) = Len(q) + 1 /\ r[Len(q) + 1] = e
          /\ \A m \in DOMAIN q : r[m] = q[m]
      <4>1. q \in Entries /\ e \in Plans!Entry
        BY <2>1, <2>2
      <4>2. r = Append(q, e)
        BY <2>2
      <4>3. /\ Append(q, e) \in Entries /\ Len(Append(q, e)) = Len(q) + 1
            /\ Append(q, e)[Len(q) + 1] = e
            /\ \A m \in DOMAIN q : Append(q, e)[m] = q[m]
        BY <4>1, AppendIs
      <4>. QED BY <4>2, <4>3
    <3>3. \A m \in DOMAIN q : q[m].slug \in Plans!SlugsOf(q)
      BY DEF Plans!SlugsOf
    <3>4. Len(r) = n /\ r[n] = e
      BY <2>1, <3>1, <3>2
    <3>. QED BY <3>1, <3>2, <3>3, <3>4
  <2>4. \A m \in 1..n : m = n \/ m \in 1..(n - 1)
    OBVIOUS
  <2>5. /\ p[n].id \in DOMAIN prior => e.slug = prior[p[n].id]
        /\ n \in Plans!Kept(p, prior) => e.slug = p[n].slug
        /\ Moved(n) => e.slug \notin used /\ e.slug \notin Plans!SlugsOf(q)
    BY <1>4, <2>1, <2>2
  <2>6. \A m \in 1..(n - 1) :
          /\ q[m].id = p[m].id
          /\ p[m].id \in DOMAIN prior => q[m].slug = prior[p[m].id]
          /\ m \in Plans!Kept(p, prior) => q[m].slug = p[m].slug
          /\ Moved(m) => q[m].slug \notin used
    BY <1>7 DEF PinnedUpTo, used
  <2>7. \A m, i \in 1..(n - 1) : Moved(m) /\ Moved(i) /\ q[m].slug = q[i].slug => m = i
    BY <1>7 DEF PinnedUpTo
  <2> HIDE DEF Moved
  <2>8. \A m \in 1..n :
          /\ r[m].id = p[m].id
          /\ p[m].id \in DOMAIN prior => r[m].slug = prior[p[m].id]
          /\ m \in Plans!Kept(p, prior) => r[m].slug = p[m].slug
          /\ Moved(m) => r[m].slug \notin used
    BY <2>2, <2>3, <2>4, <2>5, <2>6
  <2>9. \A m, i \in 1..n : Moved(m) /\ Moved(i) /\ r[m].slug = r[i].slug => m = i
    BY <2>3, <2>4, <2>5, <2>7
  <2>10. PinnedUpTo(r, n, p, prior)
    BY <2>3, <2>8, <2>9 DEF PinnedUpTo, Moved, used
  <2>. QED BY <2>10 DEF r
<1> HIDE DEF Step, k
<1>8. upto = Upto(upto)
  <2> DEFINE g == [s \in (1..k) \X Entries |-> Step(s[1], s[2])]
  <2>1. <<>> \in Entries /\ g \in Steps(k, Entries)
    BY <1>6 DEF Entries, Steps
  <2> HIDE DEF g
  <2>2. PICK f : Taking(f, g, k, Entries, <<>>)
    BY <1>2, <2>1, StepsCanBeTaken
  <2>3. ASSUME NEW n \in 1..k PROVE f[n] = Step(n, f[n-1])
    <3>1. n - 1 \in 0..k
      BY <1>2
    <3>2. f[n-1] \in Entries
      BY <2>2, <3>1 DEF Taking
    <3>3. g[<<n, f[n-1]>>] = Step(n, f[n-1])
      BY <3>2 DEF g
    <3>. QED BY <2>2, <3>3 DEF Taking
  <2>4. \A n \in 0..k : f[n] = IF n = 0 THEN <<>> ELSE Step(n, f[n-1])
    <3>1. f[0] = <<>> /\ \A n \in 0..k : n = 0 \/ n \in 1..k
      BY <1>2, <2>2 DEF Taking
    <3>. QED BY <2>3, <3>1
  <2>5. f = Upto(f)
    BY <2>2, <2>4 DEF Taking
  <2> HIDE DEF Upto
  <2>. QED BY <2>5
<1> HIDE DEF upto
<1>9. upto[0] = <<>> /\ \A n \in 1..k : upto[n] = Step(n, upto[n-1])
  <2>1. 0 \in 0..k /\ \A n \in 1..k : n \in 0..k /\ n # 0
    BY <1>2
  <2>2. ASSUME NEW w, w = Upto(w)
        PROVE  \A n \in 0..k : w[n] = IF n = 0 THEN <<>> ELSE Step(n, w[n-1])
    BY <2>2
  <2> HIDE DEF Upto
  <2>3. \A n \in 0..k : upto[n] = IF n = 0 THEN <<>> ELSE Step(n, upto[n-1])
    BY <1>8, <2>2
  <2>. QED BY <2>1, <2>3
<1> DEFINE T == {n \in 0..k : PinnedUpTo(upto[n], n, p, prior)}
<1>10. 0 \in T
  <2>1. upto[0] \in Entries /\ Len(upto[0]) = 0 /\ 1..0 = {} /\ 0 \in 0..k
    BY <1>2, <1>9 DEF Entries
  <2>. QED BY <2>1 DEF PinnedUpTo
<1>11. ASSUME NEW n \in 1..k, n - 1 \in T PROVE n \in T
  <2>1. n \in 0..k
    BY <1>2
  <2>. QED BY <1>7, <1>9, <1>11, <2>1
<1> HIDE DEF T
<1>12. k \in T
  <2>1. k \in Nat /\ k \in 0..k
    BY <1>2
  <2>2. \A n \in 1..k : n - 1 \in T => n \in T
    BY <1>11
  <2>3. \A n \in 0..k : n \in T
    BY <1>10, <2>1, <2>2, AllUpTo
  <2>. QED BY <2>1, <2>3
<1>. QED BY <1>1, <1>12 DEF T, k

LEMMA PinnedIs ==
  ASSUME NEW p \in Entries, SlugsDiffer(p), IdsDiffer(p), NEW prior, IsOneToOne(prior)
  PROVE  LET q == Plans!Pinned(p, prior) IN
         /\ q \in Entries /\ DOMAIN q = DOMAIN p /\ SlugsDiffer(q)
         /\ \A n \in DOMAIN q : /\ q[n].id = p[n].id
                                /\ q[n].id \in DOMAIN prior => q[n].slug = prior[q[n].id]
                                /\ q[n].id \notin DOMAIN prior => q[n].slug \notin Plans!Taken(prior)
<1> DEFINE q == Plans!Pinned(p, prior)
           held == Plans!Taken(prior)
           Old(n) == p[n].id \in DOMAIN prior
           Moved(n) == ~Old(n) /\ p[n].slug \in held
           kept == Plans!Kept(p, prior)
<1>1. PinnedUpTo(q, Len(p), p, prior)
  BY PinnedSlugsAre
<1> HIDE DEF q
<1>2. q \in Entries /\ Len(q) = Len(p)
  BY <1>1 DEF PinnedUpTo
<1>3. DOMAIN p = 1..Len(p) /\ DOMAIN q = 1..Len(p)
  BY <1>2 DEF Entries
<1>4. \A n \in DOMAIN p :
        /\ q[n].id = p[n].id
        /\ Old(n) => q[n].slug = prior[p[n].id]
        /\ n \in kept => q[n].slug = p[n].slug
        /\ Moved(n) => q[n].slug \notin held /\ q[n].slug \notin {p[i].slug : i \in kept}
  BY <1>1, <1>3 DEF PinnedUpTo
<1>5. \A n, m \in DOMAIN p : Moved(n) /\ Moved(m) /\ q[n].slug = q[m].slug => n = m
  BY <1>1, <1>3 DEF PinnedUpTo
<1>6. \A n \in DOMAIN p : \/ Old(n) /\ prior[p[n].id] \in held
                          \/ n \in kept /\ ~Old(n) /\ p[n].slug \notin held
                          \/ Moved(n)
  BY DEF Plans!Kept, Plans!Taken
<1>7. \A n, m \in DOMAIN p : p[n].id = p[m].id \/ p[n].slug = p[m].slug => n = m
  BY DEF SlugsDiffer, IdsDiffer
<1>8. \A id, other \in DOMAIN prior : prior[id] = prior[other] => id = other
  BY DEF IsOneToOne
<1>9. \A n \in DOMAIN p : ~Old(n) => q[n].slug \notin held
  BY <1>4, <1>6
<1>10. ASSUME NEW n \in DOMAIN p, NEW m \in DOMAIN p, q[n].slug = q[m].slug PROVE n = m
  <2>1. CASE Old(n) \/ Old(m)
    <3>1. Old(n) /\ Old(m)
      BY <1>4, <1>6, <1>9, <1>10, <2>1
    <3>. QED BY <1>4, <1>7, <1>8, <1>10, <3>1
  <2>2. CASE n \in kept /\ m \in kept
    BY <1>4, <1>7, <1>10, <2>2
  <2>3. CASE Moved(n) /\ Moved(m)
    BY <1>5, <1>10, <2>3
  <2>4. CASE (n \in kept /\ Moved(m)) \/ (Moved(n) /\ m \in kept)
    BY <1>4, <1>10, <2>4
  <2>. QED BY <1>6, <2>1, <2>2, <2>3, <2>4
<1>11. SlugsDiffer(q)
  BY <1>3, <1>10 DEF SlugsDiffer
<1>. QED BY <1>2, <1>3, <1>4, <1>9, <1>11 DEF q

(***************************************************************************)
(* Central has no slug twice, and so no plan has.                          *)
(***************************************************************************)
PlansInv ==
  /\ LegacyFits
  /\ IsOneToOne(slugs) /\ DOMAIN slugs \subseteq LegacyIds
  /\ planned \in Entries /\ SlugsDiffer(planned) /\ plannings \in Nat

LEMMA PlannedIs ==
  ASSUME PlansInv
  PROVE  LET q == Plans!Planned IN
         /\ q \in Entries /\ SlugsDiffer(q) /\ IdsDiffer(q)
         /\ \A n \in DOMAIN q : /\ q[n].id \in DOMAIN slugs => q[n].slug = slugs[q[n].id]
                                /\ q[n].id \notin DOMAIN slugs => q[n].slug \notin Plans!Taken(slugs)
<1> DEFINE taken == Plans!Taken(slugs)
           p == Plans!ArticlePlan \o Plans!EventPlan(Plans!SlugsOf(Plans!ArticlePlan) \cup taken)
<1>1. LegacyFits /\ IsOneToOne(slugs)
  BY DEF PlansInv
<1>2. IsFiniteSet(taken)
  BY <1>1, TakenIsFinite
<1> HIDE DEF taken
<1>3. p \in Entries /\ SlugsDiffer(p) /\ IdsDiffer(p)
  BY <1>1, <1>2, BothPlansAre
<1>4. Plans!Planned = Plans!Pinned(p, slugs)
  BY DEF Plans!Planned, taken
<1> HIDE DEF p
<1>5. LET q == Plans!Pinned(p, slugs) IN
      /\ q \in Entries /\ DOMAIN q = DOMAIN p /\ SlugsDiffer(q)
      /\ \A n \in DOMAIN q : /\ q[n].id = p[n].id
                             /\ q[n].id \in DOMAIN slugs => q[n].slug = slugs[q[n].id]
                             /\ q[n].id \notin DOMAIN slugs => q[n].slug \notin Plans!Taken(slugs)
  BY <1>1, <1>3, PinnedIs
<1>. QED BY <1>3, <1>4, <1>5 DEF IdsDiffer

(* What a concatenation holds.                                             *)
LEMMA ConcatIs ==
  ASSUME NEW S, NEW s \in Seq(S), NEW t \in Seq(S)
  PROVE  /\ s \o t \in Seq(S) /\ Len(s \o t) = Len(s) + Len(t)
         /\ \A n \in 1..Len(s) : (s \o t)[n] = s[n]
         /\ \A n \in (Len(s) + 1)..(Len(s) + Len(t)) : (s \o t)[n] = t[n - Len(s)]
<1>1. s \o t \in Seq(S)
  OBVIOUS
<1>2. Len(s) \in Nat /\ Len(t) \in Nat /\ Len(s \o t) = Len(s) + Len(t)
  OBVIOUS
<1>3. \A n \in 1..Len(s) : (s \o t)[n] = s[n]
  OBVIOUS
<1>4. \A n \in (Len(s) + 1)..(Len(s) + Len(t)) : (s \o t)[n] = t[n - Len(s)]
  OBVIOUS
<1>. QED BY <1>1, <1>2, <1>3, <1>4

(* Rows that arrive anywhere.                                              *)
LEMMA ArriveKeeps ==
  ASSUME PlansInv, Plans!Arrive
  PROVE  PlansInv'
<1>1. PICK id \in LegacyIds \ Plans!Present, kind \in Plans!Kinds, b \in Bases, at \in 0..Len(legacy) :
        legacy' = SubSeq(legacy, 1, at) \o <<[id |-> id, kind |-> kind, base |-> b]>>
                  \o SubSeq(legacy, at + 1, Len(legacy))
  BY DEF Plans!Arrive
<1> DEFINE row == [id |-> id, kind |-> kind, base |-> b]
           l == SubSeq(legacy, 1, at)
           r == SubSeq(legacy, at + 1, Len(legacy))
<1>2. row \in LegacyRow /\ row.id = id
  BY DEF LegacyRow
<1>3. legacy \in Seq(LegacyRow) /\ Len(legacy) \in Nat /\ DOMAIN legacy = 1..Len(legacy) /\ at \in Nat
      /\ at <= Len(legacy)
  BY DEF PlansInv, LegacyFits
<1>4. /\ l \in Seq(LegacyRow) /\ Len(l) = at /\ \A n \in 1..at : l[n] = legacy[n]
      /\ r \in Seq(LegacyRow) /\ Len(r) = Len(legacy) - at
      /\ \A n \in 1..(Len(legacy) - at) : r[n] = legacy[at + n]
  <2>1. /\ \A s \in Seq(LegacyRow) : \A i, j \in Nat :
             1 <= i /\ j <= Len(s) => SubSeq(s, i, j) \in Seq(LegacyRow)
        /\ \A s \in Seq(LegacyRow) : \A i, j \in Nat :
             i <= j + 1 /\ 1 <= i => Len(SubSeq(s, i, j)) = j - i + 1
        /\ \A s \in Seq(LegacyRow) : \A i, j \in Nat :
             1 <= i => \A n \in 1..(j - i + 1) : SubSeq(s, i, j)[n] = s[i + n - 1]
    OBVIOUS
  <2>2. l \in Seq(LegacyRow) /\ r \in Seq(LegacyRow)
    BY <1>3, <2>1
  <2>3. Len(l) = at /\ Len(r) = Len(legacy) - at
    <3>1. Len(l) = at - 1 + 1
      BY <1>3, <2>1
    <3>2. at + 1 \in Nat /\ at + 1 <= Len(legacy) + 1 /\ 1 <= at + 1
      BY <1>3
    <3>3. Len(r) = Len(legacy) - (at + 1) + 1
      BY <1>3, <2>1, <3>2
    <3>4. at - 1 + 1 = at /\ Len(legacy) - (at + 1) + 1 = Len(legacy) - at
      BY <1>3
    <3> HIDE DEF l, r
    <3>. QED BY <3>1, <3>3, <3>4
  <2>4. \A n \in 1..at : l[n] = legacy[n]
    BY <1>3, <2>1
  <2>5. \A n \in 1..(Len(legacy) - at) : r[n] = legacy[at + n]
    BY <1>3, <2>1
  <2>. QED BY <2>2, <2>3, <2>4, <2>5
<1>5. legacy' = l \o <<row>> \o r
  BY <1>1
<1> HIDE DEF l, r, row
<1>6. /\ legacy' \in Seq(LegacyRow) /\ DOMAIN legacy' = 1..(Len(legacy) + 1)
      /\ \A n \in 1..at : legacy'[n] = legacy[n]
      /\ legacy'[at + 1] = row
      /\ \A n \in (at + 2)..(Len(legacy) + 1) : legacy'[n] = legacy[n - 1]
  <2> DEFINE h == l \o <<row>>
  <2>1. /\ h \in Seq(LegacyRow) /\ Len(h) = at + 1 /\ h[at + 1] = row
        /\ \A n \in 1..at : h[n] = legacy[n]
    BY <1>2, <1>3, <1>4
  <2>2. legacy' = h \o r
    BY <1>5
  <2> HIDE DEF h
  <2>3. /\ legacy' \in Seq(LegacyRow) /\ DOMAIN legacy' = 1..(Len(legacy) + 1)
        /\ \A n \in 1..(at + 1) : legacy'[n] = h[n]
        /\ \A n \in (at + 2)..(Len(legacy) + 1) : legacy'[n] = r[n - (at + 1)]
    <3>1. h \in Seq(LegacyRow) /\ r \in Seq(LegacyRow)
      BY <1>4, <2>1
    <3>2. /\ h \o r \in Seq(LegacyRow) /\ Len(h \o r) = Len(h) + Len(r)
          /\ \A n \in 1..Len(h) : (h \o r)[n] = h[n]
          /\ \A n \in (Len(h) + 1)..(Len(h) + Len(r)) : (h \o r)[n] = r[n - Len(h)]
      BY <3>1, ConcatIs
    <3>3. Len(h) = at + 1 /\ Len(h) + Len(r) = Len(legacy) + 1 /\ Len(h) + 1 = at + 2
      BY <1>3, <1>4, <2>1
    <3>4. legacy' \in Seq(LegacyRow) /\ Len(legacy') = Len(legacy) + 1
      BY <2>2, <3>2, <3>3
    <3>5. DOMAIN legacy' = 1..(Len(legacy) + 1)
      BY <3>4
    <3>6. \A n \in 1..(at + 1) : legacy'[n] = h[n]
      BY <2>2, <3>2, <3>3
    <3>7. \A n \in (at + 2)..(Len(legacy) + 1) : legacy'[n] = r[n - (at + 1)]
      BY <2>2, <3>2, <3>3
    <3>. QED BY <3>4, <3>5, <3>6, <3>7
  <2>4. \A n \in (at + 2)..(Len(legacy) + 1) :
          n - (at + 1) \in 1..(Len(legacy) - at) /\ at + (n - (at + 1)) = n - 1
    BY <1>3
  <2>5. \A n \in 1..at : n \in 1..(at + 1)
    BY <1>3
  <2>6. at + 1 \in 1..(at + 1)
    BY <1>3
  <2>7. \A n \in 1..at : legacy'[n] = legacy[n]
    BY <2>1, <2>3, <2>5
  <2>8. legacy'[at + 1] = row
    BY <2>1, <2>3, <2>6
  <2>9. \A n \in (at + 2)..(Len(legacy) + 1) : legacy'[n] = legacy[n - 1]
    BY <1>4, <2>3, <2>4
  <2>. QED BY <2>3, <2>7, <2>8, <2>9
<1>7. \A n \in DOMAIN legacy : legacy[n].id # id
  BY DEF Plans!Present
<1> DEFINE Was(n) == IF n <= at THEN n ELSE n - 1
<1>8. \A n \in DOMAIN legacy' : n # at + 1 => Was(n) \in DOMAIN legacy /\ legacy'[n] = legacy[Was(n)]
  BY <1>3, <1>6
<1>9. \A n, m \in DOMAIN legacy' : n # at + 1 /\ m # at + 1 /\ Was(n) = Was(m) => n = m
  BY <1>3, <1>6
<1> HIDE DEF Was
<1>10. ASSUME NEW n \in DOMAIN legacy', NEW m \in DOMAIN legacy', legacy'[n].id = legacy'[m].id
       PROVE  n = m
  <2>1. CASE n = at + 1 \/ m = at + 1
    BY <1>2, <1>6, <1>7, <1>8, <1>10, <2>1
  <2>2. CASE n # at + 1 /\ m # at + 1
    BY <1>8, <1>9, <1>10, <2>2 DEF PlansInv, LegacyFits
  <2>. QED BY <2>1, <2>2
<1>11. LegacyFits'
  BY <1>6, <1>10 DEF LegacyFits, LegacyRow
<1>. QED BY <1>11 DEF PlansInv, Plans!Arrive, IsOneToOne

LEMMA RunKeeps ==
  ASSUME PlansInv, Plans!Run
  PROVE  /\ PlansInv' /\ planned' = Plans!Planned
<1> DEFINE q == planned'
<1>2. q = Plans!Planned /\ legacy' = legacy /\ plannings' = plannings + 1
  <2>1. q = Plans!Planned
    BY DEF Plans!Run
  <2>2. legacy' = legacy
    BY DEF Plans!Run
  <2>3. plannings' = plannings + 1
    BY DEF Plans!Run
  <2>. QED BY <2>1, <2>2, <2>3
<1>1. /\ q \in Entries /\ SlugsDiffer(q) /\ IdsDiffer(q)
  BY <1>2, PlannedIs
<1>3. PICK made \in SUBSET {n \in DOMAIN q : q[n].id \notin DOMAIN slugs /\ q[n].slug \notin Plans!Taken(slugs)} :
        slugs' = Plans!Both(slugs, [id \in {q[n].id : n \in made} |->
                                      q[CHOOSE n \in made : q[n].id = id].slug])
  BY DEF Plans!Run
<1> DEFINE ids == {q[n].id : n \in made}
           at(id) == CHOOSE n \in made : q[n].id = id
           new == [id \in ids |-> q[at(id)].slug]
<1>4. \A id \in ids : at(id) \in made /\ q[at(id)].id = id
  OBVIOUS
<1> HIDE DEF at
<1>5. /\ DOMAIN slugs' = DOMAIN slugs \cup ids
      /\ \A id \in DOMAIN slugs : slugs'[id] = slugs[id]
      /\ \A id \in ids : slugs'[id] = q[at(id)].slug
  <2>1. \A id \in ids : id \notin DOMAIN slugs
    BY <1>4
  <2>2. slugs' = Plans!Both(slugs, new) /\ DOMAIN new = ids /\ \A id \in ids : new[id] = q[at(id)].slug
    BY <1>3 DEF at
  <2> HIDE DEF new, ids
  <2>. QED BY <2>1, <2>2 DEF Plans!Both
<1>6. \A n \in made : /\ n \in DOMAIN q /\ q[n].id \in LegacyIds /\ q[n].slug \in Word
                      /\ q[n].slug \notin Plans!Taken(slugs)
  <2>1. \A n \in DOMAIN q : q[n].id \in LegacyIds /\ q[n].slug \in Word
    BY <1>1, EntriesFit
  <2>. QED BY <2>1
<1>7. IsFiniteSet(ids)
  <2>1. DOMAIN q = 1..Len(q) /\ Len(q) \in Nat
    BY <1>1 DEF Entries
  <2>2. IsFiniteSet(made)
    <3>1. made \subseteq 1..Len(q)
      BY <1>6, <2>1
    <3>2. IsFiniteSet(1..Len(q))
      BY <2>1, FS_Interval
    <3>. QED BY <3>1, <3>2, FS_Subset
  <2> DEFINE f == [n \in made |-> q[n].id]
  <2>3. f \in Surjection(made, ids)
    BY DEF Surjection
  <2> HIDE DEF f, ids
  <2>. QED BY <2>2, <2>3, FS_Surjection
<1> HIDE DEF ids
<1>8. \A id \in ids, other \in DOMAIN slugs : slugs'[id] # slugs'[other]
  BY <1>4, <1>5, <1>6 DEF Plans!Taken
<1>9. \A id, other \in ids : slugs'[id] = slugs'[other] => id = other
  BY <1>1, <1>4, <1>5, <1>6 DEF SlugsDiffer
<1>10. IsOneToOne(slugs) /\ DOMAIN slugs \subseteq LegacyIds
  BY DEF PlansInv
<1>11. IsFiniteSet(DOMAIN slugs')
  <2>1. IsFiniteSet(DOMAIN slugs)
    BY <1>10 DEF IsOneToOne
  <2>2. IsFiniteSet(DOMAIN slugs \cup ids)
    BY <1>7, <2>1, FS_Union
  <2>3. DOMAIN slugs' = DOMAIN slugs \cup ids
    BY <1>5
  <2>. QED BY <2>2, <2>3
<1>12. \A id \in DOMAIN slugs' : slugs'[id] \in Word /\ id \in LegacyIds
  BY <1>4, <1>5, <1>6, <1>10 DEF IsOneToOne
<1>13. \A id, other \in DOMAIN slugs' : slugs'[id] = slugs'[other] => id = other
  BY <1>5, <1>8, <1>9, <1>10 DEF IsOneToOne
<1>14. IsOneToOne(slugs')
  BY <1>11, <1>12, <1>13 DEF IsOneToOne
<1>. QED BY <1>1, <1>2, <1>12, <1>14 DEF PlansInv, LegacyFits, LegacyRow

LEMMA RenameKeeps ==
  ASSUME PlansInv, Plans!Rename
  PROVE  PlansInv'
<1>1. PICK id \in DOMAIN slugs, b \in Bases :
        b \notin Plans!Taken(slugs) /\ slugs' = [slugs EXCEPT ![id] = b]
  BY DEF Plans!Rename
<1>2. IsOneToOne(slugs) /\ b \in Word
  BY <1>1, BasesAre DEF PlansInv
<1>3. /\ DOMAIN slugs' = DOMAIN slugs /\ slugs'[id] = b
      /\ \A other \in DOMAIN slugs : other # id => slugs'[other] = slugs[other]
  BY <1>1
<1>4. \A other \in DOMAIN slugs : slugs[other] # b
  BY <1>1 DEF Plans!Taken
<1>5. IsOneToOne(slugs')
  BY <1>2, <1>3, <1>4 DEF IsOneToOne
<1>. QED BY <1>3, <1>5 DEF PlansInv, Plans!Rename, LegacyFits, LegacyRow

LEMMA PlansStart == Plans!Init => PlansInv
<1> SUFFICES ASSUME Plans!Init PROVE PlansInv
  OBVIOUS
<1>1. legacy = <<>> /\ slugs = <<>> /\ planned = <<>> /\ plannings = 0
  BY DEF Plans!Init
<1>2. DOMAIN slugs = {} /\ DOMAIN legacy = {} /\ DOMAIN planned = {}
  BY <1>1
<1>3. LegacyFits
  BY <1>1, <1>2 DEF LegacyFits
<1>4. IsOneToOne(slugs) /\ DOMAIN slugs \subseteq LegacyIds
  BY <1>2, FS_EmptySet DEF IsOneToOne
<1>5. planned \in Entries /\ SlugsDiffer(planned)
  BY <1>1, <1>2 DEF Entries, SlugsDiffer
<1>. QED BY <1>1, <1>3, <1>4, <1>5 DEF PlansInv

LEMMA PlansStep == PlansInv /\ [MCNext]_MCvars => PlansInv'
<1> SUFFICES ASSUME PlansInv, [MCNext]_MCvars PROVE PlansInv'
  OBVIOUS
<1>1. CASE Plans!Next
  BY <1>1, ArriveKeeps, RunKeeps, RenameKeeps DEF Plans!Next
<1>2. CASE UNCHANGED plansVars
  BY <1>2 DEF plansVars, PlansInv, LegacyFits, LegacyRow, IsOneToOne
<1>. QED BY <1>1, <1>2 DEF MCNext, MCvars

(* A plan that a run makes fits what earlier runs have left.               *)
LEMMA PlansAreSound ==
  ASSUME PlansInv, [MCNext]_MCvars
  PROVE  [Plans!PlanIsInjective' /\ Plans!PlanKnowsItsOwn]_(Plans!vars)
<1>1. Plans!PlanIsInjective'
  BY PlansStep DEF PlansInv, SlugsDiffer, Plans!PlanIsInjective
<1>2. CASE Plans!Run
  <2>1. planned' = Plans!Planned
    BY <1>2, RunKeeps
  <2>2. LET q == Plans!Planned IN
        \A n \in DOMAIN q : /\ q[n].id \in DOMAIN slugs => q[n].slug = slugs[q[n].id]
                            /\ q[n].id \notin DOMAIN slugs => q[n].slug \notin Plans!Taken(slugs)
    BY PlannedIs
  <2>3. \A id, other \in DOMAIN slugs : slugs[id] = slugs[other] => id = other
    BY DEF PlansInv, IsOneToOne
  <2>4. \A id \in DOMAIN slugs : slugs[id] \in Plans!Taken(slugs)
    BY DEF Plans!Taken
  <2>5. ASSUME NEW n \in DOMAIN planned'
        PROVE  /\ planned'[n].id \in DOMAIN slugs => planned'[n].slug = slugs[planned'[n].id]
               /\ \A id \in DOMAIN slugs \ {planned'[n].id} : planned'[n].slug # slugs[id]
    BY <2>1, <2>2, <2>3, <2>4
  <2>. QED BY <1>1, <2>5 DEF Plans!PlanKnowsItsOwn
<1>3. CASE plannings' = plannings
  <2>1. ~(plannings' > plannings)
    BY <1>3 DEF PlansInv
  <2>. QED BY <1>1, <2>1 DEF Plans!PlanKnowsItsOwn
<1>4. Plans!Run \/ plannings' = plannings
  BY DEF MCNext, MCvars, plansVars, Plans!Next, Plans!Arrive, Plans!Rename
<1>. QED BY <1>2, <1>3, <1>4

(* No plan gives a slug to two rows, and a slug it gives a row is held in
   Central by the article of that row or by none, whatever arrived on the old
   site, was renamed or was left by earlier runs.                          *)
THEOREM EveryPlanIsSound == MCSpec => PlanIsSound
<1>1. MCInit => PlansInv
  BY PlansStart DEF MCInit
<1>2. PlansInv /\ [MCNext]_MCvars => PlansInv'
  BY PlansStep
<1>3. PlansInv /\ [MCNext]_MCvars => [Plans!PlanIsInjective' /\ Plans!PlanKnowsItsOwn]_(Plans!vars)
  BY PlansAreSound
<1>. QED BY <1>1, <1>2, <1>3, PTL DEF MCSpec, PlanIsSound, Plans!PlanIsSound
===============================================================================
