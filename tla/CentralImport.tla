----------------------------- MODULE CentralImport -----------------------------
(***************************************************************************)
(* The import of a publication's export into its tenant                    *)
(* (scripts/migrate/import-central.ts).  Collections are imported one      *)
(* after the other, so that the rows a later one refers to are there;      *)
(* a row whose natural key is there already is skipped and mapped.  The    *)
(* maps from source ids to rows live in memory.  A create and the writes   *)
(* of the other locales are calls of their own; one that fails is logged   *)
(* and passed over.  The process may die, and is then run again.           *)
(*                                                                         *)
(* Four of the collections, which have all there is: pillars; subsections, *)
(* whose key is a slug and a pillar; media; articles, which refer to all   *)
(* three, to media a second time from inside their body.  Two locales.     *)
(***************************************************************************)
EXTENDS Naturals, Sequences, SequencesExt

CONSTANTS
  Pillars, Subs, Media, Articles,   \* documents of the export
  Adopt,                            \* MEDIA_MODE is copy
  Nothing, Idle,                    \* model values
  MaxRuns, MaxFailures              \* bounds

ModeAssumption == Adopt \in BOOLEAN
BoundsAssumption == MaxRuns \in Nat /\ MaxFailures \in Nat

Docs == Pillars \cup Subs \cup Media \cup Articles

(* Every document is of one collection, and is neither a row's id nor a slug. *)
DocsAssumption ==
  /\ \A docs \in {Pillars, Subs, Media, Articles} : IsFiniteSet(docs)
  /\ Pillars \cap (Subs \cup Media \cup Articles) = {}
  /\ Subs \cap (Media \cup Articles) = {} /\ Media \cap Articles = {}
  /\ Docs \cap {"sub", Nothing} = {} /\ \A m \in Media : m \notin Nat

VARIABLES
  source,     \* what the documents of the export refer to
  rows,       \* the rows of the tenant; an id is an index
  run,        \* the run at work, its maps included
  file,       \* article-id-map.json
  runs, failures,
  clean       \* history: nothing has failed in this run

vars == <<source, rows, run, file, runs, failures, clean>>

Locales == {"en", "vi"}
SubRef == [pillar: Pillars]
ArticleRef == [pillar: Pillars, sub: Subs \cup {Nothing}, hero: Media \cup {Nothing},
               body: Media \cup {Nothing}, published: BOOLEAN]

(* refs are ids of rows; a body's may also be the source's own. *)
Key == [doc: Docs \cup {"sub"}, pillar: Nat]
Row == [key: Key, locales: SUBSET Locales, pillar: Nat, sub: Nat, hero: Nat,
        body: Nat \cup Media \cup {Nothing}, public: BOOLEAN]

(* Shapes, and every id that a run has mapped or a row refers to is a row. *)
TypeOK ==
  /\ source \in [Subs -> SubRef] \X [Articles -> ArticleRef]
  /\ rows \in Seq(Row)
  /\ run = Idle \/ (/\ DOMAIN run = {"todo", "map", "pc"}
                    /\ run.pc \in {"find", "create", "locale"}
                    /\ \A d \in Docs : run.map[d] \in 0..Len(rows))
  /\ \A i \in DOMAIN rows : {rows[i].pillar, rows[i].sub, rows[i].hero} \subseteq 0..Len(rows)
  /\ file \in [Articles -> 0..Len(rows)]
  /\ runs \in 0..MaxRuns /\ failures \in 0..MaxFailures /\ clean \in BOOLEAN

With(key, locales) == [key |-> key, locales |-> locales, pillar |-> 0, sub |-> 0, hero |-> 0,
                       body |-> Nothing, public |-> FALSE]

(* The tenant is seeded with some of the pillars. *)
Init ==
  /\ source \in [Subs -> SubRef] \X [Articles -> ArticleRef]
  /\ \E seeded \in SUBSET Pillars :
       rows = SetToSeq({With([doc |-> p, pillar |-> 0], Locales) : p \in seeded})
  /\ run = Idle /\ file = [a \in Articles |-> 0]
  /\ runs = 0 /\ failures = 0 /\ clean = TRUE

Sub(d) == source[1][d]
Article(d) == source[2][d]

-----------------------------------------------------------------------------
(* Seeded fault: subsections before the pillars their keys need. *)
PlanSubsFirst == SetToSeq(Subs) \o SetToSeq(Pillars) \o SetToSeq(Media) \o SetToSeq(Articles)

(* PLAN, document by document. *)
Plan == SetToSeq(Pillars) \o SetToSeq(Subs) \o SetToSeq(Media) \o SetToSeq(Articles)

Start ==
  /\ run = Idle /\ runs < MaxRuns
  /\ runs' = runs + 1 /\ clean' = TRUE
  /\ run' = [todo |-> Plan, map |-> [d \in Docs |-> 0], pc |-> "find"]
  /\ UNCHANGED <<source, rows, file, failures>>

Doc == Head(run.todo)
At(pc) == run # Idle /\ run.todo # <<>> /\ run.pc = pc

(* remapRel: the row of a document, if it has one. *)
Mapped(d) == IF d = Nothing THEN 0 ELSE run.map[d]

Passed(map) == [todo |-> Tail(run.todo), map |-> map, pc |-> "find"]
Fails ==
  /\ failures < MaxFailures /\ failures' = failures + 1
  /\ clean' = FALSE

(* Seeded fault: a subsection is known by its slug alone. *)
KeyOfSlug(d) == [doc |-> IF d \in Subs THEN "sub" ELSE d, pillar |-> 0]

(* All subsections have one slug here: it is the pillar that tells them apart. *)
KeyOf(d) ==
  IF d \in Subs THEN [doc |-> "sub", pillar |-> Mapped(Sub(d).pillar)]
  ELSE [doc |-> d, pillar |-> 0]

(* Seeded fault: nothing is looked for. *)
ExistingNever(d) == {}

Existing(d) == {i \in DOMAIN rows : rows[i].key = KeyOf(d)}

(* A key that cannot be resolved, a row that is there, or a row to be created. *)
Find ==
  /\ At("find")
  /\ run' = IF Doc \in Subs /\ Mapped(Sub(Doc).pillar) = 0 THEN Passed(run.map)
            ELSE IF Existing(Doc) # {}
            THEN Passed([run.map EXCEPT ![Doc] = CHOOSE i \in Existing(Doc) : TRUE])
            ELSE [run EXCEPT !.pc = "create"]
  /\ UNCHANGED <<source, rows, file, runs, failures, clean>>

(* Seeded fault: upload nodes are copied as they are. *)
BodyAsIs(d) == Article(d).body

(* remapUploadNodes: a node whose image is not mapped keeps the source's id. *)
Body(d) == IF Mapped(Article(d).body) # 0 THEN Mapped(Article(d).body) ELSE Article(d).body

NewRow(d) ==
  IF d \in Articles
  THEN [key |-> KeyOf(d), locales |-> {"en"}, pillar |-> Mapped(Article(d).pillar),
        sub |-> Mapped(Article(d).sub), hero |-> Mapped(Article(d).hero),
        body |-> Body(d), public |-> Article(d).published]
  ELSE IF d \in Subs
  THEN [With(KeyOf(d), {"en"}) EXCEPT !.pillar = Mapped(Sub(d).pillar)]
  ELSE IF d \in Media /\ Adopt THEN With(KeyOf(d), {})
  ELSE With(KeyOf(d), {"en"})

(* What is written locale by locale after the create: all but "en", but an adopted
   image has "en" written so too, and an uploaded one has no more locales. *)
Afterwards(d) == IF d \in Media THEN (IF Adopt THEN Locales ELSE {}) ELSE Locales \ {"en"}

(* pCreate, adoptMedia, or the fetch and create of uploadMedia. *)
Create ==
  /\ At("create")
  /\ Doc \in Articles => Mapped(Article(Doc).pillar) # 0
  /\ rows' = Append(rows, NewRow(Doc))
  /\ LET map == [run.map EXCEPT ![Doc] = Len(rows) + 1] IN
     run' = IF Afterwards(Doc) = {} THEN Passed(map) ELSE [run EXCEPT !.map = map, !.pc = "locale"]
  /\ UNCHANGED <<source, file, runs, failures, clean>>

(* Logged, and passed over; an article must have a pillar. *)
CreateFails ==
  /\ At("create")
  /\ IF Doc \in Articles /\ Mapped(Article(Doc).pillar) = 0
     THEN clean' = FALSE /\ UNCHANGED failures
     ELSE Fails
  /\ run' = Passed(run.map)
  /\ UNCHANGED <<source, rows, file, runs>>

Missing == Afterwards(Doc) \ rows[run.map[Doc]].locales
WriteLocale ==
  /\ At("locale")
  /\ IF Missing = {} THEN run' = Passed(run.map) /\ UNCHANGED rows
     ELSE /\ rows' = [rows EXCEPT ![run.map[Doc]].locales =
                        @ \cup {IF "en" \in Missing THEN "en" ELSE "vi"}]
          /\ UNCHANGED run
  /\ UNCHANGED <<source, file, runs, failures, clean>>

(* A locale that fails is passed over; here the rest of them too. *)
LocaleFails ==
  /\ At("locale") /\ Missing # {} /\ Fails
  /\ run' = Passed(run.map)
  /\ UNCHANGED <<source, rows, file, runs>>

Finish ==
  /\ run # Idle /\ run.todo = <<>>
  /\ file' = [a \in Articles |-> run.map[a]]
  /\ run' = Idle
  /\ UNCHANGED <<source, rows, runs, failures, clean>>

Dies ==
  /\ run # Idle /\ Fails
  /\ run' = Idle
  /\ UNCHANGED <<source, rows, file, runs>>

Next == Start \/ Find \/ Create \/ CreateFails \/ WriteLocale \/ LocaleFails \/ Finish \/ Dies

Spec == Init /\ [][Next]_vars

-----------------------------------------------------------------------------
(* However often the import dies and is run again, no document has two rows. *)
OneRowPerKey == \A i, j \in DOMAIN rows : rows[i].key = rows[j].key => i = j

(* An article's section is one of its own pillar where the export says so, and
   its hero is the image it has in the export, or none. *)
RefersAsExported == \A a \in Articles : \A i \in DOMAIN rows : rows[i].key.doc = a =>
  /\ rows[i].sub # 0 => rows[rows[i].sub].pillar # 0 /\
       rows[rows[rows[i].sub].pillar].key.doc = Sub(Article(a).sub).pillar
  /\ rows[i].hero # 0 => rows[rows[i].hero].key.doc = Article(a).hero

(* Rows and their references are those of the export, whatever died. *)
ImportedAsExported == OneRowPerKey /\ RefersAsExported

(* A body keeps an id of the source site only if its image could not be
   imported before: in a row of a run in which nothing failed there is none. *)
BodiesAreMapped == \A a \in Articles :
  Len(rows') > Len(rows) /\ rows'[Len(rows')].key.doc = a /\ clean
    => rows'[Len(rows')].body \notin Media

(* A run in which nothing fails leaves every document with a row, and the map
   for the readers' data with every article; if it is the first run and images
   are adopted, every row in every locale too.  Later runs skip what is there,
   whatever it lacks, and uploaded images have "en" only. *)
CleanRunIsComplete == run # Idle /\ run.todo = <<>> /\ run' = Idle /\ clean' =>
  /\ \A d \in Docs : run.map[d] # 0
  /\ \A a \in Articles : rows[file'[a]].key.doc = a
  /\ Adopt /\ runs = 1 => \A d \in Docs : rows[run.map[d]].locales = Locales

(* Both, step by step: what is clean lacks nothing. *)
CleanLacksNothing == [][BodiesAreMapped /\ CleanRunIsComplete]_vars
===============================================================================
