------------------------------ MODULE SingleHome ------------------------------
(***************************************************************************)
(* The single-home rule: an article filed under a pillar such as Pressroom *)
(* has no other section, and nothing else points at that pillar.           *)
(*                                                                         *)
(* The rule is about the key (tenant and slug) of a pillar's row, is       *)
(* judged in a hook on whatever a write would leave behind, skipped when   *)
(* the write leaves the sections as they were, and came into force over    *)
(* articles that already broke it.  Rows of pillars may be created,        *)
(* renamed, moved and deleted meanwhile.                                   *)
(***************************************************************************)
EXTENDS Naturals

CONSTANTS
  Pillars,    \* ids of pillar rows, born and unborn
  Keys,       \* (tenant, slug) pairs
  HomeKeys,   \* SINGLE_HOME_PILLARS
  OwnKeys,    \* those of the tenant the content engine writes for
  Subs,       \* ids of sub-sections
  Articles,
  Writers,    \* requests that write an article, at one time
  MaxWrites,  \* bound
  MaxChanges, \* bound
  Unborn, Gone, NoPillar, NoSub, NoArticle, Idle   \* model values

ASSUME KeysAssumption == HomeKeys \subseteq Keys /\ OwnKeys \subseteq Keys
ASSUME NonesAssumption ==
  /\ Unborn \notin Keys /\ Gone \notin Keys /\ Unborn # Gone
  /\ NoPillar \notin Pillars /\ NoSub \notin Subs

ASSUME BoundsAssumption == MaxWrites \in Nat /\ MaxChanges \in Nat

VARIABLES
  key,       \* pillar -> the key of its row
  parent,    \* sub-section -> its pillar
  main,      \* article -> sections of the main row
  latest,    \* article -> sections of the latest version
  req,       \* writer -> what it is about to store
  writes,    \* requests so far
  changes,   \* rows of pillars created, changed and deleted so far
  deletes,   \* pillars whose delete has passed its count
  legacy,    \* article -> sections it had when the rule came into force (history)
  stranded   \* has an engine's create been refused after its tags were stored? (history)

vars == <<key, parent, main, latest, req, writes, changes, deletes, legacy, stranded>>

Taxonomies == [pillar: Pillars \cup {NoPillar}, sub: Subs \cup {NoSub},
               secondary: SUBSET Pillars, exclusive: BOOLEAN]
Requests == [article: Articles, engine: BOOLEAN, next: Taxonomies]

ASSUME NoArticleAssumption == NoArticle \notin Taxonomies

(* What a set of sections points at, and whether all of it exists. *)
Refs(t) == t.secondary \cup ({t.pillar} \ {NoPillar})
Exists(p) == key[p] \in Keys
Born(t) == \A p \in Refs(t) : Exists(p)

(* Types; and what is stored points at rows that exist. *)
TypeOK ==
  /\ key \in [Pillars -> Keys \cup {Unborn, Gone}]
  /\ parent \in [Subs -> Pillars \cup {NoPillar}]
  /\ main \in [Articles -> Taxonomies \cup {NoArticle}]
  /\ latest \in [Articles -> Taxonomies \cup {NoArticle}]
  /\ legacy \in [Articles -> Taxonomies \cup {NoArticle}]
  /\ req \in [Writers -> Requests \cup {Idle}]
  /\ writes \in 0..MaxWrites /\ changes \in 0..MaxChanges
  /\ deletes \subseteq Pillars /\ stranded \in BOOLEAN
  /\ \A a \in Articles : \A t \in {main[a], latest[a]} : t # NoArticle => Born(t)
  /\ \A s \in Subs : parent[s] # NoPillar => Exists(parent[s])

SingleHome(p) == p \in Pillars /\ key[p] \in HomeKeys

-----------------------------------------------------------------------------
(* checkSingleHome: V1, V2 and V6 under a single-home pillar, V3 elsewhere. *)
Lawful(t) ==
  /\ SingleHome(t.pillar) => t.secondary = {} /\ t.sub = NoSub /\ ~t.exclusive
  /\ \A p \in t.secondary : ~SingleHome(p)

(* Seeded fault: `exclusive` is not looked at when the sections are unchanged. *)
UntouchedSectionsOnly(old, new) ==
  [new EXCEPT !.exclusive = FALSE] = [old EXCEPT !.exclusive = FALSE]

(* A write that leaves the sections alone and does not set `exclusive` is not judged. *)
Untouched(old, new) ==
  /\ [new EXCEPT !.exclusive = FALSE] = [old EXCEPT !.exclusive = FALSE]
  /\ new.exclusive => old.exclusive

(* The hook lets the write through; `old` is the latest version, if there is one. *)
Permitted(old, new) ==
  \/ old # NoArticle /\ Untouched(old, new)
  \/ Lawful(new)

(* Seeded fault: only the key a pillar has is looked at, not the one it gets. *)
RowMayBecomeOld(p, k) == key[p] \notin HomeKeys

(* checkPillarRowChange: no rename and no move from or to a single-home key. *)
RowMayBecome(p, k) == key[p] \notin HomeKeys /\ k \notin HomeKeys

(* The unique index on tenant and slug. *)
KeyFree(k) == \A p \in Pillars : key[p] # k

-----------------------------------------------------------------------------
(* The state the rule finds: any article, but no sub-section under a single-home
   pillar. *)
Init ==
  /\ key \in [Pillars -> Keys \cup {Unborn}]
  /\ \A p, q \in Pillars : key[p] \in Keys /\ key[p] = key[q] => p = q
  /\ parent \in [Subs -> Pillars \cup {NoPillar}]
  /\ \A s \in Subs : parent[s] # NoPillar => Exists(parent[s]) /\ ~SingleHome(parent[s])
  /\ legacy \in [Articles -> Taxonomies \cup {NoArticle}]
  /\ \A a \in Articles : legacy[a] # NoArticle => Born(legacy[a])
  /\ main = legacy /\ latest = legacy
  /\ req = [w \in Writers |-> Idle]
  /\ writes = 0 /\ changes = 0 /\ deletes = {} /\ stranded = FALSE

(* A new article has an id of its own. *)
Unclaimed(a) == \A w \in Writers : req[w] # Idle => req[w].article # a

(* A write of an article, a new one included: read, judged.  Status writers,
   a restored version and an editor's form all end in some sections. *)
Open(w, a) ==
  /\ req[w] = Idle /\ writes < MaxWrites
  /\ latest[a] = NoArticle => Unclaimed(a)
  /\ writes' = writes + 1
  /\ \E next \in Taxonomies :
       /\ Born(next)
       /\ Permitted(latest[a], next)
       /\ req' = [req EXCEPT ![w] = [article |-> a, engine |-> FALSE, next |-> next]]
  /\ UNCHANGED <<key, parent, main, latest, changes, deletes, legacy, stranded>>

(* The write, as a draft or plainly; a row it points at may be gone, and then
   the foreign key refuses. *)
Store(w) == LET r == req[w] IN
  /\ r # Idle /\ ~r.engine
  /\ req' = [req EXCEPT ![w] = Idle]
  /\ IF Born(r.next)
     THEN /\ latest' = [latest EXCEPT ![r.article] = r.next]
          /\ \/ main' = [main EXCEPT ![r.article] = r.next]
             \/ main[r.article] # NoArticle /\ main' = main
     ELSE UNCHANGED <<main, latest>>
  /\ UNCHANGED <<key, parent, writes, changes, deletes, legacy, stranded>>

(* What an engine sends: a slug, spelled as stored or differently (case, spaces). *)
Names == [slug: OwnKeys, exact: BOOLEAN]
Bodies == [primary: Names, sections: SUBSET Names, sub: BOOLEAN, enriched: BOOLEAN]
Resolves(n) == {p \in Pillars : n.exact /\ key[p] = n.slug}

(* Seeded fault: the sections are compared as they are spelled. *)
PrecheckExact(b) ==
  IF b.primary.slug \in HomeKeys
  THEN (\A n \in b.sections : n.slug = b.primary.slug) /\ ~b.sub /\ ~b.enriched
  ELSE \A n \in b.sections : ~n.exact => n.slug \notin HomeKeys

(* checkIntakeSingleHome, on normalised slugs, before anything is looked up. *)
Precheck(b) ==
  IF b.primary.slug \in HomeKeys
  THEN (\A n \in b.sections : n.slug = b.primary.slug) /\ ~b.sub /\ ~b.enriched
  ELSE \A n \in b.sections : n.slug \notin HomeKeys

(* The sections the intake resolves: unknown names and the primary are dropped. *)
Resolved(b, p, s) ==
  [pillar |-> p,
   sub |-> IF b.sub /\ s # NoSub /\ parent[s] = p THEN s ELSE NoSub,
   secondary |-> (UNION {Resolves(n) : n \in b.sections}) \ {p},
   exclusive |-> FALSE]

(* A create of the intake: checked, looked up; its tags are stored. *)
IntakeOpen(w, a) ==
  /\ req[w] = Idle /\ writes < MaxWrites
  /\ writes' = writes + 1
  /\ latest[a] = NoArticle /\ Unclaimed(a)
  /\ \E b \in Bodies, s \in Subs \cup {NoSub} : \E p \in Resolves(b.primary) :
       /\ Precheck(b)
       /\ req' = [req EXCEPT ![w] =
                    [article |-> a, engine |-> TRUE, next |-> Resolved(b, p, s)]]
  /\ UNCHANGED <<key, parent, main, latest, changes, deletes, legacy, stranded>>

(* The create itself, with the hook in it. *)
IntakeStore(w) == LET r == req[w] IN
  /\ r # Idle /\ r.engine
  /\ req' = [req EXCEPT ![w] = Idle]
  /\ stranded' = (stranded \/ ~Permitted(NoArticle, r.next))
  /\ IF Permitted(NoArticle, r.next) /\ Born(r.next)
     THEN /\ latest' = [latest EXCEPT ![r.article] = r.next]
          /\ main' = [main EXCEPT ![r.article] = r.next]
     ELSE UNCHANGED <<main, latest>>
  /\ UNCHANGED <<key, parent, writes, changes, deletes, legacy>>

-----------------------------------------------------------------------------
(* Any key may be given to a new row, a single-home one too. *)
CreatePillar(p) == \E k \in Keys :
  /\ key[p] = Unborn /\ KeyFree(k)
  /\ changes < MaxChanges
  /\ changes' = changes + 1
  /\ key' = [key EXCEPT ![p] = k]
  /\ UNCHANGED <<parent, main, latest, req, writes, deletes, legacy, stranded>>

ChangePillar(p) == \E k \in Keys :
  /\ Exists(p) /\ KeyFree(k)
  /\ changes < MaxChanges
  /\ changes' = changes + 1
  /\ RowMayBecome(p, k)
  /\ key' = [key EXCEPT ![p] = k]
  /\ UNCHANGED <<parent, main, latest, req, writes, deletes, legacy, stranded>>

(* Articles on either surface and sub-sections that point at a pillar. *)
Referrers(p) ==
  {a \in Articles : main[a] # NoArticle /\ p \in Refs(main[a])}
    \cup {a \in Articles : latest[a] # NoArticle /\ p \in Refs(latest[a])}
    \cup {s \in Subs : parent[s] = p}

(* The guard counts the referrers of a single-home pillar only. *)
DeleteCount(p) ==
  /\ Exists(p) /\ p \notin deletes
  /\ changes < MaxChanges
  /\ changes' = changes + 1
  /\ SingleHome(p) => Referrers(p) = {}
  /\ deletes' = deletes \cup {p}
  /\ UNCHANGED <<key, parent, main, latest, req, writes, legacy, stranded>>

(* What the foreign keys leave of the sections of an article: ON DELETE SET NULL. *)
Cleared(t, p) == IF t = NoArticle THEN t ELSE
  [t EXCEPT !.pillar = IF t.pillar = p THEN NoPillar ELSE t.pillar,
            !.secondary = t.secondary \ {p}]

(* The delete.  The pillar of a sub-section is NOT NULL, so one of them stops it. *)
DeleteRow(p) ==
  /\ p \in deletes
  /\ deletes' = deletes \ {p}
  /\ IF \E s \in Subs : parent[s] = p
     THEN UNCHANGED <<key, main, latest, legacy>>
     ELSE /\ key' = [key EXCEPT ![p] = Gone]
          /\ main' = [a \in Articles |-> Cleared(main[a], p)]
          /\ latest' = [a \in Articles |-> Cleared(latest[a], p)]
          /\ legacy' = [a \in Articles |-> Cleared(legacy[a], p)]
  /\ UNCHANGED <<parent, req, writes, changes, stranded>>

(* Seeded fault: the parent is not looked at. *)
MayHoldAll(p) == TRUE

(* subSectionPillarDecision: V4. *)
MayHold(p) == ~SingleHome(p)

(* A sub-section is created under a pillar or moved to one. *)
SaveSub(s) == \E p \in Pillars :
  /\ Exists(p) /\ MayHold(p)
  /\ parent' = [parent EXCEPT ![s] = p]
  /\ UNCHANGED <<key, main, latest, req, writes, changes, deletes, legacy, stranded>>

Next ==
  \/ \E w \in Writers, a \in Articles : Open(w, a) \/ IntakeOpen(w, a)
  \/ \E w \in Writers : Store(w) \/ IntakeStore(w)
  \/ \E p \in Pillars : CreatePillar(p) \/ ChangePillar(p) \/ DeleteCount(p) \/ DeleteRow(p)
  \/ \E s \in Subs : SaveSub(s)

Spec == Init /\ [][Next]_vars

-----------------------------------------------------------------------------
(* What is unlawful is what the rule has found: the same sections, and
   `exclusive` only if it was set then. *)
Inherited(t, a) == legacy[a] # NoArticle /\ Untouched(legacy[a], t)

(* The rule holds on both surfaces of every article but for sections the rule
   found there: no draft, restored version, stale write of somebody who read
   before a clean-up, new pillar or renamed row brings a violation in. *)
OnlyInherited == \A a \in Articles : \A t \in {main[a], latest[a]} :
  t # NoArticle => Lawful(t) \/ Inherited(t, a)

(* No sub-section ever lies under a single-home pillar (V4), however pillars
   and sub-sections are created, renamed and moved. *)
NoSubUnderHome == \A s \in Subs : ~SingleHome(parent[s])

(* The engine's request is refused before its tags, author and hero are stored,
   or not at all: the hook never refuses what the pre-check let through. *)
NothingStranded == ~stranded

(* The rule as a whole: articles, sub-sections, and no engine left halfway. *)
RuleStands == OnlyInherited /\ NoSubUnderHome /\ NothingStranded
===============================================================================
