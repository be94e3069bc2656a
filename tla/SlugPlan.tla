------------------------------- MODULE SlugPlan -------------------------------
(***************************************************************************)
(* The slugs an import run plans for a legacy site, run after run.         *)
(*                                                                         *)
(* The plan covers every legacy row, sorted by date; rows may be added at  *)
(* any date between two runs, and editors rename what was imported.  A     *)
(* slug is a sequence of words, all of them numbers here: a base and the   *)
(* suffixes a plan has given it, so a base may look like a suffixed slug.  *)
(* Articles are planned before events.                                     *)
(***************************************************************************)
EXTENDS Naturals, Sequences, FiniteSets

CONSTANTS
  Ids,        \* legacy rows
  Bases,      \* base slugs: sequences of words
  Reserved,   \* slugs the site keeps for its own pages
  Year,       \* the year of every event
  MaxRuns,    \* bound
  MaxRenames  \* bound

BoundsAssumption == MaxRuns \in Nat /\ MaxRenames \in Nat /\ Year \in Nat
BasesAssumption ==
  Bases \subseteq Seq(Nat) \ {<<>>} /\ Reserved \subseteq Bases /\ IsFiniteSet(Reserved)

VARIABLES
  rows,     \* the legacy rows, sorted: articles and events
  central,  \* the slug of every imported row in Central
  plan,     \* the plan of the last run
  runs, renames

vars == <<rows, central, plan, runs, renames>>

Kinds == {"article", "event"}
Present == {rows[n].id : n \in DOMAIN rows}

(* SlugPlanEntry: a plan is a sequence of them. *)
Entry == [id: Ids, slug: Seq(Nat)]
SlugsOf(entries) == {entries[n].slug : n \in DOMAIN entries}
Taken(f) == {f[id] : id \in DOMAIN f}

(* Rows are distinct, and what is imported or planned has a slug. *)
TypeOK ==
  /\ rows \in Seq([id: Ids, kind: Kinds, base: Bases])
  /\ \A n, m \in DOMAIN rows : rows[n].id = rows[m].id => n = m
  /\ plan \in Seq(Entry)
  /\ DOMAIN central \subseteq Present /\ \A id \in DOMAIN central : central[id] \in Seq(Nat)
  /\ runs \in 0..MaxRuns /\ renames \in 0..MaxRenames

Init ==
  /\ rows = <<>>
  /\ central = <<>> /\ plan = <<>>
  /\ runs = 0 /\ renames = 0

-----------------------------------------------------------------------------
(* Seeded fault: a second row of a base is the only one looked for. *)
FirstFreeSecond(stem, used) == Append(stem, 2)

(* The least number from 2 on whose suffix is free. *)
FirstFree(stem, used) ==
  LET free == {n \in 2..(Cardinality(used) + 2) : Append(stem, n) \notin used} IN
  Append(stem, CHOOSE n \in free : \A m \in free : n <= m)

(* An article keeps its base, or takes the first free number. *)
ArticleSlug(base, used) == IF base \notin used THEN base ELSE FirstFree(base, used)

(* An event adds its year first. *)
EventSlug(base, used) ==
  IF base \notin used THEN base
  ELSE IF Append(base, Year) \notin used THEN Append(base, Year)
  ELSE FirstFree(Append(base, Year), used)

(* buildSlugPlan: one article after the other. *)
ArticlePlan ==
  LET upto[n \in 0..Len(rows)] ==
        IF n = 0 THEN <<>>
        ELSE IF rows[n].kind # "article" THEN upto[n-1]
        ELSE Append(upto[n-1], [id |-> rows[n].id,
                                slug |-> ArticleSlug(rows[n].base, Reserved \cup SlugsOf(upto[n-1]))]) IN
  upto[Len(rows)]

(* planEventSlugs: around what is taken. *)
EventPlan(taken) ==
  LET upto[n \in 0..Len(rows)] ==
        IF n = 0 THEN <<>>
        ELSE IF rows[n].kind # "event" THEN upto[n-1]
        ELSE Append(upto[n-1], [id |-> rows[n].id,
                                slug |-> EventSlug(rows[n].base, taken \cup SlugsOf(upto[n-1]))]) IN
  upto[Len(rows)]

(* Seeded fault: what an earlier run created is planned anew. *)
PinnedNever(p, prior) == p

(* What no earlier run has created and none of its articles is in the way of. *)
Kept(p, prior) == {n \in DOMAIN p : p[n].id \notin DOMAIN prior /\ p[n].slug \notin Taken(prior)}

(* The slug of an entry: an imported row keeps the one it has in Central, and a
   new row whose slug is held by one is moved. *)
Repinned(e, prior, used) ==
  IF e.id \in DOMAIN prior THEN prior[e.id]
  ELSE IF e.slug \notin Taken(prior) THEN e.slug
  ELSE FirstFree(e.slug, used)

(* pinPriorSlugs: one entry after the other. *)
Pinned(p, prior) ==
  LET used == Taken(prior) \cup {p[n].slug : n \in Kept(p, prior)}
      upto[n \in 0..Len(p)] ==
        IF n = 0 THEN <<>>
        ELSE Append(upto[n-1], [id |-> p[n].id,
                                slug |-> Repinned(p[n], prior, used \cup SlugsOf(upto[n-1]))]) IN
  upto[Len(p)]

(* Articles first, then events around them and around what Central holds. *)
Planned == Pinned(ArticlePlan \o EventPlan(SlugsOf(ArticlePlan) \cup Taken(central)), central)

Both(f, g) == [id \in DOMAIN f \cup DOMAIN g |-> IF id \in DOMAIN f THEN f[id] ELSE g[id]]

-----------------------------------------------------------------------------
(* A row appears on the old site, at any date. *)
Arrive ==
  /\ \E id \in Ids \ Present, k \in Kinds, b \in Bases, at \in 0..Len(rows) :
       rows' = SubSeq(rows, 1, at) \o <<[id |-> id, kind |-> k, base |-> b]>>
               \o SubSeq(rows, at + 1, Len(rows))
  /\ UNCHANGED <<central, plan, runs, renames>>

(* A run plans, and creates the articles of some rows: what it finds under *)
(* the planned slug it takes for the row itself.                           *)
Run ==
  /\ runs < MaxRuns
  /\ plan' = Planned
  /\ \E made \in SUBSET {n \in DOMAIN plan' : /\ plan'[n].id \notin DOMAIN central
                                             /\ plan'[n].slug \notin Taken(central)} :
       central' = Both(central, [id \in {plan'[n].id : n \in made} |->
                                   plan'[CHOOSE n \in made : plan'[n].id = id].slug])
  /\ runs' = runs + 1
  /\ UNCHANGED <<rows, renames>>

(* An editor gives an imported article another slug that is free. *)
Rename ==
  /\ renames < MaxRenames
  /\ \E id \in DOMAIN central, b \in Bases :
       /\ b \notin Taken(central)
       /\ central' = [central EXCEPT ![id] = b]
  /\ renames' = renames + 1
  /\ UNCHANGED <<rows, plan, runs>>

Next == Arrive \/ Run \/ Rename

Spec == Init /\ [][Next]_vars

-----------------------------------------------------------------------------
(* Properties. *)

(***************************************************************************)
(* No plan gives one slug to two rows, whatever arrived on the old site,   *)
(* was renamed or was left over by earlier runs.                           *)
(***************************************************************************)
PlanIsInjective == \A n, m \in DOMAIN plan : plan[n].slug = plan[m].slug => n = m

(***************************************************************************)
(* When a run starts, a slug it plans for a row is held in Central by the  *)
(* article of that row or by none: nothing imported is taken for another   *)
(* row's article, and nothing imported is created again.                   *)
(***************************************************************************)
PlanKnowsItsOwn ==
  runs' > runs =>
    \A n \in DOMAIN plan' :
      /\ plan'[n].id \in DOMAIN central => plan'[n].slug = central[plan'[n].id]
      /\ \A id \in DOMAIN central \ {plan'[n].id} : plan'[n].slug # central[id]

(* A plan can be carried out: no two rows, and no row and an earlier article,
   get in each other's way. *)
PlanIsSound == [][PlanIsInjective' /\ PlanKnowsItsOwn]_vars
=============================================================================
