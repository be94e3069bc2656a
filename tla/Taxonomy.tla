------------------------------ MODULE Taxonomy ------------------------------
(***************************************************************************)
(* Authors and tags of one tenant as two routes find or make them: the     *)
(* hub's POST /api/hub/authors and /tags                                   *)
(* (src/lib/hub-taxonomy-create-core.ts), which stop at a soft cap, and    *)
(* the engine intake's resolveOrCreateAuthor and resolveOrCreateTags,      *)
(* which know no cap.                                                      *)
(*                                                                         *)
(* Each step is a query of its own.  Tags have a unique index, authors     *)
(* have none on the name.  A race for a tag is put right by reading again. *)
(***************************************************************************)
EXTENDS Naturals, FiniteSets

CONSTANTS
  Names, Slugs,            \* of authors and tags
  Requests,
  AuthorCap, TagCap,       \* TAXONOMY_SOFT_CAP_AUTHORS and _TAGS
  Idle,                    \* model value
  MaxCalls, MaxDeletes     \* bounds

NumbersAssumption ==
  /\ IsFiniteSet(Requests) /\ Requests # {}
  /\ AuthorCap \in Nat /\ TagCap \in Nat /\ MaxCalls \in Nat /\ MaxDeletes \in Nat

VARIABLES
  authors,   \* name -> rows
  tags,      \* slugs that are there
  req,       \* the requests
  answer,    \* request -> the last answer
  calls,     \* so far
  deletes,   \* rows deleted so far
  byEngine   \* rows the intake has made so far (history)

vars == <<authors, tags, req, answer, calls, deletes, byEngine>>

Answers == {"none", "created", "found", "full", "error"}
Req == [item: Names \cup Slugs, hub: BOOLEAN, at: {"find", "count", "create", "again"}]

ItemsAssumption == Names \cap Slugs = {} /\ Idle \notin Req

(* Types; and only a tag is ever looked for a second time, by the hub. *)
TypeOK ==
  /\ authors \in [Names -> Nat] /\ tags \subseteq Slugs
  /\ req \in [Requests -> Req \cup {Idle}]
  /\ answer \in [Requests -> Answers]
  /\ calls \in 0..MaxCalls /\ deletes \in 0..MaxDeletes /\ byEngine \in Nat
  /\ \A r \in Requests : req[r] # Idle =>
       (req[r].at = "again" => req[r].hub /\ req[r].item \in Slugs)

Init ==
  /\ authors = [n \in Names |-> 0] /\ tags = {}
  /\ req = [r \in Requests |-> Idle]
  /\ answer = [r \in Requests |-> "none"]
  /\ calls = 0 /\ deletes = 0 /\ byEngine = 0

-----------------------------------------------------------------------------
(* The rows of a name are told apart by a number. *)
AuthorRows == Cardinality(UNION {{n} \X (1..authors[n]) : n \in Names})
There(item) == IF item \in Slugs THEN item \in tags ELSE authors[item] > 0

At(r, step) == req[r] # Idle /\ req[r].at = step
Goes(r, step) == req' = [req EXCEPT ![r].at = step] /\ UNCHANGED answer
Says(r, what) ==
  /\ req' = [req EXCEPT ![r] = Idle]
  /\ answer' = [answer EXCEPT ![r] = what]

Call(r) ==
  /\ req[r] = Idle /\ calls < MaxCalls
  /\ calls' = calls + 1
  /\ \E item \in Names \cup Slugs, hub \in BOOLEAN :
       req' = [req EXCEPT ![r] = [item |-> item, hub |-> hub, at |-> "find"]]
  /\ answer' = [answer EXCEPT ![r] = "none"]
  /\ UNCHANGED <<authors, tags, deletes, byEngine>>

(* Seeded fault: the lookup is left out. *)
LooksUpNever(item) == FALSE

(* The lookup comes first: what is there is found even when the tenant is full. *)
LooksUp(item) == There(item)

Find(r) ==
  /\ At(r, "find")
  /\ IF LooksUp(req[r].item) THEN Says(r, "found")
     ELSE Goes(r, IF req[r].hub THEN "count" ELSE "create")
  /\ UNCHANGED <<authors, tags, calls, deletes, byEngine>>

(* Seeded fault: one more than the cap. *)
FullAbove(item) == IF item \in Slugs THEN Cardinality(tags) > TagCap ELSE AuthorRows > AuthorCap

Full(item) == IF item \in Slugs THEN Cardinality(tags) >= TagCap ELSE AuthorRows >= AuthorCap

Count(r) ==
  /\ At(r, "count")
  /\ IF Full(req[r].item) THEN Says(r, "full") ELSE Goes(r, "create")
  /\ UNCHANGED <<authors, tags, calls, deletes, byEngine>>

(* Seeded fault: the intake reads again too, and the hub does not. *)
LosesSwapped(r) == IF req[r].hub THEN Says(r, "error") ELSE Goes(r, "again")

(* The hook or the index refuses a second tag: the hub reads again, the intake fails. *)
Loses(r) == IF req[r].hub THEN Goes(r, "again") ELSE Says(r, "error")

Create(r) == LET item == req[r].item IN
  /\ At(r, "create")
  /\ IF item \in tags
     THEN Loses(r) /\ UNCHANGED <<authors, tags, byEngine>>
     ELSE /\ Says(r, "created")
          /\ IF item \in Slugs THEN tags' = tags \cup {item} /\ UNCHANGED authors
             ELSE authors' = [authors EXCEPT ![item] = @ + 1] /\ UNCHANGED tags
          /\ byEngine' = IF req[r].hub THEN byEngine ELSE byEngine + 1
  /\ UNCHANGED <<calls, deletes>>

(* Once, and then a 500. *)
Again(r) ==
  /\ At(r, "again")
  /\ Says(r, IF There(req[r].item) THEN "found" ELSE "error")
  /\ UNCHANGED <<authors, tags, calls, deletes, byEngine>>

(* An administrator deletes a row. *)
Delete(item) ==
  /\ There(item) /\ deletes < MaxDeletes
  /\ deletes' = deletes + 1
  /\ IF item \in Slugs THEN tags' = tags \ {item} /\ UNCHANGED authors
     ELSE authors' = [authors EXCEPT ![item] = @ - 1] /\ UNCHANGED tags
  /\ UNCHANGED <<req, answer, calls, byEngine>>

Next ==
  \/ \E r \in Requests : Call(r) \/ Find(r) \/ Count(r) \/ Create(r) \/ Again(r)
  \/ \E item \in Names \cup Slugs : Delete(item)

Spec == Init /\ [][Next]_vars

-----------------------------------------------------------------------------
(* The caps are soft: count and create are apart.  What lies above a cap was
   made by the intake, or by all but one of the requests running at one time. *)
CapsBarelyPassed ==
  /\ AuthorRows < AuthorCap + Cardinality(Requests) + byEngine
  /\ Cardinality(tags) < TagCap + Cardinality(Requests) + byEngine

(* A name has no more rows than requests can race for it at one time: whoever
   comes later finds one. *)
TwinsStayFew == \A n \in Names : authors[n] <= Cardinality(Requests)

(* A race for a tag never fails the hub's call: a 500 means that a row was
   deleted between the lost create and the second look. *)
HubFailsOnlyAfterDelete == [][\A r \in Requests :
  req[r] # Idle => (req[r].hub /\ req'[r] = Idle /\ answer'[r] = "error" => deletes > 0)]_vars

(* What races for caps and names can do is bounded by who runs at one time. *)
RacesStayBounded == CapsBarelyPassed /\ TwinsStayFew
===============================================================================
