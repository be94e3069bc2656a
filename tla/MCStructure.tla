------------------------------ MODULE MCStructure ------------------------------
(***************************************************************************)
(* What articles are filed under, for TLC: the single-home rule of         *)
(* pillars, and the authors and tags that hub and intake find or make.     *)
(* The two share no state, so a behaviour of both is one behaviour of      *)
(* each, side by side; TLC explores the steps of one at a time, the other  *)
(* in one initial state, and no behaviour of either is left out by that.   *)
(***************************************************************************)
EXTENDS SingleHome, TLC

CONSTANTS
  AuthorNames, TagSlugs, Callers, AuthorCap, TagCap, NoCall, MaxCalls, MaxRemovals  \* of Taxonomy

VARIABLES
  part,                                                   \* the component that moves
  authors, tags, call, answer, calls, removals, byEngine  \* of Taxonomy

Tax == INSTANCE Taxonomy WITH
  Names <- AuthorNames, Slugs <- TagSlugs, Requests <- Callers, Idle <- NoCall,
  MaxDeletes <- MaxRemovals, req <- call, deletes <- removals

ASSUME TaxAssumption == Tax!ItemsAssumption /\ Tax!NumbersAssumption

taxVars == <<authors, tags, call, answer, calls, removals, byEngine>>
MCvars == <<part, vars, taxVars>>

(* Nothing is there yet. *)
Empty ==
  /\ \A p \in Pillars : key[p] = Unborn
  /\ \A s \in Subs : parent[s] = NoPillar
  /\ \A a \in Articles : main[a] = NoArticle

MCInit ==
  /\ Init /\ Tax!Init
  /\ part \in {"pillars", "taxonomy"}
  /\ part = "taxonomy" => Empty

MCNext ==
  \/ part = "pillars" /\ Next /\ UNCHANGED <<part, taxVars>>
  \/ part = "taxonomy" /\ Tax!Next /\ UNCHANGED <<part, vars>>

MCSpec == MCInit /\ [][MCNext]_MCvars

(* Bounds of the run: at first, all pillars are of the tenant that the engine
   writes for; one of another tenant comes by a create or a move.  And an article
   that keeps the rule has no section beside its pillar yet. *)
Plain ==
  /\ \A p \in Pillars : key[p] \in OwnKeys \cup {Unborn}
  /\ \A a \in Articles : legacy[a] # NoArticle /\ Lawful(legacy[a]) =>
       legacy[a].secondary = {} /\ legacy[a].sub = NoSub

BoundedInit == MCInit /\ Plain
BoundedSpec == BoundedInit /\ [][MCNext]_MCvars

(* Pillars are interchangeable, and so are the requests that write articles. *)
MCSymmetry == Permutations(Pillars) \cup Permutations(Writers)

-----------------------------------------------------------------------------
(* A race for a tag never fails a call of the hub; only a deletion can. *)
HubFailsOnlyAfterDelete == Tax!HubFailsOnlyAfterDelete

(* A tenant passes a cap only by requests of the hub that run at one time, less
   one, and by what the intake made; an author's name has no more rows than
   requests can race for it at one time. *)
RacesStayBounded == Tax!RacesStayBounded
=============================================================================
