----------------------------- MODULE MCEngineIntake -----------------------------
(***************************************************************************)
(* EngineIntake on an instance.  Drafts are interchangeable, so of two     *)
(* initial states that differ in which draft carries what, one will do.    *)
(***************************************************************************)
EXTENDS EngineIntake, TLC

Rank(carried) == (IF carried.slug = Taken THEN 1 ELSE 0) + (IF carried.url = NoUrl THEN 0 ELSE 2)
First == CHOOSE d \in Drafts : TRUE

(* A bound of the runs: the terms of one draft are special, and it has a source; or the
   engine may not update, and one draft has no source; and then they want two slugs. *)
Special(d) == asked[d].expects # NoVersion \/ asked[d].lacks # "nothing"
OneSpecial ==
  /\ \A d \in Drafts : Special(d) => d # First /\ mayUpdate /\ asked[d].url # NoUrl
  /\ \A d \in Drafts : asked[d].expects = NoVersion \/ asked[d].lacks = "nothing"
  /\ mayUpdate \/ asked[First].url = NoUrl
  /\ \/ mayUpdate /\ \A d \in Drafts : ~Special(d)
     \/ \A d \in Drafts : asked[d].slug = Taken <=> d = First
Ordered == \A d \in Drafts : Special(d) \/ Rank(asked[First]) <= Rank(asked[d])

MCInit == Init /\ OneSpecial /\ Ordered

(* Deliveries are interchangeable; the run of a liveness property does not use this. *)
MCSymmetry == Permutations(Deliveries)

MCSpec == MCInit /\ [][Next]_vars /\ Fairness
===============================================================================
