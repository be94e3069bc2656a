----------------------------- MODULE MCPublicSide -----------------------------
(***************************************************************************)
(* The public routes, for TLC: read tokens, newsletter addresses and the   *)
(* view counter.  They share no state, so a behaviour of all three is one  *)
(* behaviour of each, side by side; TLC explores the steps of one of them  *)
(* at a time, with the others in their initial states, and no behaviour of *)
(* a component is left out by that.                                        *)
(***************************************************************************)
EXTENDS ReadTokens, TLC

CONSTANTS
  Lists, NoRow, NoCall, MaxCalls, MaxIds,              \* of Subscribers
  Readers, Editors, NoArticle, NoWork, MaxViews, MaxSaves  \* of ViewCounter

VARIABLES
  part,                                              \* the component that moves
  row, call, answer, calls, ids, minted, links, bare,  \* of Subscribers
  main, latest, public, reader, editor, answered, seen, saves, base, since  \* of ViewCounter

News == INSTANCE Subscribers WITH Idle <- NoCall, req <- call
Views == INSTANCE ViewCounter WITH Idle <- NoWork

ASSUME NewsAssumption == News!BoundsAssumption
ASSUME ViewsAssumption == Views!BoundsAssumption

newsVars == <<row, call, answer, calls, ids, minted, links, bare>>
viewsVars == <<main, latest, public, reader, editor, answered, seen, saves, base, since>>
MCvars == <<part, vars, newsVars, viewsVars>>

MCInit ==
  /\ part \in {"tokens", "news", "views"}
  /\ Init /\ News!Init /\ Views!Init

MCNext ==
  \/ part = "tokens" /\ Next /\ UNCHANGED <<part, newsVars, viewsVars>>
  \/ part = "news" /\ News!Next /\ UNCHANGED <<part, vars, viewsVars>>
  \/ part = "views" /\ Views!Next /\ UNCHANGED <<part, vars, newsVars>>

MCSpec == MCInit /\ [][MCNext]_MCvars

MCSymmetry == Permutations(Requests) \cup Permutations(Tokens) \cup Permutations(Lists)

-----------------------------------------------------------------------------
(* A one-click link the site was answered works as long as its row is there,
   unless an administrator made the row. *)
LinksKeepWorking == News!LinksKeepWorking

(* A toggle that nobody wrote in between changes only the newsletters it
   names, and an unsubscribe no selection at all. *)
OnlyRacesLose == News!OnlyRacesLose

(* No view is lost to another view, nor to a draft, between two stores of the
   main row. *)
EveryViewCounts == Views!EveryViewCounts
=============================================================================
