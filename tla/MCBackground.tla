------------------------------ MODULE MCBackground ------------------------------
(***************************************************************************)
(* What the CMS does when nobody asks, for TLC: the cron that publishes    *)
(* what is due, the cron that refreshes the AI leaderboard, and the        *)
(* webhook to the sites.  They share no state, so a behaviour of all three *)
(* is one behaviour of each, side by side; TLC explores the steps of one   *)
(* at a time, the others in one initial state, and no behaviour of any is  *)
(* left out by that.  Fairness is asked of the one that moves.             *)
(***************************************************************************)
EXTENDS HubSchedule

CONSTANTS
  Rows, Models, Fields, Figures, Own, NoModel, NoRow, NoFigure, Rests,
  MaxFaults, MaxEdits, MaxDrifts,                           \* of AiLeaderboard
  NoPage, NoSave, MaxSaves                                  \* of Revalidation

VARIABLES
  part,                                                     \* the component that moves
  upstream, rows, refresh, stamped, forms, faults, edits, drifts,  \* of AiLeaderboard
  stored, save, site, cache, fetch, untold                  \* of Revalidation

Board == INSTANCE AiLeaderboard WITH Idle <- Rests, run <- refresh
Hook == INSTANCE Revalidation WITH Nothing <- NoPage, Idle <- NoSave

ASSUME BoardAssumption == Board!NonesAssumption /\ Board!BoundsAssumption
ASSUME HookAssumption == Hook!MaxSavesAssumption

boardVars == <<upstream, rows, refresh, stamped, forms, faults, edits, drifts>>
hookVars == <<stored, save, site, cache, fetch, untold>>
MCvars == <<part, vars, boardVars, hookVars>>

(* One leaderboard for when it does not move. *)
NoBoard ==
  /\ \A m \in Models, f \in Fields : upstream[m][f] = NoFigure
  /\ \A r \in Rows : rows[r].model = NoModel /\ rows[r].locked = {}

MCInit ==
  /\ Init /\ Board!Init /\ Hook!Init
  /\ part \in {"publishing", "leaderboard", "webhook"}
  /\ part # "leaderboard" => NoBoard

MCNext ==
  \/ part = "publishing" /\ Next /\ UNCHANGED <<part, boardVars, hookVars>>
  \/ part = "leaderboard" /\ Board!Next /\ UNCHANGED <<part, vars, hookVars>>
  \/ part = "webhook" /\ Hook!Next /\ UNCHANGED <<part, vars, boardVars>>

(* The fairness of each, as its module states it, for the one that moves. *)
MCFairness ==
  /\ WF_vars(part = "publishing" /\ CronFind)
  /\ WF_vars(part = "publishing" /\ CronStep)
  /\ WF_boardVars(part = "leaderboard" /\ Board!Step)
  /\ WF_hookVars(part = "webhook" /\ Hook!Post)
  /\ WF_hookVars(part = "webhook" /\ Hook!Commit)

MCSpec == MCInit /\ [][MCNext]_MCvars /\ MCFairness

(* Bounds of the run: at first, upstream has all figures of all models but one, and
   only a row that is alone has a locked figure. *)
Scarce == CHOOSE m \in Models : TRUE
Supplied == \A m \in Models \ {Scarce}, f \in Fields : upstream[m][f] # NoFigure

(* Rows are interchangeable, and so are fields: of the initial states that differ in
   which is which, one will do. *)
FirstRow == CHOOSE r \in Rows : TRUE
FirstField == CHOOSE f \in Fields : TRUE
Rank(m) == CASE m = NoModel -> 0 [] m = Scarce -> 1 [] OTHER -> 2
Ordered ==
  /\ \A r \in Rows : Rank(rows[FirstRow].model) <= Rank(rows[r].model)
  /\ \A f \in Fields : upstream[Scarce][f] = NoFigure \/ upstream[Scarce][FirstField] # NoFigure

LockedAlone ==
  \A r \in Rows : rows[r].locked # {} =>
    /\ rows[r].model = Scarce /\ rows[r].locked = {FirstField}
    /\ \A q \in Rows \ {r} : rows[q].model = NoModel

BoundedInit == MCInit /\ (part = "leaderboard" => Supplied /\ Ordered /\ LockedAlone)
BoundedSpec == BoundedInit /\ [][MCNext]_MCvars /\ MCFairness

-----------------------------------------------------------------------------
(* A row that is the only one of its model shows upstream's figures in the end,
   in every field that is unlocked and that upstream has. *)
EventuallyCurrent == part = "leaderboard" => Board!EventuallyCurrent

(* A stale page was read in the gap between webhook and commit, or the hook
   knows that the site was not told. *)
StaleOnlyFromTheGap == Hook!StaleOnlyFromTheGap

(* However the site behaves, a save that has begun is stored. *)
EverySaveLands == part = "webhook" => Hook!EverySaveLands

(* A refresh gives a field another value only where nobody had locked it when the
   rows were read, and then it is a figure; or an editor saved that very field
   between the reading and the storing of this one update. *)
RefreshIsCareful == Board!RefreshIsCareful
=============================================================================
