------------------------------- MODULE MCImports -------------------------------
(***************************************************************************)
(* The imports, for TLC: runs over a legacy site and their rollbacks, the  *)
(* slugs such runs plan, and the import of a publication's own export.     *)
(* How a plan is made is SlugPlan's subject; GtpImport takes the plan as   *)
(* given.  A behaviour of all three is one behaviour of each, side by      *)
(* side; TLC explores the steps of one at a time, the others in one        *)
(* initial state, and no behaviour of any is left out by that.             *)
(***************************************************************************)
EXTENDS GtpImport

CONSTANTS
  LegacyIds, Bases, Reserved, Year, MaxPlannings, MaxRenames,           \* of SlugPlan
  Parts,   \* who moves in a run: some of "legacy", "plans", "export"
  Pillars, Subs, Pictures, Documents, Adopt, Nothing, Idle, MaxRuns, MaxFailures  \* of CentralImport

VARIABLES
  part,                                               \* the component that moves
  legacy, slugs, planned, plannings, renames,         \* of SlugPlan
  source, rows, run, file, runs, failures, clean      \* of CentralImport

(* Two plain bases, one that looks like a suffixed slug, and one that looks
   like an event of its year. *)
MCBases == {<<101>>, <<102>>, <<101, 2>>, <<101, 9>>}
MCReserved == {<<102>>}

Plans == INSTANCE SlugPlan WITH
  Ids <- LegacyIds, MaxRuns <- MaxPlannings,
  rows <- legacy, central <- slugs, plan <- planned, runs <- plannings

Export == INSTANCE CentralImport WITH Media <- Pictures, Articles <- Documents

ASSUME PlansAssumption == Plans!BoundsAssumption /\ Plans!BasesAssumption
ASSUME ExportAssumption ==
  Export!ModeAssumption /\ Export!BoundsAssumption /\ Export!DocsAssumption

plansVars == <<legacy, slugs, planned, plannings, renames>>
exportVars == <<source, rows, run, file, runs, failures, clean>>
MCvars == <<part, vars, plansVars, exportVars>>

(* One export for when it is not imported. *)
Bare ==
  /\ rows = <<>>
  /\ source[1] = [s \in Subs |-> [pillar |-> CHOOSE p \in Pillars : TRUE]]
  /\ \A a \in Documents : source[2][a] =
       [pillar |-> CHOOSE p \in Pillars : TRUE, sub |-> Nothing, hero |-> Nothing,
        body |-> Nothing, published |-> FALSE]

MCInit ==
  /\ Init /\ Plans!Init /\ Export!Init
  /\ part \in Parts
  /\ part # "export" => Bare

MCNext ==
  \/ part = "legacy" /\ Next /\ UNCHANGED <<part, plansVars, exportVars>>
  \/ part = "plans" /\ Plans!Next /\ UNCHANGED <<part, vars, exportVars>>
  \/ part = "export" /\ Export!Next /\ UNCHANGED <<part, vars, plansVars>>

MCSpec == MCInit /\ [][MCNext]_MCvars

-----------------------------------------------------------------------------
(* No plan gives one slug to two rows, and a slug that it gives a row is held in
   Central by that row's article or by none. *)
PlanIsSound == Plans!PlanIsSound

(* No document of the export has two rows, and sections and heroes of an
   imported article are those of the export. *)
ImportedAsExported == Export!ImportedAsExported

(* A body keeps an id of the source site only after a failure; a run in which
   nothing fails leaves every document with a row, and the first one with
   adopted images every row in every locale. *)
CleanLacksNothing == Export!CleanLacksNothing
=============================================================================
