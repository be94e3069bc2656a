---------------------------- MODULE AiLeaderboard ----------------------------
(***************************************************************************)
(* The weekly refresh of the AI leaderboard                                *)
(* (src/app/api/cron/refresh-ai-leaderboard/route.ts and                   *)
(* src/lib/dashboards/ai-llmstats.ts): all groups of figures are fetched   *)
(* first, each with one retry, and nothing is written if one fails; then   *)
(* all rows are read, and the row matched by each upstream model is        *)
(* updated, except for the fields its editor has locked.  An update reads  *)
(* the row once more, and stores every column of what it has merged.       *)
(*                                                                         *)
(* Editors set, lock, release and match at any time; what they save is the *)
(* whole form, as they opened it.                                          *)
(***************************************************************************)
EXTENDS Naturals

CONSTANTS
  Rows, Models,          \* rows of all tenants; ids of upstream models
  Fields,                \* CRON_FIELDS; each comes with a request group of its own
  Figures, Own,          \* upstream values, and those of editors
  NoModel, NoRow, NoFigure, Idle,       \* model values
  MaxFaults, MaxEdits, MaxDrifts        \* bounds

NonesAssumption ==
  /\ NoModel \notin Models /\ NoRow \notin Rows
  /\ NoFigure \notin Figures \cup Own
BoundsAssumption == MaxFaults \in Nat /\ MaxEdits \in Nat /\ MaxDrifts \in Nat

VARIABLES
  upstream,   \* model -> field -> figure, if upstream has one
  rows,       \* the leaderboard
  run,        \* the run of the cron
  stamped,    \* rows refreshed by the last run
  forms,      \* rows as editors have them open
  faults, edits, drifts   \* so far

vars == <<upstream, rows, run, stamped, forms, faults, edits, drifts>>

Figured == [Models -> [Fields -> Figures \cup {NoFigure}]]
Row == [model: Models \cup {NoModel}, vals: [Fields -> Figures \cup Own \cup {NoFigure}],
        locked: SUBSET Fields]

(* left: groups still to fetch; again: the one retry is used; seen and locks: bySlug,
   as it was read; todo: updates still to apply; at and base: the one under way, and
   the row as it has read it. *)
Run == [left: SUBSET Fields, again: BOOLEAN, got: Figured,
        read: BOOLEAN, seen: [Models -> Rows \cup {NoRow}], locks: [Rows -> SUBSET Fields],
        todo: SUBSET Models, at: Models \cup {NoModel}, base: Row \cup {NoRow}]

(* Types; and no row is looked at before every group is there. *)
TypeOK ==
  /\ upstream \in Figured
  /\ rows \in [Rows -> Row]
  /\ run \in Run \cup {Idle}
  /\ stamped \subseteq Rows
  /\ forms \in [Rows -> Row \cup {NoRow}]
  /\ faults \in 0..MaxFaults /\ edits \in 0..MaxEdits /\ drifts \in 0..MaxDrifts
  /\ run # Idle => (run.read => run.left = {})

Matches(r, m) == rows[r].model = m

(* Some rows have figures that their editor has locked already. *)
Init ==
  /\ upstream \in Figured
  /\ \E model \in [Rows -> Models \cup {NoModel}], locked \in [Rows -> SUBSET Fields],
        kept \in Figures :
       rows = [r \in Rows |->
         [model |-> model[r], locked |-> locked[r],
          vals |-> [f \in Fields |-> IF f \in locked[r] THEN kept ELSE NoFigure]]]
  /\ run = Idle /\ stamped = {} /\ forms = [r \in Rows |-> NoRow]
  /\ faults = 0 /\ edits = 0 /\ drifts = 0

-----------------------------------------------------------------------------
Start ==
  /\ run = Idle
  /\ run' = [left |-> Fields, again |-> FALSE,
             got |-> [m \in Models |-> [f \in Fields |-> NoFigure]],
             read |-> FALSE, seen |-> [m \in Models |-> NoRow],
             locks |-> [r \in Rows |-> {}], todo |-> Models, at |-> NoModel, base |-> NoRow]
  /\ stamped' = {}
  /\ UNCHANGED <<upstream, rows, forms, faults, edits, drifts>>

(* A group answers: pages of the catalogue, or one category of the rankings. *)
Fetch(f) ==
  /\ run # Idle /\ f \in run.left
  /\ run' = [run EXCEPT !.left = @ \ {f}, !.again = FALSE,
               !.got = [m \in Models |-> [run.got[m] EXCEPT ![f] = upstream[m][f]]]]
  /\ UNCHANGED <<upstream, rows, stamped, forms, faults, edits, drifts>>

(* It does not: once again, and then the run writes nothing. *)
FetchFails ==
  /\ run # Idle /\ run.left # {}
  /\ faults < MaxFaults
  /\ faults' = faults + 1
  /\ run' = IF run.again THEN Idle ELSE [run EXCEPT !.again = TRUE]
  /\ UNCHANGED <<upstream, rows, stamped, forms, edits, drifts>>

(* Seeded fault: the first group will do. *)
AnyFetched == run.left # Fields

AllFetched == run.left = {}

(* All rows of all tenants, into a map by model: the last row of a model stays. *)
Read ==
  /\ run # Idle /\ AllFetched /\ ~run.read
  /\ \E seen \in [Models -> Rows \cup {NoRow}] :
       /\ \A m \in Models : IF \E r \in Rows : Matches(r, m)
                            THEN seen[m] \in Rows /\ Matches(seen[m], m)
                            ELSE seen[m] = NoRow
       /\ run' = [run EXCEPT !.read = TRUE, !.seen = seen,
                             !.locks = [r \in Rows |-> rows[r].locked]]
  /\ UNCHANGED <<upstream, rows, stamped, forms, faults, edits, drifts>>

(* Seeded fault: the list of locked fields is not looked at. *)
OwnedUnlocked(m) == {f \in Fields : run.got[m][f] # NoFigure}

(* Fields upstream has a figure for and the editor has left to the cron. *)
Owned(m) == {f \in Fields : run.got[m][f] # NoFigure /\ f \notin run.locks[run.seen[m]]}

(* Seeded fault: a figure upstream no longer has is erased. *)
RefreshedErasing(vals, m) == run.got[m]

(* What is absent upstream leaves what is stored. *)
Refreshed(vals, m) == [f \in Fields |-> IF f \in Owned(m) THEN run.got[m][f] ELSE vals[f]]

Wanted(m) == run.seen[m] # NoRow /\ Owned(m) # {}

(* The next model: payload.update reads its row, unless there is nothing to write. *)
Take(m) ==
  /\ run # Idle /\ run.read /\ run.at = NoModel /\ m \in run.todo
  /\ run' = IF Wanted(m) THEN [run EXCEPT !.todo = @ \ {m}, !.at = m,
                                          !.base = rows[run.seen[m]]]
                         ELSE [run EXCEPT !.todo = @ \ {m}]
  /\ UNCHANGED <<upstream, rows, stamped, forms, faults, edits, drifts>>

(* And it stores all columns of the row it read, whatever was saved since. *)
Store ==
  /\ run # Idle /\ run.at # NoModel
  /\ LET r == run.seen[run.at] IN
       /\ rows' = [rows EXCEPT ![r] = [run.base EXCEPT !.vals = Refreshed(@, run.at)]]
       /\ stamped' = stamped \cup {r}
  /\ run' = [run EXCEPT !.at = NoModel, !.base = NoRow]
  /\ UNCHANGED <<upstream, forms, faults, edits, drifts>>

(* An update throws, and nothing catches it. *)
WriteFails ==
  /\ run # Idle /\ run.read /\ (run.todo # {} \/ run.at # NoModel)
  /\ faults < MaxFaults
  /\ faults' = faults + 1
  /\ run' = Idle
  /\ UNCHANGED <<upstream, rows, stamped, forms, edits, drifts>>

End ==
  /\ run # Idle /\ run.read /\ run.todo = {} /\ run.at = NoModel
  /\ run' = Idle
  /\ UNCHANGED <<upstream, rows, stamped, forms, faults, edits, drifts>>

(* An editor opens a row. *)
OpenForm(r) ==
  /\ edits < MaxEdits /\ forms[r] = NoRow
  /\ edits' = edits + 1
  /\ forms' = [forms EXCEPT ![r] = rows[r]]
  /\ UNCHANGED <<upstream, rows, run, stamped, faults, drifts>>

(* What the form holds is saved, with a value of the editor's and a lock on it, a lock
   released, or another model; or the form is closed. *)
Edit(r) == LET form == forms[r] IN
  /\ form # NoRow
  /\ \/ \E f \in Fields, v \in Own :
          rows' = [rows EXCEPT ![r] = [form EXCEPT !.vals[f] = v, !.locked = @ \cup {f}]]
     \/ \E f \in form.locked : rows' = [rows EXCEPT ![r] = [form EXCEPT !.locked = @ \ {f}]]
     \/ \E m \in Models \cup {NoModel} : rows' = [rows EXCEPT ![r] = [form EXCEPT !.model = m]]
     \/ UNCHANGED rows
  /\ forms' = [forms EXCEPT ![r] = NoRow]
  /\ UNCHANGED <<upstream, run, stamped, faults, edits, drifts>>

Drift ==
  /\ drifts < MaxDrifts
  /\ drifts' = drifts + 1
  /\ \E m \in Models, f \in Fields, v \in Figures \cup {NoFigure} :
       upstream' = [upstream EXCEPT ![m][f] = v]
  /\ UNCHANGED <<rows, run, stamped, forms, faults, edits>>

Step == \/ Start \/ Read \/ End
        \/ \E f \in Fields : Fetch(f)
        \/ \E m \in Models : Take(m)
        \/ Store

Next == Step \/ FetchFails \/ WriteFails \/ Drift \/ \E r \in Rows : OpenForm(r) \/ Edit(r)

(* The cron comes every week, and a run that has not failed goes on. *)
Spec == Init /\ [][Next]_vars /\ WF_vars(Step)

-----------------------------------------------------------------------------
(* A refresh gives a field another value only where nobody had locked it when the
   rows were read, and then it is a figure: what upstream no longer has stays as it
   was.  Where a refresh changes a locked value, or erases a figure, an editor saved
   that very field between the reading and the storing of this one update. *)
Overtaken(r, f) == run.base.vals[f] # rows[r].vals[f]
LeftToCron(r, f) == f \notin run.locks[r] /\ rows'[r].vals[f] # NoFigure

Careful == \A r \in Rows, f \in Fields :
  rows'[r].vals[f] # rows[r].vals[f] => LeftToCron(r, f) \/ Overtaken(r, f)

RefreshIsCareful == [][Store => Careful]_vars

(* A row that is the only one of its model shows upstream's figures in the end,
   whatever fails: in every field that is unlocked and that upstream has. *)
Alone(r) == rows[r].model # NoModel /\ \A q \in Rows \ {r} : rows[q].model # rows[r].model
Current(r) == \A f \in Fields \ rows[r].locked :
  upstream[rows[r].model][f] # NoFigure => rows[r].vals[f] = upstream[rows[r].model][f]
EventuallyCurrent == <>[](\A r \in Rows : Alone(r) => Current(r))
===============================================================================
