------------------------------- MODULE LiveEdit -------------------------------
(***************************************************************************)
(* PATCH /api/hub/articles/{id}/live (src/lib/hub-author-live-core.ts):    *)
(* the hub edits some columns of a published article straight on the live  *)
(* row.                                                                    *)
(*                                                                         *)
(* The edit must not carry along what an editor has saved as a draft, but  *)
(* a plain update merges from the latest version, and Save Draft takes no  *)
(* lock.  So a request                                                     *)
(*   - passes a first gate (latest = live, nothing scheduled, version),    *)
(*   - opens a transaction under the hub's article lock and locks the main *)
(*     row, which stops plain updates but not Save Draft,                  *)
(*   - passes the gate again, and reads the main row (pre),                *)
(*   - writes: the update reads the latest version and stores both later,  *)
(*   - and compares what it wrote with pre: commit or rollback.            *)
(*                                                                         *)
(* Editors, the hub's status route, the crons and the engines are here as  *)
(* plain updates and Save Drafts; each of them, too, reads the latest      *)
(* version when it begins and stores later.  The text of a row is a record *)
(* of two parts: the columns the hub edits, and the rest.                  *)
(***************************************************************************)
EXTENDS ArticleHooks

CONSTANTS
  Requests,      \* live edits
  Words,         \* what a column may hold
  Statuses,      \* the statuses editors choose from when they save a draft
  Translates,    \* the tenant translates its articles
  MaxVersion     \* bound: nothing is begun above this version

Columns == [edited: Words, rest: Words]

UnsetIsNoColumns == Unset \notin Columns
StatusesAssumption == Statuses \subseteq WorkflowStatus
TranslatesAssumption == Translates \in BOOLEAN
MaxVersionAssumption == MaxVersion \in Nat

VARIABLES
  art,      \* the two surfaces, as committed
  edit,     \* the live edits
  draft,    \* the latest version a Save Draft started from
  plain     \* the latest version a plain update started from

vars == <<art, edit, draft, plain>>

LiveRow == [ws: WorkflowStatus, st: NativeStatus, ver: Nat, text: Columns, human: BOOLEAN]
None == [begun |-> FALSE]
Begun == [begun: {TRUE}, base: LiveRow]

(* ver is the version the caller names, word its edit; base is the latest  *)
(* version its update has read, next what the transaction has written.     *)
(* overtaken is history: a draft was stored between those two.             *)
Idle == [at |-> "idle"]
Active == [at: {"lock", "gate", "pre", "base", "write", "check"}, ver: Nat, word: Words,
           pre: LiveRow, base: LiveRow, next: LiveRow, overtaken: BOOLEAN]

(* Both surfaces stay rows of the collection, whatever a merge leaves out. *)
TypeOK ==
  /\ art \in [main: LiveRow, latest: LiveRow]
  /\ edit \in [Requests -> {Idle} \cup Active]
  /\ draft \in {None} \cup Begun
  /\ plain \in {None} \cup Begun

Init ==
  /\ \E text \in Columns :
       LET row == [ws |-> "published", st |-> "published", ver |-> 1, text |-> text, human |-> TRUE]
       IN  art = [main |-> row, latest |-> row]
  /\ edit = [r \in Requests |-> Idle]
  /\ draft = None
  /\ plain = None

-----------------------------------------------------------------------------
At(r, phase) == edit[r].at = phase

(* Seeded fault: no row lock; the row is locked once it is written. *)
LocksRowAtWrite(r) == At(r, "check")

(* While does a request hold the row lock? *)
LocksRow(r) == edit[r].at \in {"gate", "pre", "base", "write", "check"}

(* liveGateReason. *)
Live(row) == row.ws = "published" /\ row.st = "published"
LiveGate(pair) ==
  /\ Live(pair.main)
  /\ pair.latest.ws # "scheduled"
  /\ pair.latest.st = "published"
  /\ pair.latest.ver = pair.main.ver

(* Some row, where nothing is read yet. *)
Unread(word) == [ws |-> "draft", st |-> "draft", ver |-> 0,
                 text |-> [edited |-> word, rest |-> word], human |-> FALSE]

Edited(columns, word) == [columns EXCEPT !.edited = word]

NothingGiven == [ws |-> Unset, st |-> Unset, text |-> Unset]
NeedsWork == IF Translates THEN BOOLEAN ELSE {FALSE}

Goto(r, phase) == edit' = [edit EXCEPT ![r].at = phase]
Stop(r) == edit' = [edit EXCEPT ![r] = Idle]

(* The first gate: the caller has seen this version and changes something. *)
Open(r) ==
  /\ At(r, "idle")
  /\ LiveGate(art)
  /\ art.main.ver <= MaxVersion
  /\ \E word \in Words \ {art.latest.text.edited} :
       edit' = [edit EXCEPT ![r] = [at |-> "lock", ver |-> art.main.ver, word |-> word,
                                    pre |-> Unread(word), base |-> Unread(word),
                                    next |-> Unread(word), overtaken |-> FALSE]]
  /\ UNCHANGED <<art, draft, plain>>

(* The article lock of the hub, then the row lock. *)
Lock(r) ==
  /\ At(r, "lock")
  /\ \A q \in Requests \ {r} : ~LocksRow(q)
  /\ Goto(r, "gate")
  /\ UNCHANGED <<art, draft, plain>>

Gate(r) ==
  /\ At(r, "gate")
  /\ IF LiveGate(art) /\ art.main.ver = edit[r].ver THEN Goto(r, "pre") ELSE Stop(r)
  /\ UNCHANGED <<art, draft, plain>>

ReadPre(r) ==
  /\ At(r, "pre")
  /\ edit' = [edit EXCEPT ![r].at = "base", ![r].pre = art.main]
  /\ UNCHANGED <<art, draft, plain>>

(* A plain update with the changed columns only: the rest of the row comes *)
(* from the latest version.  The row lock keeps no Save Draft out between  *)
(* the update's reading and its store.                                     *)
ReadBase(r) ==
  /\ At(r, "base")
  /\ edit' = [edit EXCEPT ![r].at = "write", ![r].base = art.latest]
  /\ UNCHANGED <<art, draft, plain>>

Write(r) ==
  LET base == edit[r].base
      data == [NothingGiven EXCEPT !.text = Edited(base.text, edit[r].word)]
  IN
  /\ At(r, "write")
  /\ \E needsWork \in NeedsWork :
       edit' = [edit EXCEPT
         ![r].at = "check",
         ![r].next = Update(art, base, data, "hubAuthor", FALSE, FALSE, needsWork).main]
  /\ UNCHANGED <<art, draft, plain>>

(* Seeded fault: the columns are compared and nothing else. *)
PostWriteCheckFields(pre, next, ver) == next.text.rest = pre.text.rest

(* livePostWriteCheck. *)
PostWriteCheck(pre, next, ver) ==
  /\ next.text.rest = pre.text.rest
  /\ Live(next)
  /\ IF Translates THEN next.ver >= ver + 1 ELSE next.ver = ver + 1

Passes(r) == PostWriteCheck(edit[r].pre, edit[r].next, edit[r].ver)

Commit(r) ==
  /\ At(r, "check") /\ Passes(r)
  /\ art' = [main |-> edit[r].next, latest |-> edit[r].next]
  /\ Stop(r)
  /\ UNCHANGED <<draft, plain>>

Rollback(r) ==
  /\ At(r, "check") /\ ~Passes(r)
  /\ Stop(r)
  /\ UNCHANGED <<art, draft, plain>>

(* A lock is not granted in time, or the transaction is lost. *)
Abandon(r) ==
  /\ edit[r].at \in {"lock", "gate", "pre", "base", "write", "check"}
  /\ Stop(r)
  /\ UNCHANGED <<art, draft, plain>>

-----------------------------------------------------------------------------
(* The others. *)

DraftBegin ==
  /\ draft = None
  /\ art.latest.ver <= MaxVersion
  /\ draft' = [begun |-> TRUE, base |-> art.latest]
  /\ UNCHANGED <<art, edit, plain>>

(* The live edits whose update has read and not written. *)
Overtaken == [r \in Requests |->
                IF At(r, "write") THEN [edit[r] EXCEPT !.overtaken = TRUE] ELSE edit[r]]

(* Save Draft inserts a version and leaves the main row alone.  It takes   *)
(* the row of the latest version, so it waits for a live edit that has     *)
(* written.                                                                *)
DraftStore ==
  /\ draft # None
  /\ \A r \in Requests : ~At(r, "check")
  /\ \E ws \in Statuses, text \in Columns :
       LET data == HumanRequest([ws |-> ws, st |-> "draft", text |-> text], draft.base.ws, "update")
       IN  art' = Update(art, draft.base, data, "plain", TRUE, TRUE, FALSE)
  /\ edit' = Overtaken
  /\ draft' = None
  /\ UNCHANGED plain

PlainBegin ==
  /\ plain = None
  /\ art.latest.ver <= MaxVersion
  /\ plain' = [begun |-> TRUE, base |-> art.latest]
  /\ UNCHANGED <<art, edit, draft>>

(* A plain update waits for the row. *)
PlainStore(data, ctx, byHuman) ==
  /\ plain # None
  /\ \A r \in Requests : ~LocksRow(r)
  /\ \E needsWork \in NeedsWork :
       art' = Update(art, plain.base, data, ctx, byHuman, FALSE, needsWork)
  /\ plain' = None
  /\ UNCHANGED <<edit, draft>>

Publish ==
  \E text \in Columns :
    PlainStore([ws |-> "published", st |-> "published", text |-> text], "plain", TRUE)

(* The status route.  Its gate was read before, so it may find any row. *)
HideOrRepublish ==
  \E ws \in {"archived", "published"} :
    PlainStore([NothingGiven EXCEPT !.ws = ws], "hubWrite", FALSE)

(* The translation route and the unpin cron write other columns. *)
Touch ==
  \E ctx \in {"translationWrite", "systemWrite"} : PlainStore(NothingGiven, ctx, FALSE)

Next ==
  \/ \E r \in Requests : Open(r) \/ Lock(r) \/ Gate(r) \/ ReadPre(r) \/ ReadBase(r) \/ Write(r)
                         \/ Commit(r) \/ Rollback(r) \/ Abandon(r)
  \/ DraftBegin \/ DraftStore
  \/ PlainBegin \/ Publish \/ HideOrRepublish \/ Touch

Spec == Init /\ [][Next]_vars

-----------------------------------------------------------------------------
(* What readers see after a live edit is what they saw before it with the  *)
(* hub's words in it: no word of a draft, no status and no publish flag    *)
(* came along.                                                             *)
OnlyTheEditGoesLive ==
  [][\A r \in Requests : Commit(r) =>
       art'.main = [art.main EXCEPT !.text = Edited(@, edit[r].word), !.ver = art'.main.ver]]_vars

(* A live edit that goes through swallows no draft that was there when its *)
(* update read the latest version, whenever it came in after the gate:     *)
(* that reading was the live row.  It swallows one only if that was stored *)
(* between the reading and the store of this very update.                  *)
NoDraftSwallowed ==
  [][\A r \in Requests : Commit(r) =>
       /\ edit[r].base = art.main
       /\ art.latest = art.main \/ edit[r].overtaken]_vars

(* The edit lands on the version its caller named, and on no other. *)
LandsOnItsVersion ==
  [][\A r \in Requests : Commit(r) =>
       art.main.ver = edit[r].ver /\ art'.main.ver > edit[r].ver]_vars
=============================================================================
