------------------------------- MODULE HubLock -------------------------------
(***************************************************************************)
(* The hub's writes on articles under withHubArticleLock                   *)
(* (src/lib/hub-article-lock.ts): POST and PATCH of drafts and POST        *)
(* publish, several requests at once.                                      *)
(*                                                                         *)
(* A request opens a transaction, takes the advisory lock of its article   *)
(* (a create has none), reads and judges the article again, takes the lock *)
(* of the slug it is about to occupy, looks for another article with that  *)
(* slug (on a connection of its own, so among committed rows), writes, and *)
(* commits.  Postgres holds the locks until the transaction ends, and may  *)
(* end it at any moment.  What the request reads before the transaction    *)
(* decides only whether it is refused at once; such calls are left out.    *)
(*                                                                         *)
(* Editors, the engine and the crons do not take these locks; they are the *)
(* subject of other modules.  Keys of different articles and slugs are     *)
(* taken to be different (they are 32-bit hashes in the code).             *)
(***************************************************************************)
EXTENDS Naturals

CONSTANTS
  Articles, Slugs, Requests,
  NoSlug, NoOp,
  MaxVersion     \* bound: no draft is saved again above this version

ASSUME NoSlugAssumption == NoSlug \notin Slugs
ASSUME MaxVersionAssumption == MaxVersion \in Nat

VARIABLES
  rows,     \* the articles as committed
  req,      \* the requests
  answer    \* the last answer of each

vars == <<rows, req, answer>>

open == [r \in Requests |-> IF req[r].at = "idle" THEN NoOp ELSE req[r].op]
Drafts == INSTANCE HubDrafts WITH rows <- rows, open <- open, answer <- answer

ASSUME NoOpAssumption == NoOp \notin Drafts!Op

Phases == {"lockArticle", "recheck", "lockSlug", "checkSlug", "write", "commit"}
Idle == [at |-> "idle"]

(* slug is the slug to lock; row what the transaction has written; alive   *)
(* says whether Postgres still has the transaction.                        *)
Active == [at: Phases, op: Drafts!Op, slug: Slugs \cup {NoSlug},
           held: SUBSET {"article", "slug"}, row: Drafts!Row, alive: BOOLEAN]

(* A running request always has a phase, an operation and its locks. *)
TypeOK ==
  /\ rows \in [Articles -> Drafts!Row]
  /\ req \in [Requests -> {Idle} \cup Active]
  /\ answer \in [Requests -> Drafts!Answers]

Init ==
  /\ rows = [a \in Articles |-> Drafts!Absent]
  /\ req = [r \in Requests |-> Idle]
  /\ answer = [r \in Requests |-> "none"]

-----------------------------------------------------------------------------
At(r, phase) == req[r].at = phase
Running(r) == ~At(r, "idle")
Alive(r) == Running(r) /\ req[r].alive

Holds(r, lock) == Alive(r) /\ lock \in req[r].held
HoldsArticle(r, a) == Holds(r, "article") /\ req[r].op.art = a
HoldsSlug(r, s) == Holds(r, "slug") /\ req[r].slug = s

(* Seeded fault: a rename takes the slug first and the article after it. *)
AfterSlugFirst(kind, at) ==
  CASE at = "idle"      -> IF kind \in {"create", "rename"} THEN "lockSlug" ELSE "lockArticle"
    [] at = "recheck"   -> IF kind \in {"patch", "rename"} THEN "write" ELSE "lockSlug"
    [] at = "checkSlug" -> IF kind = "rename" THEN "lockArticle" ELSE "write"

(* Article lock first, then at most one slug lock. *)
After(kind, at) ==
  CASE at = "idle"      -> IF kind = "create" THEN "lockSlug" ELSE "lockArticle"
    [] at = "recheck"   -> IF kind = "patch" THEN "write" ELSE "lockSlug"
    [] at = "checkSlug" -> "write"

Advance(r) == After(req[r].op.kind, req[r].at)

(* The end of a request: whatever it held is released. *)
End(r, says) ==
  /\ req' = [req EXCEPT ![r] = Idle]
  /\ answer' = [answer EXCEPT ![r] = says]

Abort(r, says) == End(r, says) /\ UNCHANGED rows

-----------------------------------------------------------------------------
(* A call.  The version is the one the caller last saw; the id of a new    *)
(* article comes from a sequence and is drawn here already.                *)
Unclaimed(a) ==
  rows[a] = Drafts!Absent /\ \A q \in Requests : Running(q) => req[q].op.art # a

Calls ==
  {op \in [kind: Drafts!Kinds, art: Articles, slug: Slugs \cup {NoSlug},
           ver: {rows[a].ver : a \in Articles}] :
     IF op.kind = "create"
     THEN Unclaimed(op.art) /\ op.slug # NoSlug /\ op.ver = 0
     ELSE /\ rows[op.art].ws = "draft"
          /\ op.ver = rows[op.art].ver
          /\ op.kind = "rename" <=> op.slug # NoSlug
          /\ op.kind = "rename" => op.slug # rows[op.art].latest
          /\ op.kind # "publish" => op.ver <= MaxVersion}

Call(r) ==
  /\ At(r, "idle")
  /\ \E op \in Calls :
       req' = [req EXCEPT ![r] = [at |-> After(op.kind, "idle"), op |-> op, slug |-> op.slug,
                                  held |-> {}, row |-> Drafts!Absent, alive |-> TRUE]]
  /\ answer' = [answer EXCEPT ![r] = "none"]
  /\ UNCHANGED rows

LockArticle(r) ==
  /\ At(r, "lockArticle") /\ Alive(r)
  /\ \A q \in Requests : ~HoldsArticle(q, req[r].op.art)
  /\ req' = [req EXCEPT ![r].at = "recheck", ![r].held = @ \cup {"article"}]
  /\ UNCHANGED <<rows, answer>>

(* Seeded fault: the version of the first reading is trusted. *)
StillAsReadGateOnly(row, op) == row.ws = "draft"

StillAsRead(row, op) == row.ws = "draft" /\ row.ver = op.ver

(* The gate and the version again; publish learns here which slug it takes. *)
Recheck(r) ==
  LET op == req[r].op IN
  /\ At(r, "recheck") /\ Alive(r)
  /\ IF StillAsRead(rows[op.art], op)
     THEN /\ req' = [req EXCEPT ![r].at = Advance(r),
                                ![r].slug = IF op.kind = "publish" THEN rows[op.art].latest ELSE @]
          /\ UNCHANGED <<rows, answer>>
     ELSE Abort(r, "refused")

LockSlug(r) ==
  /\ At(r, "lockSlug") /\ Alive(r)
  /\ \A q \in Requests : ~HoldsSlug(q, req[r].slug)
  /\ req' = [req EXCEPT ![r].at = "checkSlug", ![r].held = @ \cup {"slug"}]
  /\ UNCHANGED <<rows, answer>>

(* Seeded fault: only main rows are searched, as the collection's hook does. *)
SlugConflictMain(s, a) == \E b \in Articles \ {a} : s = rows[b].main

(* findSlugConflict: main rows, then latest versions. *)
SlugConflict(s, a) == \E b \in Articles \ {a} : s = rows[b].main \/ s = rows[b].latest

CheckSlug(r) ==
  /\ At(r, "checkSlug")
  /\ IF SlugConflict(req[r].slug, req[r].op.art)
     THEN Abort(r, "refused")
     ELSE /\ req' = [req EXCEPT ![r].at = Advance(r)]
          /\ UNCHANGED <<rows, answer>>

(* payload.create or payload.update, inside the transaction. *)
Write(r) ==
  /\ At(r, "write") /\ Alive(r)
  /\ req' = [req EXCEPT ![r].at = "commit",
                        ![r].row = Drafts!Outcome(rows[req[r].op.art], req[r].op)]
  /\ UNCHANGED <<rows, answer>>

(* Seeded fault: the transaction is not looked at before the commit. *)
MayCommitUnseen(r) == At(r, "commit")

MayCommit(r) == At(r, "commit") /\ Alive(r)

Commit(r) ==
  /\ MayCommit(r)
  /\ rows' = [rows EXCEPT ![req[r].op.art] = req[r].row]
  /\ \E says \in {"ok", "error"} : End(r, says)

(* No lock within lock_timeout: 503. *)
Timeout(r) ==
  /\ At(r, "lockArticle") \/ At(r, "lockSlug")
  /\ Abort(r, "busy")

(* Postgres ends the transaction: its locks are free, its writes undone. *)
TransactionDies(r) ==
  /\ Alive(r)
  /\ req' = [req EXCEPT ![r].alive = FALSE]
  /\ UNCHANGED <<rows, answer>>

(* The request notices at its next statement, or when it asks before the   *)
(* commit (HubLockTransactionLost).                                        *)
TransactionLost(r) ==
  /\ Running(r) /\ ~Alive(r)
  /\ ~At(r, "checkSlug")
  /\ Abort(r, "error")

Step(r) == LockArticle(r) \/ Recheck(r) \/ LockSlug(r) \/ CheckSlug(r) \/ Write(r)
           \/ Commit(r) \/ TransactionLost(r)

Next == \E r \in Requests : Call(r) \/ Step(r) \/ Timeout(r) \/ TransactionDies(r)

(* Handlers run on, and Postgres grants a lock in the order of the queue,  *)
(* so nobody waits for ever while others come and go.  Nothing is assumed  *)
(* of timeouts: they are not needed to get an answer.                      *)
Fairness == \A r \in Requests : SF_vars(Step(r))

Spec == Init /\ [][Next]_vars /\ Fairness

-----------------------------------------------------------------------------
(* No two articles of the tenant have a slug in common, on the main row or *)
(* in the latest version.                                                  *)
SlugsUnique ==
  \A a, b \in Articles :
    a # b => Drafts!SlugsOf(rows, a) \cap Drafts!SlugsOf(rows, b) = {}

(* Every call takes effect at once, on the version it named and with a     *)
(* slug that is free, or not at all; the answer says which.                *)
ImplementsDrafts == Drafts!Spec

(* The order of the locks alone keeps the requests from waiting on each    *)
(* other for ever: every call is answered.                                 *)
AllAnswered == \A r \in Requests : Running(r) ~> ~Running(r)
=============================================================================
