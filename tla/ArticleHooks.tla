---------------------------- MODULE ArticleHooks ----------------------------
(***************************************************************************)
(* The hooks of the articles collection (src/hooks/article-workflow.ts)    *)
(* and the two surfaces a write lands on.                                  *)
(*                                                                         *)
(* Payload keeps an article twice: the MAIN row, which the public read API *)
(* serves, and the LATEST version, which the editors open.  A draft save   *)
(* replaces the latest version only.  Every other update starts from the   *)
(* LATEST version, overlays the request and replaces both.  The hooks      *)
(* therefore always see the latest version as the original document - the  *)
(* latest version as it was when the update read it: nothing is locked     *)
(* between that reading and the store.                                     *)
(*                                                                         *)
(* A row is the record [ws, st, ver, text, human]:                         *)
(*   ws     workflowStatus, the editorial status; "published" is public    *)
(*   st     _status, Payload's own publish flag                            *)
(*   ver    version, the optimistic-lock counter                           *)
(*   text   the words in the source language, as an opaque number          *)
(*   human  editedByHuman                                                  *)
(***************************************************************************)
EXTENDS Naturals

CONSTANT Unset    \* the request leaves the field out

WorkflowStatus ==
  {"draft", "pending_review", "approved", "scheduled", "published", "hidden", "archived"}
NativeStatus == {"draft", "published"}

(* Statuses from which a click on Publish plainly means "put this live". *)
SyncableStatuses == {"draft", "pending_review", "approved", "hidden"}

(* What a contributor without publish rights may ask for. *)
ContributorAllowedStatuses == {"draft", "pending_review"}

Roles == {"contributor", "publisher"}

(* context of a write: who makes it and which hooks stand aside. *)
Contexts == {"plain", "engineWrite", "hubWrite", "hubAuthor", "translationWrite", "systemWrite"}
BookkeepingExempt == {"translationWrite", "systemWrite", "hubWrite"}
SkipsEnqueue == {"translationWrite", "systemWrite"}

ASSUME UnsetIsNoValue ==
  /\ Unset \notin WorkflowStatus \cup NativeStatus
  /\ Unset \notin Nat

Row == [ws: WorkflowStatus, st: NativeStatus, ver: Nat, text: Nat, human: BOOLEAN]

(* What a request may carry. *)
Data == [ws: WorkflowStatus \cup {Unset}, st: NativeStatus \cup {Unset}, text: Nat \cup {Unset}]

Given(x, stored) == IF x = Unset THEN stored ELSE x

-----------------------------------------------------------------------------
(* beforeValidate, in the order the collection lists them.  They run for   *)
(* every write; the two syncs act for a signed-in human only.              *)

ExplicitChange(data, stored) == data.ws # Unset /\ stored # Unset /\ data.ws # stored

SyncNativePublish(data, stored, op) ==
  LET target == Given(data.ws, Given(stored, "draft")) IN
  IF /\ data.st = "published"
     /\ ~(op = "update" /\ ExplicitChange(data, stored))
     /\ target \in SyncableStatuses
  THEN [data EXCEPT !.ws = "published"]
  ELSE data

(* Seeded fault: Unpublish lowers _status only. *)
SyncNativeUnpublishMissing(data, stored) == data

SyncNativeUnpublish(data, stored) ==
  IF /\ data.st = "draft"
     /\ stored = "published"
     /\ ~ExplicitChange(data, stored)
  THEN [data EXCEPT !.ws = "hidden"]
  ELSE data

StatusAllowed(data, stored, role) ==
  \/ role = "publisher"
  \/ Given(data.ws, stored) \in ContributorAllowedStatuses

(* The request of a human as the hooks leave it, and whether it may go on. *)
HumanRequest(data, stored, op) ==
  SyncNativeUnpublish(SyncNativePublish(data, stored, op), stored)

(* Seeded fault: the authority check judges the request before the syncs. *)
HumanRefusedBeforeSync(data, stored, role, op) == ~StatusAllowed(data, stored, role)

HumanRefused(data, stored, role, op) ==
  ~StatusAllowed(HumanRequest(data, stored, op), stored, role)

-----------------------------------------------------------------------------
(* beforeChange: the version counter and the mark of a human hand. *)

(* Seeded fault: only human writes count versions. *)
BookkeepHumanOnly(row, orig, ctx, byHuman) ==
  IF byHuman THEN [row EXCEPT !.ver = orig.ver + 1, !.human = TRUE] ELSE row

Bookkeep(row, orig, ctx, byHuman) ==
  IF ctx \in BookkeepingExempt
  THEN row
  ELSE [row EXCEPT !.ver = orig.ver + 1, !.human = IF byHuman THEN TRUE ELSE row.human]

(* The stored row after the request is laid over the original document. *)
Overlay(orig, data) ==
  [orig EXCEPT !.ws = Given(data.ws, orig.ws),
               !.st = Given(data.st, orig.st),
               !.text = Given(data.text, orig.text)]

-----------------------------------------------------------------------------
(* payload.update.  A surface pair is [main |-> row, latest |-> row]. *)

Surfaces == [main: Row, latest: Row]

Replace(pair, row, asDraft) ==
  IF asDraft
  THEN [pair EXCEPT !.latest = [row EXCEPT !.st = "draft"]]
  ELSE [main |-> row, latest |-> row]

(* afterChange: does the write reach the write-back of enqueueTranslations? *)
(* Seeded fault: draft saves fan out too (the defect of 10-08-2026). *)
EnqueuesDrafts(row, ctx) == ctx \notin SkipsEnqueue /\ row.ws = "published"

Enqueues(row, ctx) ==
  /\ ctx \notin SkipsEnqueue
  /\ row.ws = "published"
  /\ row.st # "draft"

(* The write-back stores translationStatus with a plain update of its own:  *)
(* it starts from the latest version and runs the bookkeeping again.        *)
WriteBack(pair, ctx, byHuman) ==
  Replace(pair, Bookkeep(pair.latest, pair.latest, ctx, byHuman), FALSE)

(* One update, hooks included: what it stores over the pair, from the       *)
(* latest version base that it has read.  needsWork: some target language   *)
(* of the tenant has to be queued.                                          *)
Update(pair, base, data, ctx, byHuman, asDraft, needsWork) ==
  LET row  == Bookkeep(Overlay(base, data), base, ctx, byHuman)
      next == Replace(pair, row, asDraft)
  IN  IF needsWork /\ Enqueues(next.latest, ctx)
      THEN WriteBack(next, ctx, byHuman)
      ELSE next
=============================================================================
