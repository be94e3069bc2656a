------------------------------ MODULE MCArticles ------------------------------
(***************************************************************************)
(* Articles, for TLC: ArticleWorkflow, with a history of the texts that a  *)
(* machine's write took along - the translation route, the hub, and the    *)
(* crons store the latest version they read, whatever draft that is -,     *)
(* beside it LiveEdit, where the edit's transaction is taken apart, and    *)
(* Translation, where a submission is taken apart into its writes.         *)
(* The three share no state, so a behaviour of all is one behaviour of     *)
(* each, side by side; TLC explores the steps of one at a time, the others *)
(* in one initial state, and no behaviour of any is left out by that.      *)
(* Fairness is asked of the one that moves.                                *)
(***************************************************************************)
EXTENDS ArticleWorkflow

CONSTANTS
  Requests, Words, Statuses, Translates,                 \* of LiveEdit
  Locales, Reviewed, GivesJobId, MaxSaves, MaxFailures   \* of Translation

VARIABLES
  part,                                            \* the component that moves
  carried,                                         \* history of ArticleWorkflow
  article, edit, draft, plain,                     \* of LiveEdit
  doc, rows, stored, jobs, submission, failures    \* of Translation

Live == INSTANCE LiveEdit WITH art <- article
Queue == INSTANCE Translation WITH MaxVersion <- MaxSaves, req <- submission

ASSUME LiveAssumption ==
  /\ Live!UnsetIsNoColumns /\ Live!StatusesAssumption
  /\ Live!TranslatesAssumption /\ Live!MaxVersionAssumption
ASSUME QueueAssumption == Queue!LocalesAssumption /\ Queue!JobIdAssumption /\ Queue!BoundsAssumption

workflowVars == <<vars, carried>>
liveVars == <<article, edit, draft, plain>>
queueVars == <<doc, rows, stored, jobs, submission, failures>>
MCvars == <<part, workflowVars, liveVars, queueVars>>

(* What an update starts from is not the live row: other words, or another status. *)
Differs(base) == base.text # art.main.text \/ base.ws # art.main.ws

(* A write that has something else to do than to put a text on the site, from what
   is not the live row; or the publish cron's, from what is not scheduled any more. *)
Carries(base) ==
  \/ Differs(base) /\ (TranslationUpdate(base) \/ HubStatusWrite(base) \/ UnpinCronWrite(base))
  \/ base.ws # "scheduled" /\ PublishCronWrite(base)

NextCarrying == Next /\ carried' = carried \cup {base.text : base \in {b \in Bases : Carries(b)}}

(* One text for when it does not move. *)
OneText == article.main.text = CHOOSE text \in Live!Columns : TRUE

MCInit ==
  /\ Init /\ carried = {} /\ Live!Init /\ Queue!Init
  /\ part \in {"writers", "live edits", "translation"}
  /\ part # "live edits" => OneText

MCNext ==
  \/ part = "writers" /\ NextCarrying /\ UNCHANGED <<part, liveVars, queueVars>>
  \/ part = "live edits" /\ Live!Next /\ UNCHANGED <<part, workflowVars, queueVars>>
  \/ part = "translation" /\ Queue!Next /\ UNCHANGED <<part, workflowVars, liveVars>>

(* The fairness of Translation, as it states it. *)
MCFairness ==
  /\ WF_queueVars(part = "translation" /\ Queue!Submit)
  /\ \A l \in Locales : SF_queueVars(part = "translation" /\ Queue!Claim(l))

MCSpec == MCInit /\ [][MCNext]_MCvars /\ MCFairness

(* A bound of the run: the words of a live edit are interchangeable, and one text
   to begin with will do. *)
BoundedInit == MCInit /\ OneText
BoundedSpec == BoundedInit /\ [][MCNext]_MCvars /\ MCFairness

-----------------------------------------------------------------------------
(* What readers see was put there on purpose - a publisher published or
   scheduled that very text, the hub republished it, an engine wrote it - or a
   machine's write took it along: the saves of editors and contributors, the
   write-back of the translation queue and the engine's refresh never publish a
   draft as a side effect. *)
UnreleasedOnlyCarried == LiveTextWasReleased \/ art.main.text \in carried

(* What readers see after a live edit is what they saw before it with the hub's
   words in it. *)
OnlyTheEditGoesLive == Live!OnlyTheEditGoesLive

(* A live edit that goes through swallows no draft but one that was stored between
   the reading and the store of its own update. *)
NoDraftSwallowed == Live!NoDraftSwallowed

(* The edit lands on the version its caller named, and on no other. *)
LandsOnItsVersion == Live!LandsOnItsVersion

(* Words on the site that no translation has, and languages shown as pending,
   are in the queue, unless an editor took them out of it. *)
QueueHoldsWhatIsOwed == Queue!QueueHoldsWhatIsOwed

(* Saves leave an approved or locked language alone, and an engine takes one only
   by an answer that had read it before it was protected. *)
ProtectionHolds == Queue!ProtectionHolds

(* Once the editors stop, every language nobody reviews is translated, unless its
   job was cancelled. *)
EventuallyTranslated == part = "translation" => Queue!EventuallyTranslated
===============================================================================
