------------------------------ MODULE Translation ------------------------------
(***************************************************************************)
(* The translation pipeline of one article.                                *)
(*                                                                         *)
(*   enqueueTranslations       the afterChange hook that queues one job    *)
(*                             per target language and marks it pending    *)
(*   articleBookkeeping        counts versions, flags outdated languages   *)
(*   GET  /engine/translation  the engine lists queued jobs                *)
(*   POST /engine/translation  the engine hands in one language            *)
(*                                                                         *)
(* POST reads the article, then makes three separate writes (the words,    *)
(* the status array, the jobs), each an action here, with editors saving   *)
(* in between.  The status array is written back whole, as it was read.    *)
(* Editors save to both surfaces at once here (console, or Publish); what  *)
(* a draft over a live article adds is the subject of ArticleWorkflow.     *)
(*                                                                         *)
(* The engine itself is external.  It takes one queued job at a time,      *)
(* translates the words it finds and hands them in, for a target language. *)
(***************************************************************************)
EXTENDS Naturals, FiniteSets

CONSTANTS
  Locales,       \* target languages: supportedLanguages without the source
  Reviewed,      \* those an editor may review by hand
  GivesJobId,    \* the engine names the job it answers
  MaxVersion,    \* bound: editors stop saving above this version
  MaxFailures    \* bound: requests that die halfway

LocalesAssumption == IsFiniteSet(Locales) /\ Reviewed \subseteq Locales
JobIdAssumption == GivesJobId \in BOOLEAN
BoundsAssumption == MaxVersion \in Nat /\ MaxFailures \in Nat

VARIABLES
  doc,        \* [ver, text, live]: version, source words, workflowStatus = published
  rows,       \* translationStatus, by language
  stored,     \* which source text the stored words of a language translate; 0: none
  jobs,       \* translationJobs
  req,        \* the engine's request
  failures    \* requests that died so far

vars == <<doc, rows, stored, jobs, req, failures>>

Protected == {"approved", "locked"}
States == {"none", "pending", "machine_translated", "needs_review", "outdated"} \cup Protected
NotYet == [state |-> "none", stamp |-> 0]

JobStatuses == {"queued", "completed", "cancelled"}
Job == [locale: Locales, ver: Nat, status: JobStatuses]
Doc == [ver: Nat, text: Nat, live: BOOLEAN]
Rows == [Locales -> [state: States, stamp: Nat]]

Idle == [at |-> "idle"]
Request ==
  {Idle}
  \cup [at: {"translating"}, job: Job, text: Nat]
  \cup [at: {"read", "written", "marked"}, job: Job, text: Nat, ver: Nat, rows: Rows]

(* A job names one language and one source version. *)
TypeOK ==
  /\ doc \in Doc
  /\ rows \in Rows
  /\ stored \in [Locales -> Nat]
  /\ jobs \subseteq Job
  /\ req \in Request
  /\ failures \in Nat

Init ==
  /\ doc = [ver |-> 1, text |-> 1, live |-> FALSE]
  /\ rows = [l \in Locales |-> NotYet]
  /\ stored = [l \in Locales |-> 0]
  /\ jobs = {}
  /\ req = Idle
  /\ failures = 0

-----------------------------------------------------------------------------
(* What a save does to the status array and the queue. *)

(* A content change flags every translation an engine may replace. *)
Outdate(rs) ==
  [l \in Locales |-> IF rs[l].state \in Protected \cup {"none", "pending"}
                     THEN rs[l]
                     ELSE [rs[l] EXCEPT !.state = "outdated"]]

UpToDate(row, ver) ==
  row.state \in {"machine_translated", "needs_review"} /\ row.stamp = ver

(* Seeded fault: protected languages are queued as well. *)
WantedAll(rs, ver) == {l \in Locales : ~UpToDate(rs[l], ver)}

(* The languages enqueueTranslations queues. *)
Wanted(rs, ver) == {l \in Locales : rs[l].state \notin Protected /\ ~UpToDate(rs[l], ver)}

(* Seeded fault: one job per language, whatever its version. *)
NewJobsPerLocale(ls, ver) ==
  { [locale |-> l, ver |-> ver, status |-> "queued"] :
      l \in {m \in ls : ~\E j \in jobs : j.locale = m} }

(* One job per language and source version. *)
NewJobs(ls, ver) ==
  { [locale |-> l, ver |-> ver, status |-> "queued"] :
      l \in {m \in ls : ~\E j \in jobs : j.locale = m /\ j.ver = ver} }

(* A save of the article: bookkeeping, then the hook, whose write-back of   *)
(* the array is itself a save that counts a version.                       *)
Save(rs, text, live, contentChanged) ==
  LET ver    == doc.ver + 1
      marked == IF contentChanged THEN Outdate(rs) ELSE rs
      wanted == IF live THEN Wanted(marked, ver) ELSE {}
  IN  /\ doc.ver <= MaxVersion
      /\ doc' = [ver |-> IF wanted = {} THEN ver ELSE ver + 1, text |-> text, live |-> live]
      /\ rows' = [l \in Locales |-> IF l \in wanted
                                    THEN [marked[l] EXCEPT !.state = "pending"]
                                    ELSE marked[l]]
      /\ jobs' = jobs \cup NewJobs(wanted, ver)

-----------------------------------------------------------------------------
(* Editors. *)

(* New words in the source language; the article stays or goes live or down. *)
EditSource(live) ==
  /\ Save(rows, doc.text + 1, live, TRUE)
  /\ UNCHANGED <<stored, req, failures>>

(* A save that changes no word: Publish again, hide, a new pillar. *)
SaveUnchanged(live) ==
  /\ Save(rows, doc.text, live, FALSE)
  /\ UNCHANGED <<stored, req, failures>>

(* An editor sets the state of a language, as the words stand. *)
Review(l, state) ==
  /\ stored[l] # 0
  /\ Save([rows EXCEPT ![l].state = state], doc.text, doc.live, FALSE)
  /\ UNCHANGED <<stored, req, failures>>

(* An editor rewrites a translation in the locale switcher and locks it.   *)
(* The hook compares the words of that locale, so this is a content change *)
(* and flags the other languages.                                          *)
Rewrite(l) ==
  /\ stored' = [stored EXCEPT ![l] = doc.text]
  /\ Save([rows EXCEPT ![l].state = "locked"], doc.text, doc.live, TRUE)
  /\ UNCHANGED <<req, failures>>

(* An editor takes a job out of the queue, or puts it back. *)
SetJob(j, status) ==
  /\ j.status # "completed" /\ j.status # status
  /\ jobs' = (jobs \ {j}) \cup {[j EXCEPT !.status = status]}
  /\ UNCHANGED <<doc, rows, stored, req, failures>>

-----------------------------------------------------------------------------
(* The engine's request. *)

Claim(l) ==
  /\ req = Idle
  /\ \E j \in jobs :
       /\ j.status = "queued" /\ j.locale = l
       /\ req' = [at |-> "translating", job |-> j, text |-> doc.text]
  /\ UNCHANGED <<doc, rows, stored, jobs, failures>>

(* Seeded fault: the protection is left to the admin form. *)
RefusesNone(l) == FALSE

(* An approved or locked language ends the request (409). *)
Refuses(l) == rows[l].state \in Protected

(* POST reads the article. *)
SubmitRead ==
  /\ req.at = "translating"
  /\ req' = IF Refuses(req.job.locale)
            THEN Idle
            ELSE [at |-> "read", job |-> req.job, text |-> req.text,
                  ver |-> doc.ver, rows |-> rows]
  /\ UNCHANGED <<doc, rows, stored, jobs, failures>>

(* The first update: the words of the language. *)
SubmitWords ==
  /\ req.at = "read"
  /\ stored' = [stored EXCEPT ![req.job.locale] = req.text]
  /\ req' = [req EXCEPT !.at = "written"]
  /\ UNCHANGED <<doc, rows, jobs, failures>>

(* The second update: the array as it was read, with this language's row. *)
SubmitStatus ==
  /\ req.at = "written"
  /\ rows' = [req.rows EXCEPT ![req.job.locale] =
                [state |-> "machine_translated", stamp |-> req.ver]]
  /\ req' = [req EXCEPT !.at = "marked"]
  /\ UNCHANGED <<doc, stored, jobs, failures>>

(* Seeded fault: the job named in the body is ignored. *)
AnsweredByLocale(j) == {k \in jobs : k.status = "queued" /\ k.locale = j.locale}

(* The jobs a submission completes: the one it names, cancelled or not, or *)
(* every queued one of the language (the code stops at five of them).      *)
Answered(j) ==
  IF GivesJobId THEN {k \in jobs : k.locale = j.locale /\ k.ver = j.ver}
                ELSE {k \in jobs : k.status = "queued" /\ k.locale = j.locale}

SubmitComplete ==
  /\ req.at = "marked"
  /\ jobs' = (jobs \ Answered(req.job)) \cup {[k EXCEPT !.status = "completed"] : k \in Answered(req.job)}
  /\ req' = Idle
  /\ UNCHANGED <<doc, rows, stored, failures>>

(* The engine or the request dies; whatever was written stays written. *)
SubmitDies ==
  /\ req # Idle
  /\ failures < MaxFailures
  /\ req' = Idle
  /\ failures' = failures + 1
  /\ UNCHANGED <<doc, rows, stored, jobs>>

Submit == SubmitRead \/ SubmitWords \/ SubmitStatus \/ SubmitComplete
EngineStep == (\E l \in Locales : Claim(l)) \/ Submit \/ SubmitDies

Next ==
  \/ \E live \in BOOLEAN : EditSource(live) \/ SaveUnchanged(live)
  \/ \E l \in Reviewed, state \in {"needs_review"} \cup Protected : Review(l, state)
  \/ \E l \in Reviewed : Rewrite(l)
  \/ \E j \in jobs, status \in {"queued", "cancelled"} : SetJob(j, status)
  \/ EngineStep

(* A request that is running runs on, and the engine, which works through  *)
(* the list it is given, neglects no language for ever.                    *)
Fairness == WF_vars(Submit) /\ \A l \in Locales : SF_vars(Claim(l))

Spec == Init /\ [][Next]_vars /\ Fairness

-----------------------------------------------------------------------------
Stale(l) == doc.live /\ stored[l] # doc.text
QueuedFor(l) == \E j \in jobs : j.status = "queued" /\ j.locale = l

(* An editor has cancelled the last job of the language. *)
Withdrawn(l) ==
  \E j \in jobs :
    /\ j.status = "cancelled" /\ j.locale = l
    /\ \A k \in jobs : k.locale = l => k.ver <= j.ver

(* Published words that are not yet translated are in the queue, whatever  *)
(* was saved, handed in or died in between, unless an editor took them out *)
(* of it.  Languages an editor reviews need not be: protection keeps them  *)
(* out of the queue.                                                       *)
StaleIsQueued ==
  \A l \in Locales \ Reviewed : Stale(l) => QueuedFor(l) \/ Withdrawn(l)

(* A language shown as pending is really waiting for an answer, unless an  *)
(* editor cancelled it.                                                    *)
PendingIsQueued ==
  \A l \in Locales : rows[l].state = "pending" => QueuedFor(l) \/ Withdrawn(l)

(* What the queue owes is in it. *)
QueueHoldsWhatIsOwed == StaleIsQueued /\ PendingIsQueued

(* Saving or publishing the source leaves an approved or locked language   *)
(* alone: neither flagged nor queued.                                      *)
SavesSpare ==
  (\E live \in BOOLEAN : EditSource(live) \/ SaveUnchanged(live)) =>
    \A l \in Locales : rows[l].state \in Protected =>
      /\ rows'[l] = rows[l]
      /\ \A j \in jobs' \ jobs : j.locale # l

(* An engine takes the words or the standing of such a language only by an *)
(* answer that had read it before an editor protected it: its own          *)
(* language's words, or any row of the array it writes back.               *)
EngineTakesOnlyStale ==
  EngineStep => \A l \in Locales :
    rows[l].state \in Protected /\ (stored'[l] # stored[l] \/ rows'[l].state \notin Protected)
      => req.at \in {"read", "written"} /\ req.rows[l].state \notin Protected

(* An approved or locked language is an editor's, up to the reading of a   *)
(* submission that is under way.                                           *)
ProtectionHolds == [][SavesSpare /\ EngineTakesOnlyStale]_vars

(* Once the editors stop, every language nobody reviews ends up with the   *)
(* translation of the words that are on the site, unless it was cancelled. *)
EventuallyTranslated ==
  <>[][~\E j \in jobs, status \in JobStatuses : SetJob(j, status)]_vars
    => <>[](\A l \in Locales \ Reviewed : Stale(l) => Withdrawn(l))
=============================================================================
