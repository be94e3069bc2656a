------------------------------ MODULE HubSchedule ------------------------------
(***************************************************************************)
(* Articles the hub schedules, and the cron that publishes them.           *)
(*                                                                         *)
(*   PATCH drafts, POST publish, schedule and unschedule                   *)
(*                  under the article's lock: the request judges the       *)
(*                  article and reads the clock, then writes               *)
(*   the status route   archives and republishes what is live              *)
(*   publish-scheduled  reads the clock, finds what is due, and publishes  *)
(*                      it one by one, without any lock                    *)
(*                                                                         *)
(* A lock cannot keep the cron out, so unschedule keeps a distance of Lead *)
(* from the hour.  Clocks of different servers agree here, and the hub's   *)
(* articles are written by the hub and the cron only; editors are the      *)
(* subject of ArticleWorkflow.                                             *)
(***************************************************************************)
EXTENDS Naturals

CONSTANTS
  Articles,
  Requests,
  Bad,          \* articles whose publication always fails
  Lead,         \* MIN_LEAD_SECONDS
  TxTime,       \* the time a request may take from judging to writing
  NoHour,
  MaxTime,      \* bound: the clock stops here, and no hour is later
  MaxTexts,     \* bound: texts of an article
  MaxCrashes    \* bound: cron runs that die halfway

ASSUME BadAssumption == Bad \subseteq Articles
ASSUME TimesAssumption == Lead \in Nat /\ TxTime \in Nat /\ TxTime <= Lead
ASSUME NoHourAssumption == NoHour \notin Nat
ASSUME BoundsAssumption == MaxTime \in Nat /\ MaxTexts \in Nat /\ MaxCrashes \in Nat

VARIABLES
  clock,
  art,        \* the latest version: status, hour and text
  req,        \* requests that have judged their article and will write it
  run,        \* the cron run: the articles it found and has not yet reached
  crashes,    \* cron runs that died
  promise,    \* history: the hour last answered to a schedule call, if it still stands
  approved    \* history: the text last answered to a schedule or publish call

vars == <<clock, art, req, run, crashes, promise, approved>>

Hours == 1..MaxTime
Status == {"draft", "scheduled", "published", "archived"}
Article == [ws: Status, hour: Nat \cup {NoHour}, text: Nat]
Ops == {"patch", "publish", "schedule", "unschedule"}

NoRequest == [op |-> "none"]
NoRun == [on |-> FALSE, due |-> {}]

(* Every article keeps a status, an hour and a text. *)
TypeOK ==
  /\ clock \in Nat
  /\ art \in [Articles -> Article]
  /\ req \in [Requests ->
       {NoRequest} \cup [op: Ops, art: Articles, hour: Nat \cup {NoHour}, text: Nat, since: Nat]]
  /\ run \in [on: BOOLEAN, due: SUBSET Articles]
  /\ crashes \in Nat
  /\ promise \in [Articles -> Nat \cup {NoHour}]
  /\ approved \in [Articles -> Nat]

Init ==
  /\ clock = 0
  /\ art = [a \in Articles |-> [ws |-> "draft", hour |-> NoHour, text |-> 1]]
  /\ req = [r \in Requests |-> NoRequest]
  /\ run = NoRun
  /\ crashes = 0
  /\ promise = [a \in Articles |-> NoHour]
  /\ approved = [a \in Articles |-> 0]

-----------------------------------------------------------------------------
Running(r) == req[r] # NoRequest

(* Seeded fault: requests on one article do not wait for each other. *)
FreeAlways(a) == TRUE

(* The article lock. *)
Free(a) == \A r \in Requests : Running(r) => req[r].art # a

(* Seeded fault: unschedule is refused from the hour on only. *)
DueSoonLate(hour, now) == hour # NoHour /\ hour <= now

(* isUnscheduleDue. *)
DueSoon(hour, now) == hour # NoHour /\ hour <= now + Lead

(* scheduleWindowCode. *)
InWindow(hour, now) == hour > now + Lead

(* The gate, the version and the clock, under the lock.  A caller that     *)
(* names another version, or another hour for unschedule, is refused and   *)
(* left out here.                                                          *)
Accepted(a, op, hour) ==
  CASE op \in {"patch", "publish"} -> art[a].ws = "draft" /\ hour = NoHour
    [] op = "schedule" -> art[a].ws = "draft" /\ hour # NoHour /\ InWindow(hour, clock)
    [] op = "unschedule" -> art[a].ws = "scheduled" /\ hour = NoHour /\ ~DueSoon(art[a].hour, clock)

Judge(r) ==
  /\ ~Running(r)
  /\ \E a \in Articles, op \in Ops, hour \in Hours \cup {NoHour} :
       /\ Free(a)
       /\ Accepted(a, op, hour)
       /\ op = "patch" => art[a].text < MaxTexts
       /\ req' = [req EXCEPT ![r] = [op |-> op, art |-> a, hour |-> hour, text |-> art[a].text,
                                     since |-> clock]]
  /\ UNCHANGED <<clock, art, run, crashes, promise, approved>>

(* The row a request leaves; patch saves a draft, whatever it finds. *)
Written(row, q) ==
  CASE q.op = "patch"      -> [row EXCEPT !.ws = "draft", !.text = q.text + 1]
    [] q.op = "publish"    -> [row EXCEPT !.ws = "published"]
    [] q.op = "schedule"   -> [row EXCEPT !.ws = "scheduled", !.hour = q.hour]
    [] q.op = "unschedule" -> [row EXCEPT !.ws = "draft", !.hour = NoHour]

(* The write, the commit and the answer. *)
Write(r) ==
  LET q == req[r] IN
  /\ Running(r)
  /\ art' = [art EXCEPT ![q.art] = Written(@, q)]
  /\ promise' = IF q.op = "patch" THEN promise ELSE [promise EXCEPT ![q.art] = q.hour]
  /\ approved' = IF q.op \in {"publish", "schedule"} THEN [approved EXCEPT ![q.art] = q.text]
                                                     ELSE approved
  /\ req' = [req EXCEPT ![r] = NoRequest]
  /\ UNCHANGED <<clock, run, crashes>>

(* The request fails or its transaction is lost. *)
Fail(r) ==
  /\ Running(r)
  /\ req' = [req EXCEPT ![r] = NoRequest]
  /\ UNCHANGED <<clock, art, run, crashes, promise, approved>>

(* The status route. *)
Archive(a) ==
  /\ art[a].ws \in {"published", "archived"}
  /\ art' = [art EXCEPT ![a].ws = IF @ = "published" THEN "archived" ELSE "published"]
  /\ UNCHANGED <<clock, req, run, crashes, promise, approved>>

-----------------------------------------------------------------------------
(* The cron. *)

(* Seeded fault: the status is not asked for. *)
DueByHour(row, now) == row.hour # NoHour /\ row.hour <= now

Due(row, now) == row.ws = "scheduled" /\ row.hour # NoHour /\ row.hour <= now

CronFind ==
  /\ ~run.on
  /\ \E a \in Articles : Due(art[a], clock)
  /\ run' = [on |-> TRUE, due |-> {a \in Articles : Due(art[a], clock)}]
  /\ UNCHANGED <<clock, art, req, crashes, promise, approved>>

(* Seeded fault: one bad row takes the whole batch down. *)
RestStops(a, failed) == IF failed THEN {} ELSE run.due \ {a}

(* What is left of the batch after article a. *)
Rest(a, failed) == run.due \ {a}

CronPublish(a) ==
  /\ a \in run.due
  /\ a \notin Bad
  /\ art' = [art EXCEPT ![a].ws = "published"]
  /\ promise' = [promise EXCEPT ![a] = NoHour]
  /\ run' = [run EXCEPT !.due = Rest(a, FALSE)]
  /\ UNCHANGED <<clock, req, crashes, approved>>

CronFails(a) ==
  /\ a \in run.due
  /\ a \in Bad
  /\ run' = [run EXCEPT !.due = Rest(a, TRUE)]
  /\ UNCHANGED <<clock, art, req, crashes, promise, approved>>

CronEnd ==
  /\ run.on /\ run.due = {}
  /\ run' = NoRun
  /\ UNCHANGED <<clock, art, req, crashes, promise, approved>>

(* The platform stops a run that takes too long. *)
CronDies ==
  /\ run.on
  /\ crashes < MaxCrashes
  /\ run' = NoRun
  /\ crashes' = crashes + 1
  /\ UNCHANGED <<clock, art, req, promise, approved>>

CronStep == CronEnd \/ \E a \in Articles : CronPublish(a) \/ CronFails(a)

(* Nobody is left hanging between judging and writing for longer than      *)
(* TxTime: maxDuration of the routes, and idle_in_transaction_session_     *)
(* timeout, are half of the 60 seconds of Lead.                            *)
Tick ==
  /\ clock < MaxTime
  /\ \A r \in Requests : Running(r) => clock < req[r].since + TxTime
  /\ clock' = clock + 1
  /\ UNCHANGED <<art, req, run, crashes, promise, approved>>

Next ==
  \/ \E r \in Requests : Judge(r) \/ Write(r) \/ Fail(r)
  \/ \E a \in Articles : Archive(a)
  \/ CronFind \/ CronStep \/ CronDies
  \/ Tick

(* The cron is called every hour, and a run goes on until it has been      *)
(* through its batch or dies.  Nothing is assumed of the hub.              *)
Fairness == WF_vars(CronFind) /\ WF_vars(CronStep)

Spec == Init /\ [][Next]_vars /\ Fairness

-----------------------------------------------------------------------------
(* What the hub was answered stands: the article is scheduled for that     *)
(* hour, with the text that was approved, until the cron publishes it or   *)
(* the hub takes it back.                                                  *)
PromiseStands ==
  \A a \in Articles : promise[a] # NoHour =>
    art[a] = [ws |-> "scheduled", hour |-> promise[a], text |-> approved[a]]

(* The cron publishes only what was promised, from the promised hour on:   *)
(* never an article that was unscheduled in the meantime, however the two  *)
(* overlap, nor one the hub has archived.                                  *)
CronKeepsPromises ==
  [][\A a \in Articles : CronPublish(a) => promise[a] # NoHour /\ promise[a] <= clock]_vars

(* The site shows approved texts only. *)
LiveIsApproved ==
  \A a \in Articles : art[a].ws \in {"published", "archived"} => art[a].text = approved[a]

(* An article whose hour has come goes live, also next to one that cannot  *)
(* be published and after runs that died.                                  *)
DueIsPublished ==
  \A a \in Articles \ Bad : Due(art[a], clock) ~> art[a].ws = "published"

(* Both: what the hub was answered, and what it approved, are what stands. *)
PromisesAreKept == PromiseStands /\ LiveIsApproved
=============================================================================
