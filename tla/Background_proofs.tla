-------------------------- MODULE Background_proofs ---------------------------
(***************************************************************************)
(* Proofs about what the CMS does when nobody asks: that what the hub was  *)
(* answered stands, that the site shows approved texts only and that the   *)
(* cron publishes nothing that was taken back (HubSchedule); that a stale  *)
(* page is explained (Revalidation); that a refresh is careful             *)
(* (AiLeaderboard).  What is proved of the last two is stated for the      *)
(* composition that TLC checks, whose steps are each a step of one of them.*)
(***************************************************************************)
EXTENDS MCBackground, TLAPS

-----------------------------------------------------------------------------
(* The articles of the hub. *)

Request == [op: Ops, art: Articles, hour: Nat \cup {NoHour}, text: Nat, since: Nat]

(* What a request writes, and which row it finds, is settled when it judges. *)
Judged(q) ==
  /\ q.since <= clock /\ clock <= q.since + TxTime
  /\ q.op # "schedule" => q.hour = NoHour
  /\ q.op = "schedule" => q.hour # NoHour
  /\ q.op # "unschedule" => art[q.art].ws = "draft" /\ art[q.art].text = q.text
  /\ q.op = "unschedule" => /\ art[q.art].ws = "scheduled"
                            /\ art[q.art].hour # NoHour
                            /\ art[q.art].hour > q.since + Lead

Promised == \A a \in Articles : art[a].ws = "scheduled" => promise[a] # NoHour
BatchIsDue == \A a \in run.due : promise[a] # NoHour /\ promise[a] <= clock
AllJudged == \A r \in Requests : Running(r) => Judged(req[r])
OnePerArticle ==
  \A r, q \in Requests : Running(r) /\ Running(q) /\ r # q => req[r].art # req[q].art

(* What is scheduled was promised, a batch holds promises that have come   *)
(* due, and every request still finds what it judged.                      *)
ScheduleInv ==
  TypeOK /\ PromiseStands /\ LiveIsApproved /\ Promised /\ BatchIsDue /\ AllJudged /\ OnePerArticle

(* A request is running, or it is none. *)
LEMMA RunningType ==
  ASSUME TypeOK, NEW r \in Requests
  PROVE  Running(r) <=> req[r] \in Request
BY DEF TypeOK, Running, NoRequest, Request, Ops

(* A request leaves a row of the collection. *)
LEMMA WrittenType ==
  ASSUME NEW row \in Article, NEW q \in Request
  PROVE  Written(row, q) \in Article
<1>1. CASE q.op = "patch"
  <2>1. Written(row, q) = [row EXCEPT !.ws = "draft", !.text = q.text + 1]
    BY <1>1 DEF Written
  <2>2. q.text + 1 \in Nat
    BY DEF Request
  <2> QED BY <2>1, <2>2 DEF Article, Status
<1>2. CASE q.op = "publish"
  <2>1. Written(row, q) = [row EXCEPT !.ws = "published"]
    BY <1>2 DEF Written
  <2> QED BY <2>1 DEF Article, Status
<1>3. CASE q.op = "schedule"
  <2>1. Written(row, q) = [row EXCEPT !.ws = "scheduled", !.hour = q.hour]
    BY <1>3 DEF Written
  <2>2. q.hour \in Nat \cup {NoHour}
    BY DEF Request
  <2> QED BY <2>1, <2>2 DEF Article, Status
<1>4. CASE q.op = "unschedule"
  <2>1. Written(row, q) = [row EXCEPT !.ws = "draft", !.hour = NoHour]
    BY <1>4 DEF Written
  <2> QED BY <2>1 DEF Article, Status
<1> QED BY <1>1, <1>2, <1>3, <1>4 DEF Request, Ops

(* TypeOK is inductive. *)
LEMMA NextType == TypeOK /\ [Next]_vars => TypeOK'
<1> SUFFICES ASSUME TypeOK, [Next]_vars PROVE TypeOK'
  OBVIOUS
<1>1. ASSUME NEW r \in Requests, Judge(r) PROVE TypeOK'
  BY <1>1 DEF TypeOK, Judge, Hours, Article
<1>2. ASSUME NEW r \in Requests, Write(r) PROVE TypeOK'
  <2>1. req[r] \in Request
    BY <1>2, RunningType DEF Write
  <2>2. Written(art[req[r].art], req[r]) \in Article
    BY <2>1, WrittenType DEF TypeOK, Request
  <2>3. art' \in [Articles -> Article]
    BY <1>2, <2>1, <2>2 DEF TypeOK, Write, Request
  <2>4. promise' \in [Articles -> Nat \cup {NoHour}] /\ approved' \in [Articles -> Nat]
    BY <1>2, <2>1 DEF TypeOK, Write, Request
  <2> QED BY <1>2, <2>3, <2>4 DEF TypeOK, Write
<1>3. ASSUME NEW r \in Requests, Fail(r) PROVE TypeOK'
  BY <1>3 DEF TypeOK, Fail
<1>4. ASSUME NEW a \in Articles, Archive(a) PROVE TypeOK'
  BY <1>4 DEF TypeOK, Archive, Article, Status
<1>5. CASE CronFind
  BY <1>5 DEF TypeOK, CronFind
<1>6. CASE CronEnd
  BY <1>6 DEF TypeOK, CronEnd, NoRun
<1>7. ASSUME NEW a \in Articles, CronPublish(a) PROVE TypeOK'
  BY <1>7 DEF TypeOK, CronPublish, Rest, Article, Status
<1>8. ASSUME NEW a \in Articles, CronFails(a) PROVE TypeOK'
  BY <1>8 DEF TypeOK, CronFails, Rest
<1>9. CASE CronDies
  BY <1>9 DEF TypeOK, CronDies, NoRun
<1>10. CASE Tick
  BY <1>10 DEF TypeOK, Tick
<1>11. CASE UNCHANGED vars
  BY <1>11 DEF TypeOK, vars
<1> QED BY <1>1, <1>2, <1>3, <1>4, <1>5, <1>6, <1>7, <1>8, <1>9, <1>10, <1>11 DEF Next, CronStep

-----------------------------------------------------------------------------
(* What PromiseStands says, field by field. *)
LEMMA Stands ==
  ASSUME PromiseStands, NEW a \in Articles, promise[a] # NoHour
  PROVE  art[a].ws = "scheduled" /\ art[a].hour = promise[a] /\ art[a].text = approved[a]
<1>1. art[a] = [ws |-> "scheduled", hour |-> promise[a], text |-> approved[a]]
  BY DEF PromiseStands
<1> QED BY <1>1

(* A step that leaves the articles and their history alone and lets no new *)
(* request run keeps ScheduleInv if the batch only shrinks.                *)
LEMMA ArticlesAlone ==
  ASSUME ScheduleInv, TypeOK', UNCHANGED <<clock, art, promise, approved>>,
         run'.due \subseteq run.due,
         \A r \in Requests : req'[r] = req[r] \/ req'[r] = NoRequest
  PROVE  ScheduleInv'
<1>1. PromiseStands' /\ LiveIsApproved' /\ Promised'
  BY DEF ScheduleInv, PromiseStands, LiveIsApproved, Promised
<1>2. BatchIsDue'
  BY DEF ScheduleInv, BatchIsDue
<1>3. \A r \in Requests : Running(r)' => Running(r) /\ req'[r] = req[r]
  BY DEF Running
<1>4. AllJudged'
  BY <1>3 DEF ScheduleInv, AllJudged, Judged
<1>5. OnePerArticle'
  BY <1>3 DEF ScheduleInv, OnePerArticle
<1> QED BY <1>1, <1>2, <1>4, <1>5 DEF ScheduleInv

(* A request that judges an article finds it free, and by itself changes   *)
(* nothing.                                                                *)
LEMMA JudgeStep ==
  ASSUME ScheduleInv, TypeOK', NEW r \in Requests, Judge(r)
  PROVE  ScheduleInv'
<1>1. PICK a \in Articles, op \in Ops, hour \in Hours \cup {NoHour} :
        /\ Free(a)
        /\ Accepted(a, op, hour)
        /\ req' = [req EXCEPT ![r] = [op |-> op, art |-> a, hour |-> hour, text |-> art[a].text,
                                      since |-> clock]]
  BY DEF Judge
<1> DEFINE new == [op |-> op, art |-> a, hour |-> hour, text |-> art[a].text, since |-> clock]
<1>2. /\ req'[r] = new
      /\ \A q \in Requests : q # r => req'[q] = req[q]
      /\ UNCHANGED <<clock, art, run, crashes, promise, approved>>
  BY <1>1 DEF Judge, ScheduleInv, TypeOK
<1>3. PromiseStands' /\ LiveIsApproved' /\ Promised' /\ BatchIsDue'
  BY <1>2 DEF ScheduleInv, PromiseStands, LiveIsApproved, Promised, BatchIsDue
<1>4. clock \in Nat /\ art[a] \in Article
  BY DEF ScheduleInv, TypeOK
<1>5. Judged(new)'
  <2>1. new.since <= clock /\ clock <= new.since + TxTime
    BY <1>4, TimesAssumption
  <2>2. CASE op = "patch" \/ op = "publish"
    BY <1>1, <1>2, <2>1, <2>2 DEF Accepted, Judged
  <2>3. CASE op = "schedule"
    BY <1>1, <1>2, <2>1, <2>3 DEF Accepted, Judged
  <2>4. CASE op = "unschedule"
    <3>1. art[a].ws = "scheduled" /\ hour = NoHour /\ ~DueSoon(art[a].hour, clock)
      BY <1>1, <2>4 DEF Accepted
    <3>2. promise[a] # NoHour /\ art[a].hour = promise[a]
      <4>1. promise[a] # NoHour
        BY <3>1 DEF ScheduleInv, Promised
      <4> QED BY <4>1, Stands DEF ScheduleInv
    <3>3. art[a].hour > clock + Lead
      BY <3>1, <3>2, <1>4, TimesAssumption DEF DueSoon, Article
    <3> QED BY <1>2, <2>1, <2>4, <3>1, <3>2, <3>3 DEF Judged
  <2> QED BY <2>2, <2>3, <2>4 DEF Ops
<1>6. AllJudged'
  <2> SUFFICES ASSUME NEW q \in Requests, Running(q)' PROVE Judged(req[q])'
    BY DEF AllJudged
  <2>1. CASE q = r
    BY <1>2, <1>5, <2>1 DEF Judged
  <2>2. CASE q # r
    <3>1. req'[q] = req[q] /\ art' = art /\ clock' = clock
      BY <1>2, <2>2
    <3>2. Judged(req[q])
      BY <3>1 DEF ScheduleInv, AllJudged, Running
    <3> QED BY <3>1, <3>2 DEF Judged
  <2> QED BY <2>1, <2>2
<1>7. OnePerArticle'
  <2>1. \A q \in Requests : q # r /\ Running(q)' => req'[q].art # a
    BY <1>1, <1>2 DEF Running, Free
  <2>2. new.art = a
    OBVIOUS
  <2> QED BY <1>2, <2>1, <2>2 DEF ScheduleInv, OnePerArticle, Running
<1> QED BY <1>3, <1>6, <1>7 DEF ScheduleInv

(* A step that rewrites one article, of which no other request knows.      *)
LEMMA OneArticle ==
  ASSUME ScheduleInv, TypeOK', NEW a \in Articles, UNCHANGED clock,
         \A b \in Articles \ {a} : art'[b] = art[b] /\ promise'[b] = promise[b]
                                                     /\ approved'[b] = approved[b],
         promise'[a] # NoHour =>
           art'[a] = [ws |-> "scheduled", hour |-> promise'[a], text |-> approved'[a]],
         art'[a].ws \in {"published", "archived"} => art'[a].text = approved'[a],
         art'[a].ws = "scheduled" => promise'[a] # NoHour,
         run'.due \subseteq run.due \ {a},
         \A r \in Requests : Running(r)' => req'[r] = req[r] /\ req[r].art # a
  PROVE  ScheduleInv'
<1>1. PromiseStands' /\ LiveIsApproved' /\ Promised'
  BY DEF ScheduleInv, PromiseStands, LiveIsApproved, Promised
<1>2. BatchIsDue'
  BY DEF ScheduleInv, TypeOK, BatchIsDue
<1>3. AllJudged'
  <2> SUFFICES ASSUME NEW r \in Requests, Running(r)' PROVE Judged(req[r])'
    BY DEF AllJudged
  <2>1. req'[r] = req[r] /\ req[r].art # a /\ Running(r)
    BY DEF Running
  <2>2. req[r].art \in Articles
    BY <2>1, RunningType DEF ScheduleInv, Request
  <2>3. Judged(req[r])
    BY <2>1 DEF ScheduleInv, AllJudged
  <2>4. art'[req[r].art] = art[req[r].art] /\ req'[r] = req[r] /\ clock' = clock
    BY <2>1, <2>2
  <2> QED BY <2>3, <2>4 DEF Judged
<1>4. OnePerArticle'
  BY DEF ScheduleInv, OnePerArticle, Running
<1> QED BY <1>1, <1>2, <1>3, <1>4 DEF ScheduleInv

(* The row a request leaves, and the history it leaves behind.             *)
LEMMA WriteStep ==
  ASSUME ScheduleInv, TypeOK', NEW r \in Requests, Write(r)
  PROVE  ScheduleInv'
<1> DEFINE q == req[r]
           a == q.art
<1>1. q \in Request /\ Judged(q) /\ a \in Articles
  BY RunningType DEF Write, ScheduleInv, AllJudged, Request
<1>2. art[a] \in Article /\ clock \in Nat
  BY <1>1 DEF ScheduleInv, TypeOK
<1>3. /\ art'[a] = Written(art[a], q)
      /\ promise'[a] = IF q.op = "patch" THEN promise[a] ELSE q.hour
      /\ approved'[a] = IF q.op \in {"publish", "schedule"} THEN q.text ELSE approved[a]
      /\ UNCHANGED <<clock, run, crashes>>
  BY <1>1 DEF Write, ScheduleInv, TypeOK
<1>4. \A b \in Articles \ {a} : art'[b] = art[b] /\ promise'[b] = promise[b]
                                                   /\ approved'[b] = approved[b]
  BY <1>1 DEF Write, ScheduleInv, TypeOK
<1>5. \A p \in Requests : Running(p)' => req'[p] = req[p] /\ req[p].art # a
  BY DEF Write, ScheduleInv, TypeOK, OnePerArticle, Running
<1>6. a \notin run.due
  <2>1. CASE q.op # "unschedule"
    BY <1>1, <2>1, Stands DEF ScheduleInv, BatchIsDue, Judged
  <2>2. CASE q.op = "unschedule"
    <3>1. art[a].ws = "scheduled" /\ art[a].hour \in Nat /\ art[a].hour > clock
      BY <1>1, <1>2, <2>2, TimesAssumption DEF Judged, Article, Request
    <3>2. promise[a] # NoHour
      BY <1>1, <3>1 DEF ScheduleInv, Promised
    <3>3. art[a].hour = promise[a]
      BY <1>1, <3>2, Stands DEF ScheduleInv
    <3> QED BY <1>2, <3>1, <3>3 DEF ScheduleInv, BatchIsDue
  <2> QED BY <2>1, <2>2
<1>7. /\ promise'[a] # NoHour =>
           art'[a] = [ws |-> "scheduled", hour |-> promise'[a], text |-> approved'[a]]
      /\ art'[a].ws \in {"published", "archived"} => art'[a].text = approved'[a]
      /\ art'[a].ws = "scheduled" => promise'[a] # NoHour
  <2>1. CASE q.op = "patch"
    <3>1. art'[a] = [art[a] EXCEPT !.ws = "draft", !.text = q.text + 1] /\ promise'[a] = promise[a]
      BY <1>3, <2>1 DEF Written
    <3>2. promise[a] = NoHour
      BY <1>1, <2>1, Stands DEF ScheduleInv, Judged
    <3> QED BY <1>2, <3>1, <3>2 DEF Article
  <2>2. CASE q.op = "publish"
    <3>1. /\ art'[a] = [art[a] EXCEPT !.ws = "published"]
          /\ promise'[a] = NoHour /\ approved'[a] = q.text /\ art[a].text = q.text
      BY <1>1, <1>3, <2>2 DEF Written, Judged
    <3> QED BY <1>2, <3>1 DEF Article
  <2>3. CASE q.op = "schedule"
    <3>1. /\ art'[a] = [art[a] EXCEPT !.ws = "scheduled", !.hour = q.hour]
          /\ promise'[a] = q.hour /\ q.hour # NoHour
          /\ approved'[a] = q.text /\ art[a].text = q.text
      BY <1>1, <1>3, <2>3 DEF Written, Judged
    <3> QED BY <1>2, <3>1 DEF Article
  <2>4. CASE q.op = "unschedule"
    <3>1. art'[a] = [art[a] EXCEPT !.ws = "draft", !.hour = NoHour] /\ promise'[a] = NoHour
      BY <1>1, <1>3, <2>4 DEF Written, Judged
    <3> QED BY <1>2, <3>1 DEF Article
  <2> QED BY <1>1, <2>1, <2>2, <2>3, <2>4 DEF Request, Ops
<1>8. run'.due \subseteq run.due \ {a}
  BY <1>3, <1>6
<1> HIDE DEF q, a
<1> QED BY <1>1, <1>3, <1>4, <1>5, <1>7, <1>8, OneArticle

(* The status route finds a row that is neither scheduled nor a draft, so  *)
(* no request that is under way has judged it.                             *)
LEMMA ArchiveStep ==
  ASSUME ScheduleInv, TypeOK', NEW a \in Articles, Archive(a)
  PROVE  ScheduleInv'
<1>1. art[a] \in Article /\ art[a].ws \in {"published", "archived"}
  BY DEF Archive, ScheduleInv, TypeOK
<1>2. art'[a] = [art[a] EXCEPT !.ws = IF @ = "published" THEN "archived" ELSE "published"]
  BY DEF Archive, ScheduleInv, TypeOK
<1>3. \A b \in Articles \ {a} : art'[b] = art[b]
  BY DEF Archive, ScheduleInv, TypeOK
<1>4. UNCHANGED <<clock, req, run, crashes, promise, approved>>
  BY DEF Archive
<1>5. promise[a] = NoHour /\ art[a].text = approved[a]
  BY <1>1, Stands DEF ScheduleInv, LiveIsApproved
<1>6. art'[a].ws \in {"published", "archived"} /\ art'[a].text = art[a].text
  BY <1>1, <1>2 DEF Article
<1>7. \A r \in Requests : Running(r)' => req'[r] = req[r] /\ req[r].art # a
  BY <1>1, <1>4 DEF ScheduleInv, AllJudged, Judged, Running
<1>8. run'.due \subseteq run.due \ {a}
  BY <1>4, <1>5 DEF ScheduleInv, BatchIsDue
<1> QED BY <1>3, <1>4, <1>5, <1>6, <1>7, <1>8, OneArticle

(* The cron publishes what was promised.  The article is scheduled and its *)
(* hour has come, so no request has judged it, and none is to unschedule   *)
(* it.                                                                     *)
LEMMA CronPublishStep ==
  ASSUME ScheduleInv, TypeOK', NEW a \in Articles, CronPublish(a)
  PROVE  ScheduleInv' /\ promise[a] # NoHour /\ promise[a] <= clock
<1>1. promise[a] # NoHour /\ promise[a] <= clock
  BY DEF CronPublish, ScheduleInv, BatchIsDue
<1>2. art[a] = [ws |-> "scheduled", hour |-> promise[a], text |-> approved[a]]
  BY <1>1 DEF ScheduleInv, PromiseStands
<1>3. /\ art'[a] = [art[a] EXCEPT !.ws = "published"]
      /\ promise'[a] = NoHour
      /\ \A b \in Articles \ {a} : art'[b] = art[b] /\ promise'[b] = promise[b]
      /\ UNCHANGED <<clock, req, crashes, approved>>
      /\ run'.due = run.due \ {a}
  BY DEF CronPublish, Rest, ScheduleInv, TypeOK
<1>4. art'[a].ws = "published" /\ art'[a].text = approved'[a]
  BY <1>2, <1>3
<1>5. \A r \in Requests : Running(r)' => req'[r] = req[r] /\ req[r].art # a
  <2> SUFFICES ASSUME NEW r \in Requests, Running(r), req[r].art = a PROVE FALSE
    BY <1>3 DEF Running
  <2>1. Judged(req[r]) /\ req[r] \in Request /\ clock \in Nat /\ promise[a] \in Nat
    BY <1>1, RunningType DEF ScheduleInv, AllJudged, TypeOK
  <2>2. req[r].op = "unschedule"
    BY <1>2, <2>1 DEF Judged
  <2>3. promise[a] > req[r].since + Lead /\ clock <= req[r].since + TxTime /\ req[r].since \in Nat
    BY <1>2, <2>1, <2>2 DEF Judged, Request
  <2> QED BY <1>1, <2>1, <2>3, TimesAssumption
<1> QED BY <1>1, <1>3, <1>4, <1>5, OneArticle

(* A batch is found all at once, of articles that are due. *)
LEMMA CronFindStep ==
  ASSUME ScheduleInv, TypeOK', CronFind
  PROVE  ScheduleInv'
<1>1. /\ UNCHANGED <<clock, art, req, crashes, promise, approved>>
      /\ run'.due = {a \in Articles : Due(art[a], clock)}
  BY DEF CronFind
<1>2. BatchIsDue'
  <2> SUFFICES ASSUME NEW a \in Articles, Due(art[a], clock)
               PROVE  promise[a] # NoHour /\ promise[a] <= clock
    BY <1>1 DEF BatchIsDue
  <2>1. promise[a] # NoHour
    BY DEF Due, ScheduleInv, Promised
  <2> QED BY <2>1, Stands DEF Due, ScheduleInv
<1>3. PromiseStands' /\ LiveIsApproved' /\ Promised'
  BY <1>1 DEF ScheduleInv, PromiseStands, LiveIsApproved, Promised
<1>4. AllJudged' /\ OnePerArticle'
  BY <1>1 DEF ScheduleInv, AllJudged, OnePerArticle, Judged, Running
<1> QED BY <1>2, <1>3, <1>4 DEF ScheduleInv

(* The clock waits for the requests. *)
LEMMA TickStep ==
  ASSUME ScheduleInv, TypeOK', Tick
  PROVE  ScheduleInv'
<1>1. /\ clock \in Nat /\ clock' = clock + 1
      /\ UNCHANGED <<art, req, run, crashes, promise, approved>>
  BY DEF Tick, ScheduleInv, TypeOK
<1>2. PromiseStands' /\ LiveIsApproved' /\ Promised'
  BY <1>1 DEF ScheduleInv, PromiseStands, LiveIsApproved, Promised
<1>3. BatchIsDue'
  <2> SUFFICES ASSUME NEW a \in run.due PROVE promise[a] # NoHour /\ promise[a] <= clock'
    BY <1>1 DEF BatchIsDue
  <2>1. promise[a] # NoHour /\ promise[a] <= clock /\ promise[a] \in Nat
    BY DEF ScheduleInv, BatchIsDue, TypeOK
  <2> QED BY <1>1, <2>1
<1>4. AllJudged'
  <2> SUFFICES ASSUME NEW r \in Requests, Running(r)' PROVE Judged(req[r])'
    BY DEF AllJudged
  <2>1. Running(r) /\ Judged(req[r]) /\ req[r] \in Request /\ clock < req[r].since + TxTime
    BY <1>1, RunningType DEF ScheduleInv, AllJudged, Running, Tick
  <2>2. req[r].since <= clock' /\ clock' <= req[r].since + TxTime
    BY <1>1, <2>1, TimesAssumption DEF Judged, Request
  <2> QED BY <1>1, <2>1, <2>2 DEF Judged
<1>5. OnePerArticle'
  BY <1>1 DEF ScheduleInv, OnePerArticle, Running
<1> QED BY <1>2, <1>3, <1>4, <1>5 DEF ScheduleInv

(* ScheduleInv is inductive. *)
LEMMA NextInv == ScheduleInv /\ [Next]_vars => ScheduleInv'
<1> SUFFICES ASSUME ScheduleInv, [Next]_vars PROVE ScheduleInv'
  OBVIOUS
<1>0. TypeOK'
  BY NextType DEF ScheduleInv
<1>1. ASSUME NEW r \in Requests, Judge(r) \/ Write(r) PROVE ScheduleInv'
  BY <1>0, <1>1, JudgeStep, WriteStep
<1>2. ASSUME NEW r \in Requests, Fail(r) PROVE ScheduleInv'
  <2>1. /\ UNCHANGED <<clock, art, run, promise, approved>>
        /\ \A q \in Requests : req'[q] = req[q] \/ req'[q] = NoRequest
    BY <1>2 DEF Fail, ScheduleInv, TypeOK
  <2> QED BY <1>0, <2>1, ArticlesAlone
<1>3. ASSUME NEW a \in Articles, Archive(a) PROVE ScheduleInv'
  BY <1>0, <1>3, ArchiveStep
<1>4. CASE CronFind
  BY <1>0, <1>4, CronFindStep
<1>5. ASSUME NEW a \in Articles, CronPublish(a) PROVE ScheduleInv'
  BY <1>0, <1>5, CronPublishStep
<1>6. ASSUME NEW a \in Articles, CronFails(a) PROVE ScheduleInv'
  <2>1. UNCHANGED <<clock, art, req, promise, approved>> /\ run'.due \subseteq run.due
    BY <1>6 DEF CronFails, Rest, ScheduleInv, TypeOK
  <2> QED BY <1>0, <2>1, ArticlesAlone
<1>7. CASE CronEnd \/ CronDies
  <2>1. UNCHANGED <<clock, art, req, promise, approved>> /\ run'.due \subseteq run.due
    BY <1>7 DEF CronEnd, CronDies, NoRun
  <2> QED BY <1>0, <2>1, ArticlesAlone
<1>8. CASE Tick
  BY <1>0, <1>8, TickStep
<1>9. CASE UNCHANGED vars
  BY <1>0, <1>9, ArticlesAlone DEF vars
<1> QED BY <1>1, <1>2, <1>3, <1>4, <1>5, <1>6, <1>7, <1>8, <1>9 DEF Next, CronStep

(* Nothing is scheduled, promised or under way at first. *)
LEMMA InitInv == Init => ScheduleInv
<1> SUFFICES ASSUME Init PROVE ScheduleInv
  OBVIOUS
<1>1. TypeOK
  BY DEF Init, TypeOK, Article, Status, NoRun
<1>2. PromiseStands /\ LiveIsApproved /\ Promised /\ BatchIsDue
  BY DEF Init, PromiseStands, LiveIsApproved, Promised, BatchIsDue, NoRun
<1>3. AllJudged /\ OnePerArticle
  BY DEF Init, AllJudged, OnePerArticle, Running
<1> QED BY <1>1, <1>2, <1>3 DEF ScheduleInv

(* Every reachable state satisfies the inductive invariant. *)
LEMMA Invariance == Spec => []ScheduleInv
BY InitInv, NextInv, PTL DEF Spec

(* Every reachable state has its types. *)
THEOREM TypeCorrect == Spec => []TypeOK
<1>1. ScheduleInv => TypeOK
  BY DEF ScheduleInv
<1> QED BY <1>1, Invariance, PTL

(* What the hub was answered stands until the cron publishes the article   *)
(* or the hub takes it back (schedule, unschedule and publish of           *)
(* hub-author-publish-core.ts against publish-scheduled), and the site     *)
(* shows the text of the hub's last publish or schedule call.              *)
THEOREM PromisesHold == Spec => []PromisesAreKept
<1>1. ScheduleInv => PromisesAreKept
  BY DEF ScheduleInv, PromisesAreKept
<1> QED BY <1>1, Invariance, PTL

(* The cron publishes only what is promised at that moment: MIN_LEAD_      *)
(* SECONDS keeps an unschedule away from a batch that may already hold the *)
(* article.                                                                *)
THEOREM CronIsFaithful == Spec => CronKeepsPromises
<1>1. ScheduleInv /\ [Next]_vars =>
        [\A a \in Articles : CronPublish(a) => promise[a] # NoHour /\ promise[a] <= clock]_vars
  <2> SUFFICES ASSUME ScheduleInv, [Next]_vars, NEW a \in Articles, CronPublish(a)
               PROVE  promise[a] # NoHour /\ promise[a] <= clock
    OBVIOUS
  <2>1. TypeOK'
    BY NextType DEF ScheduleInv
  <2> QED BY <2>1, CronPublishStep
<1> QED BY <1>1, Invariance, PTL DEF Spec, CronKeepsPromises

-----------------------------------------------------------------------------
(* The webhook. *)

(* A page that is older than the document was read in the gap, or a save has
   gone by that the site was not told of. *)
Accounted(page, s, u) ==
  page.v <= s /\ (page.v < s => page.gap \/ \E v \in (page.v + 1)..s : v \in u)

(* Between the webhook and the commit every page is one read in the gap. *)
HookInv ==
  /\ Hook!TypeOK
  /\ cache # NoPage => Accounted(cache, stored, untold)
  /\ fetch # NoSave => Accounted(fetch, stored, untold)
  /\ save # NoSave /\ save.pc = "commit" /\ save.told =>
       (cache # NoPage => cache.gap) /\ (fetch # NoSave => fetch.gap)
  /\ save # NoSave => stored < MaxSaves

LEMMA HookTyped ==
  ASSUME HookInv
  PROVE  /\ stored \in Nat /\ MaxSaves \in Nat /\ stored <= MaxSaves
         /\ save # NoSave => save \in Hook!Save
         /\ cache # NoPage => cache \in Hook!Page /\ cache.v \in Nat
         /\ fetch # NoSave => fetch \in Hook!Page /\ fetch.v \in Nat
BY HookAssumption DEF HookInv, Hook!TypeOK, Hook!MaxSavesAssumption, Hook!Page

LEMMA HookInit == Hook!Init => HookInv
BY HookAssumption DEF Hook!Init, HookInv, Hook!TypeOK, Hook!MaxSavesAssumption, Hook!Sites

LEMMA BeginStep ==
  ASSUME HookInv, Hook!Begin
  PROVE  HookInv'
<1>1. stored < MaxSaves /\ save' \in Hook!Save /\ save'.pc = "hook" /\ save'.told = FALSE
      /\ UNCHANGED <<stored, site, cache, fetch, untold>>
  BY DEF Hook!Begin, Hook!Save
<1> QED BY <1>1 DEF HookInv, Hook!TypeOK

(* The site that answers has dropped the page, and what it was reading is in
   the gap. *)
LEMMA PostStep ==
  ASSUME HookInv, Hook!Post
  PROVE  HookInv'
<1>1. save # NoSave /\ save \in Hook!Save /\ save.pc = "hook" /\ ~save.told
      /\ UNCHANGED <<stored, site, untold>>
  BY HookTyped DEF Hook!Post, HookInv, Hook!TypeOK
<1>2. CASE ~save.silent /\ site = "up"
  <2>1. save' = [save EXCEPT !.pc = "commit", !.told = TRUE] /\ cache' = NoPage
        /\ fetch' = IF fetch = NoSave THEN NoSave ELSE [fetch EXCEPT !.gap = TRUE]
    BY <1>2 DEF Hook!Post, Hook!Accepted
  <2>2. save' \in Hook!Save /\ save'.pc = "commit"
    BY <1>1, <2>1 DEF Hook!Save
  <2>3. fetch # NoSave => fetch' \in Hook!Page /\ fetch'.gap = TRUE /\ fetch'.v = fetch.v
    BY <2>1, HookTyped DEF Hook!Page
  <2>4. fetch = NoSave => fetch' = NoSave
    BY <2>1
  <2>5. fetch' # NoSave => Accounted(fetch', stored, untold)
    BY <2>3, <2>4 DEF HookInv, Accounted
  <2>6. Hook!TypeOK'
    BY <1>1, <2>1, <2>2, <2>3, <2>4 DEF HookInv, Hook!TypeOK
  <2> QED BY <1>1, <2>1, <2>3, <2>4, <2>5, <2>6 DEF HookInv
<1>3. CASE save.silent \/ site # "up"
  <2>1. save' = [save EXCEPT !.pc = "commit"] /\ UNCHANGED <<cache, fetch>>
    BY <1>3 DEF Hook!Post, Hook!Accepted, Hook!AfterError
  <2>2. save' \in Hook!Save /\ save'.pc = "commit" /\ save'.told = save.told
    BY <1>1, <2>1 DEF Hook!Save
  <2> QED BY <1>1, <2>1, <2>2 DEF HookInv, Hook!TypeOK
<1> QED BY <1>2, <1>3

LEMMA PagesStayAccounted ==
  ASSUME NEW page \in Hook!Page, NEW s \in Nat, NEW u, Accounted(page, s, u), NEW u2,
         page.gap \/ s + 1 \in u2, u \subseteq u2
  PROVE  Accounted(page, s + 1, u2)
<1>1. page.v \in Nat /\ page.v <= s
  BY DEF Hook!Page, Accounted
<1>2. s + 1 \in (page.v + 1)..(s + 1)
  BY <1>1
<1> QED BY <1>1, <1>2 DEF Accounted

LEMMA CommitStep ==
  ASSUME HookInv, Hook!Commit
  PROVE  HookInv'
<1>1. save # NoSave /\ save \in Hook!Save /\ save.pc = "commit" /\ stored' = stored + 1 /\ save' = NoSave
      /\ untold' = (IF save.told THEN untold ELSE untold \cup {stored + 1})
      /\ UNCHANGED <<site, cache, fetch>> /\ stored < MaxSaves
  BY HookTyped DEF Hook!Commit, HookInv
<1>2. cache # NoPage => Accounted(cache, stored + 1, untold')
  BY <1>1, HookTyped, PagesStayAccounted DEF HookInv
<1>3. fetch # NoSave => Accounted(fetch, stored + 1, untold')
  BY <1>1, HookTyped, PagesStayAccounted DEF HookInv
<1>4. Hook!TypeOK'
  BY <1>1, HookTyped DEF HookInv, Hook!TypeOK, Hook!Page
<1> QED BY <1>1, <1>2, <1>3, <1>4 DEF HookInv


LEMMA ReadStep ==
  ASSUME HookInv, Hook!Read
  PROVE  HookInv'
<1>1. fetch' = [v |-> stored, gap |-> save # NoSave /\ save.pc = "commit" /\ save.told]
      /\ UNCHANGED <<stored, save, site, cache, untold>> /\ cache = NoPage
  BY DEF Hook!Read
<1>2. (save # NoSave /\ save.pc = "commit" /\ save.told) \in BOOLEAN
  BY HookTyped DEF Hook!Save
<1>3. fetch' \in Hook!Page /\ fetch'.v = stored
      /\ fetch'.gap = (save # NoSave /\ save.pc = "commit" /\ save.told)
  BY <1>1, <1>2, HookTyped DEF Hook!Page
<1>4. Accounted(fetch', stored', untold')
  BY <1>1, <1>3, HookTyped DEF Accounted
<1>5. Hook!TypeOK'
  BY <1>1, <1>3 DEF HookInv, Hook!TypeOK
<1> QED BY <1>1, <1>3, <1>4, <1>5 DEF HookInv

LEMMA SiteStep ==
  ASSUME HookInv,
         \/ Hook!Fill \/ Hook!Expire
         \/ \E s \in Hook!Sites : Hook!Turn(s)
  PROVE  HookInv'
<1>1. CASE Hook!Fill
  <2>1. cache' = fetch /\ fetch' = NoSave /\ fetch # NoSave /\ UNCHANGED <<stored, save, site, untold>>
    BY <1>1 DEF Hook!Fill
  <2>2. Hook!TypeOK'
    BY <2>1 DEF HookInv, Hook!TypeOK, Accounted
  <2> QED BY <2>1, <2>2 DEF HookInv
<1>2. CASE Hook!Expire
  BY <1>2 DEF Hook!Expire, HookInv, Hook!TypeOK
<1>3. ASSUME NEW s \in Hook!Sites, Hook!Turn(s)
      PROVE  HookInv'
  BY <1>3 DEF Hook!Turn, HookInv, Hook!TypeOK
<1> QED BY <1>1, <1>2, <1>3

LEMMA HookNext == HookInv /\ [Hook!Next]_hookVars => HookInv'
<1>1. CASE UNCHANGED hookVars
  BY <1>1 DEF hookVars, HookInv, Hook!TypeOK
<1> QED BY <1>1, BeginStep, PostStep, CommitStep, ReadStep, SiteStep DEF Hook!Next

(* For any number of saves, and whatever becomes of each webhook: a page that
   is older than the document was read between a webhook and its commit, or
   the hook knows that the site was not told. *)
THEOREM StalePagesAreExplained == MCSpec => []StaleOnlyFromTheGap
<1>1. MCInit => HookInv
  BY HookInit DEF MCInit
<1>2. HookInv /\ [MCNext]_MCvars => HookInv'
  BY HookNext DEF MCNext, MCvars, hookVars
<1>3. HookInv => StaleOnlyFromTheGap
  BY DEF HookInv, Accounted, StaleOnlyFromTheGap, Hook!StaleOnlyFromTheGap
<1> QED BY <1>1, <1>2, <1>3, PTL DEF MCSpec

-----------------------------------------------------------------------------
(* The leaderboard. *)

LEMMA BoardNones ==
  NoModel \notin Models /\ NoRow \notin Rows /\ NoFigure \notin Figures \cup Own
  /\ MaxFaults \in Nat /\ MaxEdits \in Nat /\ MaxDrifts \in Nat
BY BoardAssumption DEF Board!NonesAssumption, Board!BoundsAssumption

(* An update under way has read a row of its model. *)
BoardInv ==
  /\ Board!TypeOK
  /\ refresh # Rests => (refresh.at # NoModel =>
       refresh.base \in Board!Row /\ refresh.seen[refresh.at] \in Rows
       /\ refresh.read /\ refresh.at \in Models)

LEMMA BoardInit == Board!Init => BoardInv
<1> SUFFICES ASSUME Board!Init PROVE BoardInv
  OBVIOUS
<1>1. PICK model \in [Rows -> Models \cup {NoModel}], locked \in [Rows -> SUBSET Fields],
           kept \in Figures :
        rows = [r \in Rows |->
          [model |-> model[r], locked |-> locked[r],
           vals |-> [f \in Fields |-> IF f \in locked[r] THEN kept ELSE NoFigure]]]
  BY DEF Board!Init
<1>2. rows \in [Rows -> Board!Row]
  BY <1>1 DEF Board!Row
<1> QED BY <1>2, BoardNones DEF Board!Init, Board!TypeOK, BoardInv

(* The steps of a run, but for its updates. *)
LEMMA RunStep ==
  ASSUME BoardInv,
         \/ Board!Start \/ Board!Read \/ Board!End \/ Board!FetchFails \/ Board!WriteFails
         \/ \E f \in Fields : Board!Fetch(f)
  PROVE  BoardInv' /\ rows' = rows
<1>1. UNCHANGED <<upstream, rows, forms, edits, drifts>>
  BY DEF Board!Start, Board!Read, Board!End, Board!FetchFails, Board!WriteFails, Board!Fetch
<1> DEFINE Updates(x) == x.at # NoModel =>
      x.base \in Board!Row /\ x.seen[x.at] \in Rows /\ x.read /\ x.at \in Models
           Fine(x) == x \in Board!Run /\ (x.read => x.left = {}) /\ Updates(x)
<1>2. Board!TypeOK /\ (refresh # Rests => Fine(refresh))
  BY DEF BoardInv, Board!TypeOK
<1>3. (refresh' = Rests \/ Fine(refresh')) /\ stamped' \subseteq Rows /\ faults' \in 0..MaxFaults
  <2>1. CASE Board!Start
    BY <2>1 DEF Board!Start, Board!TypeOK, Board!Run, Board!Figured, BoardInv
  <2>2. CASE Board!Read
    <3>1. PICK seen \in [Models -> Rows \cup {NoRow}] :
            /\ \A m \in Models : (\E r \in Rows : Board!Matches(r, m)) => seen[m] \in Rows
            /\ refresh' = [refresh EXCEPT !.read = TRUE, !.seen = seen,
                                       !.locks = [r \in Rows |-> rows[r].locked]]
      BY <2>2 DEF Board!Read
    <3>2. [r \in Rows |-> rows[r].locked] \in [Rows -> SUBSET Fields]
      BY <1>2 DEF Board!TypeOK, Board!Row
    <3>3. refresh \in Board!Run /\ refresh.left = {} /\ refresh.at = NoModel /\ UNCHANGED <<stamped, faults>>
      BY <1>2, <2>2 DEF Board!Read, Board!AllFetched, Board!TypeOK
    <3>4. refresh' \in Board!Run /\ refresh'.left = {} /\ refresh'.at = NoModel
      BY <3>1, <3>2, <3>3 DEF Board!Run
    <3> QED BY <1>2, <3>3, <3>4 DEF Board!TypeOK
  <2>3. CASE Board!End
    BY <1>2, <2>3 DEF Board!End, Board!TypeOK
  <2>4. CASE Board!FetchFails
    <3>1. Fine(refresh) /\ faults' \in 0..MaxFaults /\ stamped' = stamped
      BY <1>2, <2>4, BoardNones DEF Board!FetchFails, Board!TypeOK
    <3>2. refresh' = Rests \/ refresh' = [refresh EXCEPT !.again = TRUE]
      BY <2>4 DEF Board!FetchFails
    <3>3. CASE refresh' = [refresh EXCEPT !.again = TRUE]
      <4>1. refresh' \in Board!Run
        BY <3>1, <3>3 DEF Board!Run
      <4>2. /\ refresh'.read = refresh.read /\ refresh'.left = refresh.left
            /\ refresh'.at = refresh.at /\ refresh'.base = refresh.base /\ refresh'.seen = refresh.seen
        BY <3>1, <3>3 DEF Board!Run
      <4> QED BY <1>2, <3>1, <4>1, <4>2 DEF Board!TypeOK
    <3> QED BY <1>2, <3>1, <3>2, <3>3 DEF Board!TypeOK
  <2>5. CASE Board!WriteFails
    BY <1>2, <2>5, BoardNones DEF Board!WriteFails, Board!TypeOK
  <2>6. ASSUME NEW f \in Fields, Board!Fetch(f)
        PROVE  Fine(refresh') /\ UNCHANGED <<stamped, faults>>
    <3>1. refresh \in Board!Run /\ ~refresh.read /\ refresh.at = NoModel
      BY <1>2, <2>6 DEF Board!Fetch, Board!Run
    <3> DEFINE got == [m \in Models |-> [refresh.got[m] EXCEPT ![f] = upstream[m][f]]]
    <3>2. got \in Board!Figured
      BY <1>2, <2>6, <3>1 DEF Board!TypeOK, Board!Run, Board!Figured
    <3>3. refresh' = [refresh EXCEPT !.left = @ \ {f}, !.again = FALSE, !.got = got]
          /\ UNCHANGED <<stamped, faults>>
      BY <2>6 DEF Board!Fetch
    <3> HIDE DEF got
    <3>4. refresh' \in Board!Run /\ ~refresh'.read /\ refresh'.at = NoModel
      BY <3>1, <3>2, <3>3 DEF Board!Run
    <3> QED BY <3>3, <3>4
  <2> QED BY <1>2, <2>1, <2>2, <2>3, <2>4, <2>5, <2>6 DEF Board!TypeOK
<1>4. Board!TypeOK'
  BY <1>1, <1>2, <1>3 DEF Board!TypeOK
<1> QED BY <1>1, <1>3, <1>4 DEF BoardInv

(* The next model: its row is read, if there is something to write. *)
LEMMA TakeStep ==
  ASSUME BoardInv, NEW m \in Models, Board!Take(m)
  PROVE  BoardInv' /\ rows' = rows
<1>1. refresh \in Board!Run /\ refresh.read /\ refresh.left = {} /\ refresh.at = NoModel
      /\ UNCHANGED <<upstream, rows, stamped, forms, faults, edits, drifts>> /\ refresh # Rests
  BY DEF Board!Take, Board!TypeOK, BoardInv
<1>2. refresh' \in Board!Run /\ refresh'.left = {}
      /\ (refresh'.at # NoModel =>
           refresh'.base \in Board!Row /\ refresh'.seen[refresh'.at] \in Rows
           /\ refresh'.read /\ refresh'.at \in Models)
  <2>1. CASE Board!Wanted(m)
    <3>1. refresh.seen[m] \in Rows
      BY <1>1, <2>1 DEF Board!Wanted, Board!Run
    <3>2. rows[refresh.seen[m]] \in Board!Row
      BY <3>1 DEF BoardInv, Board!TypeOK
    <3>3. refresh' = [refresh EXCEPT !.todo = @ \ {m}, !.at = m, !.base = rows[refresh.seen[m]]]
      BY <2>1 DEF Board!Take
    <3>4. refresh' \in Board!Run
      BY <1>1, <3>2, <3>3 DEF Board!Run
    <3>5. /\ refresh'.left = {} /\ refresh'.read /\ refresh'.at = m /\ refresh'.seen = refresh.seen
          /\ refresh'.base = rows[refresh.seen[m]]
      BY <1>1, <3>3 DEF Board!Run
    <3> QED BY <3>1, <3>2, <3>4, <3>5
  <2>2. CASE ~Board!Wanted(m)
    <3>1. refresh' = [refresh EXCEPT !.todo = @ \ {m}]
      BY <2>2 DEF Board!Take
    <3> QED BY <1>1, <3>1 DEF Board!Run
  <2> QED BY <2>1, <2>2
<1>3. Board!TypeOK'
  BY <1>1, <1>2 DEF BoardInv, Board!TypeOK
<1> QED BY <1>1, <1>2, <1>3 DEF BoardInv

(* An update stores what it has read, but for figures of upstream in what it owns. *)
LEMMA StoreStep ==
  ASSUME BoardInv, Board!Store
  PROVE  BoardInv' /\ Board!Careful
<1> DEFINE m == refresh.at
           r == refresh.seen[m]
           vals == Board!Refreshed(refresh.base.vals, m)
           new == [refresh.base EXCEPT !.vals = vals]
<1>1. /\ refresh # Rests /\ refresh \in Board!Run /\ refresh.left = {} /\ refresh.base \in Board!Row
      /\ m \in Models /\ r \in Rows
      /\ UNCHANGED <<upstream, forms, faults, edits, drifts>>
  BY DEF Board!Store, Board!TypeOK, BoardInv
<1>2. refresh' = [refresh EXCEPT !.at = NoModel, !.base = NoRow]
  BY DEF Board!Store
<1>3. refresh' \in Board!Run /\ refresh'.left = {} /\ refresh'.at = NoModel
  BY <1>1, <1>2 DEF Board!Run
<1>4. rows' = [rows EXCEPT ![r] = new] /\ stamped' = stamped \cup {r}
  BY DEF Board!Store
<1>5. refresh.got \in Board!Figured /\ refresh.base.vals \in [Fields -> Figures \cup Own \cup {NoFigure}]
  BY <1>1 DEF Board!Run, Board!Row
<1>6. vals \in [Fields -> Figures \cup Own \cup {NoFigure}]
  BY <1>1, <1>5 DEF Board!Refreshed, Board!Figured
<1>7. \A f \in Fields : vals[f] # refresh.base.vals[f] => f \notin refresh.locks[r] /\ vals[f] # NoFigure
  BY DEF Board!Refreshed, Board!Owned
<1> HIDE DEF vals
<1>8. new \in Board!Row /\ new.vals = vals
  BY <1>1, <1>6 DEF Board!Row
<1> HIDE DEF new, r, m
<1>9. rows' \in [Rows -> Board!Row] /\ rows'[r] = new /\ \A q \in Rows \ {r} : rows'[q] = rows[q]
  BY <1>1, <1>4, <1>8 DEF BoardInv, Board!TypeOK
<1>10. Board!Careful
  BY <1>7, <1>8, <1>9 DEF Board!Careful, Board!LeftToCron, Board!Overtaken
<1>11. Board!TypeOK'
  BY <1>1, <1>3, <1>4, <1>9 DEF BoardInv, Board!TypeOK
<1> QED BY <1>3, <1>10, <1>11 DEF BoardInv

(* Editors, and upstream. *)
LEMMA EditStep ==
  ASSUME BoardInv, NEW r \in Rows, Board!OpenForm(r) \/ Board!Edit(r)
  PROVE  BoardInv'
<1>1. rows[r] \in Board!Row /\ UNCHANGED <<upstream, refresh, stamped, faults, drifts>>
  BY DEF Board!OpenForm, Board!Edit, BoardInv, Board!TypeOK
<1>2. CASE Board!OpenForm(r)
  BY <1>1, <1>2, BoardNones DEF Board!OpenForm, BoardInv, Board!TypeOK
<1>3. CASE Board!Edit(r)
  <2>1. forms[r] \in Board!Row /\ edits' = edits /\ forms' = [forms EXCEPT ![r] = NoRow]
    BY <1>3 DEF Board!Edit, BoardInv, Board!TypeOK
  <2> DEFINE form == forms[r]
  <2>2. ASSUME NEW f \in Fields, NEW v \in Own
        PROVE  [form EXCEPT !.vals[f] = v, !.locked = @ \cup {f}] \in Board!Row
    BY <2>1 DEF Board!Row
  <2>3. ASSUME NEW f \in form.locked
        PROVE  [form EXCEPT !.locked = @ \ {f}] \in Board!Row
    BY <2>1 DEF Board!Row
  <2>4. ASSUME NEW m \in Models \cup {NoModel}
        PROVE  [form EXCEPT !.model = m] \in Board!Row
    BY <2>1 DEF Board!Row
  <2>5. ASSUME NEW row \in Board!Row, rows' = [rows EXCEPT ![r] = row]
        PROVE  rows' \in [Rows -> Board!Row]
    BY <2>5 DEF BoardInv, Board!TypeOK
  <2>6. rows' \in [Rows -> Board!Row]
    <3>1. CASE rows' = rows
      BY <3>1 DEF BoardInv, Board!TypeOK
    <3>2. ASSUME NEW f \in Fields, NEW v \in Own,
                 rows' = [rows EXCEPT ![r] = [form EXCEPT !.vals[f] = v, !.locked = @ \cup {f}]]
          PROVE  rows' \in [Rows -> Board!Row]
      BY <2>2, <2>5, <3>2
    <3>3. ASSUME NEW f \in form.locked, rows' = [rows EXCEPT ![r] = [form EXCEPT !.locked = @ \ {f}]]
          PROVE  rows' \in [Rows -> Board!Row]
      BY <2>3, <2>5, <3>3
    <3>4. ASSUME NEW m \in Models \cup {NoModel}, rows' = [rows EXCEPT ![r] = [form EXCEPT !.model = m]]
          PROVE  rows' \in [Rows -> Board!Row]
      BY <2>4, <2>5, <3>4
    <3> QED BY <1>3, <3>1, <3>2, <3>3, <3>4 DEF Board!Edit
  <2>7. rows' \in [Rows -> Board!Row] /\ forms' \in [Rows -> Board!Row \cup {NoRow}]
    BY <2>1, <2>6 DEF BoardInv, Board!TypeOK
  <2> QED BY <1>1, <2>1, <2>7 DEF BoardInv, Board!TypeOK
<1> QED BY <1>2, <1>3

LEMMA DriftStep ==
  ASSUME BoardInv, Board!Drift
  PROVE  BoardInv'
<1>1. PICK m \in Models, f \in Fields, v \in Figures \cup {NoFigure} :
        upstream' = [upstream EXCEPT ![m][f] = v]
  BY DEF Board!Drift
<1>2. upstream' \in Board!Figured
  BY <1>1 DEF BoardInv, Board!TypeOK, Board!Figured
<1> QED BY <1>2, BoardNones DEF Board!Drift, BoardInv, Board!TypeOK

LEMMA BoardNext ==
  ASSUME BoardInv, Board!Next
  PROVE  BoardInv'
BY RunStep, TakeStep, StoreStep, EditStep, DriftStep DEF Board!Next, Board!Step

(* For any number of rows, models, fields, runs and edits: a refresh changes a field
   that was locked when it read the rows, or erases a figure, only where an editor saved
   that field between the reading and the storing of the update. *)
THEOREM RefreshesAreCareful == MCSpec => RefreshIsCareful
<1>1. MCInit => BoardInv
  BY BoardInit DEF MCInit
<1>2. BoardInv /\ [MCNext]_MCvars => BoardInv'
  <2>1. BoardInv /\ UNCHANGED boardVars => BoardInv'
    BY DEF boardVars, BoardInv, Board!TypeOK
  <2> QED BY <2>1, BoardNext DEF MCNext, MCvars
<1>3. BoardInv => [Board!Store => Board!Careful]_(Board!vars)
  BY StoreStep
<1> QED BY <1>1, <1>2, <1>3, PTL DEF MCSpec, RefreshIsCareful, Board!RefreshIsCareful
===============================================================================
