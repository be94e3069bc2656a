-------------------------- MODULE EngineIntake_proofs --------------------------
(***************************************************************************)
(* Proofs about EngineIntake: its types, with the engine waiting for one   *)
(* delivery of a draft at a time; that nothing is doubled but by           *)
(* deliveries that overlap; and that it implements IntakePromise.          *)
(***************************************************************************)
EXTENDS EngineIntake, FiniteSetTheorems, TLAPS

(* The deliveries of a draft, those of them the engine listens to, and the *)
(* articles of a draft, by the requests and the rows alone.                *)
Serves(j, x, d) == j[x] # Idle /\ j[x].draft = d
Heeded(j, d) == {x \in Deliveries : Serves(j, x, d) /\ j[x].heard}
RowsOf(r, d) == {a \in Articles : r[a] \notin {NoRow, Gone} /\ r[a].draft = d}

Typed ==
  /\ asked \in [Drafts -> Asked] /\ mayUpdate \in BOOLEAN
  /\ rows \in [Articles -> Row \cup {NoRow, Gone}]
  /\ tagged \in BOOLEAN /\ bylines \in Nat
  /\ job \in [Deliveries -> Job \cup {Idle}]
  /\ told \in [Drafts -> {"nothing", "waiting", "stored", "refused", "again"}]
  /\ faults \in 0..MaxFaults /\ timeouts \in 0..MaxTimeouts /\ edits \in 0..MaxEdits
  /\ overlapped \subseteq Drafts

(* The engine waits for one delivery of a draft, or for none.              *)
OneAwaited == \A d \in Drafts :
  IF told[d] = "waiting" THEN \E x \in Deliveries : Heeded(job, d) = {x} ELSE Heeded(job, d) = {}

(* These have looked for the draft's article and found none.               *)
Unfound == {"byUrl", "tag", "newTag", "byline", "newByline", "slug", "insert"}

(* A draft that is served by one delivery at a time has one article, and   *)
(* none while the delivery believes that there is none.                    *)
Alone(j, r, d) ==
  /\ \A x, y \in Deliveries : Serves(j, x, d) /\ Serves(j, y, d) => x = y
  /\ \A x \in Deliveries : Serves(j, x, d) /\ j[x].at \in Unfound => RowsOf(r, d) = {}
  /\ \A a, b \in RowsOf(r, d) : a = b

AllAlone == \A d \in Drafts \ overlapped : Alone(job, rows, d)

(* Who has found no byline will make one.                                  *)
Naming(j) == {x \in Deliveries : j[x] # Idle /\ j[x].at = "newByline"}
FewNamed == bylines + Cardinality(Naming(job)) <= Cardinality(Deliveries)

IntakeInv == Typed /\ OneAwaited /\ AllAlone /\ FewNamed

-----------------------------------------------------------------------------
(* What a step does to the requests. *)

(* One request changes, and goes on for the same draft or ends.            *)
Turns(x, to) ==
  /\ to \in Job \cup {Idle}
  /\ job' = [job EXCEPT ![x] = to]
  /\ to # Idle => to.draft = job[x].draft

LEMMA RunningJob ==
  ASSUME Typed, NEW x \in Deliveries, job[x] # Idle
  PROVE  job[x] \in Job /\ job[x].draft \in Drafts
BY DEF Typed, Job

LEMMA GoesOn ==
  ASSUME Typed, NEW x \in Deliveries, job[x] # Idle, NEW step \in Steps, Goes(x, step)
  PROVE  /\ Turns(x, [job[x] EXCEPT !.at = step])
         /\ [job[x] EXCEPT !.at = step].at = step
         /\ [job[x] EXCEPT !.at = step].heard = job[x].heard
         /\ [job[x] EXCEPT !.at = step] # Idle
<1>1. job[x] \in Job
  BY RunningJob
<1>2. [job[x] EXCEPT !.at = step] \in Job
  BY <1>1 DEF Job
<1>3. job' = [job EXCEPT ![x] = [job[x] EXCEPT !.at = step]]
  BY DEF Goes
<1>. QED BY <1>1, <1>2, <1>3, RowsAssumption DEF Turns, Job

LEMMA Answers ==
  ASSUME Typed, NEW x \in Deliveries, job[x] # Idle,
         NEW what \in {"stored", "refused", "again"}, Says(x, what)
  PROVE  \E to \in Job : Turns(x, to) /\ to.at = "reply" /\ to.heard = job[x].heard
<1> DEFINE to == [job[x] EXCEPT !.at = "reply", !.says = what]
<1>1. job[x] \in Job
  BY RunningJob
<1>2. to \in Job /\ to.at = "reply" /\ to.heard = job[x].heard /\ to.draft = job[x].draft
  BY <1>1 DEF Job, Steps
<1>3. job' = [job EXCEPT ![x] = to]
  BY DEF Says
<1>. QED BY <1>2, <1>3 DEF Turns

(* A query answers, and the request goes on from there.                    *)
Found(x, found, else) ==
  \E to \in Job :
    /\ Turns(x, to) /\ to.heard = job[x].heard
    /\ to.at = "refresh" \/ (to.at = else /\ found = {})

LEMMA LooksUp ==
  ASSUME Typed, NEW x \in Deliveries, job[x] # Idle, NEW found \in SUBSET Stored,
         NEW else \in Steps, LookUp(x, found, else)
  PROVE  Found(x, found, else)
<1>1. CASE found = {}
  <2>1. Goes(x, else)
    BY <1>1 DEF LookUp
  <2>2. /\ Turns(x, [job[x] EXCEPT !.at = else]) /\ [job[x] EXCEPT !.at = else].at = else
        /\ [job[x] EXCEPT !.at = else].heard = job[x].heard /\ [job[x] EXCEPT !.at = else] # Idle
    BY <2>1, GoesOn
  <2>. QED BY <1>1, <2>2 DEF Found, Turns
<1>2. CASE found # {}
  <2>1. PICK a \in found :
          job' = [job EXCEPT ![x].at = "refresh", ![x].found = a, ![x].barred = Bars(a, job[x].draft)]
    BY <1>2 DEF LookUp
  <2> DEFINE to == [job[x] EXCEPT !.at = "refresh", !.found = a, !.barred = Bars(a, job[x].draft)]
  <2>2. job[x] \in Job
    BY RunningJob
  <2>3. a \in Articles /\ Bars(a, job[x].draft) \in BOOLEAN
    BY DEF Stored, Bars
  <2>4. to \in Job /\ to.at = "refresh" /\ to.heard = job[x].heard /\ to.draft = job[x].draft
    BY <2>2, <2>3 DEF Job, Steps
  <2>5. job' = [job EXCEPT ![x] = to]
    BY <2>1
  <2>. QED BY <2>4, <2>5 DEF Found, Turns
<1>. QED BY <1>1, <1>2

-----------------------------------------------------------------------------
(* A query of a request, which the engine does not see. *)

Query(x) ==
  \/ FindByDraft(x) \/ FindByUrl(x) \/ Refresh(x) \/ FindTag(x) \/ MakeTag(x)
  \/ FindByline(x) \/ MakeByline(x) \/ CheckSlug(x) \/ Insert(x)

(* Where it goes on from: past the search for the draft's article only if  *)
(* it was past it, or there is none; and to the making of a byline only    *)
(* if there is none.                                                       *)
Goal(x, to) ==
  /\ Turns(x, to) /\ to # Idle /\ to.heard = job[x].heard
  /\ to.at \in Unfound => job[x].at \in Unfound \/ RowsOf(rows, job[x].draft) = {}
  /\ to.at = "newByline" => bylines = 0 /\ bylines' = 0

LEMMA QueryGoal ==
  ASSUME Typed, NEW x \in Deliveries, Query(x)
  PROVE  job[x] # Idle /\ \E to : Goal(x, to)
<1>1. job[x] # Idle
  BY DEF Query, FindByDraft, FindByUrl, Refresh, FindTag, MakeTag, FindByline, MakeByline,
         CheckSlug, Insert, At
<1> SUFFICES \E to : Goal(x, to)
  BY <1>1
<1>2. job[x] \in Job /\ job[x].draft \in Drafts /\ Idle \notin Job
  BY <1>1, RunningJob, RowsAssumption
<1>3. ASSUME NEW step \in Steps, Goes(x, step),
             step \in Unfound => job[x].at \in Unfound,
             step = "newByline" => bylines = 0 /\ bylines' = 0
      PROVE  \E to : Goal(x, to)
  <2>1. /\ Turns(x, [job[x] EXCEPT !.at = step]) /\ [job[x] EXCEPT !.at = step].at = step
        /\ [job[x] EXCEPT !.at = step].heard = job[x].heard /\ [job[x] EXCEPT !.at = step] # Idle
    BY <1>1, <1>3, GoesOn
  <2>. QED BY <1>3, <2>1 DEF Goal
<1>4. ASSUME NEW what \in {"stored", "refused", "again"}, Says(x, what)
      PROVE  \E to : Goal(x, to)
  <2>1. PICK to \in Job : Turns(x, to) /\ to.at = "reply" /\ to.heard = job[x].heard
    BY <1>1, <1>4, Answers
  <2>. QED BY <1>2, <2>1 DEF Goal, Unfound
<1>5. CASE FindByDraft(x)
  <2>1. ByDraft(job[x].draft) = RowsOf(rows, job[x].draft) /\ ByDraft(job[x].draft) \in SUBSET Stored
    BY DEF ByDraft, RowsOf, Stored
  <2>2. LookUp(x, ByDraft(job[x].draft), "byUrl") /\ "byUrl" \in Steps
    BY <1>5 DEF FindByDraft, Steps
  <2>3. Found(x, ByDraft(job[x].draft), "byUrl")
    BY <1>1, <2>1, <2>2, LooksUp
  <2>. QED BY <1>2, <2>1, <2>3 DEF Found, Goal, Unfound
<1>6. CASE FindByUrl(x)
  <2>1. ByUrl(job[x].draft) \in SUBSET Stored /\ job[x].at \in Unfound
    BY <1>6 DEF ByUrl, FindByUrl, At, Unfound
  <2>2. LookUp(x, ByUrl(job[x].draft), "tag") /\ "tag" \in Steps
    BY <1>6 DEF FindByUrl, Steps
  <2>3. Found(x, ByUrl(job[x].draft), "tag")
    BY <1>1, <2>1, <2>2, LooksUp
  <2>. QED BY <1>2, <2>1, <2>3 DEF Found, Goal
<1>7. CASE Refresh(x)
  BY <1>4, <1>7 DEF Refresh
<1>8. CASE FindTag(x)
  <2>1. job[x].at \in Unfound /\ (Goes(x, "byline") \/ Goes(x, "newTag") \/ Says(x, "refused"))
    BY <1>8 DEF FindTag, At, Unfound
  <2>. QED BY <1>3, <1>4, <2>1 DEF Steps
<1>9. CASE MakeTag(x)
  <2>1. job[x].at \in Unfound /\ (Goes(x, "byline") \/ Says(x, "again"))
    BY <1>9 DEF MakeTag, At, Unfound, LoserHears
  <2>. QED BY <1>3, <1>4, <2>1 DEF Steps
<1>10. CASE FindByline(x)
  <2>1. /\ Goes(x, AfterByline) \/ Says(x, "refused")
        /\ job[x].at \in Unfound /\ bylines' = bylines /\ bylines \in Nat
    BY <1>10 DEF FindByline, At, Unfound, Typed
  <2>2. AfterByline \in Steps /\ (AfterByline = "newByline" => bylines = 0)
    BY <2>1 DEF AfterByline, Steps
  <2>. QED BY <1>3, <1>4, <2>1, <2>2
<1>11. CASE MakeByline(x)
  <2>1. job[x].at \in Unfound /\ Goes(x, "slug")
    BY <1>11 DEF MakeByline, At, Unfound
  <2>. QED BY <1>3, <2>1 DEF Steps
<1>12. CASE CheckSlug(x)
  <2>1. job[x].at \in Unfound /\ (Goes(x, "insert") \/ Says(x, "again"))
    BY <1>12 DEF CheckSlug, At, Unfound
  <2>. QED BY <1>3, <1>4, <2>1 DEF Steps
<1>13. CASE Insert(x)
  BY <1>4, <1>13 DEF Insert
<1>. QED BY <1>1, <1>5, <1>6, <1>7, <1>8, <1>9, <1>10, <1>11, <1>12, <1>13 DEF Query

(* A refreshed row, and an edited one.                                     *)
LEMMA NewerRow ==
  ASSUME NEW row \in Row, NEW url \in Urls \cup {NoUrl}
  PROVE  LET new == [row EXCEPT !.version = @ + 1, !.url = IF url = NoUrl THEN @ ELSE url]
         IN  new \in Row /\ new.draft = row.draft /\ new.human = row.human
<1> DEFINE bare == [row EXCEPT !.version = @ + 1]
           to == IF url = NoUrl THEN row.url ELSE url
<1>1. row.version \in Nat
  BY DEF Row
<1>2. bare \in Row /\ bare.draft = row.draft /\ bare.human = row.human /\ bare.url = row.url
  BY <1>1 DEF Row
<1>3. to \in Urls \cup {NoUrl}
  BY DEF Row
<1> HIDE DEF bare, to
<1>4. [bare EXCEPT !.url = to] \in Row /\ [bare EXCEPT !.url = to].draft = row.draft
      /\ [bare EXCEPT !.url = to].human = row.human
  BY <1>2, <1>3 DEF Row
<1>5. [row EXCEPT !.version = @ + 1, !.url = IF url = NoUrl THEN @ ELSE url]
        = [bare EXCEPT !.url = to]
  BY DEF bare, to, Row
<1>. QED BY <1>4, <1>5

LEMMA EditedRow ==
  ASSUME NEW row \in Row, NEW s \in Slugs
  PROVE  LET new == [row EXCEPT !.human = TRUE, !.slug = s, !.version = @ + 1]
         IN  new \in Row /\ new.draft = row.draft /\ new.url = row.url
<1> DEFINE bare == [row EXCEPT !.version = @ + 1]
<1>1. row.version \in Nat
  BY DEF Row
<1>2. bare \in Row /\ bare.draft = row.draft /\ bare.url = row.url
  BY <1>1 DEF Row
<1>3. [row EXCEPT !.human = TRUE, !.slug = s, !.version = @ + 1]
        = [bare EXCEPT !.human = TRUE, !.slug = s]
  BY DEF Row
<1> HIDE DEF bare
<1>4. [bare EXCEPT !.human = TRUE, !.slug = s] \in Row
      /\ [bare EXCEPT !.human = TRUE, !.slug = s].draft = row.draft
      /\ [bare EXCEPT !.human = TRUE, !.slug = s].url = row.url
  BY <1>2 DEF Row
<1>. QED BY <1>3, <1>4

(* Its rows are rows.                                                      *)
LEMMA QueryTyped ==
  ASSUME Typed, NEW x \in Deliveries, Query(x)
  PROVE  Typed'
<1>1. PICK to : Goal(x, to)
  BY QueryGoal
<1>2. job' \in [Deliveries -> Job \cup {Idle}]
  BY <1>1 DEF Goal, Turns, Typed
<1>3. UNCHANGED <<asked, mayUpdate, told, faults, timeouts, edits, overlapped>>
  BY DEF Query, FindByDraft, FindByUrl, Refresh, FindTag, MakeTag, FindByline, MakeByline,
         CheckSlug, Insert
<1>4. tagged' \in BOOLEAN /\ bylines' \in Nat
  <2>1. tagged' \in {tagged, TRUE} /\ bylines' \in {bylines, bylines + 1}
    BY DEF Query, FindByDraft, FindByUrl, Refresh, FindTag, MakeTag, FindByline, MakeByline,
           CheckSlug, Insert
  <2>2. tagged \in BOOLEAN /\ bylines \in Nat
    BY DEF Typed
  <2>3. tagged' \in BOOLEAN
    BY <2>1, <2>2, Zenon
  <2>4. bylines' \in Nat
    BY <2>1, <2>2
  <2>. QED BY <2>3, <2>4
<1>5. rows' \in [Articles -> Row \cup {NoRow, Gone}]
  <2>1. CASE Insert(x)
    <3> DEFINE d == job[x].draft
               new == [draft |-> d, url |-> asked[d].url, slug |-> asked[d].slug, human |-> FALSE,
                       version |-> 1]
    <3>1. d \in Drafts
      BY <2>1, RunningJob DEF Insert, At
    <3>2. asked[d] \in Asked
      BY <3>1 DEF Typed
    <3>3. new \in Row
      BY <3>1, <3>2 DEF Row, Asked
    <3>4. \E a \in Articles : rows' = [rows EXCEPT ![a] = new]
      BY <2>1 DEF Insert
    <3> HIDE DEF new
    <3>. QED BY <3>3, <3>4 DEF Typed
  <2>2. CASE Refresh(x)
    <3> DEFINE a == job[x].found
               url == asked[job[x].draft].url
    <3>1. CASE UNCHANGED rows
      BY <3>1 DEF Typed
    <3>2. CASE rows' # rows
      <4>1. /\ a \in Stored
            /\ rows' = [rows EXCEPT ![a].version = @ + 1,
                                   ![a].url = IF url = NoUrl THEN @ ELSE url]
        BY <2>2, <3>2 DEF Refresh
      <4>2. job[x].draft \in Drafts
        BY <2>2, RunningJob DEF Refresh, At
      <4>3. url \in Urls \cup {NoUrl} /\ a \in Articles /\ rows[a] \in Row
        BY <4>1, <4>2 DEF Typed, Stored, Asked
      <4> HIDE DEF a, url
      <4> DEFINE row == [rows[a] EXCEPT !.version = @ + 1, !.url = IF url = NoUrl THEN @ ELSE url]
      <4>4. row \in Row /\ row.draft = rows[a].draft
        BY <4>3, NewerRow
      <4>5. rows' = [rows EXCEPT ![a] = row]
        BY <4>1
      <4> HIDE DEF row
      <4>. QED BY <4>3, <4>4, <4>5 DEF Typed
    <3>. QED BY <3>1, <3>2
  <2>3. CASE UNCHANGED rows
    BY <2>3 DEF Typed
  <2>. QED BY <2>1, <2>2, <2>3 DEF Query, FindByDraft, FindByUrl, FindTag, MakeTag, FindByline,
                                   MakeByline, CheckSlug
<1>. QED BY <1>2, <1>3, <1>4, <1>5 DEF Typed

-----------------------------------------------------------------------------
(* What the invariants ask of a step. *)

(* No delivery comes to the draft, none forgets what it looked for, and no *)
(* article of the draft is added.                                          *)
LEMMA StaysAlone ==
  ASSUME NEW j, NEW r, NEW k, NEW s, NEW d, Alone(j, r, d),
         \A y \in Deliveries : Serves(k, y, d) =>
           Serves(j, y, d) /\ (k[y].at \in Unfound => j[y].at \in Unfound \/ RowsOf(r, d) = {}),
         RowsOf(s, d) \subseteq RowsOf(r, d)
  PROVE  Alone(k, s, d)
<1>1. \A x, y \in Deliveries : Serves(k, x, d) /\ Serves(k, y, d) => x = y
  BY DEF Alone
<1>2. ASSUME NEW x \in Deliveries, Serves(k, x, d), k[x].at \in Unfound
      PROVE  RowsOf(s, d) = {}
  BY <1>2 DEF Alone
<1>3. \A a, b \in RowsOf(s, d) : a = b
  BY DEF Alone
<1>. QED BY <1>1, <1>2, <1>3 DEF Alone

(* The rows of the drafts, after a refresh or an edit, and after a create. *)
LEMMA RowsChanged ==
  ASSUME Typed, NEW a \in Articles, NEW row, rows' = [rows EXCEPT ![a] = row],
         row = Gone \/ (rows[a] \notin {NoRow, Gone} /\ row.draft = rows[a].draft), NEW d
  PROVE  RowsOf(rows', d) \subseteq RowsOf(rows, d)
<1>1. \A b \in Articles : rows'[b] = IF b = a THEN row ELSE rows[b]
  BY DEF Typed
<1>. QED BY <1>1 DEF RowsOf

LEMMA RowsAdded ==
  ASSUME Typed, NEW a \in Articles, rows[a] = NoRow, NEW row \in Row,
         rows' = [rows EXCEPT ![a] = row]
  PROVE  /\ \A d \in Drafts \ {row.draft} : RowsOf(rows', d) \subseteq RowsOf(rows, d)
         /\ RowsOf(rows, row.draft) = {} => RowsOf(rows', row.draft) = {a}
<1>1. \A b \in Articles : rows'[b] = IF b = a THEN row ELSE rows[b]
  BY DEF Typed
<1>2. row \notin {NoRow, Gone}
  BY RowsAssumption
<1>. QED BY <1>1, <1>2 DEF RowsOf

(* Sets of deliveries have a size.                                         *)
LEMMA Sizes ==
  /\ Cardinality(Deliveries) \in Nat
  /\ \A S \in SUBSET Deliveries :
       IsFiniteSet(S) /\ Cardinality(S) \in Nat /\ Cardinality(S) <= Cardinality(Deliveries)
  /\ \A S \in SUBSET Deliveries : \A T \in SUBSET S : Cardinality(T) <= Cardinality(S)
<1>1. IsFiniteSet(Deliveries)
  BY BoundsAssumption
<1>2. \A S \in SUBSET Deliveries :
        IsFiniteSet(S) /\ Cardinality(S) \in Nat /\ Cardinality(S) <= Cardinality(Deliveries)
  BY <1>1, FS_Subset, FS_CardinalityType
<1>3. \A S \in SUBSET Deliveries : \A T \in SUBSET S : Cardinality(T) <= Cardinality(S)
  BY <1>2, FS_Subset
<1>. QED BY <1>1, <1>2, <1>3, FS_CardinalityType

(* Who makes a byline has left those who are about to.                     *)
LEMMA NamingTurn ==
  ASSUME Typed, NEW x \in Deliveries, NEW to, Turns(x, to)
  PROVE  /\ Naming(job) \in SUBSET Deliveries /\ Naming(job') \in SUBSET Deliveries
         /\ to = Idle \/ to.at # "newByline" =>
              /\ Naming(job') \in SUBSET (Naming(job) \ {x})
              /\ Cardinality(Naming(job')) <= Cardinality(Naming(job))
              /\ x \in Naming(job) => Cardinality(Naming(job')) + 1 <= Cardinality(Naming(job))
<1>1. \A y \in Deliveries : job'[y] = IF y = x THEN to ELSE job[y]
  BY DEF Typed, Turns
<1>2. Naming(job) \in SUBSET Deliveries /\ Naming(job') \in SUBSET Deliveries
  BY DEF Naming
<1>3. ASSUME to = Idle \/ to.at # "newByline"
      PROVE  Naming(job') \in SUBSET (Naming(job) \ {x})
  BY <1>1, <1>3 DEF Naming
<1>4. ASSUME to = Idle \/ to.at # "newByline"
      PROVE  Cardinality(Naming(job')) <= Cardinality(Naming(job))
  BY <1>2, <1>3, <1>4, Sizes
<1>5. ASSUME to = Idle \/ to.at # "newByline", x \in Naming(job)
      PROVE  Cardinality(Naming(job')) + 1 <= Cardinality(Naming(job))
  <2>1. IsFiniteSet(Naming(job)) /\ Naming(job) \ {x} \in SUBSET Deliveries
    BY <1>2, Sizes
  <2>2. Cardinality(Naming(job) \ {x}) = Cardinality(Naming(job)) - 1
    BY <1>5, <2>1, FS_RemoveElement
  <2>3. Cardinality(Naming(job')) <= Cardinality(Naming(job) \ {x})
    BY <1>3, <1>5, <2>1, Sizes
  <2>4. Cardinality(Naming(job)) \in Nat /\ Cardinality(Naming(job')) \in Nat
    BY <1>2, Sizes
  <2>. QED BY <2>2, <2>3, <2>4
<1>. QED BY <1>2, <1>3, <1>4, <1>5

-----------------------------------------------------------------------------
(* A query keeps what is said of the engine, the articles and the bylines. *)

(* The engine's deliveries, when a request goes on or is lost to it.       *)
LEMMA HeededTurn ==
  ASSUME Typed, NEW x \in Deliveries, job[x] # Idle, NEW to, Turns(x, to), NEW d
  PROVE  /\ to # Idle /\ to.heard = job[x].heard => Heeded(job', d) = Heeded(job, d)
         /\ to = Idle \/ to.heard = FALSE => Heeded(job', d) = Heeded(job, d) \ {x}
<1>1. \A y \in Deliveries : job'[y] = IF y = x THEN to ELSE job[y]
  BY DEF Typed, Turns
<1>2. to # Idle => to.draft = job[x].draft
  BY DEF Turns
<1>3. ASSUME to # Idle, to.heard = job[x].heard
      PROVE  Heeded(job', d) = Heeded(job, d)
  BY <1>1, <1>2, <1>3 DEF Heeded, Serves
<1>4. ASSUME to = Idle \/ to.heard = FALSE
      PROVE  Heeded(job', d) = Heeded(job, d) \ {x}
  BY <1>1, <1>2, <1>4 DEF Heeded, Serves
<1>. QED BY <1>3, <1>4

LEMMA QueryHeeded ==
  ASSUME Typed, OneAwaited, NEW x \in Deliveries, Query(x)
  PROVE  OneAwaited'
<1>1. PICK to : Goal(x, to)
  BY QueryGoal
<1>2. job[x] # Idle /\ told' = told
  BY QueryGoal DEF Query, FindByDraft, FindByUrl, Refresh, FindTag, MakeTag, FindByline,
                   MakeByline, CheckSlug, Insert
<1>3. \A d \in Drafts : Heeded(job', d) = Heeded(job, d)
  <2>1. Turns(x, to) /\ to # Idle /\ to.heard = job[x].heard
    BY <1>1 DEF Goal
  <2>. QED BY <1>2, <2>1, HeededTurn
<1>. QED BY <1>2, <1>3 DEF OneAwaited

(* The articles of the drafts, unless one is created.                      *)
LEMMA QueryRows ==
  ASSUME Typed, NEW x \in Deliveries, Query(x), ~Insert(x), NEW d
  PROVE  RowsOf(rows', d) \subseteq RowsOf(rows, d)
<1>1. CASE UNCHANGED rows
  BY <1>1
<1>2. CASE rows' # rows
  <2> DEFINE a == job[x].found
             url == asked[job[x].draft].url
             row == [rows[a] EXCEPT !.version = @ + 1, !.url = IF url = NoUrl THEN @ ELSE url]
  <2>1. Refresh(x)
    BY <1>2 DEF Query, FindByDraft, FindByUrl, FindTag, MakeTag, FindByline, MakeByline, CheckSlug
  <2>2. a \in Stored /\ rows' = [rows EXCEPT ![a] = row]
    BY <1>2, <2>1 DEF Refresh
  <2>3. a \in Articles /\ rows[a] \notin {NoRow, Gone} /\ rows[a] \in Row
    BY <2>2 DEF Stored, Typed
  <2>4. row.draft = rows[a].draft
    <3>1. job[x].draft \in Drafts
      BY <2>1, RunningJob DEF Refresh, At
    <3>2. url \in Urls \cup {NoUrl}
      BY <3>1 DEF Typed, Asked
    <3> HIDE DEF a, url
    <3>. QED BY <2>3, <3>2, NewerRow
  <2> HIDE DEF a, row
  <2>. QED BY <2>2, <2>3, <2>4, RowsChanged
<1>. QED BY <1>1, <1>2

LEMMA QueryAlone ==
  ASSUME Typed, AllAlone, NEW x \in Deliveries, Query(x)
  PROVE  AllAlone'
<1>1. job[x] # Idle /\ UNCHANGED overlapped
  BY QueryGoal DEF Query, FindByDraft, FindByUrl, Refresh, FindTag, MakeTag, FindByline,
                   MakeByline, CheckSlug, Insert
<1> SUFFICES ASSUME NEW d \in Drafts \ overlapped
             PROVE  Alone(job', rows', d)
  BY <1>1 DEF AllAlone
<1>2. Alone(job, rows, d)
  BY DEF AllAlone
<1>3. PICK to : Goal(x, to)
  BY QueryGoal
<1>4. \A y \in Deliveries : job'[y] = IF y = x THEN to ELSE job[y]
  BY <1>3 DEF Typed, Goal, Turns
<1>5. \A y \in Deliveries : Serves(job', y, d) =>
        Serves(job, y, d) /\ (job'[y].at \in Unfound =>
                                job[y].at \in Unfound \/ RowsOf(rows, d) = {})
  BY <1>1, <1>3, <1>4 DEF Goal, Turns, Serves
<1>6. CASE RowsOf(rows', d) \subseteq RowsOf(rows, d)
  BY <1>2, <1>5, <1>6, StaysAlone
<1>7. CASE Insert(x)
  <2> DEFINE e == job[x].draft
             new == [draft |-> e, url |-> asked[e].url, slug |-> asked[e].slug, human |-> FALSE,
                       version |-> 1]
  <2>1. PICK a \in Articles : rows[a] = NoRow /\ rows' = [rows EXCEPT ![a] = new]
    BY <1>7 DEF Insert
  <2>2. e \in Drafts
    BY <1>1, RunningJob
  <2>3. asked[e] \in Asked
    BY <2>2 DEF Typed
  <2>4. new \in Row /\ new.draft = e
    BY <2>2, <2>3 DEF Row, Asked
  <2>5. job[x].at = "insert"
    BY <1>7 DEF Insert, At
  <2>6. PICK end \in Job : Turns(x, end) /\ end.at = "reply"
    BY <1>1, <1>7, Answers DEF Insert
  <2>7. job'[x].at = "reply"
    BY <2>6 DEF Turns, Typed
  <2> HIDE DEF new, e
  <2>8. /\ \A f \in Drafts \ {e} : RowsOf(rows', f) \subseteq RowsOf(rows, f)
        /\ RowsOf(rows, e) = {} => RowsOf(rows', e) = {a}
    BY <2>1, <2>4, RowsAdded
  <2>9. CASE d # e
    BY <1>6, <2>8, <2>9
  <2>10. CASE d = e
    <3>1. Serves(job, x, d)
      BY <1>1, <2>10 DEF Serves, e
    <3>2. RowsOf(rows, d) = {}
      BY <1>2, <2>5, <3>1 DEF Alone, Unfound
    <3>3. RowsOf(rows', d) = {a}
      BY <2>8, <2>10, <3>2
    <3>4. \A y \in Deliveries : Serves(job', y, d) => y = x
      BY <1>2, <1>5, <3>1 DEF Alone
    <3>5. \A y \in Deliveries : Serves(job', y, d) => job'[y].at \notin Unfound
      BY <2>7, <3>4 DEF Unfound
    <3>. QED BY <3>3, <3>4, <3>5 DEF Alone
  <2>. QED BY <2>9, <2>10
<1>. QED BY <1>6, <1>7, QueryRows

LEMMA QueryNamed ==
  ASSUME Typed, FewNamed, NEW x \in Deliveries, Query(x)
  PROVE  FewNamed'
<1>1. PICK to : Goal(x, to)
  BY QueryGoal
<1>2. Turns(x, to) /\ to # Idle
  BY <1>1 DEF Goal
<1>3. /\ Naming(job) \in SUBSET Deliveries /\ Naming(job') \in SUBSET Deliveries
      /\ to.at # "newByline" =>
           /\ Cardinality(Naming(job')) <= Cardinality(Naming(job))
           /\ x \in Naming(job) => Cardinality(Naming(job')) + 1 <= Cardinality(Naming(job))
  BY <1>2, NamingTurn
<1>4. /\ Cardinality(Naming(job)) \in Nat /\ Cardinality(Naming(job')) \in Nat
      /\ Cardinality(Deliveries) \in Nat /\ Cardinality(Naming(job')) <= Cardinality(Deliveries)
  BY <1>3, Sizes
<1>5. bylines \in Nat /\ bylines + Cardinality(Naming(job)) <= Cardinality(Deliveries)
  BY DEF Typed, FewNamed
<1> SUFFICES bylines' + Cardinality(Naming(job')) <= Cardinality(Deliveries)
  BY DEF FewNamed
<1>6. CASE to.at = "newByline"
  <2>1. bylines' = 0
    BY <1>1, <1>6 DEF Goal
  <2>. QED BY <1>4, <2>1
<1>7. CASE to.at # "newByline" /\ MakeByline(x)
  <2>1. x \in Naming(job) /\ bylines' = bylines + 1
    BY <1>7 DEF MakeByline, At, Naming
  <2>. QED BY <1>3, <1>4, <1>5, <1>7, <2>1
<1>8. CASE to.at # "newByline" /\ ~MakeByline(x)
  <2>1. bylines' = bylines
    BY <1>8 DEF Query, FindByDraft, FindByUrl, Refresh, FindTag, MakeTag, FindByline, CheckSlug,
                Insert
  <2>. QED BY <1>3, <1>4, <1>5, <1>8, <2>1
<1>. QED BY <1>6, <1>7, <1>8

LEMMA QueryStep ==
  ASSUME IntakeInv, NEW x \in Deliveries, Query(x)
  PROVE  IntakeInv'
<1>1. Typed /\ OneAwaited /\ AllAlone /\ FewNamed
  BY DEF IntakeInv
<1>2. Typed'
  BY <1>1, QueryTyped
<1>3. OneAwaited'
  BY <1>1, QueryHeeded
<1>4. AllAlone'
  BY <1>1, QueryAlone
<1>5. FewNamed'
  BY <1>1, QueryNamed
<1>. QED BY <1>2, <1>3, <1>4, <1>5 DEF IntakeInv

-----------------------------------------------------------------------------
(* A delivery ends, or the engine stops waiting for it. *)

(* Whoever was heard is heard no more, and the engine knows.               *)
Lost(x, to, what) ==
  /\ Turns(x, to)
  /\ to = Idle \/ (to.heard = FALSE /\ to.at = job[x].at)
  /\ what \in {"nothing", "stored", "refused", "again"}
  /\ told' = IF job[x].heard THEN [told EXCEPT ![job[x].draft] = what] ELSE told
  /\ UNCHANGED <<asked, mayUpdate, rows, tagged, bylines, edits, overlapped>>
  /\ faults' \in 0..MaxFaults /\ timeouts' \in 0..MaxTimeouts

LEMMA LostTyped ==
  ASSUME Typed, NEW x \in Deliveries, job[x] # Idle, NEW to, NEW what, Lost(x, to, what)
  PROVE  Typed'
<1>1. job' \in [Deliveries -> Job \cup {Idle}]
  BY DEF Lost, Turns, Typed
<1>2. told' \in [Drafts -> {"nothing", "waiting", "stored", "refused", "again"}]
  BY DEF Lost, Typed
<1>. QED BY <1>1, <1>2 DEF Lost, Typed

LEMMA LostHeeded ==
  ASSUME Typed, OneAwaited, NEW x \in Deliveries, job[x] # Idle, NEW to, NEW what,
         Lost(x, to, what)
  PROVE  OneAwaited'
<1>1. job[x].draft \in Drafts
  BY RunningJob
<1>2. \A d \in Drafts : Heeded(job', d) = Heeded(job, d) \ {x}
  BY HeededTurn DEF Lost
<1>3. CASE ~job[x].heard
  <2>1. told' = told
    BY <1>3 DEF Lost
  <2>2. \A d \in Drafts : x \notin Heeded(job, d)
    BY <1>3 DEF Heeded
  <2>3. \A d \in Drafts : Heeded(job', d) = Heeded(job, d)
    BY <1>2, <2>2
  <2>. QED BY <2>1, <2>3 DEF OneAwaited
<1>4. CASE job[x].heard
  <2>1. told' = [told EXCEPT ![job[x].draft] = what] /\ what # "waiting"
    BY <1>4 DEF Lost
  <2>2. told'[job[x].draft] = what
    BY <1>1, <2>1 DEF Typed
  <2>3. x \in Heeded(job, job[x].draft)
    BY <1>4 DEF Heeded, Serves
  <2>4. Heeded(job, job[x].draft) = {x}
    BY <1>1, <2>3 DEF OneAwaited
  <2> SUFFICES ASSUME NEW d \in Drafts
               PROVE  IF told'[d] = "waiting" THEN \E y \in Deliveries : Heeded(job', d) = {y}
                                              ELSE Heeded(job', d) = {}
    BY DEF OneAwaited
  <2>5. CASE d = job[x].draft
    BY <1>2, <2>1, <2>2, <2>4, <2>5
  <2>6. CASE d # job[x].draft
    <3>1. told'[d] = told[d]
      BY <2>1, <2>6 DEF Typed
    <3>2. x \notin Heeded(job, d)
      BY <2>6 DEF Heeded, Serves
    <3>3. Heeded(job', d) = Heeded(job, d)
      BY <1>2, <3>2
    <3>. QED BY <3>1, <3>3 DEF OneAwaited
  <2>. QED BY <2>5, <2>6
<1>. QED BY <1>3, <1>4

LEMMA LostStep ==
  ASSUME IntakeInv, NEW x \in Deliveries, job[x] # Idle, NEW to, NEW what, Lost(x, to, what)
  PROVE  IntakeInv'
<1>1. Typed /\ OneAwaited /\ AllAlone /\ FewNamed
  BY DEF IntakeInv
<1>2. Typed'
  BY <1>1, LostTyped
<1>3. OneAwaited'
  BY <1>1, LostHeeded
<1>4. \A y \in Deliveries : job'[y] = IF y = x THEN to ELSE job[y]
  BY <1>1 DEF Typed, Lost, Turns
<1>5. UNCHANGED <<rows, bylines, overlapped>>
  BY DEF Lost
<1>6. AllAlone'
  <2> SUFFICES ASSUME NEW d \in Drafts \ overlapped
               PROVE  Alone(job', rows', d)
    BY <1>5 DEF AllAlone
  <2>1. Alone(job, rows, d)
    BY <1>1 DEF AllAlone
  <2>2. \A y \in Deliveries : Serves(job', y, d) =>
          Serves(job, y, d) /\ (job'[y].at \in Unfound => job[y].at \in Unfound)
    BY <1>4 DEF Lost, Turns, Serves
  <2>3. RowsOf(rows', d) \subseteq RowsOf(rows, d)
    BY <1>5
  <2>. QED BY <2>1, <2>2, <2>3, StaysAlone
<1>7. FewNamed'
  <2>1. Naming(job') \in SUBSET Naming(job) /\ Naming(job) \in SUBSET Deliveries
    BY <1>4 DEF Naming, Lost
  <2>2. Cardinality(Naming(job')) <= Cardinality(Naming(job))
    BY <2>1, Sizes
  <2>3. /\ Cardinality(Naming(job)) \in Nat /\ Cardinality(Naming(job')) \in Nat
        /\ Cardinality(Deliveries) \in Nat
    BY <2>1, Sizes
  <2>4. bylines \in Nat /\ bylines + Cardinality(Naming(job)) <= Cardinality(Deliveries)
    BY <1>1 DEF Typed, FewNamed
  <2>5. bylines' + Cardinality(Naming(job')) <= Cardinality(Deliveries)
    BY <1>5, <2>2, <2>3, <2>4
  <2>. QED BY <2>5 DEF FewNamed
<1>. QED BY <1>2, <1>3, <1>6, <1>7 DEF IntakeInv

LEMMA EndStep ==
  ASSUME IntakeInv, NEW x \in Deliveries, Reply(x) \/ Fault(x) \/ TimeOut(x)
  PROVE  IntakeInv'
<1>1. Typed /\ job[x] # Idle
  BY DEF IntakeInv, Reply, Fault, TimeOut, At
<1>2. job[x] \in Job
  BY <1>1, RunningJob
<1>3. faults \in 0..MaxFaults /\ timeouts \in 0..MaxTimeouts
  BY <1>1 DEF Typed
<1>4. job[x].says \in {"nothing", "stored", "refused", "again"}
  BY <1>2 DEF Job
<1>5. CASE Reply(x)
  <2>1. Lost(x, Idle, job[x].says)
    BY <1>3, <1>4, <1>5 DEF Reply, Lost, Turns
  <2>. QED BY <1>1, <2>1, LostStep
<1>6. CASE Fault(x)
  <2>1. faults' \in 0..MaxFaults
    BY <1>3, <1>6, BoundsAssumption DEF Fault
  <2>2. Lost(x, Idle, "again")
    BY <1>3, <1>6, <2>1 DEF Fault, Lost, Turns
  <2>. QED BY <1>1, <2>2, LostStep
<1>7. CASE TimeOut(x)
  <2> DEFINE to == [job[x] EXCEPT !.heard = FALSE]
  <2>1. timeouts' \in 0..MaxTimeouts
    BY <1>3, <1>7, BoundsAssumption DEF TimeOut
  <2>2. to \in Job /\ to.heard = FALSE /\ to.at = job[x].at /\ to.draft = job[x].draft
    BY <1>2 DEF Job
  <2>3. job' = [job EXCEPT ![x] = to] /\ job[x].heard
    BY <1>7 DEF TimeOut
  <2>4. told' = [told EXCEPT ![job[x].draft] = "again"]
    BY <1>7 DEF TimeOut
  <2>5. UNCHANGED <<asked, mayUpdate, rows, tagged, bylines, faults, edits, overlapped>>
    BY <1>7 DEF TimeOut
  <2> HIDE DEF to
  <2>6. Lost(x, to, "again")
    BY <1>3, <2>1, <2>2, <2>3, <2>4, <2>5 DEF Lost, Turns
  <2>. QED BY <1>1, <2>6, LostStep
<1>. QED BY <1>5, <1>6, <1>7

-----------------------------------------------------------------------------
(* A delivery begins, and an editor acts. *)

LEMMA BeginStep ==
  ASSUME IntakeInv, NEW x \in Deliveries, NEW d \in Drafts, Begin(x, d)
  PROVE  IntakeInv'
<1> DEFINE new == [draft |-> d, at |-> "byDraft", found |-> NoRow, barred |-> FALSE,
                   says |-> "nothing", heard |-> TRUE]
<1>1. Typed /\ OneAwaited /\ AllAlone /\ FewNamed
  BY DEF IntakeInv
<1>2. new \in Job /\ new # Idle /\ new.draft = d /\ new.heard = TRUE /\ new.at = "byDraft"
  <2>1. new \in Job
    BY DEF Job, Steps
  <2>2. Idle \notin Job
    BY RowsAssumption
  <2>3. new.draft = d /\ new.heard = TRUE /\ new.at = "byDraft"
    OBVIOUS
  <2> HIDE DEF new
  <2>. QED BY <2>1, <2>2, <2>3
<1>3. /\ job[x] = Idle /\ told[d] # "waiting"
      /\ told' = [told EXCEPT ![d] = "waiting"] /\ job' = [job EXCEPT ![x] = new]
      /\ overlapped' = IF \E y \in Deliveries : Serves(job, y, d)
                       THEN overlapped \cup {d} ELSE overlapped
      /\ UNCHANGED <<asked, mayUpdate, rows, tagged, bylines, faults, timeouts, edits>>
  BY DEF Begin, MaySend, Serves
<1> HIDE DEF new
<1>4. \A y \in Deliveries : job'[y] = IF y = x THEN new ELSE job[y]
  BY <1>1, <1>3 DEF Typed
<1>5. Typed'
  <2>1. job' \in [Deliveries -> Job \cup {Idle}]
    BY <1>1, <1>2, <1>3 DEF Typed
  <2>2. told' \in [Drafts -> {"nothing", "waiting", "stored", "refused", "again"}]
    BY <1>1, <1>3 DEF Typed
  <2>3. overlapped' \subseteq Drafts
    BY <1>1, <1>3 DEF Typed
  <2>. QED BY <1>1, <1>3, <2>1, <2>2, <2>3 DEF Typed
<1>6. OneAwaited'
  <2> SUFFICES ASSUME NEW e \in Drafts
               PROVE  IF told'[e] = "waiting" THEN \E y \in Deliveries : Heeded(job', e) = {y}
                                              ELSE Heeded(job', e) = {}
    BY DEF OneAwaited
  <2>1. CASE e = d
    <3>1. Heeded(job, d) = {}
      BY <1>1, <1>3 DEF OneAwaited
    <3>2. Heeded(job', d) = {x}
      BY <1>2, <1>4, <3>1 DEF Heeded, Serves
    <3>3. told'[d] = "waiting"
      BY <1>1, <1>3 DEF Typed
    <3>. QED BY <2>1, <3>2, <3>3
  <2>2. CASE e # d
    <3>1. Heeded(job', e) = Heeded(job, e)
      BY <1>2, <1>3, <1>4, <2>2 DEF Heeded, Serves
    <3>2. told'[e] = told[e]
      BY <1>1, <1>3, <2>2 DEF Typed
    <3>. QED BY <1>1, <3>1, <3>2 DEF OneAwaited
  <2>. QED BY <2>1, <2>2
<1>7. AllAlone'
  <2> SUFFICES ASSUME NEW e \in Drafts \ overlapped'
               PROVE  Alone(job', rows', e)
    BY DEF AllAlone
  <2>1. e \notin overlapped /\ UNCHANGED rows
    BY <1>3
  <2>2. Alone(job, rows, e)
    BY <1>1, <2>1 DEF AllAlone
  <2>3. CASE e # d
    <3>1. \A y \in Deliveries : Serves(job', y, e) =>
            Serves(job, y, e) /\ job'[y].at = job[y].at
      BY <1>2, <1>4, <2>3 DEF Serves
    <3>. QED BY <2>1, <2>2, <3>1, StaysAlone
  <2>4. CASE e = d
    <3>1. \A y \in Deliveries : ~Serves(job, y, d)
      BY <1>3, <2>4
    <3>2. \A y \in Deliveries : Serves(job', y, d) => y = x /\ job'[y].at = "byDraft"
      BY <1>2, <1>4, <3>1 DEF Serves
    <3>. QED BY <2>1, <2>2, <2>4, <3>2 DEF Alone, Unfound
  <2>. QED BY <2>3, <2>4
<1>8. FewNamed'
  <2>1. Naming(job') = Naming(job)
    BY <1>2, <1>3, <1>4 DEF Naming
  <2>. QED BY <1>1, <1>3, <2>1 DEF FewNamed
<1>. QED BY <1>5, <1>6, <1>7, <1>8 DEF IntakeInv

LEMMA EditStep ==
  ASSUME IntakeInv, NEW a \in Articles, Edit(a)
  PROVE  IntakeInv'
<1>1. Typed /\ OneAwaited /\ AllAlone /\ FewNamed
  BY DEF IntakeInv
<1>2. rows[a] \in Row /\ rows[a] \notin {NoRow, Gone}
  BY <1>1 DEF Typed, Edit, Stored
<1>3. UNCHANGED <<asked, mayUpdate, tagged, bylines, job, told, faults, timeouts, overlapped>>
  BY DEF Edit
<1>4. PICK row \in Row \cup {Gone} :
        rows' = [rows EXCEPT ![a] = row] /\ (row = Gone \/ row.draft = rows[a].draft)
  <2>1. CASE rows' = [rows EXCEPT ![a] = Gone]
    BY <2>1
  <2>2. ASSUME NEW s \in Slugs, rows' = [rows EXCEPT ![a].human = TRUE, ![a].slug = s, ![a].version = @ + 1]
        PROVE  \E row \in Row \cup {Gone} :
                 rows' = [rows EXCEPT ![a] = row] /\ (row = Gone \/ row.draft = rows[a].draft)
    <3> DEFINE row == [rows[a] EXCEPT !.human = TRUE, !.slug = s, !.version = @ + 1]
    <3>1. row \in Row /\ row.draft = rows[a].draft
      BY <1>2, EditedRow
    <3>2. rows' = [rows EXCEPT ![a] = row]
      BY <2>2
    <3> HIDE DEF row
    <3>. QED BY <3>1, <3>2
  <2>. QED BY <2>1, <2>2 DEF Edit
<1>5. Typed'
  <2>1. edits' \in 0..MaxEdits
    <3>1. edits' = edits + 1 /\ edits < MaxEdits
      BY DEF Edit
    <3>2. edits \in 0..MaxEdits
      BY <1>1 DEF Typed
    <3>. QED BY <3>1, <3>2, BoundsAssumption
  <2>2. rows' \in [Articles -> Row \cup {NoRow, Gone}]
    BY <1>1, <1>4 DEF Typed
  <2>. QED BY <1>1, <1>3, <2>1, <2>2 DEF Typed
<1>6. OneAwaited'
  BY <1>1, <1>3 DEF OneAwaited
<1>7. AllAlone'
  <2> SUFFICES ASSUME NEW d \in Drafts \ overlapped
               PROVE  Alone(job', rows', d)
    BY <1>3 DEF AllAlone
  <2>1. Alone(job, rows, d)
    BY <1>1 DEF AllAlone
  <2>2. RowsOf(rows', d) \subseteq RowsOf(rows, d)
    BY <1>1, <1>2, <1>4, RowsChanged
  <2>. QED BY <1>3, <2>1, <2>2, StaysAlone
<1>8. FewNamed'
  BY <1>1, <1>3 DEF FewNamed
<1>. QED BY <1>5, <1>6, <1>7, <1>8 DEF IntakeInv

-----------------------------------------------------------------------------
(* The invariant. *)

LEMMA IntakeInit == Init => IntakeInv
<1> SUFFICES ASSUME Init
             PROVE  IntakeInv
  OBVIOUS
<1>1. PICK own \in {NoRow, [draft |-> NoDraft, url |-> NoUrl, slug |-> Taken, human |-> TRUE,
                       version |-> 1]} :
        rows = [a \in Articles |-> IF a = 1 THEN own ELSE NoRow]
  BY DEF Init
<1>2. own \in Row \cup {NoRow} /\ (own # NoRow => own.draft = NoDraft)
  <2> DEFINE taken == [draft |-> NoDraft, url |-> NoUrl, slug |-> Taken, human |-> TRUE,
                       version |-> 1]
  <2>1. taken \in Row /\ taken.draft = NoDraft
    BY TakenAssumption DEF Row
  <2>2. own = NoRow \/ own = taken
    OBVIOUS
  <2> HIDE DEF taken
  <2>. QED BY <2>1, <2>2
<1>3. Typed
  <2>1. rows \in [Articles -> Row \cup {NoRow, Gone}]
    BY <1>1, <1>2
  <2>2. /\ 0 \in 0..MaxFaults /\ 0 \in 0..MaxTimeouts /\ 0 \in 0..MaxEdits
    BY BoundsAssumption
  <2>. QED BY <2>1, <2>2 DEF Init, Typed
<1>4. \A x \in Deliveries : job[x] = Idle
  BY DEF Init
<1>5. OneAwaited
  BY <1>4 DEF Init, OneAwaited, Heeded, Serves
<1>6. AllAlone
  <2>1. \A d \in Drafts : RowsOf(rows, d) = {}
    BY <1>1, <1>2, NonesAssumption DEF RowsOf
  <2>. QED BY <1>4, <2>1 DEF AllAlone, Alone, Serves
<1>7. FewNamed
  <2>1. Naming(job) = {} /\ bylines = 0
    BY <1>4 DEF Naming, Init
  <2>2. Cardinality(Naming(job)) = 0 /\ Cardinality(Deliveries) \in Nat
    BY <2>1, FS_EmptySet, Sizes
  <2>. QED BY <2>1, <2>2 DEF FewNamed
<1>. QED BY <1>3, <1>5, <1>6, <1>7 DEF IntakeInv

LEMMA IntakeNext == IntakeInv /\ [Next]_vars => IntakeInv'
<1> SUFFICES ASSUME IntakeInv, [Next]_vars
             PROVE  IntakeInv'
  OBVIOUS
<1>1. ASSUME NEW x \in Deliveries, Step(x)
      PROVE  IntakeInv'
  <2>1. Query(x) \/ Reply(x)
    BY <1>1 DEF Step, Query
  <2>. QED BY <2>1, QueryStep, EndStep
<1>2. CASE UNCHANGED vars
  BY <1>2 DEF vars, IntakeInv, Typed, OneAwaited, AllAlone, FewNamed
<1>. QED BY <1>1, <1>2, EndStep, BeginStep, EditStep DEF Next

(* The types of the intake; and the engine waits for one delivery of a     *)
(* draft when it waits, and for none when it does not.                     *)
THEOREM TypeCorrect == Spec => []TypeOK
<1>1. IntakeInv => TypeOK
  <2> SUFFICES ASSUME IntakeInv
               PROVE  TypeOK
    OBVIOUS
  <2>1. \A d \in Drafts : Heard(d) = Heeded(job, d)
    BY DEF Heard, Heeded, Serves
  <2>2. \A d \in Drafts : Cardinality(Heard(d)) = IF told[d] = "waiting" THEN 1 ELSE 0
    BY <2>1, FS_Singleton, FS_EmptySet DEF IntakeInv, OneAwaited
  <2>. QED BY <2>2 DEF IntakeInv, Typed, TypeOK
<1>. QED BY <1>1, IntakeInit, IntakeNext, PTL DEF Spec

(* Nothing is doubled but by deliveries that overlap: a draft has a second *)
(* article only if two deliveries of it ran at one time, whatever was      *)
(* lost, sent again, edited or deleted; and there are never more rows of   *)
(* the author than deliveries that may run at one time.                    *)
THEOREM DoublesAreExplained == Spec => []DoublesNeedOverlap
<1>1. IntakeInv => DoublesNeedOverlap
  <2> SUFFICES ASSUME IntakeInv
               PROVE  DoublesNeedOverlap
    OBVIOUS
  <2>1. TwinsNeedOverlap
    <3> SUFFICES ASSUME NEW d \in Drafts \ overlapped
                 PROVE  Cardinality(ArticlesOf(d)) <= 1
      BY DEF TwinsNeedOverlap
    <3>1. ArticlesOf(d) = RowsOf(rows, d)
      BY DEF ArticlesOf, RowsOf, Stored
    <3>2. \A a, b \in ArticlesOf(d) : a = b
      BY <3>1 DEF IntakeInv, AllAlone, Alone
    <3>3. ArticlesOf(d) = {} \/ \E a : ArticlesOf(d) = {a}
      BY <3>2
    <3>4. CASE ArticlesOf(d) = {}
      BY <3>4, FS_EmptySet
    <3>5. ASSUME NEW a, ArticlesOf(d) = {a}
          PROVE  Cardinality(ArticlesOf(d)) <= 1
      <4>1. Cardinality({a}) = 1
        BY FS_Singleton
      <4>. QED BY <3>5, <4>1
    <3>. QED BY <3>3, <3>4, <3>5
  <2>2. BylinesStayFew
    <3>1. Naming(job) \in SUBSET Deliveries
      BY DEF Naming
    <3>2. Cardinality(Naming(job)) \in Nat /\ Cardinality(Deliveries) \in Nat
      BY <3>1, Sizes
    <3>. QED BY <3>2 DEF IntakeInv, Typed, FewNamed, BylinesStayFew
  <2>. QED BY <2>1, <2>2 DEF DoublesNeedOverlap
<1>. QED BY <1>1, IntakeInit, IntakeNext, PTL DEF Spec

-----------------------------------------------------------------------------
(* What is refused is known to be refused for a reason. *)

(* An article the engine did not make has no source; one that it made is   *)
(* marked as human only by an edit, and its draft lacks nothing.           *)
KnownRow(row, e) ==
  row \in Row => IF row.draft = NoDraft THEN row.url = NoUrl
                 ELSE (row.human => e > 0) /\ row.draft \notin Lacking

(* Some article is the engine's.                                           *)
Engines(r) == \E a \in Articles : r[a] \in Row /\ r[a].draft \in Drafts

(* Nor does a delivery find what the engine did not make; it is barred and *)
(* refused for a reason; and it answers what it has done.                  *)
MayBar(d, r, e) == e > 0 \/ (d \in Strict /\ Engines(r))

KnownJob(j, r, e) ==
  /\ j.at = "refresh" =>
       /\ j.found \in Articles /\ r[j.found] \in Row => r[j.found].draft # NoDraft
       /\ j.barred => MayBar(j.draft, r, e)
  /\ j.at \in {"newTag", "byline"} => asked[j.draft].lacks # "pillar"
  /\ j.at \in {"newByline", "slug", "insert"} => j.draft \notin Lacking
  /\ j.at = "reply" =>
       /\ j.says \in {"stored", "refused", "again"}
       /\ j.says = "refused" => j.draft \in Lacking \/ MayBar(j.draft, r, e)


HumansKnown ==
  /\ \A a \in Articles : KnownRow(rows[a], edits)
  /\ \A x \in Deliveries : job[x] # Idle => KnownJob(job[x], rows, edits)

(* The terms of the deliveries stay as they are.                           *)
LEMMA KnownThen ==
  ASSUME UNCHANGED <<asked, mayUpdate>>,
         \A a \in Articles : KnownRow(rows'[a], edits'),
         \A y \in Deliveries : job'[y] # Idle => KnownJob(job'[y], rows', edits')
  PROVE  HumansKnown'
<1>1. Lacking' = Lacking /\ Strict' = Strict
  BY DEF Lacking, Strict
<1>2. \A a \in Articles : KnownRow(rows[a], edits)'
  BY <1>1 DEF KnownRow
<1>. QED BY <1>1, <1>2 DEF HumansKnown, KnownJob, MayBar, Engines

(* Rows change: the new one is as it should be, and stays the draft's.     *)
LEMMA RowKnown ==
  ASSUME Typed, HumansKnown, NEW a \in Articles, NEW row, rows' = [rows EXCEPT ![a] = row],
         edits' \in Nat, edits' >= edits, KnownRow(row, edits'),
         row \in Row => row.draft # NoDraft \/ (rows[a] \in Row /\ rows[a].draft = NoDraft),
         edits' > 0 \/ rows[a] = NoRow \/ (row \in Row /\ row.draft = rows[a].draft)
  PROVE  /\ \A b \in Articles : KnownRow(rows'[b], edits')
         /\ \A x \in Deliveries : job[x] # Idle => KnownJob(job[x], rows', edits')
<1>1. \A b \in Articles : rows'[b] = IF b = a THEN row ELSE rows[b]
  BY DEF Typed
<1>2. edits \in Nat
  BY BoundsAssumption DEF Typed
<1>3. \A b \in Articles : KnownRow(rows'[b], edits')
  BY <1>1, <1>2 DEF KnownRow, HumansKnown
<1>4. ASSUME NEW x \in Deliveries, job[x] # Idle
      PROVE  KnownJob(job[x], rows', edits')
  <2>1. KnownJob(job[x], rows, edits)
    BY <1>4 DEF HumansKnown
  <2>2. ASSUME MayBar(job[x].draft, rows, edits)
        PROVE  MayBar(job[x].draft, rows', edits')
    <3>1. CASE edits' > 0
      BY <3>1 DEF MayBar
    <3>2. CASE ~(edits' > 0)
      <4>1. ~(edits > 0)
        BY <1>2, <3>2
      <4>2. PICK b \in Articles : rows[b] \in Row /\ rows[b].draft \in Drafts
        BY <2>2, <4>1 DEF MayBar, Engines
      <4>3. rows'[b] \in Row /\ rows'[b].draft \in Drafts
        BY <1>1, <3>2, <4>2, RowsAssumption
      <4>. QED BY <2>2, <4>1, <4>3 DEF MayBar, Engines
    <3>. QED BY <3>1, <3>2
  <2>3. job[x].at = "reply" =>
          /\ job[x].says \in {"stored", "refused", "again"}
          /\ job[x].says = "refused" =>
               job[x].draft \in Lacking \/ MayBar(job[x].draft, rows', edits')
    BY <2>1, <2>2 DEF KnownJob
  <2>4. job[x].at = "refresh" /\ job[x].found \in Articles /\ rows'[job[x].found] \in Row
          => rows'[job[x].found].draft # NoDraft
    BY <1>1, <2>1 DEF KnownJob
  <2>. QED BY <2>1, <2>2, <2>3, <2>4 DEF KnownJob
<1>. QED BY <1>3, <1>4

(* One request changes, when the rows are as they should be.               *)
AllKnown ==
  /\ \A a \in Articles : KnownRow(rows'[a], edits')
  /\ \A y \in Deliveries : job[y] # Idle => KnownJob(job[y], rows', edits')

LEMMA JobKnown ==
  ASSUME Typed, AllKnown, UNCHANGED <<asked, mayUpdate>>, NEW x \in Deliveries, NEW to,
         job' = [job EXCEPT ![x] = to],
         to # Idle => KnownJob(to, rows', edits')
  PROVE  HumansKnown'
<1>1. \A y \in Deliveries : job'[y] = IF y = x THEN to ELSE job[y]
  BY DEF Typed
<1>2. \A a \in Articles : KnownRow(rows'[a], edits')
  BY DEF AllKnown
<1>3. ASSUME NEW y \in Deliveries, job'[y] # Idle
      PROVE  KnownJob(job'[y], rows', edits')
  BY <1>1, <1>3 DEF AllKnown
<1>. QED BY <1>2, <1>3, KnownThen

LEMMA KnownStill == HumansKnown /\ UNCHANGED <<rows, edits>> => AllKnown
BY DEF HumansKnown, AllKnown

LEMMA GoesKnown ==
  ASSUME Typed, HumansKnown, UNCHANGED <<asked, mayUpdate>>,
         NEW x \in Deliveries, job[x] # Idle, UNCHANGED <<rows, edits>>,
         NEW step \in Unfound, Goes(x, step),
         step \in {"newTag", "byline"} => asked[job[x].draft].lacks # "pillar",
         step \in {"newByline", "slug", "insert"} => job[x].draft \notin Lacking
  PROVE  HumansKnown'
<1> DEFINE to == [job[x] EXCEPT !.at = step]
<1>1. job[x] \in Job /\ KnownJob(job[x], rows, edits)
  BY RunningJob DEF HumansKnown
<1>2. to.at = step /\ to.draft = job[x].draft
  BY <1>1 DEF Job
<1>3. job' = [job EXCEPT ![x] = to]
  BY DEF Goes
<1> HIDE DEF to
<1>4. KnownJob(to, rows', edits')
  BY <1>2 DEF KnownJob, Unfound
<1>. QED BY <1>3, <1>4, JobKnown, KnownStill

LEMMA SaysKnown ==
  ASSUME Typed, AllKnown, UNCHANGED <<asked, mayUpdate>>, NEW x \in Deliveries, job[x] # Idle,
         NEW what \in {"stored", "refused", "again"}, Says(x, what),
         what = "refused" => job[x].draft \in Lacking \/ MayBar(job[x].draft, rows', edits')
  PROVE  HumansKnown'
<1> DEFINE to == [job[x] EXCEPT !.at = "reply", !.says = what]
<1>1. job[x] \in Job /\ KnownJob(job[x], rows', edits')
  BY RunningJob DEF AllKnown
<1>2. to.at = "reply" /\ to.says = what /\ to.draft = job[x].draft
  BY <1>1 DEF Job
<1>3. job' = [job EXCEPT ![x] = to]
  BY DEF Says
<1> HIDE DEF to
<1>4. KnownJob(to, rows', edits')
  BY <1>1, <1>2 DEF KnownJob
<1>. QED BY <1>3, <1>4, JobKnown

LEMMA LookUpKnown ==
  ASSUME Typed, HumansKnown, UNCHANGED <<asked, mayUpdate>>, NEW x \in Deliveries, job[x] # Idle, UNCHANGED <<rows, edits>>,
         NEW found \in SUBSET Stored, \A a \in found : rows[a].draft # NoDraft,
         NEW else \in {"byUrl", "tag"}, LookUp(x, found, else)
  PROVE  HumansKnown'
<1>1. CASE found = {}
  <2>1. Goes(x, else) /\ else \in Unfound /\ else \notin {"newTag", "byline", "newByline", "slug", "insert"}
    BY <1>1 DEF LookUp, Unfound
  <2>. QED BY <2>1, GoesKnown
<1>2. CASE found # {}
  <2>1. PICK a \in found :
          job' = [job EXCEPT ![x].at = "refresh", ![x].found = a, ![x].barred = Bars(a, job[x].draft)]
    BY <1>2 DEF LookUp
  <2> DEFINE to == [job[x] EXCEPT !.at = "refresh", !.found = a, !.barred = Bars(a, job[x].draft)]
  <2>2. job[x] \in Job
    BY RunningJob
  <2>3. a \in Articles /\ rows[a] \in Row /\ rows[a].draft # NoDraft
    BY DEF Stored, Typed
  <2>4. Bars(a, job[x].draft) => MayBar(job[x].draft, rows, edits)
    <3>1. rows[a].human => edits > 0
      BY <2>3 DEF HumansKnown, KnownRow
    <3>2. rows[a].draft \in Drafts /\ job[x].draft \in Drafts
      BY <2>2, <2>3 DEF Row, Job
    <3>3. Engines(rows)
      BY <2>3, <3>2 DEF Engines
    <3>. QED BY <3>1, <3>2, <3>3 DEF Bars, MayBar, Strict
  <2>5. /\ to.at = "refresh" /\ to.found = a /\ to.draft = job[x].draft
        /\ to.barred = Bars(a, job[x].draft)
    BY <2>2 DEF Job
  <2>6. job' = [job EXCEPT ![x] = to]
    BY <2>1
  <2> HIDE DEF to
  <2>7. KnownJob(to, rows', edits')
    BY <2>3, <2>4, <2>5 DEF KnownJob
  <2>. QED BY <2>6, <2>7, JobKnown, KnownStill
<1>. QED BY <1>1, <1>2

-----------------------------------------------------------------------------
(* Each action keeps this. *)

LEMMA LookingKnown ==
  ASSUME Typed, HumansKnown, NEW x \in Deliveries, FindByDraft(x) \/ FindByUrl(x)
  PROVE  HumansKnown'
<1>1. job[x] # Idle /\ UNCHANGED <<rows, edits>> /\ UNCHANGED <<asked, mayUpdate>>
  BY DEF FindByDraft, FindByUrl, At
<1>2. job[x].draft \in Drafts
  BY <1>1, RunningJob
<1>3. CASE FindByDraft(x)
  <2> DEFINE found == ByDraft(job[x].draft)
  <2>1. found \in SUBSET Stored /\ \A a \in found : rows[a].draft # NoDraft
    BY <1>2, NonesAssumption DEF ByDraft, Stored
  <2>2. LookUp(x, found, "byUrl")
    BY <1>3 DEF FindByDraft
  <2> HIDE DEF found
  <2>. QED BY <1>1, <2>1, <2>2, LookUpKnown
<1>4. CASE FindByUrl(x)
  <2> DEFINE found == ByUrl(job[x].draft)
  <2>1. found \in SUBSET Stored
    BY DEF ByUrl
  <2>2. ASSUME NEW a \in found
        PROVE  rows[a].draft # NoDraft
    <3>1. a \in Articles /\ rows[a] \in Row /\ rows[a].url # NoUrl
      BY <2>2 DEF ByUrl, Stored, Typed
    <3>. QED BY <3>1 DEF HumansKnown, KnownRow
  <2>3. LookUp(x, found, "tag")
    BY <1>4 DEF FindByUrl
  <2> HIDE DEF found
  <2>. QED BY <1>1, <2>1, <2>2, <2>3, LookUpKnown
<1>. QED BY <1>3, <1>4

LEMMA RefreshKnown ==
  ASSUME Typed, HumansKnown, NEW x \in Deliveries, Refresh(x)
  PROVE  HumansKnown'
<1> DEFINE a == job[x].found
           url == asked[job[x].draft].url
<1>1. job[x] # Idle /\ job[x].at = "refresh" /\ edits' = edits /\ UNCHANGED <<asked, mayUpdate>>
  BY DEF Refresh, At
<1>2. job[x] \in Job /\ KnownJob(job[x], rows, edits)
  BY <1>1, RunningJob DEF HumansKnown
<1>3. edits \in Nat
  BY BoundsAssumption DEF Typed
<1>4. CASE job[x].barred /\ Says(x, "refused") /\ UNCHANGED rows
  <2>1. MayBar(job[x].draft, rows', edits')
    BY <1>1, <1>2, <1>4 DEF KnownJob
  <2>. QED BY <1>1, <1>4, <2>1, SaysKnown, KnownStill
<1>5. CASE Says(x, "again") /\ UNCHANGED rows
  BY <1>1, <1>5, SaysKnown, KnownStill
<1>6. CASE /\ a \in Stored /\ Says(x, "stored")
           /\ rows' = [rows EXCEPT ![a].version = @ + 1,
                                  ![a].url = IF url = NoUrl THEN @ ELSE url]
  <2> DEFINE row == [rows[a] EXCEPT !.version = @ + 1, !.url = IF url = NoUrl THEN @ ELSE url]
  <2>1. a \in Articles /\ rows[a] \in Row
    BY <1>6 DEF Stored, Typed
  <2>2. rows[a].draft # NoDraft
    BY <1>1, <1>2, <2>1 DEF KnownJob
  <2>3. row \in Row /\ row.draft = rows[a].draft /\ row.human = rows[a].human
    <3>1. url \in Urls \cup {NoUrl}
      BY <1>2 DEF Typed, Asked, Job
    <3> HIDE DEF a, url
    <3>. QED BY <2>1, <3>1, NewerRow
  <2>4. (rows[a].human => edits > 0) /\ rows[a].draft \notin Lacking
    BY <2>1, <2>2 DEF HumansKnown, KnownRow
  <2>5. rows' = [rows EXCEPT ![a] = row]
    BY <1>6
  <2> HIDE DEF a, row
  <2>6. KnownRow(row, edits')
    BY <1>1, <2>2, <2>3, <2>4 DEF KnownRow
  <2>7. edits' \in Nat /\ edits' >= edits
    BY <1>1, <1>3
  <2>8. row.draft # NoDraft
    BY <2>2, <2>3
  <2>9. /\ \A b \in Articles : KnownRow(rows'[b], edits')
        /\ \A y \in Deliveries : job[y] # Idle => KnownJob(job[y], rows', edits')
    BY <2>1, <2>3, <2>5, <2>6, <2>7, <2>8, RowKnown
  <2>. QED BY <1>1, <1>6, <2>9, SaysKnown DEF AllKnown
<1>. QED BY <1>4, <1>5, <1>6 DEF Refresh

LEMMA InsertKnown ==
  ASSUME Typed, HumansKnown, NEW x \in Deliveries, Insert(x)
  PROVE  HumansKnown'
<1> DEFINE d == job[x].draft
           new == [draft |-> d, url |-> asked[d].url, slug |-> asked[d].slug, human |-> FALSE,
                       version |-> 1]
<1>1. /\ job[x] # Idle /\ edits' = edits /\ Says(x, "stored") /\ UNCHANGED <<asked, mayUpdate>>
      /\ d \notin Lacking
  BY DEF Insert, At, HumansKnown, KnownJob
<1>2. PICK a \in Articles : rows[a] = NoRow /\ rows' = [rows EXCEPT ![a] = new]
  BY DEF Insert
<1>3. d \in Drafts /\ edits \in Nat
  BY <1>1, RunningJob, BoundsAssumption DEF Typed
<1>4. new.draft # NoDraft /\ new.draft \notin Lacking /\ new.human = FALSE
  BY <1>1, <1>3, NonesAssumption
<1> HIDE DEF new
<1>5. KnownRow(new, edits')
  BY <1>4 DEF KnownRow
<1>6. edits' \in Nat /\ edits' >= edits
  BY <1>1, <1>3
<1>7. /\ \A b \in Articles : KnownRow(rows'[b], edits')
      /\ \A y \in Deliveries : job[y] # Idle => KnownJob(job[y], rows', edits')
  BY <1>2, <1>4, <1>5, <1>6, RowKnown
<1>. QED BY <1>1, <1>7, SaysKnown DEF AllKnown

LEMMA QueryTerms ==
  ASSUME NEW x \in Deliveries, Query(x)
  PROVE  UNCHANGED <<asked, mayUpdate>>
BY DEF Query, FindByDraft, FindByUrl, Refresh, FindTag, MakeTag, FindByline, MakeByline,
       CheckSlug, Insert

LEMMA QueryKnown ==
  ASSUME Typed, HumansKnown, NEW x \in Deliveries, Query(x)
  PROVE  HumansKnown'
<1> DEFINE d == job[x].draft
<1>1. /\ job[x] # Idle /\ UNCHANGED <<asked, mayUpdate>> /\ d \in Drafts
      /\ asked[d].lacks \in {"nothing", "pillar", "byline"}
  <2>1. job[x] # Idle /\ UNCHANGED <<asked, mayUpdate>>
    BY QueryGoal, QueryTerms
  <2>2. d \in Drafts
    BY <2>1, RunningJob
  <2>. QED BY <2>1, <2>2 DEF Typed, Asked
<1>11. KnownJob(job[x], rows, edits)
  BY <1>1 DEF HumansKnown
<1>12. d \in Lacking <=> asked[d].lacks # "nothing"
  BY <1>1 DEF Lacking
<1> HIDE DEF d
<1>2. ASSUME NEW step \in Unfound, Goes(x, step), UNCHANGED <<rows, edits>>,
             step \in {"newTag", "byline"} => asked[d].lacks # "pillar",
             step \in {"newByline", "slug", "insert"} => d \notin Lacking
      PROVE  HumansKnown'
  BY <1>1, <1>2, GoesKnown DEF d
<1>3. ASSUME NEW what \in {"refused", "again"}, Says(x, what), UNCHANGED <<rows, edits>>,
             what = "refused" => d \in Lacking
      PROVE  HumansKnown'
  BY <1>1, <1>3, SaysKnown, KnownStill DEF d
<1>4. CASE FindTag(x)
  <2>1. /\ \/ asked[d].lacks = "pillar" /\ Says(x, "refused")
           \/ asked[d].lacks # "pillar" /\ (Goes(x, "byline") \/ Goes(x, "newTag"))
        /\ UNCHANGED <<rows, edits>>
    BY <1>4 DEF FindTag, d
  <2>. QED BY <1>2, <1>3, <1>12, <2>1 DEF Unfound
<1>5. CASE MakeTag(x)
  <2>1. /\ (Goes(x, "byline") \/ Says(x, "again")) /\ UNCHANGED <<rows, edits>>
        /\ job[x].at = "newTag"
    BY <1>5 DEF MakeTag, LoserHears, At
  <2>2. asked[d].lacks # "pillar"
    BY <1>11, <2>1 DEF KnownJob, d
  <2>. QED BY <1>2, <1>3, <2>1, <2>2 DEF Unfound
<1>6. CASE FindByline(x)
  <2>1. /\ \/ asked[d].lacks = "byline" /\ Says(x, "refused")
           \/ asked[d].lacks # "byline" /\ (Goes(x, "slug") \/ Goes(x, "newByline"))
        /\ UNCHANGED <<rows, edits>> /\ job[x].at = "byline"
    BY <1>6 DEF FindByline, AfterByline, At, d
  <2>2. asked[d].lacks # "pillar"
    BY <1>11, <2>1 DEF KnownJob, d
  <2>3. asked[d].lacks # "byline" => d \notin Lacking
    BY <1>1, <1>12, <2>2
  <2>. QED BY <1>2, <1>3, <1>12, <2>1, <2>3 DEF Unfound
<1>7. CASE MakeByline(x)
  <2>1. Goes(x, "slug") /\ UNCHANGED <<rows, edits>> /\ job[x].at = "newByline"
    BY <1>7 DEF MakeByline, At
  <2>2. d \notin Lacking
    BY <1>11, <2>1 DEF KnownJob, d
  <2>. QED BY <1>2, <2>1, <2>2 DEF Unfound
<1>8. CASE CheckSlug(x)
  <2>1. /\ (Goes(x, "insert") \/ Says(x, "again")) /\ UNCHANGED <<rows, edits>>
        /\ job[x].at = "slug"
    BY <1>8 DEF CheckSlug, At
  <2>2. d \notin Lacking
    BY <1>11, <2>1 DEF KnownJob, d
  <2>. QED BY <1>2, <1>3, <2>1, <2>2 DEF Unfound
<1>. QED BY <1>4, <1>5, <1>6, <1>7, <1>8, LookingKnown, RefreshKnown, InsertKnown DEF Query

LEMMA EndKnown ==
  ASSUME Typed, HumansKnown, NEW x \in Deliveries, Reply(x) \/ Fault(x) \/ TimeOut(x)
  PROVE  HumansKnown'
<1>1. job[x] # Idle /\ UNCHANGED <<rows, edits>> /\ UNCHANGED <<asked, mayUpdate>>
  BY DEF Reply, Fault, TimeOut, At
<1>2. CASE job' = [job EXCEPT ![x] = Idle]
  BY <1>1, <1>2, JobKnown, KnownStill
<1>3. CASE job' = [job EXCEPT ![x].heard = FALSE]
  <2> DEFINE to == [job[x] EXCEPT !.heard = FALSE]
  <2>1. job[x] \in Job /\ KnownJob(job[x], rows, edits)
    BY <1>1, RunningJob DEF HumansKnown
  <2>2. /\ to.at = job[x].at /\ to.barred = job[x].barred /\ to.found = job[x].found
        /\ to.says = job[x].says /\ to.draft = job[x].draft
    BY <2>1 DEF Job
  <2>3. job' = [job EXCEPT ![x] = to]
    BY <1>3
  <2> HIDE DEF to
  <2>4. KnownJob(to, rows', edits')
    BY <1>1, <2>1, <2>2 DEF KnownJob
  <2>. QED BY <2>3, <2>4, JobKnown, KnownStill, <1>1
<1>. QED BY <1>2, <1>3 DEF Reply, Fault, TimeOut

LEMMA BeginKnown ==
  ASSUME Typed, HumansKnown, NEW x \in Deliveries, NEW d \in Drafts, Begin(x, d)
  PROVE  HumansKnown'
<1> DEFINE new == [draft |-> d, at |-> "byDraft", found |-> NoRow, barred |-> FALSE,
                   says |-> "nothing", heard |-> TRUE]
<1>1. job' = [job EXCEPT ![x] = new] /\ UNCHANGED <<rows, edits>> /\ UNCHANGED <<asked, mayUpdate>>
  BY DEF Begin
<1>2. new.barred = FALSE /\ new.at = "byDraft"
  OBVIOUS
<1> HIDE DEF new
<1>3. KnownJob(new, rows', edits')
  BY <1>2 DEF KnownJob
<1>4. AllKnown /\ UNCHANGED <<asked, mayUpdate>>
  BY <1>1, KnownStill
<1>. QED BY <1>1, <1>3, <1>4, JobKnown

LEMMA EditKnown ==
  ASSUME Typed, HumansKnown, NEW a \in Articles, Edit(a)
  PROVE  HumansKnown'
<1>1. edits \in Nat /\ edits' = edits + 1 /\ job' = job /\ UNCHANGED <<asked, mayUpdate>>
  <2>1. edits' = edits + 1 /\ job' = job /\ UNCHANGED <<asked, mayUpdate>>
    BY DEF Edit
  <2>2. edits \in Nat
    BY BoundsAssumption DEF Typed
  <2>. QED BY <2>1, <2>2
<1>2. edits' \in Nat /\ edits' >= edits /\ edits' > 0
  BY <1>1
<1>3. rows[a] \in Row
  BY DEF Typed, Edit, Stored
<1>4. ASSUME NEW row, rows' = [rows EXCEPT ![a] = row], KnownRow(row, edits'),
             row \in Row => row.draft = rows[a].draft
      PROVE  HumansKnown'
  <2>1. row \in Row => row.draft # NoDraft \/ (rows[a] \in Row /\ rows[a].draft = NoDraft)
    BY <1>3, <1>4
  <2>2. /\ \A b \in Articles : KnownRow(rows'[b], edits')
        /\ \A x \in Deliveries : job[x] # Idle => KnownJob(job[x], rows', edits')
    BY <1>2, <1>4, <2>1, RowKnown
  <2>. QED BY <1>1, <2>2, KnownThen
<1>5. CASE rows' = [rows EXCEPT ![a] = Gone]
  BY <1>4, <1>5, RowsAssumption DEF KnownRow
<1>6. ASSUME NEW s \in Slugs, rows' = [rows EXCEPT ![a].human = TRUE, ![a].slug = s, ![a].version = @ + 1]
      PROVE  HumansKnown'
  <2> DEFINE row == [rows[a] EXCEPT !.human = TRUE, !.slug = s, !.version = @ + 1]
  <2>1. row.draft = rows[a].draft /\ row.url = rows[a].url
    BY <1>3, EditedRow
  <2>2. rows' = [rows EXCEPT ![a] = row]
    BY <1>6
  <2>3. KnownRow(rows[a], edits)
    BY DEF HumansKnown
  <2> HIDE DEF row
  <2>4. KnownRow(row, edits')
    BY <1>2, <1>3, <2>1, <2>3 DEF KnownRow
  <2>. QED BY <1>4, <2>1, <2>2, <2>4
<1>. QED BY <1>5, <1>6 DEF Edit

LEMMA KnownInit == Init => HumansKnown
<1> SUFFICES ASSUME Init
             PROVE  HumansKnown
  OBVIOUS
<1> DEFINE taken == [draft |-> NoDraft, url |-> NoUrl, slug |-> Taken, human |-> TRUE,
                       version |-> 1]
<1>1. PICK own \in {NoRow, taken} : rows = [a \in Articles |-> IF a = 1 THEN own ELSE NoRow]
  BY DEF Init
<1>2. taken.draft = NoDraft /\ taken.url = NoUrl
  OBVIOUS
<1> HIDE DEF taken
<1>3. \A row \in {NoRow, taken} : KnownRow(row, edits)
  BY <1>2, RowsAssumption DEF KnownRow
<1>4. \A x \in Deliveries : job[x] = Idle
  BY DEF Init
<1>. QED BY <1>1, <1>3, <1>4 DEF HumansKnown

LEMMA KnownNext == IntakeInv /\ HumansKnown /\ [Next]_vars => HumansKnown'
<1> SUFFICES ASSUME IntakeInv, HumansKnown, [Next]_vars
             PROVE  HumansKnown'
  OBVIOUS
<1>1. Typed
  BY DEF IntakeInv
<1>2. ASSUME NEW x \in Deliveries, Step(x)
      PROVE  HumansKnown'
  <2>1. Query(x) \/ Reply(x)
    BY <1>2 DEF Step, Query
  <2>. QED BY <1>1, <2>1, QueryKnown, EndKnown
<1>3. CASE UNCHANGED vars
  <2>1. UNCHANGED <<rows, job, edits>> /\ UNCHANGED <<asked, mayUpdate>>
    BY <1>3 DEF vars
  <2>. QED BY <2>1, KnownThen DEF HumansKnown
<1>. QED BY <1>1, <1>2, <1>3, EndKnown, BeginKnown, EditKnown DEF Next

-----------------------------------------------------------------------------
(* What the promise sees of a step. *)

Stores(to) == to # Idle /\ to.at = "reply" /\ to.says = "stored"
Open(j, d) == \E x \in Deliveries : Serves(j, x, d)
Done(j, d) == \E x \in Deliveries : Serves(j, x, d) /\ Stores(j[x])

LEMMA ServedIs ==
  /\ \A d \in Drafts : d \in Served <=> Open(job, d)
  /\ \A d \in Drafts : d \in Served' <=> Open(job', d)
  /\ \A d \in Drafts : d \in Effected <=> Done(job, d)
  /\ \A d \in Drafts : d \in Effected' <=> Done(job', d)
  /\ Served \subseteq Drafts /\ Served' \subseteq Drafts
  /\ Effected \subseteq Drafts /\ Effected' \subseteq Drafts
BY DEF Served, Effected, Open, Done, Serves, Stores, At

(* One request changes: its draft is the only one it is about.             *)
LEMMA TurnOthers ==
  ASSUME Typed, NEW x \in Deliveries, job[x] # Idle, NEW to, Turns(x, to)
  PROVE  /\ Served' \in {Served \ {job[x].draft}, Served \cup {job[x].draft}}
         /\ Effected' \in {Effected \ {job[x].draft}, Effected \cup {job[x].draft}}
<1> DEFINE d == job[x].draft
<1>1. \A y \in Deliveries : job'[y] = IF y = x THEN to ELSE job[y]
  BY DEF Typed, Turns
<1>2. to # Idle => to.draft = d
  BY DEF Turns
<1>3. \A e \in Drafts \ {d} : (Open(job', e) <=> Open(job, e)) /\ (Done(job', e) <=> Done(job, e))
  BY <1>1, <1>2 DEF Open, Done, Serves
<1>4. d \in Drafts
  BY RunningJob
<1> HIDE DEF d
<1>5. Served' \ {d} = Served \ {d} /\ Effected' \ {d} = Effected \ {d}
  BY <1>3, ServedIs
<1>6. Served' \in {Served \ {d}, Served \cup {d}}
  BY <1>5, Zenon
<1>7. Effected' \in {Effected \ {d}, Effected \cup {d}}
  BY <1>5, Zenon
<1>. QED BY <1>6, <1>7 DEF d

(* It goes on: its draft is still served, and the delivery has taken       *)
(* effect once it is about to say so.                                      *)
LEMMA TurnOn ==
  ASSUME Typed, NEW x \in Deliveries, job[x] # Idle, NEW to, Turns(x, to), to # Idle
  PROVE  /\ Served' = Served /\ job[x].draft \in Served
         /\ Stores(to) => Effected' = Effected \cup {job[x].draft}
         /\ (Stores(to) <=> Stores(job[x])) => Effected' = Effected
<1> DEFINE d == job[x].draft
<1>1. \A y \in Deliveries : job'[y] = IF y = x THEN to ELSE job[y]
  BY DEF Typed, Turns
<1>2. to.draft = d /\ d \in Drafts
  BY RunningJob DEF Turns
<1>3. Serves(job, x, d) /\ Serves(job', x, d)
  BY <1>1, <1>2 DEF Serves
<1>4. \A e \in Drafts : \A y \in Deliveries : Serves(job', y, e) <=> Serves(job, y, e)
  BY <1>1, <1>2 DEF Serves
<1>5. \A e \in Drafts : Open(job', e) <=> Open(job, e)
  BY <1>4 DEF Open
<1>6. \A e \in Drafts \ {d} : Done(job', e) <=> Done(job, e)
  BY <1>1, <1>2 DEF Done, Serves
<1> HIDE DEF d
<1>7. Served' = Served /\ d \in Served
  <2>1. Served' = Served
    BY <1>5, ServedIs
  <2>2. d \in Served
    BY <1>2, <1>3, ServedIs DEF Open
  <2>. QED BY <2>1, <2>2
<1>8. ASSUME Stores(to)
      PROVE  Effected' = Effected \cup {d}
  <2>1. job'[x] = to
    BY <1>1
  <2>2. Done(job', d)
    BY <1>3, <1>8, <2>1 DEF Done
  <2>. QED BY <1>2, <1>6, <2>2, ServedIs
<1>9. ASSUME Stores(to) <=> Stores(job[x])
      PROVE  Effected' = Effected
  <2>1. \A y \in Deliveries : Stores(job'[y]) <=> Stores(job[y])
    BY <1>1, <1>9
  <2>2. \A e \in Drafts : Done(job', e) <=> Done(job, e)
    BY <1>4, <2>1 DEF Done
  <2>. QED BY <2>2, ServedIs
<1>. QED BY <1>7, <1>8, <1>9 DEF d

(* It ends, and nobody else was at work on its draft.                      *)
Sole(x) == \A y \in Deliveries : Serves(job, y, job[x].draft) => y = x

LEMMA TurnOff ==
  ASSUME Typed, NEW x \in Deliveries, job[x] # Idle, job' = [job EXCEPT ![x] = Idle], Sole(x)
  PROVE  /\ Served' = Served \ {job[x].draft} /\ Effected' = Effected \ {job[x].draft}
         /\ job[x].draft \in Served
         /\ job[x].draft \in Effected <=> Stores(job[x])
<1> DEFINE d == job[x].draft
<1>1. \A y \in Deliveries : job'[y] = IF y = x THEN Idle ELSE job[y]
  BY DEF Typed
<1>2. d \in Drafts /\ Serves(job, x, d)
  BY RunningJob DEF Serves
<1>3. \A e \in Drafts \ {d} : (Open(job', e) <=> Open(job, e)) /\ (Done(job', e) <=> Done(job, e))
  BY <1>1 DEF Open, Done, Serves
<1>4. ~Open(job', d) /\ ~Done(job', d)
  BY <1>1 DEF Open, Done, Serves, Sole
<1>5. Open(job, d) /\ (Done(job, d) <=> Stores(job[x]))
  BY <1>2 DEF Open, Done, Sole
<1> HIDE DEF d
<1>6. Served' = Served \ {d}
  BY <1>3, <1>4, ServedIs
<1>7. Effected' = Effected \ {d}
  BY <1>3, <1>4, ServedIs
<1>. QED BY <1>2, <1>5, <1>6, <1>7, ServedIs DEF d

(* The articles of the drafts have a number.                               *)
LEMMA Counts ==
  /\ HowMany = [d \in Drafts |-> Cardinality(RowsOf(rows, d))]
  /\ HowMany' = [d \in Drafts |-> Cardinality(RowsOf(rows', d))]
  /\ \A r, d : /\ IsFiniteSet(RowsOf(r, d)) /\ Cardinality(RowsOf(r, d)) \in Nat
               /\ RowsOf(r, d) # {} => Cardinality(RowsOf(r, d)) > 0
<1>1. \A d \in Drafts : ArticlesOf(d) = RowsOf(rows, d) /\ ArticlesOf(d)' = RowsOf(rows', d)
  BY DEF ArticlesOf, RowsOf, Stored
<1>2. HowMany = [d \in Drafts |-> Cardinality(RowsOf(rows, d))]
  BY <1>1 DEF HowMany
<1>3. HowMany' = [d \in Drafts |-> Cardinality(RowsOf(rows', d))]
  BY <1>1 DEF HowMany
<1>4. IsFiniteSet(Articles)
  <2>1. MaxIds \in Int /\ 1 \in Int
    BY BoundsAssumption
  <2>. QED BY <2>1, FS_Interval DEF Articles
<1>5. ASSUME NEW r, NEW d
      PROVE  /\ IsFiniteSet(RowsOf(r, d)) /\ Cardinality(RowsOf(r, d)) \in Nat
             /\ RowsOf(r, d) # {} => Cardinality(RowsOf(r, d)) > 0
  <2>1. RowsOf(r, d) \subseteq Articles
    BY DEF RowsOf
  <2>2. IsFiniteSet(RowsOf(r, d))
    BY <1>4, <2>1, FS_Subset
  <2>3. /\ Cardinality(RowsOf(r, d)) \in Nat
        /\ Cardinality(RowsOf(r, d)) = 0 <=> RowsOf(r, d) = {}
    BY <2>2, FS_CardinalityType, FS_EmptySet
  <2>. QED BY <2>2, <2>3
<1>. QED BY <1>2, <1>3, <1>5

(* A row is rewritten, and is still the draft's.                           *)
LEMMA RowsKept ==
  ASSUME Typed, NEW a \in Articles, NEW row \in Row, rows' = [rows EXCEPT ![a] = row],
         rows[a] \in Row, row.draft = rows[a].draft
  PROVE  \A d : RowsOf(rows', d) = RowsOf(rows, d)
<1>1. \A b \in Articles : rows'[b] = IF b = a THEN row ELSE rows[b]
  BY DEF Typed
<1>2. row \notin {NoRow, Gone} /\ rows[a] \notin {NoRow, Gone}
  BY RowsAssumption
<1>. QED BY <1>1, <1>2 DEF RowsOf

-----------------------------------------------------------------------------
(* What a query does, as the promise sees it. *)

(* Nothing, or the delivery takes effect: there was an article to refresh, *)
(* or one is created.                                                      *)
Quiet(to) == ~Stores(to) /\ \A d : RowsOf(rows', d) = RowsOf(rows, d)
Refreshed(to) ==
  /\ Stores(to) /\ \A d : RowsOf(rows', d) = RowsOf(rows, d)
  /\ \E e \in Drafts : RowsOf(rows, e) # {}
Created(x, to) ==
  /\ Stores(to) /\ job[x].at \in Unfound /\ job[x].draft \notin Lacking
  /\ \A e \in Drafts \ {job[x].draft} : RowsOf(rows', e) = RowsOf(rows, e)
  /\ RowsOf(rows, job[x].draft) = {} => \E a : RowsOf(rows', job[x].draft) = {a}

Effect(x, to) ==
  /\ Turns(x, to) /\ to # Idle
  /\ Quiet(to) \/ Refreshed(to) \/ Created(x, to)

LEMMA AnswerIs ==
  ASSUME Typed, NEW x \in Deliveries, job[x] # Idle,
         NEW what \in {"stored", "refused", "again"}, Says(x, what)
  PROVE  \E to : Turns(x, to) /\ to # Idle /\ (Stores(to) <=> what = "stored")
<1> DEFINE to == [job[x] EXCEPT !.at = "reply", !.says = what]
<1>1. job[x] \in Job
  BY RunningJob
<1>2. to \in Job /\ to.at = "reply" /\ to.says = what /\ to.draft = job[x].draft
  BY <1>1 DEF Job, Steps
<1>3. job' = [job EXCEPT ![x] = to]
  BY DEF Says
<1> HIDE DEF to
<1>4. to # Idle
  BY <1>2, RowsAssumption
<1>. QED BY <1>2, <1>3, <1>4 DEF Turns, Stores

LEMMA RefreshEffect ==
  ASSUME Typed, HumansKnown, NEW x \in Deliveries, Refresh(x)
  PROVE  \E to : Effect(x, to)
<1> DEFINE a == job[x].found
           url == asked[job[x].draft].url
<1>1. job[x] # Idle /\ job[x].at = "refresh"
  BY DEF Refresh, At
<1>2. ASSUME NEW what \in {"refused", "again"}, Says(x, what), UNCHANGED rows
      PROVE  \E to : Effect(x, to)
  BY <1>1, <1>2, AnswerIs DEF Effect, Quiet
<1>3. CASE /\ a \in Stored /\ Says(x, "stored")
           /\ rows' = [rows EXCEPT ![a].version = @ + 1,
                                  ![a].url = IF url = NoUrl THEN @ ELSE url]
  <2> DEFINE row == [rows[a] EXCEPT !.version = @ + 1, !.url = IF url = NoUrl THEN @ ELSE url]
  <2>1. job[x].draft \in Drafts /\ KnownJob(job[x], rows, edits)
    BY <1>1, RunningJob DEF HumansKnown
  <2>2. a \in Articles /\ rows[a] \in Row /\ url \in Urls \cup {NoUrl}
    BY <1>3, <2>1 DEF Stored, Typed, Asked
  <2>3. rows[a].draft \in Drafts
    BY <1>1, <2>1, <2>2 DEF KnownJob, Row
  <2>4. row \in Row /\ row.draft = rows[a].draft
    <3> HIDE DEF a, url
    <3>. QED BY <2>2, NewerRow
  <2>5. rows' = [rows EXCEPT ![a] = row]
    BY <1>3
  <2>6. a \in RowsOf(rows, rows[a].draft)
    BY <1>3, <2>2 DEF RowsOf, Stored
  <2>7. PICK to : Turns(x, to) /\ to # Idle /\ Stores(to)
    BY <1>1, <1>3, AnswerIs
  <2> HIDE DEF a, row
  <2>8. \A d : RowsOf(rows', d) = RowsOf(rows, d)
    BY <2>2, <2>4, <2>5, RowsKept
  <2>. QED BY <2>3, <2>6, <2>7, <2>8 DEF Effect, Refreshed
<1>. QED BY <1>2, <1>3 DEF Refresh

LEMMA InsertEffect ==
  ASSUME Typed, HumansKnown, NEW x \in Deliveries, Insert(x)
  PROVE  \E to : Effect(x, to)
<1> DEFINE e == job[x].draft
           new == [draft |-> e, url |-> asked[e].url, slug |-> asked[e].slug, human |-> FALSE,
                       version |-> 1]
<1>1. job[x] # Idle /\ job[x].at \in Unfound /\ Says(x, "stored") /\ e \notin Lacking
  BY DEF Insert, At, Unfound, HumansKnown, KnownJob
<1>2. PICK a \in Articles : rows[a] = NoRow /\ rows' = [rows EXCEPT ![a] = new]
  BY DEF Insert
<1>3. e \in Drafts
  BY <1>1, RunningJob
<1>4. asked[e] \in Asked
  BY <1>3 DEF Typed
<1>5. new \in Row /\ new.draft = e
  BY <1>3, <1>4 DEF Row, Asked
<1>6. PICK to : Turns(x, to) /\ to # Idle /\ Stores(to)
  BY <1>1, AnswerIs
<1>7. \A b \in Articles : rows'[b] = IF b = a THEN new ELSE rows[b]
  BY <1>2 DEF Typed
<1>8. new \notin {NoRow, Gone}
  BY <1>5, RowsAssumption
<1> HIDE DEF new, e
<1>9. \A f \in Drafts \ {e} : RowsOf(rows', f) = RowsOf(rows, f)
  BY <1>2, <1>5, <1>7, <1>8 DEF RowsOf
<1>10. RowsOf(rows, e) = {} => RowsOf(rows', e) = {a}
  BY <1>5, <1>7, <1>8 DEF RowsOf
<1>. QED BY <1>1, <1>6, <1>9, <1>10 DEF Effect, Created, e

LEMMA QueryEffect ==
  ASSUME Typed, HumansKnown, NEW x \in Deliveries, Query(x)
  PROVE  /\ \E to : Effect(x, to)
         /\ job[x] # Idle /\ job[x].at # "reply" /\ UNCHANGED <<told, edits, overlapped>>
<1>1. job[x] # Idle /\ job[x].at # "reply" /\ UNCHANGED <<told, edits, overlapped>>
  BY DEF Query, FindByDraft, FindByUrl, Refresh, FindTag, MakeTag, FindByline, MakeByline,
         CheckSlug, Insert, At
<1>2. CASE Refresh(x)
  BY <1>1, <1>2, RefreshEffect
<1>3. CASE Insert(x)
  BY <1>1, <1>3, InsertEffect
<1>4. CASE ~Refresh(x) /\ ~Insert(x)
  <2>1. UNCHANGED rows
    BY <1>4 DEF Query, FindByDraft, FindByUrl, FindTag, MakeTag, FindByline, MakeByline, CheckSlug
  <2>2. \A d : RowsOf(rows', d) = RowsOf(rows, d)
    BY <2>1
  <2>3. \E to : Turns(x, to) /\ to # Idle /\ ~Stores(to)
    <3>1. ASSUME NEW step \in Steps \ {"reply"}, Goes(x, step)
          PROVE  \E to : Turns(x, to) /\ to # Idle /\ ~Stores(to)
      <4> DEFINE to == [job[x] EXCEPT !.at = step]
      <4>1. Turns(x, to) /\ to.at = step /\ to # Idle
        BY <1>1, <3>1, GoesOn
      <4> HIDE DEF to
      <4>. QED BY <4>1 DEF Stores
    <3>2. ASSUME NEW what \in {"refused", "again"}, Says(x, what)
          PROVE  \E to : Turns(x, to) /\ to # Idle /\ ~Stores(to)
      BY <1>1, <3>2, AnswerIs
    <3>3. ASSUME NEW found \in SUBSET Stored, NEW else \in Steps \ {"reply"},
                 LookUp(x, found, else)
          PROVE  \E to : Turns(x, to) /\ to # Idle /\ ~Stores(to)
      <4>1. PICK to \in Job : Turns(x, to) /\ (to.at = "refresh" \/ to.at = else)
        BY <1>1, <3>3, LooksUp DEF Found
      <4>. QED BY <4>1, RowsAssumption DEF Stores
    <3>4. CASE FindByDraft(x)
      <4>1. LookUp(x, ByDraft(job[x].draft), "byUrl") /\ ByDraft(job[x].draft) \in SUBSET Stored
        BY <3>4 DEF FindByDraft, ByDraft
      <4>. QED BY <3>3, <4>1 DEF Steps
    <3>5. CASE FindByUrl(x)
      <4>1. LookUp(x, ByUrl(job[x].draft), "tag") /\ ByUrl(job[x].draft) \in SUBSET Stored
        BY <3>5 DEF FindByUrl, ByUrl
      <4>. QED BY <3>3, <4>1 DEF Steps
    <3>6. CASE FindTag(x)
      <4>1. Goes(x, "byline") \/ Goes(x, "newTag") \/ Says(x, "refused")
        BY <3>6 DEF FindTag
      <4>. QED BY <3>1, <3>2, <4>1 DEF Steps
    <3>7. CASE MakeTag(x)
      <4>1. Goes(x, "byline") \/ Says(x, "again")
        BY <3>7 DEF MakeTag, LoserHears
      <4>. QED BY <3>1, <3>2, <4>1 DEF Steps
    <3>8. CASE FindByline(x)
      <4>1. Goes(x, "slug") \/ Goes(x, "newByline") \/ Says(x, "refused")
        BY <3>8 DEF FindByline, AfterByline
      <4>. QED BY <3>1, <3>2, <4>1 DEF Steps
    <3>9. CASE MakeByline(x)
      BY <3>1, <3>9 DEF MakeByline, Steps
    <3>10. CASE CheckSlug(x)
      <4>1. Goes(x, "insert") \/ Says(x, "again")
        BY <3>10 DEF CheckSlug
      <4>. QED BY <3>1, <3>2, <4>1 DEF Steps
    <3>. QED BY <1>4, <3>4, <3>5, <3>6, <3>7, <3>8, <3>9, <3>10 DEF Query
  <2>. QED BY <1>1, <2>2, <2>3 DEF Effect, Quiet
<1>. QED BY <1>2, <1>3, <1>4

-----------------------------------------------------------------------------
(* Every step is a step of the promise, or none. *)

LEMMA QueryKeepsPromise ==
  ASSUME IntakeInv, HumansKnown, NEW x \in Deliveries, Query(x)
  PROVE  \/ UNCHANGED Promise!vars
         \/ \E d \in Drafts : Promise!Create(d) \/ Promise!Refresh(d) \/ Promise!Overlap(d)
<1> DEFINE d == job[x].draft
<1>1. Typed
  BY DEF IntakeInv
<1>2. PICK to : Effect(x, to)
  BY <1>1, QueryEffect
<1>3. /\ job[x] # Idle /\ ~Stores(job[x]) /\ told' = told /\ edits' = edits
      /\ overlapped' = overlapped /\ d \in Drafts /\ Lacking' = Lacking /\ Strict' = Strict
  <2>1. UNCHANGED <<asked, mayUpdate>>
    BY QueryTerms
  <2>. QED BY <1>1, <2>1, QueryEffect, RunningJob DEF Stores, Lacking, Strict
<1>4. Turns(x, to) /\ to # Idle
  BY <1>2 DEF Effect
<1>5. /\ Served' = Served /\ d \in Served
      /\ Stores(to) => Effected' = Effected \cup {d}
      /\ (Stores(to) <=> Stores(job[x])) => Effected' = Effected
  BY <1>1, <1>3, <1>4, TurnOn
<1>6. ASSUME \A e \in Drafts : RowsOf(rows', e) = RowsOf(rows, e)
      PROVE  HowMany' = HowMany
  BY <1>6, Counts
<1>7. CASE Quiet(to)
  <2>1. HowMany' = HowMany /\ Effected' = Effected
    BY <1>3, <1>5, <1>6, <1>7 DEF Quiet
  <2>. QED BY <1>3, <1>5, <2>1 DEF Promise!vars
<1>8. ASSUME Stores(to), d \in overlapped
      PROVE  Promise!Overlap(d)
  <2>1. \A e \in Drafts \ {d} : RowsOf(rows', e) = RowsOf(rows, e)
    BY <1>2, <1>8 DEF Effect, Quiet, Refreshed, Created
  <2>2. HowMany' = [HowMany EXCEPT ![d] = HowMany'[d]]
    BY <1>3, <2>1, Counts
  <2>3. told' = [told EXCEPT ![d] = told'[d]]
    BY <1>1, <1>3 DEF Typed
  <2>4. Served' \in {Served \ {d}, Served \cup {d}} /\ Effected' \in {Effected \ {d}, Effected \cup {d}}
    BY <1>5, <1>8
  <2>. QED BY <1>3, <1>8, <2>2, <2>3, <2>4 DEF Promise!Overlap, Promise!Hears
<1>9. ASSUME Stores(to), d \notin overlapped
      PROVE  d \notin Effected /\ Alone(job, rows, d)
  <2>1. Alone(job, rows, d)
    BY <1>3, <1>9 DEF IntakeInv, AllAlone
  <2>2. Serves(job, x, d)
    BY <1>3 DEF Serves
  <2>3. ~Done(job, d)
    BY <1>3, <2>1, <2>2 DEF Alone, Done
  <2>. QED BY <1>3, <2>1, <2>3, ServedIs
<1>10. CASE Refreshed(to) /\ d \notin overlapped
  <2>1. HowMany' = HowMany
    BY <1>6, <1>10 DEF Refreshed
  <2>2. PICK e \in Drafts : RowsOf(rows, e) # {}
    BY <1>10 DEF Refreshed
  <2>3. HowMany[e] > 0
    BY <2>2, Counts
  <2>4. Stores(to)
    BY <1>10 DEF Refreshed
  <2>5. d \in Served \ Effected /\ Effected' = Effected \cup {d}
    BY <1>5, <1>9, <1>10, <2>4
  <2>6. Promise!Refresh(d)
    BY <1>3, <1>5, <2>1, <2>3, <2>5 DEF Promise!Refresh
  <2>. QED BY <1>3, <2>6
<1>11. CASE Created(x, to) /\ d \notin overlapped
  <2>1. Stores(to)
    BY <1>11 DEF Created
  <2>2. d \in Served \ Effected /\ Effected' = Effected \cup {d}
    BY <1>5, <1>9, <1>11, <2>1
  <2>3. RowsOf(rows, d) = {}
    <3>1. Serves(job, x, d) /\ job[x].at \in Unfound
      BY <1>3, <1>11 DEF Serves, Created
    <3>. QED BY <1>9, <1>11, <2>1, <3>1 DEF Alone
  <2>4. PICK a : RowsOf(rows', d) = {a}
    BY <1>11, <2>3 DEF Created
  <2>5. Cardinality(RowsOf(rows, d)) = 0 /\ Cardinality(RowsOf(rows', d)) = 1
    BY <2>3, <2>4, FS_EmptySet, FS_Singleton
  <2>6. \A e \in Drafts \ {d} : RowsOf(rows', e) = RowsOf(rows, e)
    BY <1>11 DEF Created
  <2>7. HowMany[d] = 0 /\ HowMany' = [HowMany EXCEPT ![d] = 1]
    BY <1>3, <2>5, <2>6, Counts
  <2>8. d \notin Lacking
    BY <1>11 DEF Created
  <2>9. Promise!Create(d)
    BY <1>3, <1>5, <2>2, <2>7, <2>8 DEF Promise!Create
  <2>. QED BY <1>3, <2>9
<1>12. Quiet(to) \/ Refreshed(to) \/ Created(x, to)
  BY <1>2 DEF Effect
<1>13. CASE d \in overlapped /\ Stores(to)
  BY <1>3, <1>8, <1>13
<1>. QED BY <1>7, <1>10, <1>11, <1>12, <1>13 DEF Refreshed, Created

LEMMA TimeOutKeepsPromise ==
  ASSUME IntakeInv, NEW x \in Deliveries, TimeOut(x)
  PROVE  \E d \in Drafts : Promise!GiveUp(d)
<1> DEFINE d == job[x].draft
           to == [job[x] EXCEPT !.heard = FALSE]
<1>1. Typed /\ OneAwaited /\ job[x] # Idle /\ job[x].heard
  BY DEF IntakeInv, TimeOut
<1>2. job[x] \in Job /\ d \in Drafts
  BY <1>1, RunningJob
<1>3. to \in Job /\ to.draft = d /\ to.at = job[x].at /\ to.says = job[x].says
  BY <1>2 DEF Job
<1>4. job' = [job EXCEPT ![x] = to]
  BY DEF TimeOut
<1>5. /\ told' = [told EXCEPT ![d] = "again"] /\ UNCHANGED <<rows, edits, overlapped>>
      /\ Lacking' = Lacking /\ Strict' = Strict
  BY DEF TimeOut, Lacking, Strict
<1>6. told[d] = "waiting"
  <2>1. x \in Heeded(job, d)
    BY <1>1 DEF Heeded, Serves
  <2>. QED BY <1>1, <1>2, <2>1 DEF OneAwaited
<1> HIDE DEF to
<1>7. to # Idle
  BY <1>3, RowsAssumption
<1>8. Turns(x, to) /\ (Stores(to) <=> Stores(job[x]))
  BY <1>1, <1>3, <1>4, <1>7 DEF Turns, Stores
<1>9. Served' = Served /\ d \in Served /\ Effected' = Effected
  BY <1>1, <1>7, <1>8, TurnOn
<1>10. HowMany' = HowMany
  BY <1>5, Counts
<1>11. Promise!GiveUp(d)
  BY <1>5, <1>6, <1>9, <1>10 DEF Promise!GiveUp, Promise!Hears
<1>. QED BY <1>2, <1>11

(* A draft that lacks something has no article, and an article of the      *)
(* engine's is some draft's.                                               *)
LEMMA LackingHasNone ==
  ASSUME Typed, HumansKnown, NEW d \in Drafts, d \in Lacking
  PROVE  HowMany[d] = 0
<1>1. RowsOf(rows, d) = {}
  <2> SUFFICES ASSUME NEW a \in RowsOf(rows, d)
               PROVE  FALSE
    OBVIOUS
  <2>1. a \in Articles /\ rows[a] \in Row /\ rows[a].draft = d
    BY DEF RowsOf, Typed
  <2>. QED BY <2>1, NonesAssumption DEF HumansKnown, KnownRow
<1>. QED BY <1>1, Counts, FS_EmptySet

LEMMA EnginesCount == Engines(rows) => \E e \in Drafts : HowMany[e] > 0
<1> SUFFICES ASSUME NEW a \in Articles, rows[a] \in Row, rows[a].draft \in Drafts
             PROVE  \E e \in Drafts : HowMany[e] > 0
  BY DEF Engines
<1>1. a \in RowsOf(rows, rows[a].draft)
  BY RowsAssumption DEF RowsOf
<1>. QED BY <1>1, Counts

(* Whoever listened hears what the delivery has done, or nothing.          *)
LEMMA EndKeepsPromise ==
  ASSUME IntakeInv, HumansKnown, NEW x \in Deliveries, Reply(x) \/ Fault(x)
  PROVE  \E d \in Drafts : Promise!End(d) \/ Promise!Overlap(d)
<1> DEFINE d == job[x].draft
<1>1. Typed /\ OneAwaited /\ job[x] # Idle /\ job' = [job EXCEPT ![x] = Idle]
  BY DEF IntakeInv, Reply, Fault, At
<1>2. d \in Drafts /\ UNCHANGED <<rows, edits, overlapped>> /\ Lacking' = Lacking /\ Strict' = Strict
  BY <1>1, RunningJob DEF Reply, Fault, Lacking, Strict
<1>3. HowMany' = HowMany
  BY <1>2, Counts
<1>4. told' = told \/ \E what : told' = [told EXCEPT ![d] = what]
  BY DEF Reply, Fault
<1>5. CASE d \in overlapped
  <2>1. Turns(x, Idle)
    BY <1>1 DEF Turns
  <2>2. Served' \in {Served \ {d}, Served \cup {d}} /\ Effected' \in {Effected \ {d}, Effected \cup {d}}
    BY <1>1, <2>1, TurnOthers
  <2>3. told' = [told EXCEPT ![d] = told'[d]]
    BY <1>1, <1>2, <1>4 DEF Typed
  <2>4. HowMany' = [HowMany EXCEPT ![d] = HowMany'[d]]
    BY <1>3, Counts
  <2>5. Promise!Overlap(d)
    BY <1>2, <1>5, <2>2, <2>3, <2>4 DEF Promise!Overlap, Promise!Hears
  <2>. QED BY <1>2, <2>5
<1>6. CASE d \notin overlapped
  <2>1. Serves(job, x, d) /\ Alone(job, rows, d)
    BY <1>1, <1>2, <1>6 DEF Serves, IntakeInv, AllAlone
  <2>2. Sole(x)
    BY <2>1 DEF Alone, Sole
  <2>3. /\ Served' = Served \ {d} /\ Effected' = Effected \ {d} /\ d \in Served
        /\ d \in Effected <=> Stores(job[x])
    BY <1>1, <2>2, TurnOff
  <2>4. CASE ~job[x].heard
    <3>1. Heeded(job, d) = {}
      BY <2>2, <2>4 DEF Heeded, Sole
    <3>2. told[d] # "waiting" /\ told' = told
      BY <1>1, <1>2, <2>4, <3>1 DEF OneAwaited, Reply, Fault
    <3>3. Promise!End(d)
      BY <1>2, <1>3, <2>3, <3>2 DEF Promise!End
    <3>. QED BY <1>2, <3>3
  <2>5. CASE job[x].heard
    <3>1. told[d] = "waiting"
      <4>1. x \in Heeded(job, d)
        BY <2>1, <2>5 DEF Heeded
      <4>. QED BY <1>1, <1>2, <4>1 DEF OneAwaited
    <3>2. \E says \in {"stored", "refused", "again"} : Promise!Truthful(d, says) /\ Promise!Hears(d, says)
      <4>1. CASE Fault(x)
        BY <2>5, <4>1 DEF Fault, Promise!Truthful, Promise!Hears
      <4>2. CASE Reply(x)
        <5> DEFINE says == job[x].says
        <5>1. job[x].at = "reply" /\ KnownJob(job[x], rows, edits)
          BY <1>1, <4>2 DEF Reply, At, HumansKnown
        <5>2. /\ says \in {"stored", "refused", "again"}
              /\ says = "refused" => d \in Lacking \/ MayBar(d, rows, edits)
          BY <5>1 DEF KnownJob
        <5>6. says = "refused" => Promise!MayRefuse(d)
          <6>1. d \in Lacking => HowMany[d] = 0
            BY <1>1, <1>2, LackingHasNone
          <6>2. Engines(rows) => \E e \in Drafts : HowMany[e] > 0
            BY EnginesCount
          <6>. QED BY <5>2, <6>1, <6>2 DEF Promise!MayRefuse, MayBar
        <5>3. d \in Effected <=> says = "stored"
          BY <1>1, <2>3, <5>1 DEF Stores
        <5>4. told' = [told EXCEPT ![d] = says]
          BY <2>5, <4>2 DEF Reply
        <5> HIDE DEF says
        <5>5. Promise!Truthful(d, says)
          BY <5>2, <5>3, <5>6 DEF Promise!Truthful
        <5>. QED BY <5>2, <5>4, <5>5 DEF Promise!Hears
      <4>. QED BY <4>1, <4>2
    <3>3. Promise!End(d)
      BY <1>2, <1>3, <2>3, <3>1, <3>2 DEF Promise!End
    <3>. QED BY <1>2, <3>3
  <2>. QED BY <2>4, <2>5
<1>. QED BY <1>5, <1>6

LEMMA BeginKeepsPromise ==
  ASSUME IntakeInv, NEW x \in Deliveries, NEW d \in Drafts, Begin(x, d)
  PROVE  Promise!Send(d)
<1> DEFINE new == [draft |-> d, at |-> "byDraft", found |-> NoRow, barred |-> FALSE,
                   says |-> "nothing", heard |-> TRUE]
<1>1. Typed
  BY DEF IntakeInv
<1>2. new \in Job /\ new.draft = d /\ new.at = "byDraft"
  BY DEF Job, Steps
<1>3. /\ told[d] \in {"nothing", "again"} /\ told' = [told EXCEPT ![d] = "waiting"]
      /\ job[x] = Idle /\ job' = [job EXCEPT ![x] = new]
      /\ overlapped' = IF Open(job, d) THEN overlapped \cup {d} ELSE overlapped
      /\ UNCHANGED <<rows, edits>> /\ Lacking' = Lacking /\ Strict' = Strict
  BY DEF Begin, MaySend, Open, Serves, Lacking, Strict
<1> HIDE DEF new
<1>4. \A y \in Deliveries : job'[y] = IF y = x THEN new ELSE job[y]
  BY <1>1, <1>3 DEF Typed
<1>5. new # Idle /\ ~Stores(new)
  BY <1>2, RowsAssumption DEF Stores
<1>6. Open(job', d) /\ \A e \in Drafts \ {d} : Open(job', e) <=> Open(job, e)
  BY <1>2, <1>3, <1>4, <1>5 DEF Open, Serves
<1>7. \A e \in Drafts : Done(job', e) <=> Done(job, e)
  BY <1>3, <1>4, <1>5 DEF Done, Serves, Stores
<1>8. Served' = Served \cup {d}
  BY <1>6, ServedIs
<1>9. Effected' = Effected
  BY <1>7, ServedIs
<1>10. HowMany' = HowMany
  BY <1>3, Counts
<1>11. overlapped' = IF d \in Served THEN overlapped \cup {d} ELSE overlapped
  BY <1>3, ServedIs
<1>. QED BY <1>3, <1>8, <1>9, <1>10, <1>11 DEF Promise!Send, Promise!Hears

LEMMA EditKeepsPromise ==
  ASSUME IntakeInv, NEW a \in Articles, Edit(a)
  PROVE  Promise!Edit
<1>1. Typed /\ rows[a] \in Row /\ a \in Stored
  BY DEF IntakeInv, Typed, Edit, Stored
<1>2. /\ edits' = edits + 1 /\ UNCHANGED <<job, told, overlapped>>
      /\ Lacking' = Lacking /\ Strict' = Strict
  BY DEF Edit, Lacking, Strict
<1>3. Served' = Served /\ Effected' = Effected
  BY <1>2 DEF Served, Effected, At
<1>4. HowMany' = HowMany \/ \E d \in Drafts :
        HowMany[d] > 0 /\ HowMany' = [HowMany EXCEPT ![d] = HowMany[d] - 1]
  <2>1. ASSUME NEW s \in Slugs, rows' = [rows EXCEPT ![a].human = TRUE, ![a].slug = s, ![a].version = @ + 1]
        PROVE  HowMany' = HowMany
    <3> DEFINE row == [rows[a] EXCEPT !.human = TRUE, !.slug = s, !.version = @ + 1]
    <3>1. row \in Row /\ row.draft = rows[a].draft
      BY <1>1, EditedRow
    <3>2. rows' = [rows EXCEPT ![a] = row]
      BY <2>1
    <3> HIDE DEF row
    <3>3. \A d : RowsOf(rows', d) = RowsOf(rows, d)
      BY <1>1, <3>1, <3>2, RowsKept
    <3>. QED BY <3>3, Counts
  <2>2. CASE rows' = [rows EXCEPT ![a] = Gone]
    <3> DEFINE d == rows[a].draft
    <3>1. \A b \in Articles : rows'[b] = IF b = a THEN Gone ELSE rows[b]
      BY <1>1, <2>2 DEF Typed
    <3>2. \A e \in Drafts \ {d} : RowsOf(rows', e) = RowsOf(rows, e)
      BY <3>1 DEF RowsOf
    <3>3. a \in RowsOf(rows, d) /\ RowsOf(rows', d) = RowsOf(rows, d) \ {a}
      BY <1>1, <3>1 DEF RowsOf, Stored
    <3> HIDE DEF d
    <3>4. CASE d \notin Drafts
      <4>1. \A e \in Drafts : RowsOf(rows', e) = RowsOf(rows, e)
        BY <3>2, <3>4
      <4>. QED BY <4>1, Counts
    <3>5. CASE d \in Drafts
      <4>1. IsFiniteSet(RowsOf(rows, d)) /\ Cardinality(RowsOf(rows, d)) > 0
        BY <3>3, Counts
      <4>2. Cardinality(RowsOf(rows', d)) = Cardinality(RowsOf(rows, d)) - 1
        BY <3>3, <4>1, FS_RemoveElement
      <4>3. HowMany[d] > 0 /\ HowMany' = [HowMany EXCEPT ![d] = HowMany[d] - 1]
        BY <3>2, <3>5, <4>1, <4>2, Counts
      <4>. QED BY <3>5, <4>3
    <3>. QED BY <3>4, <3>5
  <2>. QED BY <2>1, <2>2 DEF Edit
<1>. QED BY <1>2, <1>3, <1>4 DEF Promise!Edit

LEMMA StepKeepsPromise ==
  ASSUME IntakeInv, HumansKnown, [Next]_vars
  PROVE  [Promise!Next]_(Promise!vars)
<1>1. ASSUME NEW x \in Deliveries, Query(x)
      PROVE  [Promise!Next]_(Promise!vars)
  BY <1>1, QueryKeepsPromise DEF Promise!Next
<1>2. ASSUME NEW x \in Deliveries, Reply(x) \/ Fault(x)
      PROVE  [Promise!Next]_(Promise!vars)
  BY <1>2, EndKeepsPromise DEF Promise!Next
<1>3. ASSUME NEW x \in Deliveries, TimeOut(x)
      PROVE  [Promise!Next]_(Promise!vars)
  BY <1>3, TimeOutKeepsPromise DEF Promise!Next
<1>4. ASSUME NEW x \in Deliveries, NEW d \in Drafts, Begin(x, d)
      PROVE  [Promise!Next]_(Promise!vars)
  BY <1>4, BeginKeepsPromise DEF Promise!Next
<1>5. ASSUME NEW a \in Articles, Edit(a)
      PROVE  [Promise!Next]_(Promise!vars)
  BY <1>5, EditKeepsPromise DEF Promise!Next
<1>6. CASE UNCHANGED vars
  <2>1. UNCHANGED <<rows, job, told, edits, overlapped>> /\ Lacking' = Lacking /\ Strict' = Strict
    BY <1>6 DEF vars, Lacking, Strict
  <2>2. Served' = Served /\ Effected' = Effected
    BY <2>1 DEF Served, Effected, At
  <2>3. HowMany' = HowMany
    BY <2>1, Counts
  <2>. QED BY <2>1, <2>2, <2>3 DEF Promise!vars
<1>7. ASSUME NEW x \in Deliveries, Step(x)
      PROVE  Query(x) \/ Reply(x)
  BY <1>7 DEF Step, Query
<1>. QED BY <1>1, <1>2, <1>3, <1>4, <1>5, <1>6, <1>7 DEF Next

LEMMA InitKeepsPromise == Init => Promise!Init
<1> SUFFICES ASSUME Init
             PROVE  Promise!Init
  OBVIOUS
<1>1. \A x \in Deliveries : job[x] = Idle
  BY DEF Init
<1>2. Served = {} /\ Effected = {}
  BY <1>1 DEF Served, Effected, At
<1>3. \A d \in Drafts : RowsOf(rows, d) = {}
  <2> DEFINE taken == [draft |-> NoDraft, url |-> NoUrl, slug |-> Taken, human |-> TRUE,
                       version |-> 1]
  <2>1. PICK own \in {NoRow, taken} : rows = [a \in Articles |-> IF a = 1 THEN own ELSE NoRow]
    BY DEF Init
  <2>2. taken.draft = NoDraft
    OBVIOUS
  <2> HIDE DEF taken
  <2>. QED BY <2>1, <2>2, NonesAssumption DEF RowsOf
<1>4. \A d \in Drafts : Cardinality(RowsOf(rows, d)) = 0
  BY <1>3, FS_EmptySet
<1>5. HowMany = [d \in Drafts |-> 0]
  BY <1>4, Counts
<1>6. Lacking \subseteq Drafts /\ Strict \subseteq Drafts
  BY DEF Lacking, Strict
<1>. QED BY <1>2, <1>5, <1>6 DEF Init, Promise!Init

(* The intake keeps its promise for every number of drafts and deliveries: *)
(* whatever is lost, dies, times out and is sent again, a delivery takes   *)
(* effect at one moment or not at all, the engine is told which, an        *)
(* article is made only for a draft that has none and lacks nothing, none  *)
(* is refreshed while there is none of the engine's, and a refusal is for  *)
(* the sake of what somebody has changed, of what the draft lacks, or of   *)
(* terms that forbid a refresh when there is an article: then an earlier   *)
(* delivery, whose answer was lost, may have been stored.  All of it for   *)
(* drafts of which no two deliveries ran at one time.                      *)
THEOREM PromiseIsKept == Spec => ImplementsPromise
<1>1. Init => Promise!Init
  BY InitKeepsPromise
<1>2. Init => IntakeInv /\ HumansKnown
  BY IntakeInit, KnownInit
<1>3. IntakeInv /\ HumansKnown /\ [Next]_vars => IntakeInv' /\ HumansKnown'
  BY IntakeNext, KnownNext
<1>4. IntakeInv /\ HumansKnown /\ [Next]_vars => [Promise!Next]_(Promise!vars)
  BY StepKeepsPromise
<1>. QED BY <1>1, <1>2, <1>3, <1>4, PTL DEF Spec, ImplementsPromise, Promise!Spec
===============================================================================
