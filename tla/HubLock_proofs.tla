---------------------------- MODULE HubLock_proofs ----------------------------
(***************************************************************************)
(* Proofs about HubLock for any articles, slugs, requests and bounds: its  *)
(* types, the uniqueness of slugs, and that it implements HubDrafts.       *)
(***************************************************************************)
EXTENDS HubLock, TLAPS

(* Writing a row leaves a row. *)
LEMMA OutcomeType ==
  ASSUME NEW row \in Drafts!Row, NEW op \in Drafts!Op
  PROVE  Drafts!Outcome(row, op) \in Drafts!Row
<1>1. CASE op.kind = "create"
  BY <1>1 DEF Drafts!Outcome, Drafts!Row, Drafts!Op
<1>2. CASE op.kind = "patch"
  BY <1>2 DEF Drafts!Outcome, Drafts!Row, Drafts!Op
<1>3. CASE op.kind = "rename"
  <2>1. Drafts!Outcome(row, op) = [row EXCEPT !.ver = row.ver + 1, !.latest = op.slug]
    BY <1>3 DEF Drafts!Outcome
  <2>2. row.ver + 1 \in Nat /\ op.slug \in Slugs \cup {NoSlug}
    BY DEF Drafts!Row, Drafts!Op
  <2> QED BY <2>1, <2>2 DEF Drafts!Row
<1>4. CASE op.kind = "publish"
  BY <1>4 DEF Drafts!Outcome, Drafts!Row, Drafts!Op
<1> QED BY <1>1, <1>2, <1>3, <1>4 DEF Drafts!Op, Drafts!Kinds

(* Every phase leads to a phase. *)
LEMMA AfterType ==
  ASSUME NEW kind \in Drafts!Kinds, NEW at \in {"idle", "recheck", "checkSlug"}
  PROVE  After(kind, at) \in Phases
BY DEF After, Phases, Drafts!Kinds

(* No article is a row, too. *)
LEMMA AbsentType == Drafts!Absent \in Drafts!Row
BY DEF Drafts!Absent, Drafts!Row

(* A running request is not an idle one. *)
LEMMA ActiveIsNotIdle ==
  ASSUME NEW x \in {Idle} \cup Active
  PROVE  x \in Active <=> x.at # "idle"
BY DEF Idle, Active, Phases

(* TypeOK is inductive. *)
LEMMA NextType == TypeOK /\ [Next]_vars => TypeOK'
<1> SUFFICES ASSUME TypeOK, [Next]_vars PROVE TypeOK'
  OBVIOUS
<1>1. ASSUME NEW r \in Requests, Call(r) PROVE TypeOK'
  BY <1>1, AbsentType, AfterType DEF TypeOK, Call, Calls, Active, Drafts!Op, Drafts!Row, Drafts!Answers
<1>2. ASSUME NEW r \in Requests, LockArticle(r) PROVE TypeOK'
  <2>1. req[r] \in Active
    BY <1>2, ActiveIsNotIdle DEF LockArticle, At, TypeOK
  <2> QED BY <1>2, <2>1 DEF TypeOK, LockArticle, Active, Phases
<1>3. ASSUME NEW r \in Requests, Recheck(r) PROVE TypeOK'
  <2>1. req[r] \in Active
    BY <1>3, ActiveIsNotIdle DEF Recheck, At, TypeOK
  <2>2. Advance(r) \in Phases
    BY <1>3, <2>1, AfterType DEF Recheck, At, Advance, Active, Drafts!Op
  <2>3. CASE StillAsRead(rows[req[r].op.art], req[r].op)
    <3> DEFINE slug == IF req[r].op.kind = "publish" THEN rows[req[r].op.art].latest ELSE req[r].slug
    <3>1. req' = [req EXCEPT ![r] = [req[r] EXCEPT !.at = Advance(r), !.slug = slug]]
      BY <1>3, <2>3 DEF Recheck, TypeOK
    <3>2. slug \in Slugs \cup {NoSlug}
      BY <2>1 DEF TypeOK, Active, Drafts!Row, Drafts!Op
    <3> HIDE DEF slug
    <3>3. [req[r] EXCEPT !.at = Advance(r), !.slug = slug] \in Active
      BY <2>1, <2>2, <3>2 DEF Active
    <3> QED BY <1>3, <2>3, <3>1, <3>3 DEF TypeOK, Recheck
  <2>4. CASE ~StillAsRead(rows[req[r].op.art], req[r].op)
    BY <1>3, <2>4 DEF TypeOK, Recheck, Abort, End, Drafts!Answers
  <2> QED BY <2>3, <2>4
<1>4. ASSUME NEW r \in Requests, LockSlug(r) PROVE TypeOK'
  <2>1. req[r] \in Active
    BY <1>4, ActiveIsNotIdle DEF LockSlug, At, TypeOK
  <2> QED BY <1>4, <2>1 DEF TypeOK, LockSlug, Active, Phases
<1>5. ASSUME NEW r \in Requests, CheckSlug(r) PROVE TypeOK'
  <2>1. req[r] \in Active
    BY <1>5, ActiveIsNotIdle DEF CheckSlug, At, TypeOK
  <2>2. Advance(r) \in Phases
    BY <1>5, <2>1, AfterType DEF CheckSlug, At, Advance, Active, Drafts!Op
  <2> QED BY <1>5, <2>1, <2>2 DEF TypeOK, CheckSlug, Abort, End, Active, Drafts!Answers
<1>6. ASSUME NEW r \in Requests, Write(r) PROVE TypeOK'
  <2>1. req[r] \in Active
    BY <1>6, ActiveIsNotIdle DEF Write, At, TypeOK
  <2>2. Drafts!Outcome(rows[req[r].op.art], req[r].op) \in Drafts!Row
    BY <2>1, OutcomeType DEF TypeOK, Active, Drafts!Op
  <2> QED BY <1>6, <2>1, <2>2 DEF TypeOK, Write, Active, Phases
<1>7. ASSUME NEW r \in Requests, Commit(r) PROVE TypeOK'
  <2>1. req[r] \in Active
    BY <1>7, ActiveIsNotIdle DEF Commit, MayCommit, At, TypeOK
  <2>2. req[r].op.art \in Articles /\ req[r].row \in Drafts!Row
    BY <2>1 DEF Active, Drafts!Op
  <2>3. rows' \in [Articles -> Drafts!Row]
    BY <1>7, <2>2 DEF TypeOK, Commit
  <2>4. req' \in [Requests -> {Idle} \cup Active] /\ answer' \in [Requests -> Drafts!Answers]
    BY <1>7 DEF TypeOK, Commit, End, Drafts!Answers
  <2> QED BY <2>3, <2>4 DEF TypeOK
<1>8. ASSUME NEW r \in Requests, TransactionLost(r) \/ Timeout(r) PROVE TypeOK'
  BY <1>8 DEF TypeOK, TransactionLost, Timeout, Abort, End, Drafts!Answers
<1>9. ASSUME NEW r \in Requests, TransactionDies(r) PROVE TypeOK'
  <2>1. req[r] \in Active
    BY <1>9, ActiveIsNotIdle DEF TransactionDies, Alive, Running, At, TypeOK
  <2> QED BY <1>9, <2>1 DEF TypeOK, TransactionDies, Active
<1>10. CASE UNCHANGED vars
  BY <1>10 DEF TypeOK, vars
<1> QED BY <1>1, <1>2, <1>3, <1>4, <1>5, <1>6, <1>7, <1>8, <1>9, <1>10 DEF Next, Step

(* Every reachable state has its types. *)
THEOREM TypeCorrect == Spec => []TypeOK
<1>1. Init => TypeOK
  BY AbsentType DEF Init, TypeOK, Idle, Drafts!Answers
<1> QED BY <1>1, NextType, PTL DEF Spec
-----------------------------------------------------------------------------
(* The inductive invariant.  Two requests never hold the same lock; a lock *)
(* is held in the phases that rely on it; and what a request has learnt    *)
(* under its locks stays true until it commits.                            *)

UnderArticle == {"recheck", "lockSlug", "checkSlug", "write", "commit"}
Judged == {"lockSlug", "checkSlug", "write", "commit"}
UnderSlug == {"checkSlug", "write", "commit"}
Cleared == {"write", "commit"}

Exclusive ==
  \A q, r \in Requests : q # r =>
    /\ ~(Holds(q, "article") /\ Holds(r, "article") /\ req[q].op.art = req[r].op.art)
    /\ ~(Holds(q, "slug") /\ Holds(r, "slug") /\ req[q].slug = req[r].slug)

(* The locks of the phases. *)
LocksHeld(x) ==
  /\ x.op.kind = "create" => x.at \notin {"lockArticle", "recheck"}
  /\ x.op.kind = "patch" => x.at \notin {"lockSlug", "checkSlug"}
  /\ x.op.kind # "create" /\ x.at \in UnderArticle => "article" \in x.held
  /\ x.op.kind # "patch" /\ x.at \in UnderSlug => "slug" \in x.held
  /\ x.at \in {"lockArticle", "recheck", "lockSlug"} => "slug" \notin x.held
  /\ x.op.kind \in {"create", "rename"} => x.slug = x.op.slug

(* The id of a new article is the request's own. *)
OwnId(r) ==
  req[r].op.kind = "create" =>
    /\ rows[req[r].op.art] = Drafts!Absent
    /\ \A q \in Requests : q # r /\ Running(q) => req[q].op.art # req[r].op.art

(* What the request knows of the committed rows. *)
Knows(x) ==
  /\ x.op.kind # "create" /\ x.at \in Judged =>
       /\ StillAsRead(rows[x.op.art], x.op)
       /\ x.op.kind = "publish" => x.slug = rows[x.op.art].latest
  /\ x.op.kind # "patch" /\ x.at \in Cleared => ~SlugConflict(x.slug, x.op.art)
  /\ x.at = "commit" => x.row = Drafts!Outcome(rows[x.op.art], x.op)

LockInv ==
  /\ TypeOK
  /\ SlugsUnique
  /\ Exclusive
  /\ \A r \in Requests : Running(r) =>
       LocksHeld(req[r]) /\ OwnId(r) /\ (Alive(r) => Knows(req[r]))

-----------------------------------------------------------------------------
(* A step that commits nothing and turns request r into y. *)
Fits(r, y) ==
  y.at # "idle" =>
    /\ LocksHeld(y)
    /\ y.op.kind = "create" => rows[y.op.art] = Drafts!Absent
    /\ \A q \in Requests :
         /\ q # r /\ Running(q)
         /\ y.op.kind = "create" \/ req[q].op.kind = "create"
         => req[q].op.art # y.op.art
    /\ y.alive => Knows(y)
    /\ \A q \in Requests : q # r /\ y.alive =>
         /\ ~(Holds(q, "article") /\ "article" \in y.held /\ req[q].op.art = y.op.art)
         /\ ~(Holds(q, "slug") /\ "slug" \in y.held /\ req[q].slug = y.slug)

(* A step of one request keeps LockInv if that request fits the rows and   *)
(* the others hold none of its locks.                                      *)
LEMMA OneRequest ==
  ASSUME LockInv, TypeOK', NEW r \in Requests, NEW y,
         req' = [req EXCEPT ![r] = y], rows' = rows, Fits(r, y)
  PROVE  LockInv'
<1>1. /\ req'[r] = y
      /\ \A q \in Requests : q # r => req'[q] = req[q]
  BY DEF LockInv, TypeOK
<1>2. SlugsUnique'
  BY DEF LockInv, SlugsUnique, Drafts!SlugsOf
<1>3. Exclusive'
  <2> SUFFICES ASSUME NEW q \in Requests, NEW p \in Requests, q # p
               PROVE  /\ ~(Holds(q, "article") /\ Holds(p, "article") /\ req[q].op.art = req[p].op.art)'
                      /\ ~(Holds(q, "slug") /\ Holds(p, "slug") /\ req[q].slug = req[p].slug)'
    BY DEF Exclusive
  <2>1. CASE q # r /\ p # r
    BY <2>1, <1>1 DEF LockInv, Exclusive, Holds, Alive, Running, At
  <2>2. CASE p = r
    BY <2>2, <1>1 DEF Fits, Holds, Alive, Running, At
  <2>3. CASE q = r
    BY <2>3, <1>1 DEF Fits, Holds, Alive, Running, At
  <2> QED BY <2>1, <2>2, <2>3
<1>4. ASSUME NEW q \in Requests, Running(q)'
      PROVE  (LocksHeld(req[q]) /\ OwnId(q) /\ (Alive(q) => Knows(req[q])))'
  <2>1. CASE q = r
    <3>1. y.at # "idle"
      BY <1>1, <1>4, <2>1 DEF Running, At
    <3>2. OwnId(q)'
      BY <1>1, <2>1, <3>1 DEF OwnId, Fits, Running, At
    <3>3. LocksHeld(y) /\ (y.alive => Knows(y))
      BY <3>1 DEF Fits
    <3>4. req'[q] = y
      BY <1>1, <2>1
    <3>5. LocksHeld(req[q])'
      <4>1. LocksHeld(req'[q])
        BY <3>3, <3>4
      <4> QED BY <4>1 DEF LocksHeld
    <3>6. Alive(q)' => Knows(req[q])'
      BY <1>1, <3>3, <3>4 DEF Alive, Knows, SlugConflict, StillAsRead
    <3> QED BY <3>2, <3>5, <3>6
  <2>2. CASE q # r
    <3>1. Running(q) /\ req'[q] = req[q] /\ (Alive(q)' <=> Alive(q))
      BY <1>1, <1>4, <2>2 DEF Running, Alive, At
    <3>2. LocksHeld(req[q]) /\ OwnId(q) /\ (Alive(q) => Knows(req[q]))
      BY <3>1 DEF LockInv
    <3>3. OwnId(q)'
      BY <1>1, <2>2, <3>1, <3>2 DEF OwnId, Fits, Running, At
    <3>4. LocksHeld(req[q])'
      BY <3>1, <3>2 DEF LocksHeld
    <3>5. Knows(req[q]) => Knows(req[q])'
      BY <1>1, <3>1 DEF Knows, SlugConflict, StillAsRead
    <3> QED BY <3>1, <3>2, <3>3, <3>4, <3>5
  <2> QED BY <2>1, <2>2
<1> QED BY <1>2, <1>3, <1>4 DEF LockInv

(* The steps of a request before its commit, one lemma each: the request   *)
(* it turns into fits.                                                     *)
LEMMA CallKeeps ==
  ASSUME LockInv, TypeOK', NEW r \in Requests, Call(r)
  PROVE  LockInv'
<1>1. PICK op \in Calls :
        req' = [req EXCEPT ![r] = [at |-> After(op.kind, "idle"), op |-> op, slug |-> op.slug,
                                   held |-> {}, row |-> Drafts!Absent, alive |-> TRUE]]
  BY DEF Call
<1> DEFINE y == [at |-> After(op.kind, "idle"), op |-> op, slug |-> op.slug,
                 held |-> {}, row |-> Drafts!Absent, alive |-> TRUE]
<1>2. /\ op.kind = "create" => Unclaimed(op.art)
      /\ op.kind # "create" => rows[op.art].ws = "draft"
      /\ op.kind \in Drafts!Kinds
  BY DEF Calls
<1>3. /\ y.at = IF op.kind = "create" THEN "lockSlug" ELSE "lockArticle"
      /\ y.op = op /\ y.slug = op.slug /\ y.held = {} /\ y.alive
  BY DEF After
<1> HIDE DEF y
<1>4. LocksHeld(y) /\ Knows(y)
  BY <1>3 DEF LocksHeld, Knows, UnderArticle, UnderSlug, Judged, Cleared
<1>5. ASSUME NEW q \in Requests, q # r, Running(q), y.op.kind = "create" \/ req[q].op.kind = "create"
      PROVE  req[q].op.art # y.op.art
  <2>1. CASE op.kind = "create"
    BY <1>2, <1>3, <1>5, <2>1 DEF Unclaimed
  <2>2. CASE op.kind # "create"
    <3>1. rows[req[q].op.art] = Drafts!Absent
      BY <1>3, <1>5, <2>2 DEF LockInv, OwnId
    <3> QED BY <1>2, <1>3, <2>2, <3>1 DEF Drafts!Absent
  <2> QED BY <2>1, <2>2
<1>6. Fits(r, y)
  BY <1>2, <1>3, <1>4, <1>5 DEF Fits, Unclaimed
<1>7. req' = [req EXCEPT ![r] = y] /\ rows' = rows
  BY <1>1 DEF y, Call
<1> QED BY <1>6, <1>7, OneRequest

(* A request that stops fits whatever it was. *)
LEMMA AbortKeeps ==
  ASSUME LockInv, TypeOK', NEW r \in Requests, NEW says, Abort(r, says)
  PROVE  LockInv'
<1>1. Fits(r, Idle)
  BY DEF Fits, Idle
<1> QED BY <1>1, OneRequest DEF Abort, End

(* A request that runs fits as it is, so only what a step changes of it    *)
(* has to be looked at.                                                    *)
LEMMA RunningFits ==
  ASSUME LockInv, NEW r \in Requests, Running(r)
  PROVE  /\ req[r] \in Active
         /\ LocksHeld(req[r])
         /\ req[r].op.kind = "create" => rows[req[r].op.art] = Drafts!Absent
         /\ \A q \in Requests : q # r /\ Running(q) =>
              (req[r].op.kind = "create" \/ req[q].op.kind = "create" => req[q].op.art # req[r].op.art)
         /\ Alive(r) => Knows(req[r])
         /\ Alive(r) => \A q \in Requests : q # r =>
              /\ ~(Holds(q, "article") /\ "article" \in req[r].held /\ req[q].op.art = req[r].op.art)
              /\ ~(Holds(q, "slug") /\ "slug" \in req[r].held /\ req[q].slug = req[r].slug)
<1>1. req[r] \in Active
  BY ActiveIsNotIdle DEF LockInv, TypeOK, Running, At
<1>2. OwnId(r) /\ LocksHeld(req[r]) /\ (Alive(r) => Knows(req[r]))
  BY DEF LockInv
<1>3. ASSUME NEW q \in Requests, q # r, Running(q),
             req[r].op.kind = "create" \/ req[q].op.kind = "create"
      PROVE  req[q].op.art # req[r].op.art
  <2>1. OwnId(q)
    BY <1>3 DEF LockInv
  <2> QED BY <1>2, <1>3, <2>1 DEF OwnId
<1>4. ASSUME Alive(r), NEW q \in Requests, q # r
      PROVE  /\ ~(Holds(q, "article") /\ "article" \in req[r].held /\ req[q].op.art = req[r].op.art)
             /\ ~(Holds(q, "slug") /\ "slug" \in req[r].held /\ req[q].slug = req[r].slug)
  BY <1>4 DEF LockInv, Exclusive, Holds
<1> QED BY <1>1, <1>2, <1>3, <1>4 DEF OwnId

(* Taking the article lock keeps LockInv. *)
LEMMA LockArticleKeeps ==
  ASSUME LockInv, TypeOK', NEW r \in Requests, LockArticle(r)
  PROVE  LockInv'
<1> DEFINE x == req[r]
           y == [x EXCEPT !.at = "recheck", !.held = @ \cup {"article"}]
<1>1. Running(r) /\ Alive(r) /\ x.at = "lockArticle"
  BY DEF LockArticle, Alive, At
<1>2. /\ y.at = "recheck" /\ y.op = x.op /\ y.slug = x.slug /\ y.row = x.row /\ y.alive = x.alive
      /\ y.held = x.held \cup {"article"}
  BY <1>1, RunningFits DEF Active
<1>3. req' = [req EXCEPT ![r] = y] /\ rows' = rows
  BY DEF LockArticle
<1>4. \A q \in Requests : ~(Holds(q, "article") /\ req[q].op.art = x.op.art)
  BY DEF LockArticle, HoldsArticle
<1>5. /\ LocksHeld(x)
      /\ x.op.kind = "create" => rows[x.op.art] = Drafts!Absent
      /\ \A q \in Requests : q # r /\ Running(q) =>
           (x.op.kind = "create" \/ req[q].op.kind = "create" => req[q].op.art # x.op.art)
      /\ \A q \in Requests : q # r => ~(Holds(q, "slug") /\ "slug" \in x.held /\ req[q].slug = x.slug)
  BY <1>1, RunningFits
<1> HIDE DEF x, y
<1>6. LocksHeld(y) /\ Knows(y)
  BY <1>1, <1>2, <1>5 DEF LocksHeld, Knows, UnderArticle, UnderSlug, Judged, Cleared
<1>7. Fits(r, y)
  BY <1>2, <1>4, <1>5, <1>6 DEF Fits
<1> QED BY <1>3, <1>7, OneRequest

(* Judging the article again keeps LockInv. *)
LEMMA RecheckKeeps ==
  ASSUME LockInv, TypeOK', NEW r \in Requests, Recheck(r)
  PROVE  LockInv'
<1> DEFINE x == req[r]
           slug == IF x.op.kind = "publish" THEN rows[x.op.art].latest ELSE x.slug
           y == [x EXCEPT !.at = Advance(r), !.slug = slug]
<1>1. Running(r) /\ x.alive /\ x.at = "recheck"
  BY DEF Recheck, Alive, At
<1>2. /\ LocksHeld(x)
      /\ x.op.kind \in Drafts!Kinds
      /\ x.op.kind = "create" => rows[x.op.art] = Drafts!Absent
      /\ \A q \in Requests : q # r /\ Running(q) =>
           (x.op.kind = "create" \/ req[q].op.kind = "create" => req[q].op.art # x.op.art)
      /\ x.alive => Knows(x)
      /\ x.alive => \A q \in Requests : q # r =>
           /\ ~(Holds(q, "article") /\ "article" \in x.held /\ req[q].op.art = x.op.art)
           /\ ~(Holds(q, "slug") /\ "slug" \in x.held /\ req[q].slug = x.slug)
  BY <1>1, RunningFits DEF Alive, Active, Drafts!Op
<1>3. CASE ~StillAsRead(rows[x.op.art], x.op)
  BY <1>3, AbortKeeps DEF Recheck
<1>4. CASE StillAsRead(rows[x.op.art], x.op)
  <2>1. req' = [req EXCEPT ![r] = y] /\ rows' = rows
    BY <1>4 DEF Recheck
  <2>2. y.at = (IF x.op.kind = "patch" THEN "write" ELSE "lockSlug")
    BY <1>1, RunningFits DEF Advance, After, Active
  <2>3. y.op = x.op /\ y.slug = slug /\ y.row = x.row /\ y.alive = x.alive /\ y.held = x.held
    BY <1>1, RunningFits DEF Active
  <2>4. x.op.kind = "publish" => slug = rows[x.op.art].latest
    OBVIOUS
  <2>5. x.op.kind # "publish" => slug = x.slug
    OBVIOUS
  <2>6. "slug" \notin x.held /\ x.op.kind # "create" /\ "article" \in x.held
    BY <1>1, <1>2 DEF LocksHeld, UnderArticle
  <2> HIDE DEF x, y, slug
  <2>7. LocksHeld(y)
    BY <1>1, <1>2, <2>2, <2>3, <2>5, <2>6 DEF LocksHeld, UnderSlug
  <2>8. Knows(y)
    BY <1>4, <2>2, <2>3, <2>4, <2>6 DEF Knows, Cleared
  <2>9. Fits(r, y)
    BY <1>1, <1>2, <2>3, <2>6, <2>7, <2>8 DEF Fits
  <2> QED BY <2>1, <2>9, OneRequest
<1> QED BY <1>3, <1>4

(* Taking the slug lock keeps LockInv. *)
LEMMA LockSlugKeeps ==
  ASSUME LockInv, TypeOK', NEW r \in Requests, LockSlug(r)
  PROVE  LockInv'
<1> DEFINE x == req[r]
           y == [x EXCEPT !.at = "checkSlug", !.held = @ \cup {"slug"}]
<1>1. Running(r) /\ x.alive /\ x.at = "lockSlug"
  BY DEF LockSlug, Alive, At
<1>2. /\ LocksHeld(x)
      /\ x.op.kind \in Drafts!Kinds
      /\ x.op.kind = "create" => rows[x.op.art] = Drafts!Absent
      /\ \A q \in Requests : q # r /\ Running(q) =>
           (x.op.kind = "create" \/ req[q].op.kind = "create" => req[q].op.art # x.op.art)
      /\ x.alive => Knows(x)
      /\ x.alive => \A q \in Requests : q # r =>
           /\ ~(Holds(q, "article") /\ "article" \in x.held /\ req[q].op.art = x.op.art)
           /\ ~(Holds(q, "slug") /\ "slug" \in x.held /\ req[q].slug = x.slug)
  BY <1>1, RunningFits DEF Alive, Active, Drafts!Op
<1>3. /\ y.at = "checkSlug" /\ y.op = x.op /\ y.slug = x.slug /\ y.row = x.row /\ y.alive = x.alive
      /\ y.held = x.held \cup {"slug"}
  BY <1>1, RunningFits DEF Active
<1>4. req' = [req EXCEPT ![r] = y] /\ rows' = rows
  BY DEF LockSlug
<1>5. \A q \in Requests : ~(Holds(q, "slug") /\ req[q].slug = x.slug)
  BY DEF LockSlug, HoldsSlug
<1> HIDE DEF x, y
<1>6. LocksHeld(y)
  BY <1>1, <1>2, <1>3 DEF LocksHeld, UnderArticle, UnderSlug
<1>7. Knows(y)
  BY <1>1, <1>2, <1>3 DEF Knows, Judged, Cleared
<1>8. Fits(r, y)
  BY <1>1, <1>2, <1>3, <1>5, <1>6, <1>7 DEF Fits
<1> QED BY <1>4, <1>8, OneRequest

(* Looking for the slug keeps LockInv. *)
LEMMA CheckSlugKeeps ==
  ASSUME LockInv, TypeOK', NEW r \in Requests, CheckSlug(r)
  PROVE  LockInv'
<1> DEFINE x == req[r]
           y == [x EXCEPT !.at = Advance(r)]
<1>1. Running(r) /\ x.at = "checkSlug"
  BY DEF CheckSlug, Running, At
<1>2. /\ LocksHeld(x)
      /\ x.op.kind \in Drafts!Kinds
      /\ x.op.kind = "create" => rows[x.op.art] = Drafts!Absent
      /\ \A q \in Requests : q # r /\ Running(q) =>
           (x.op.kind = "create" \/ req[q].op.kind = "create" => req[q].op.art # x.op.art)
      /\ x.alive => Knows(x)
      /\ x.alive => \A q \in Requests : q # r =>
           /\ ~(Holds(q, "article") /\ "article" \in x.held /\ req[q].op.art = x.op.art)
           /\ ~(Holds(q, "slug") /\ "slug" \in x.held /\ req[q].slug = x.slug)
  BY <1>1, RunningFits DEF Alive, Active, Drafts!Op
<1>3. CASE SlugConflict(x.slug, x.op.art)
  BY <1>3, AbortKeeps DEF CheckSlug
<1>4. CASE ~SlugConflict(x.slug, x.op.art)
  <2>1. req' = [req EXCEPT ![r] = y] /\ rows' = rows
    BY <1>4 DEF CheckSlug
  <2>2. y.at = "write"
    BY <1>1, RunningFits DEF Advance, After, Active
  <2>3. y.op = x.op /\ y.slug = x.slug /\ y.row = x.row /\ y.alive = x.alive /\ y.held = x.held
    BY <1>1, RunningFits DEF Active
  <2> HIDE DEF x, y
  <2>4. LocksHeld(y)
    BY <1>1, <1>2, <2>2, <2>3 DEF LocksHeld, UnderArticle, UnderSlug
  <2>5. x.alive => Knows(y)
    BY <1>1, <1>2, <1>4, <2>2, <2>3 DEF Knows, Judged
  <2>6. Fits(r, y)
    BY <1>2, <2>3, <2>4, <2>5 DEF Fits
  <2> QED BY <2>1, <2>6, OneRequest
<1> QED BY <1>3, <1>4

(* Writing inside the transaction keeps LockInv. *)
LEMMA WriteKeeps ==
  ASSUME LockInv, TypeOK', NEW r \in Requests, Write(r)
  PROVE  LockInv'
<1> DEFINE x == req[r]
           y == [x EXCEPT !.at = "commit", !.row = Drafts!Outcome(rows[x.op.art], x.op)]
<1>1. Running(r) /\ x.alive /\ x.at = "write"
  BY DEF Write, Alive, At
<1>2. /\ LocksHeld(x)
      /\ x.op.kind \in Drafts!Kinds
      /\ x.op.kind = "create" => rows[x.op.art] = Drafts!Absent
      /\ \A q \in Requests : q # r /\ Running(q) =>
           (x.op.kind = "create" \/ req[q].op.kind = "create" => req[q].op.art # x.op.art)
      /\ x.alive => Knows(x)
      /\ x.alive => \A q \in Requests : q # r =>
           /\ ~(Holds(q, "article") /\ "article" \in x.held /\ req[q].op.art = x.op.art)
           /\ ~(Holds(q, "slug") /\ "slug" \in x.held /\ req[q].slug = x.slug)
  BY <1>1, RunningFits DEF Alive, Active, Drafts!Op
<1>3. req' = [req EXCEPT ![r] = y] /\ rows' = rows
  BY DEF Write
<1>4. /\ y.at = "commit" /\ y.op = x.op /\ y.slug = x.slug /\ y.alive = x.alive /\ y.held = x.held
      /\ y.row = Drafts!Outcome(rows[x.op.art], x.op)
  BY <1>1, RunningFits DEF Active
<1> HIDE DEF x, y
<1>5. LocksHeld(y)
  BY <1>1, <1>2, <1>4 DEF LocksHeld, UnderArticle, UnderSlug
<1>6. Knows(y)
  BY <1>1, <1>2, <1>4 DEF Knows, Judged, Cleared
<1>7. Fits(r, y)
  BY <1>2, <1>4, <1>5, <1>6 DEF Fits
<1> QED BY <1>3, <1>7, OneRequest

(* The end of a transaction keeps LockInv. *)
LEMMA DiesKeeps ==
  ASSUME LockInv, TypeOK', NEW r \in Requests, TransactionDies(r)
  PROVE  LockInv'
<1> DEFINE x == req[r]
           y == [x EXCEPT !.alive = FALSE]
<1>1. Running(r)
  BY DEF TransactionDies, Alive
<1>2. /\ LocksHeld(x)
      /\ x.op.kind \in Drafts!Kinds
      /\ x.op.kind = "create" => rows[x.op.art] = Drafts!Absent
      /\ \A q \in Requests : q # r /\ Running(q) =>
           (x.op.kind = "create" \/ req[q].op.kind = "create" => req[q].op.art # x.op.art)
      /\ x.alive => Knows(x)
      /\ x.alive => \A q \in Requests : q # r =>
           /\ ~(Holds(q, "article") /\ "article" \in x.held /\ req[q].op.art = x.op.art)
           /\ ~(Holds(q, "slug") /\ "slug" \in x.held /\ req[q].slug = x.slug)
  BY <1>1, RunningFits DEF Alive, Active, Drafts!Op
<1>3. req' = [req EXCEPT ![r] = y] /\ rows' = rows
  BY DEF TransactionDies
<1>4. y.at = x.at /\ y.op = x.op /\ y.slug = x.slug /\ y.held = x.held /\ ~y.alive
  BY <1>1, RunningFits DEF Active
<1> HIDE DEF x, y
<1>5. LocksHeld(y)
  BY <1>2, <1>4 DEF LocksHeld
<1>6. Fits(r, y)
  BY <1>2, <1>4, <1>5 DEF Fits
<1> QED BY <1>3, <1>6, OneRequest

-----------------------------------------------------------------------------
(* The slugs a write leaves on its article: those that were there, and the *)
(* one it locked.                                                          *)
LEMMA OutcomeSlugs ==
  ASSUME NEW row \in Drafts!Row, NEW op \in Drafts!Op, NEW field \in {"main", "latest"}
  PROVE  \/ Drafts!Outcome(row, op)[field] \in {row.main, row.latest}
         \/ op.kind \in {"create", "rename"} /\ Drafts!Outcome(row, op)[field] = op.slug
<1>1. CASE op.kind = "create"
  BY <1>1 DEF Drafts!Outcome
<1>2. CASE op.kind = "patch"
  BY <1>2 DEF Drafts!Outcome, Drafts!Row
<1>3. CASE op.kind = "rename"
  BY <1>3 DEF Drafts!Outcome, Drafts!Row
<1>4. CASE op.kind = "publish"
  BY <1>4 DEF Drafts!Outcome, Drafts!Row
<1> QED BY <1>1, <1>2, <1>3, <1>4 DEF Drafts!Op, Drafts!Kinds

(* What a request knows when it commits. *)
LEMMA AtCommit ==
  ASSUME LockInv, NEW r \in Requests, MayCommit(r)
  PROVE  /\ Running(r) /\ Alive(r) /\ req[r] \in Active
         /\ req[r].row = Drafts!Outcome(rows[req[r].op.art], req[r].op)
         /\ req[r].op.kind # "create" => /\ StillAsRead(rows[req[r].op.art], req[r].op)
                                         /\ Holds(r, "article")
         /\ req[r].op.kind = "create" => rows[req[r].op.art] = Drafts!Absent
         /\ req[r].op.kind = "publish" => req[r].slug = rows[req[r].op.art].latest
         /\ req[r].op.kind # "patch" => /\ ~SlugConflict(req[r].slug, req[r].op.art)
                                        /\ Holds(r, "slug")
         /\ req[r].op.kind \in {"create", "rename"} => req[r].slug = req[r].op.slug
<1>1. Running(r) /\ Alive(r) /\ req[r].at = "commit"
  BY DEF MayCommit, Alive, At
<1>2. req[r] \in Active /\ LocksHeld(req[r]) /\ Knows(req[r])
      /\ (req[r].op.kind = "create" => rows[req[r].op.art] = Drafts!Absent)
  BY <1>1, RunningFits
<1> QED BY <1>1, <1>2 DEF LocksHeld, Knows, UnderArticle, UnderSlug, Judged, Cleared, Holds

(* A commit keeps LockInv, for everyone else as well. *)
LEMMA CommitKeeps ==
  ASSUME LockInv, TypeOK', NEW r \in Requests, Commit(r)
  PROVE  LockInv'
<1> DEFINE a == req[r].op.art
           op == req[r].op
           row == req[r].row
           s == req[r].slug
<1>1. MayCommit(r)
  BY DEF Commit
<1>2. /\ rows' = [rows EXCEPT ![a] = row] /\ req' = [req EXCEPT ![r] = Idle]
      /\ req \in [Requests -> {Idle} \cup Active] /\ rows \in [Articles -> Drafts!Row]
  BY DEF Commit, End, LockInv, TypeOK
<1>3. /\ a \in Articles /\ op \in Drafts!Op
      /\ rows'[a] = row /\ \A b \in Articles : b # a => rows'[b] = rows[b]
      /\ \A q \in Requests : q # r => req'[q] = req[q]
      /\ ~Running(r)'
  <2>1. req[r] \in Active
    BY <1>1, AtCommit
  <2>2. op \in Drafts!Op /\ a \in Articles
    BY <2>1 DEF Active, Drafts!Op
  <2>3. rows'[a] = row /\ \A b \in Articles : b # a => rows'[b] = rows[b]
    BY <1>2, <2>2
  <2>4. req'[r] = Idle /\ \A q \in Requests : q # r => req'[q] = req[q]
    BY <1>2
  <2>5. ~Running(r)'
    BY <2>4 DEF Running, At, Idle
  <2> QED BY <2>2, <2>3, <2>4, <2>5
<1>4. \A f \in {"main", "latest"} :
        \/ row[f] \in {rows[a].main, rows[a].latest}
        \/ op.kind \in {"create", "rename"} /\ row[f] = s
  <2>1. row = Drafts!Outcome(rows[a], op)
    BY <1>1, AtCommit
  <2>2. op.kind \in {"create", "rename"} => s = op.slug
    BY <1>1, AtCommit
  <2>3. rows[a] \in Drafts!Row /\ op \in Drafts!Op
    BY <1>2, <1>3
  <2> HIDE DEF a, op, row, s
  <2> QED BY <2>1, <2>2, <2>3, OutcomeSlugs
<1>5. op.kind # "patch" => \A b \in Articles : b # a => s # rows[b].main /\ s # rows[b].latest
  BY <1>1, AtCommit DEF SlugConflict
<1> HIDE DEF a, op, row, s
<1>6. SlugsUnique'
  <2> SUFFICES ASSUME NEW b \in Articles, NEW c \in Articles, b # c
               PROVE  Drafts!SlugsOf(rows', b) \cap Drafts!SlugsOf(rows', c) = {}
    BY DEF SlugsUnique, Drafts!SlugsOf
  <2>1. Drafts!SlugsOf(rows, b) \cap Drafts!SlugsOf(rows, c) = {}
    BY DEF LockInv, SlugsUnique
  <2>2. row.main \in {rows[a].main, rows[a].latest} \/ (op.kind \in {"create", "rename"} /\ row.main = s)
    BY <1>4
  <2>3. row.latest \in {rows[a].main, rows[a].latest} \/ (op.kind \in {"create", "rename"} /\ row.latest = s)
    BY <1>4
  <2>4. CASE b # a /\ c # a
    BY <1>3, <2>1, <2>4 DEF Drafts!SlugsOf
  <2>5. CASE b = a
    BY <1>3, <1>5, <2>1, <2>2, <2>3, <2>5 DEF Drafts!SlugsOf
  <2>6. CASE c = a
    BY <1>3, <1>5, <2>1, <2>2, <2>3, <2>6 DEF Drafts!SlugsOf
  <2> QED BY <2>4, <2>5, <2>6
<1>7. Exclusive'
  BY <1>3 DEF LockInv, Exclusive, Holds, Alive, Running, At
<1>8. ASSUME NEW q \in Requests, Running(q)'
      PROVE  (LocksHeld(req[q]) /\ OwnId(q) /\ (Alive(q) => Knows(req[q])))'
  <2>1. q # r /\ req'[q] = req[q] /\ Running(q) /\ (Alive(q)' <=> Alive(q))
    BY <1>3, <1>8 DEF Running, Alive, At
  <2>2. req[q] \in Active /\ LocksHeld(req[q]) /\ OwnId(q) /\ (Alive(q) => Knows(req[q]))
    BY <2>1, RunningFits DEF LockInv
  <2>3. req[q].op.art \in Articles
    BY <2>2 DEF Active, Drafts!Op
  <2>4. op.kind = "create" \/ req[q].op.kind = "create" => req[q].op.art # a
    BY <1>1, <2>1, AtCommit, RunningFits DEF a, op
  <2>5. LocksHeld(req[q])'
    BY <2>1, <2>2 DEF LocksHeld
  <2>6. OwnId(q)'
    BY <1>3, <2>1, <2>2, <2>3, <2>4 DEF OwnId, Running, At
  <2>7. ASSUME Alive(q) PROVE Knows(req[q])'
    <3>1. CASE req[q].at \notin Judged
      BY <2>1, <2>2, <3>1 DEF Knows, Judged, Cleared
    <3>2. CASE req[q].at \in Judged
      <4>1. req[q].op.kind # "create" => Holds(q, "article")
        BY <2>2, <2>7, <3>2 DEF LocksHeld, Judged, UnderArticle, Holds
      <4>2. req[q].op.art # a
        <5>1. CASE op.kind = "create" \/ req[q].op.kind = "create"
          BY <2>4, <5>1
        <5>2. CASE op.kind # "create" /\ req[q].op.kind # "create"
          <6>1. Holds(r, "article")
            BY <1>1, <5>2, AtCommit DEF op
          <6> QED BY <2>1, <4>1, <5>2, <6>1 DEF LockInv, Exclusive, a
        <5> QED BY <5>1, <5>2
      <4>3. rows'[req[q].op.art] = rows[req[q].op.art]
        BY <1>3, <2>3, <4>2
      <4>4. ASSUME req[q].op.kind # "patch", req[q].at \in Cleared
            PROVE  ~SlugConflict(req[q].slug, req[q].op.art)'
        <5>1. ~SlugConflict(req[q].slug, req[q].op.art)
          BY <2>2, <2>7, <4>4 DEF Knows
        <5>2. Holds(q, "slug")
          BY <2>2, <2>7, <4>4 DEF LocksHeld, Cleared, UnderSlug, Holds
        <5>3. op.kind \in {"create", "rename"} => req[q].slug # s
          BY <1>1, <2>1, <5>2, AtCommit DEF LockInv, Exclusive, s, op
        <5>4. /\ row.main \in {rows[a].main, rows[a].latest} \/ (op.kind \in {"create", "rename"} /\ row.main = s)
              /\ row.latest \in {rows[a].main, rows[a].latest} \/ (op.kind \in {"create", "rename"} /\ row.latest = s)
          BY <1>4
        <5>5. req[q].slug # row.main /\ req[q].slug # row.latest
          BY <1>3, <4>2, <5>1, <5>3, <5>4 DEF SlugConflict
        <5> QED BY <1>3, <2>1, <5>1, <5>5 DEF SlugConflict
      <4> QED BY <2>1, <2>2, <2>7, <4>3, <4>4 DEF Knows, StillAsRead
    <3> QED BY <3>1, <3>2
  <2> QED BY <2>1, <2>5, <2>6, <2>7
<1> QED BY <1>6, <1>7, <1>8 DEF LockInv

(* LockInv is inductive. *)
LEMMA NextKeeps == LockInv /\ [Next]_vars => LockInv'
<1> SUFFICES ASSUME LockInv, [Next]_vars PROVE LockInv'
  OBVIOUS
<1>1. TypeOK'
  BY NextType DEF LockInv
<1>2. ASSUME NEW r \in Requests, Call(r) \/ TransactionDies(r) PROVE LockInv'
  BY <1>1, <1>2, CallKeeps, DiesKeeps
<1>3. ASSUME NEW r \in Requests, LockArticle(r) \/ Recheck(r) PROVE LockInv'
  BY <1>1, <1>3, LockArticleKeeps, RecheckKeeps
<1>4. ASSUME NEW r \in Requests, LockSlug(r) \/ CheckSlug(r) PROVE LockInv'
  BY <1>1, <1>4, LockSlugKeeps, CheckSlugKeeps
<1>5. ASSUME NEW r \in Requests, Write(r) \/ Commit(r) PROVE LockInv'
  BY <1>1, <1>5, WriteKeeps, CommitKeeps
<1>6. ASSUME NEW r \in Requests, Timeout(r) \/ TransactionLost(r) PROVE LockInv'
  BY <1>1, <1>6, AbortKeeps DEF Timeout, TransactionLost
<1>7. CASE UNCHANGED vars
  <2>1. rows' = rows /\ req' = req
    BY <1>7 DEF vars
  <2>2. SlugsUnique'
    BY <2>1 DEF LockInv, SlugsUnique, Drafts!SlugsOf
  <2>3. Exclusive'
    BY <2>1 DEF LockInv, Exclusive, Holds, Alive, Running, At
  <2>4. ASSUME NEW r \in Requests, Running(r)'
        PROVE  LocksHeld(req[r])' /\ OwnId(r)' /\ (Alive(r)' => Knows(req[r])')
    <3>1. Running(r)
      BY <2>1, <2>4 DEF Running, At
    <3>2. LocksHeld(req[r]) /\ OwnId(r) /\ (Alive(r) => Knows(req[r]))
      BY <3>1 DEF LockInv
    <3>3. LocksHeld(req[r])'
      BY <2>1, <3>2 DEF LocksHeld
    <3>6. OwnId(r)'
      BY <2>1, <3>2 DEF OwnId, Running, At
    <3>4. Alive(r)' => Alive(r)
      BY <2>1 DEF Alive, Running, At
    <3>5. Knows(req[r]) => Knows(req[r])'
      BY <2>1 DEF Knows, SlugConflict, StillAsRead
    <3>. QED BY <3>2, <3>3, <3>4, <3>5, <3>6
  <2>. QED BY <1>1, <2>2, <2>3, <2>4 DEF LockInv
<1> QED BY <1>2, <1>3, <1>4, <1>5, <1>6, <1>7 DEF Next, Step

(* LockInv holds at the start. *)
LEMMA InitLockInv == Init => LockInv
<1> SUFFICES ASSUME Init PROVE LockInv
  OBVIOUS
<1>1. TypeOK
  BY AbsentType DEF Init, TypeOK, Idle, Drafts!Answers
<1>2. SlugsUnique
  BY DEF Init, SlugsUnique, Drafts!SlugsOf, Drafts!Absent
<1>3. \A r \in Requests : ~Running(r)
  BY DEF Init, Running, At, Idle
<1> QED BY <1>1, <1>2, <1>3 DEF LockInv, Exclusive, Holds, Alive

(* Two hub calls can never leave two articles with one slug, neither on    *)
(* the main rows nor in the latest versions, although the table has no     *)
(* unique index and the search for the slug runs outside the transaction.  *)
THEOREM SlugsUniqueHolds == Spec => []SlugsUnique
<1>1. LockInv => SlugsUnique
  BY DEF LockInv
<1> QED BY <1>1, InitLockInv, NextKeeps, PTL DEF Spec
-----------------------------------------------------------------------------
(* The refinement: a request that commits takes effect at its commit, on   *)
(* rows that are still as it judged them.                                  *)

(* A request that ends answers its call. *)
LEMMA EndReplies ==
  ASSUME LockInv, NEW r \in Requests, NEW says, End(r, says)
  PROVE  Drafts!Reply(r, says)
<1>1. open' = [open EXCEPT ![r] = NoOp]
  BY DEF LockInv, TypeOK, End, open, Idle
<1> QED BY <1>1 DEF End, Drafts!Reply

(* A running request is an open call of HubDrafts. *)
LEMMA RunningIsOpen ==
  ASSUME LockInv, NEW r \in Requests, Running(r)
  PROVE  open[r] = req[r].op /\ open[r] # NoOp
<1>1. req[r].op \in Drafts!Op
  BY RunningFits DEF Active
<1> QED BY <1>1, NoOpAssumption DEF open, Running, At

(* A step that only moves a request on is not seen from outside. *)
LEMMA MoveIsStutter ==
  ASSUME LockInv, NEW r \in Requests, Running(r), NEW y, y.at # "idle", y.op = req[r].op,
         req' = [req EXCEPT ![r] = y], UNCHANGED <<rows, answer>>
  PROVE  UNCHANGED Drafts!vars
<1>1. open' = open
  BY DEF LockInv, TypeOK, open, Running, At
<1> QED BY <1>1 DEF Drafts!vars

(* A call is an Invoke. *)
LEMMA CallInvokes ==
  ASSUME LockInv, NEW r \in Requests, Call(r)
  PROVE  Drafts!Invoke(r)
<1>1. PICK op \in Calls :
        req' = [req EXCEPT ![r] = [at |-> After(op.kind, "idle"), op |-> op, slug |-> op.slug,
                                   held |-> {}, row |-> Drafts!Absent, alive |-> TRUE]]
  BY DEF Call
<1>2. op \in Drafts!Op
  BY DEF Calls, Drafts!Op, LockInv, TypeOK, Drafts!Row
<1>3. After(op.kind, "idle") # "idle"
  BY DEF After
<1>4. open' = [open EXCEPT ![r] = op]
  BY <1>1, <1>3 DEF LockInv, TypeOK, open
<1>5. open[r] = NoOp /\ open'[r] = op
  BY <1>4 DEF Call, At, open
<1> QED BY <1>2, <1>4, <1>5 DEF Call, Drafts!Invoke

(* An end without a write is a Refuse. *)
LEMMA AbortRefuses ==
  ASSUME LockInv, NEW r \in Requests, Running(r), NEW says \in {"refused", "busy", "error"},
         Abort(r, says)
  PROVE  Drafts!Refuse(r)
BY EndReplies, RunningIsOpen DEF Abort, Drafts!Refuse

(* A commit is a Succeed, or an Unknown. *)
LEMMA CommitTakesEffect ==
  ASSUME LockInv, NEW r \in Requests, Commit(r)
  PROVE  Drafts!Succeed(r) \/ Drafts!Unknown(r)
<1> DEFINE op == req[r].op
<1>1. MayCommit(r) /\ rows' = [rows EXCEPT ![op.art] = req[r].row]
  BY DEF Commit
<1>2. PICK says \in {"ok", "error"} : End(r, says)
  BY DEF Commit
<1>3. open[r] = op /\ open[r] # NoOp
  BY <1>1, AtCommit, RunningIsOpen
<1>4. Drafts!Applicable(rows, op)
  <2>1. op.kind \in Drafts!Kinds
    BY <1>1, AtCommit DEF Active, Drafts!Op
  <2>2. op.kind # "patch" => Drafts!SlugFree(rows, req[r].slug, op.art)
    BY <1>1, AtCommit DEF SlugConflict, Drafts!SlugFree, Drafts!SlugsOf
  <2> QED BY <1>1, <2>1, <2>2, AtCommit DEF Drafts!Applicable, Drafts!Kinds, StillAsRead
<1>5. Drafts!Effect(op)
  BY <1>1, <1>4, AtCommit DEF Drafts!Effect
<1> QED BY <1>2, <1>3, <1>5, EndReplies DEF Drafts!Succeed, Drafts!Unknown

(* Every step is a step of HubDrafts, or a stutter. *)
LEMMA StepRefines == LockInv /\ [Next]_vars => [Drafts!Next]_(Drafts!vars)
<1> SUFFICES ASSUME LockInv, [Next]_vars PROVE [Drafts!Next]_(Drafts!vars)
  OBVIOUS
<1>1. ASSUME NEW r \in Requests, Call(r) PROVE Drafts!Next
  BY <1>1, CallInvokes DEF Drafts!Next
<1>2. ASSUME NEW r \in Requests, LockArticle(r) \/ LockSlug(r) \/ Write(r) \/ TransactionDies(r)
      PROVE  UNCHANGED Drafts!vars
  <2>1. Running(r) /\ req[r] \in Active
    BY <1>2, RunningFits DEF LockArticle, LockSlug, Write, TransactionDies, Alive
  <2>2. ASSUME NEW y, req' = [req EXCEPT ![r] = y], y.at # "idle", y.op = req[r].op
        PROVE  UNCHANGED Drafts!vars
    BY <1>2, <2>1, <2>2, MoveIsStutter DEF LockArticle, LockSlug, Write, TransactionDies
  <2>3. CASE LockArticle(r)
    <3> DEFINE y == [req[r] EXCEPT !.at = "recheck", !.held = @ \cup {"article"}]
    <3>1. req' = [req EXCEPT ![r] = y]
      BY <2>3 DEF LockArticle
    <3>2. y.at # "idle" /\ y.op = req[r].op
      BY <2>1 DEF Active, Running, At
    <3> HIDE DEF y
    <3> QED BY <3>1, <3>2, <2>2
  <2>4. CASE LockSlug(r)
    <3> DEFINE y == [req[r] EXCEPT !.at = "checkSlug", !.held = @ \cup {"slug"}]
    <3>1. req' = [req EXCEPT ![r] = y]
      BY <2>4 DEF LockSlug
    <3>2. y.at # "idle" /\ y.op = req[r].op
      BY <2>1 DEF Active, Running, At
    <3> HIDE DEF y
    <3> QED BY <3>1, <3>2, <2>2
  <2>5. CASE Write(r)
    <3> DEFINE y == [req[r] EXCEPT !.at = "commit", !.row = Drafts!Outcome(rows[req[r].op.art], req[r].op)]
    <3>1. req' = [req EXCEPT ![r] = y]
      BY <2>5 DEF Write
    <3>2. y.at # "idle" /\ y.op = req[r].op
      BY <2>1 DEF Active, Running, At
    <3> HIDE DEF y
    <3> QED BY <3>1, <3>2, <2>2
  <2>6. CASE TransactionDies(r)
    <3> DEFINE y == [req[r] EXCEPT !.alive = FALSE]
    <3>1. req' = [req EXCEPT ![r] = y]
      BY <2>6 DEF TransactionDies
    <3>2. y.at # "idle" /\ y.op = req[r].op
      BY <2>1 DEF Active, Running, At
    <3> HIDE DEF y
    <3> QED BY <3>1, <3>2, <2>2
  <2> QED BY <1>2, <2>3, <2>4, <2>5, <2>6
<1>3. ASSUME NEW r \in Requests, Recheck(r) \/ CheckSlug(r)
      PROVE  Drafts!Next \/ UNCHANGED Drafts!vars
  <2>1. Running(r) /\ req[r] \in Active
    BY <1>3, RunningFits DEF Recheck, CheckSlug, Running, At
  <2>2. CASE Abort(r, "refused")
    BY <2>1, <2>2, AbortRefuses DEF Drafts!Next
  <2>3. CASE ~Abort(r, "refused")
    <3>1. Advance(r) # "idle"
      <4>1. req[r].at \in {"recheck", "checkSlug"}
        BY <1>3 DEF Recheck, CheckSlug, At
      <4> QED BY <4>1, <2>1, AfterType DEF Advance, Phases, Active, Drafts!Op
    <3>2. ASSUME NEW y, req' = [req EXCEPT ![r] = y], y.at = Advance(r), y.op = req[r].op,
                 UNCHANGED <<rows, answer>>
          PROVE  UNCHANGED Drafts!vars
      BY <2>1, <3>1, <3>2, MoveIsStutter
    <3>3. CASE Recheck(r)
      <4> DEFINE slug == IF req[r].op.kind = "publish" THEN rows[req[r].op.art].latest ELSE req[r].slug
                 y == [req[r] EXCEPT !.at = Advance(r), !.slug = slug]
      <4>1. req' = [req EXCEPT ![r] = y] /\ UNCHANGED <<rows, answer>>
        BY <2>3, <3>3 DEF Recheck
      <4>2. y.at = Advance(r) /\ y.op = req[r].op
        BY <2>1 DEF Active
      <4> HIDE DEF y
      <4> QED BY <3>2, <4>1, <4>2
    <3>4. CASE CheckSlug(r)
      <4> DEFINE y == [req[r] EXCEPT !.at = Advance(r)]
      <4>1. req' = [req EXCEPT ![r] = y] /\ UNCHANGED <<rows, answer>>
        BY <2>3, <3>4 DEF CheckSlug
      <4>2. y.at = Advance(r) /\ y.op = req[r].op
        BY <2>1 DEF Active
      <4> HIDE DEF y
      <4> QED BY <3>2, <4>1, <4>2
    <3> QED BY <1>3, <3>3, <3>4
  <2> QED BY <2>2, <2>3
<1>4. ASSUME NEW r \in Requests, Commit(r) PROVE Drafts!Next
  BY <1>4, CommitTakesEffect DEF Drafts!Next
<1>5. ASSUME NEW r \in Requests, Timeout(r) \/ TransactionLost(r) PROVE Drafts!Next
  <2>1. Running(r)
    BY <1>5 DEF Timeout, TransactionLost, Running, At
  <2>2. Abort(r, "busy") \/ Abort(r, "error")
    BY <1>5 DEF Timeout, TransactionLost
  <2> QED BY <2>1, <2>2, AbortRefuses DEF Drafts!Next
<1>6. CASE UNCHANGED vars
  BY <1>6 DEF vars, Drafts!vars, open
<1> QED BY <1>1, <1>2, <1>3, <1>4, <1>5, <1>6 DEF Next, Step

(* The locks make every hub call on an article atomic: seen from outside,  *)
(* it takes effect at one moment, on the version it named and with a slug  *)
(* nobody else has, or not at all, and only a 500 leaves open which.       *)
THEOREM ImplementsDraftsHolds == Spec => ImplementsDrafts
<1>1. Init => Drafts!Init
  BY DEF Init, Drafts!Init, open, Idle
<1> QED BY <1>1, InitLockInv, NextKeeps, StepRefines, PTL DEF Spec, ImplementsDrafts, Drafts!Spec
=============================================================================
