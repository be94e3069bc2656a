--------------------------- MODULE Structure_proofs ---------------------------
(***************************************************************************)
(* What articles are filed under, proved for any pillars, keys, articles   *)
(* and requests, any names, tags and caps.                                 *)
(*                                                                         *)
(*   pillars    the single-home rule of SingleHome: TypeOK, OnlyInherited, *)
(*              NoSubUnderHome and NothingStranded hold in every state     *)
(*   taxonomy   authors and tags as hub and intake find or make them: what *)
(*              races can do to caps and names, and when a call fails      *)
(*                                                                         *)
(* HomeInv adds to the rule what the requests under way have been judged   *)
(* for: a key that is single-home is neither given up nor taken on by a    *)
(* row that exists, so what was lawful when it was judged is lawful when   *)
(* it is stored, unless a pillar is gone by then.  CapsInv and TwinsInv    *)
(* count, with the rows, the requests that are past the query that would   *)
(* have stopped them.                                                      *)
(***************************************************************************)
EXTENDS MCStructure, FiniteSetTheorems, TLAPS

-----------------------------------------------------------------------------
(* Pillars.                                                                *)

(* Rows of pillars have keys of their own. *)
KeysUnique == \A p, q \in Pillars : Exists(p) /\ key[p] = key[q] => p = q

(* A request names no pillar that is not there yet. *)
ReqsNamed == \A w \in Writers : req[w] # Idle =>
  \A p \in Refs(req[w].next) : key[p] # Unborn

(* What is about to be stored is lawful, or inherited, or cannot be stored;
   an engine's create is lawful. *)
Judged(r) ==
  \/ Lawful(r.next)
  \/ ~r.engine /\ (Inherited(r.next, r.article) \/ ~Born(r.next))
ReqsJudged == \A w \in Writers : req[w] # Idle => Judged(req[w])

HomeInv ==
  /\ TypeOK /\ KeysUnique /\ ReqsNamed /\ ReqsJudged
  /\ OnlyInherited /\ NoSubUnderHome /\ NothingStranded

-----------------------------------------------------------------------------
(* Writes of articles leave the rows of pillars and sub-sections alone; then
   every judgement stands. *)
LEMMA RowsAlone ==
  ASSUME UNCHANGED <<key, parent, legacy>>
  PROVE  /\ \A t : Lawful(t)' <=> Lawful(t)
         /\ \A t : Born(t)' <=> Born(t)
BY DEF Lawful, Born, SingleHome, Exists, Refs

(* A lawful set of sections stays so when the sections are left alone. *)
LEMMA UntouchedLawful ==
  ASSUME NEW old \in Taxonomies, NEW new \in Taxonomies,
         Untouched(old, new), Lawful(old)
  PROVE  Lawful(new)
<1>1. /\ new.pillar = old.pillar /\ new.sub = old.sub /\ new.secondary = old.secondary
      /\ new.exclusive => old.exclusive
  BY DEF Untouched, Taxonomies
<1> QED BY <1>1 DEF Lawful

(* Inheriting is transitive. *)
LEMMA UntouchedTransitive ==
  ASSUME NEW s \in Taxonomies, NEW t \in Taxonomies, NEW u \in Taxonomies,
         Untouched(s, t), Untouched(t, u)
  PROVE  Untouched(s, u)
BY DEF Untouched, Taxonomies

(* What the hook lets through is lawful or inherited. *)
LEMMA PermittedIsJudged ==
  ASSUME TypeOK, OnlyInherited, NEW a \in Articles, NEW t \in Taxonomies,
         Permitted(latest[a], t)
  PROVE  Lawful(t) \/ Inherited(t, a)
<1>1. CASE Lawful(t) BY <1>1
<1>2. CASE latest[a] # NoArticle /\ Untouched(latest[a], t)
  <2>1. latest[a] \in Taxonomies BY <1>2 DEF TypeOK
  <2>2. Lawful(latest[a]) \/ Inherited(latest[a], a)
    BY <1>2 DEF OnlyInherited
  <2>3. CASE Lawful(latest[a]) BY <1>2, <2>1, <2>3, UntouchedLawful
  <2>4. CASE Inherited(latest[a], a)
    <3>1. legacy[a] \in Taxonomies BY <2>4 DEF TypeOK, Inherited
    <3> QED BY <1>2, <2>1, <2>4, <3>1, UntouchedTransitive DEF Inherited
  <2> QED BY <2>2, <2>3, <2>4
<1> QED BY <1>1, <1>2 DEF Permitted

(* The pre-check is as strict as the hook. *)
LEMMA PrecheckCovers ==
  ASSUME TypeOK, KeysUnique, NEW b \in Bodies, Precheck(b),
         NEW p \in Resolves(b.primary), NEW s \in Subs \cup {NoSub}
  PROVE  /\ Resolved(b, p, s) \in Taxonomies
         /\ Lawful(Resolved(b, p, s)) /\ Born(Resolved(b, p, s))
<1> DEFINE t == Resolved(b, p, s)
<1>1. /\ b.primary \in Names /\ b.sections \subseteq Names /\ b.sub \in BOOLEAN
  BY DEF Bodies
<1>2. p \in Pillars /\ key[p] = b.primary.slug /\ Exists(p)
  <2>1. b.primary.slug \in OwnKeys BY <1>1 DEF Names
  <2> QED BY <2>1, KeysAssumption DEF Resolves, Exists
<1>3. /\ t.pillar = p /\ t.exclusive = FALSE /\ t.sub \in Subs \cup {NoSub}
      /\ \A q : q \in t.secondary <=> q # p /\ \E n \in b.sections : q \in Resolves(n)
      /\ ~b.sub => t.sub = NoSub
  BY DEF Resolved
<1>9. t = [pillar |-> t.pillar, sub |-> t.sub, secondary |-> t.secondary, exclusive |-> t.exclusive]
  BY DEF Resolved
<1> HIDE DEF t
<1>4. \A q \in t.secondary : q \in Pillars /\ q # p /\ \E n \in b.sections : key[q] = n.slug
  <2> TAKE q \in t.secondary
  <2>1. PICK n \in b.sections : q \in Resolves(n) BY <1>3
  <2>2. q # p BY <1>3
  <2> QED BY <2>1, <2>2 DEF Resolves
<1>5. \A q \in t.secondary : Exists(q)
  <2> TAKE q \in t.secondary
  <2>1. PICK n \in b.sections : key[q] = n.slug BY <1>4
  <2>2. n.slug \in OwnKeys BY <1>1 DEF Names
  <2> QED BY <2>1, <2>2, KeysAssumption DEF Exists
<1>6. t \in Taxonomies
  BY <1>2, <1>3, <1>4, <1>9 DEF Taxonomies
<1>7. Born(t)
  BY <1>2, <1>3, <1>5 DEF Born, Refs
<1>8. Lawful(t)
  <2>1. CASE b.primary.slug \in HomeKeys
    <3>1. t.secondary = {}
      <4> SUFFICES ASSUME NEW q \in t.secondary PROVE FALSE
        OBVIOUS
      <4>1. PICK n \in b.sections : key[q] = n.slug BY <1>4
      <4>2. n.slug = b.primary.slug BY <2>1 DEF Precheck
      <4> QED BY <1>2, <1>4, <4>1, <4>2 DEF KeysUnique
    <3> QED BY <1>3, <2>1, <3>1 DEF Lawful, Precheck
  <2>2. CASE b.primary.slug \notin HomeKeys
    <3>1. ~SingleHome(t.pillar) BY <1>2, <1>3, <2>2 DEF SingleHome
    <3>2. \A q \in t.secondary : ~SingleHome(q)
      BY <1>4, <2>2 DEF Precheck, SingleHome
    <3> QED BY <3>1, <3>2 DEF Lawful
  <2> QED BY <2>1, <2>2
<1> QED BY <1>6, <1>7, <1>8 DEF t

(* Lawful and Born stand when a row is created or gets another key. *)
LEMMA KeysMove ==
  ASSUME TypeOK, NEW p \in Pillars, NEW k \in Keys, KeyFree(k),
         key[p] \in Keys \cup {Unborn},
         key' = [key EXCEPT ![p] = k],
         NEW t \in Taxonomies
  PROVE  /\ Born(t) => Born(t)'
         /\ key[p] = Unborn /\ p \notin Refs(t) => (Lawful(t) => Lawful(t)')
         /\ key[p] \in Keys /\ RowMayBecome(p, k) => (Lawful(t) => Lawful(t)')
         /\ key[p] \in Keys => (Born(t)' => Born(t))
         /\ key[p] = Unborn /\ p \notin Refs(t) => (Born(t)' => Born(t))
<1>1. \A q \in Pillars : key'[q] = IF q = p THEN k ELSE key[q]
  BY DEF TypeOK
<1>2. Refs(t) \subseteq Pillars /\ t.secondary \subseteq Pillars
  BY DEF Refs, Taxonomies
<1>3. Born(t) => Born(t)'
  BY <1>1, <1>2 DEF Born, Exists, Refs
<1>4. ASSUME key[p] = Unborn, p \notin Refs(t), Lawful(t) PROVE Lawful(t)'
  <2>1. \A q \in Refs(t) : SingleHome(q)' <=> SingleHome(q)
    BY <1>1, <1>2, <1>4 DEF SingleHome
  <2>2. t.pillar # NoPillar => t.pillar \in Refs(t) BY DEF Refs
  <2>3. ~SingleHome(NoPillar)' BY NonesAssumption DEF SingleHome
  <2>4. t.secondary \subseteq Refs(t) BY DEF Refs
  <2> QED BY <1>4, <2>1, <2>2, <2>3, <2>4 DEF Lawful
<1>5. ASSUME key[p] \in Keys, RowMayBecome(p, k), Lawful(t) PROVE Lawful(t)'
  <2>1. \A q : SingleHome(q)' <=> SingleHome(q)
    BY <1>1, <1>5 DEF SingleHome, RowMayBecome
  <2> QED BY <1>5, <2>1 DEF Lawful
<1>6. ASSUME key[p] \in Keys, Born(t)' PROVE Born(t)
  BY <1>1, <1>2, <1>6 DEF Born, Exists, Refs
<1>7. ASSUME key[p] = Unborn, p \notin Refs(t), Born(t)' PROVE Born(t)
  BY <1>1, <1>2, <1>7 DEF Born, Exists, Refs
<1> QED BY <1>3, <1>4, <1>5, <1>6, <1>7

(* What a delete leaves of some sections. *)
LEMMA ClearedFacts ==
  ASSUME TypeOK, NEW p \in Pillars,
         key' = [key EXCEPT ![p] = Gone],
         NEW t \in Taxonomies
  PROVE  /\ NoArticle \notin Taxonomies => Cleared(t, p) \in Taxonomies
         /\ t # NoArticle => Cleared(t, p) \in Taxonomies
         /\ t # NoArticle /\ Born(t) => Born(Cleared(t, p))'
         /\ t # NoArticle /\ Lawful(t) => Lawful(Cleared(t, p))'
         /\ Lawful(t) => Lawful(t)'
         /\ ~Born(t) => ~Born(t)'
         /\ p \in Refs(t) => ~Born(t)'
<1> DEFINE c == Cleared(t, p)
<1>1. \A q \in Pillars : key'[q] = IF q = p THEN Gone ELSE key[q]
  BY DEF TypeOK
<1>2. /\ t.pillar \in Pillars \cup {NoPillar} /\ t.secondary \subseteq Pillars
      /\ t.sub \in Subs \cup {NoSub} /\ t.exclusive \in BOOLEAN
      /\ Refs(t) \subseteq Pillars
  BY DEF Taxonomies, Refs
<1>3. ASSUME t # NoArticle
      PROVE /\ c \in Taxonomies
            /\ c.pillar = IF t.pillar = p THEN NoPillar ELSE t.pillar
            /\ c.secondary = t.secondary \ {p}
            /\ c.sub = t.sub /\ c.exclusive = t.exclusive
  BY <1>2, <1>3 DEF Cleared, Taxonomies
<1>4. \A q \in Pillars : SingleHome(q)' => SingleHome(q)
  BY <1>1, KeysAssumption, NonesAssumption DEF SingleHome
<1>5. ~SingleHome(NoPillar)' BY NonesAssumption DEF SingleHome
<1>6. ASSUME t # NoArticle, Born(t) PROVE Born(c)'
  <2>1. Refs(c) \subseteq Refs(t) \ {p} BY <1>3, <1>6, NonesAssumption DEF Refs
  <2>2. (\A q \in Refs(c) : Exists(q))' BY <1>1, <1>2, <1>6, <2>1 DEF Born, Exists, Refs
  <2> QED BY <2>2 DEF Born
<1>7. ASSUME t # NoArticle, Lawful(t) PROVE Lawful(c)'
  BY <1>2, <1>3, <1>4, <1>5, <1>7 DEF Lawful
<1>8. ASSUME Lawful(t) PROVE Lawful(t)'
  BY <1>2, <1>4, <1>5, <1>8 DEF Lawful
<1>9. ASSUME ~Born(t) PROVE ~Born(t)'
  BY <1>1, <1>2, <1>9, NonesAssumption DEF Born, Exists, Refs
<1>10. ASSUME p \in Refs(t) PROVE ~Born(t)'
  BY <1>1, <1>10, NonesAssumption DEF Born, Exists, Refs
<1> QED BY <1>3, <1>6, <1>7, <1>8, <1>9, <1>10

(* Clearing two sets of sections keeps the one inherited from the other. *)
LEMMA ClearedInherits ==
  ASSUME NEW s \in Taxonomies, NEW t \in Taxonomies, NEW p \in Pillars,
         s # NoArticle, t # NoArticle, Untouched(s, t)
  PROVE  Untouched(Cleared(s, p), Cleared(t, p))
BY DEF Untouched, Cleared, Taxonomies

-----------------------------------------------------------------------------
THEOREM InitInv == Init => HomeInv
<1> SUFFICES ASSUME Init PROVE HomeInv
  OBVIOUS
<1>1. TypeOK
  <2>1. /\ key \in [Pillars -> Keys \cup {Unborn, Gone}]
        /\ parent \in [Subs -> Pillars \cup {NoPillar}]
        /\ legacy \in [Articles -> Taxonomies \cup {NoArticle}]
        /\ main = legacy /\ latest = legacy
        /\ deletes \subseteq Pillars /\ stranded \in BOOLEAN
    BY DEF Init
  <2>2. req \in [Writers -> Requests \cup {Idle}]
    BY DEF Init
  <2>3. writes \in 0..MaxWrites /\ changes \in 0..MaxChanges
    BY BoundsAssumption DEF Init
  <2>4. \A a \in Articles : \A t \in {main[a], latest[a]} : t # NoArticle => Born(t)
    BY <2>1 DEF Init
  <2>5. \A s \in Subs : parent[s] # NoPillar => Exists(parent[s])
    BY DEF Init
  <2> QED BY <2>1, <2>2, <2>3, <2>4, <2>5 DEF TypeOK
<1>2. KeysUnique BY DEF Init, KeysUnique, Exists
<1>3. ReqsNamed /\ ReqsJudged BY DEF Init, ReqsNamed, ReqsJudged
<1>4. OnlyInherited BY DEF Init, OnlyInherited, Inherited, Untouched
<1>5. NoSubUnderHome
  <2> SUFFICES ASSUME NEW s \in Subs PROVE ~SingleHome(parent[s])
    BY DEF NoSubUnderHome
  <2>1. CASE parent[s] = NoPillar BY <2>1, NonesAssumption DEF SingleHome
  <2>2. CASE parent[s] # NoPillar BY <2>2 DEF Init
  <2> QED BY <2>1, <2>2
<1>6. NothingStranded BY DEF Init, NothingStranded
<1> QED BY <1>1, <1>2, <1>3, <1>4, <1>5, <1>6 DEF HomeInv

(* A step that leaves pillars, sub-sections and history alone keeps the
   invariant if the surfaces get only what is judged. *)
LEMMA ArticleStep ==
  ASSUME HomeInv, TypeOK',
         UNCHANGED <<key, parent, legacy, stranded>>,
         \A w \in Writers : req'[w] = req[w] \/ req'[w] = Idle
           \/ /\ req'[w] \in Requests /\ Judged(req'[w])
              /\ Born(req'[w].next),
         \A a \in Articles : \A t \in {main'[a], latest'[a]} :
           t = NoArticle \/ t \in {main[a], latest[a]} \/ Lawful(t) \/ Inherited(t, a)
  PROVE  HomeInv'
<1>1. \A t : (Lawful(t)' <=> Lawful(t)) /\ (Born(t)' <=> Born(t))
  BY RowsAlone
<1>2. \A t, a : Inherited(t, a)' <=> Inherited(t, a)
  BY DEF Inherited
<1>3. KeysUnique' BY DEF HomeInv, KeysUnique, Exists
<1>4. ReqsNamed'
  <2> SUFFICES ASSUME NEW w \in Writers, req'[w] # Idle, NEW q \in Refs(req'[w].next)
               PROVE  key'[q] # Unborn
    BY DEF ReqsNamed
  <2>1. CASE req'[w] = req[w] BY <2>1 DEF HomeInv, ReqsNamed
  <2>2. CASE Born(req'[w].next)
    BY <2>2, NonesAssumption DEF Born, Exists
  <2> QED BY <2>1, <2>2
<1>5. ReqsJudged'
  <2> SUFFICES ASSUME NEW w \in Writers, req'[w] # Idle PROVE Judged(req[w])'
    BY DEF ReqsJudged
  <2>1. Judged(req'[w]) BY DEF HomeInv, ReqsJudged
  <2> QED BY <2>1 DEF Judged, Lawful, SingleHome, Inherited, Untouched, Born, Exists, Refs
<1>6. OnlyInherited'
  <2> SUFFICES ASSUME NEW a \in Articles, NEW t \in {main'[a], latest'[a]}, t # NoArticle
               PROVE  Lawful(t)' \/ Inherited(t, a)'
    BY DEF OnlyInherited
  <2>1. Lawful(t) \/ Inherited(t, a) BY DEF HomeInv, OnlyInherited
  <2> QED BY <1>1, <1>2, <2>1
<1>7. NoSubUnderHome' /\ NothingStranded'
  BY DEF HomeInv, NoSubUnderHome, NothingStranded, SingleHome
<1> QED BY <1>3, <1>4, <1>5, <1>6, <1>7 DEF HomeInv

(* A write is judged when it is opened. *)
LEMMA OpenKeeps ==
  ASSUME HomeInv, NEW w \in Writers, NEW a \in Articles, Open(w, a)
  PROVE  HomeInv'
<1>1. PICK next \in Taxonomies :
        /\ Born(next) /\ Permitted(latest[a], next)
        /\ req' = [req EXCEPT ![w] = [article |-> a, engine |-> FALSE, next |-> next]]
  BY DEF Open
<1>2. UNCHANGED <<key, parent, main, latest, legacy, stranded>> BY DEF Open
<1>3. TypeOK'
  BY <1>1, BoundsAssumption DEF HomeInv, TypeOK, Open, Requests, Born, Exists
<1>4. Lawful(next) \/ Inherited(next, a)
  BY <1>1, PermittedIsJudged DEF HomeInv
<1>5. \A v \in Writers : req'[v] = req[v]
        \/ (req'[v] \in Requests /\ Judged(req'[v]) /\ Born(req'[v].next))
  BY <1>1, <1>4 DEF HomeInv, TypeOK, Judged, Requests
<1> QED BY <1>2, <1>3, <1>5, ArticleStep

(* The pre-check judges an engine's create when it is opened. *)
LEMMA IntakeOpenKeeps ==
  ASSUME HomeInv, NEW w \in Writers, NEW a \in Articles, IntakeOpen(w, a)
  PROVE  HomeInv'
<1>1. PICK b \in Bodies, s \in Subs \cup {NoSub} : \E p \in Resolves(b.primary) :
        /\ Precheck(b)
        /\ req' = [req EXCEPT ![w] = [article |-> a, engine |-> TRUE, next |-> Resolved(b, p, s)]]
  BY DEF IntakeOpen
<1>2. PICK p \in Resolves(b.primary) :
        /\ Precheck(b)
        /\ req' = [req EXCEPT ![w] = [article |-> a, engine |-> TRUE, next |-> Resolved(b, p, s)]]
  BY <1>1
<1>3. UNCHANGED <<key, parent, main, latest, legacy, stranded>> BY DEF IntakeOpen
<1> DEFINE t == Resolved(b, p, s)
<1>4. t \in Taxonomies /\ Lawful(t) /\ Born(t)
  BY <1>2, PrecheckCovers DEF HomeInv
<1>5. req' = [req EXCEPT ![w] = [article |-> a, engine |-> TRUE, next |-> t]]
  BY <1>2
<1> HIDE DEF t
<1>6. TypeOK'
  BY <1>4, <1>5, BoundsAssumption DEF HomeInv, TypeOK, IntakeOpen, Requests, Born, Exists
<1>7. \A v \in Writers : req'[v] = req[v]
        \/ (req'[v] \in Requests /\ Judged(req'[v]) /\ Born(req'[v].next))
  BY <1>4, <1>5 DEF HomeInv, TypeOK, Judged, Requests
<1> QED BY <1>3, <1>6, <1>7, ArticleStep

(* What is stored was judged, and it is stored only if its pillars exist. *)
LEMMA StoreKeeps ==
  ASSUME HomeInv, NEW w \in Writers, Store(w)
  PROVE  HomeInv'
<1> DEFINE r == req[w]
<1>1. r \in Requests /\ ~r.engine /\ req' = [req EXCEPT ![w] = Idle]
  BY DEF HomeInv, TypeOK, Store
<1>2. r.article \in Articles /\ r.next \in Taxonomies BY <1>1 DEF Requests
<1>3. UNCHANGED <<key, parent, writes, changes, deletes, legacy, stranded>> BY DEF Store
<1>4. CASE Born(r.next)
  <2>1. /\ latest' = [latest EXCEPT ![r.article] = r.next]
        /\ main' = main \/ main' = [main EXCEPT ![r.article] = r.next]
    BY <1>4 DEF Store
  <2>2. TypeOK'
    BY <1>1, <1>2, <1>3, <1>4, <2>1 DEF HomeInv, TypeOK, Born, Exists
  <2>3. Lawful(r.next) \/ Inherited(r.next, r.article)
    BY <1>1, <1>4 DEF HomeInv, ReqsJudged, Judged, Store
  <2>4. \A a \in Articles : \A t \in {main'[a], latest'[a]} :
          t \in {main[a], latest[a]} \/ Lawful(t) \/ Inherited(t, a)
    BY <2>1, <2>3 DEF HomeInv, TypeOK
  <2>5. \A v \in Writers : req'[v] = req[v] \/ req'[v] = Idle
    BY <1>1 DEF HomeInv, TypeOK
  <2> QED BY <1>3, <2>2, <2>4, <2>5, ArticleStep
<1>5. CASE ~Born(r.next)
  <2>1. UNCHANGED <<main, latest>> BY <1>5 DEF Store
  <2>2. TypeOK' BY <1>1, <1>3, <2>1 DEF HomeInv, TypeOK, Born, Exists
  <2>3. \A v \in Writers : req'[v] = req[v] \/ req'[v] = Idle
    BY <1>1 DEF HomeInv, TypeOK
  <2> QED BY <1>3, <2>1, <2>2, <2>3, ArticleStep
<1> QED BY <1>4, <1>5

(* The hook lets an engine's create through, since the pre-check did. *)
LEMMA IntakeStoreKeeps ==
  ASSUME HomeInv, NEW w \in Writers, IntakeStore(w)
  PROVE  HomeInv'
<1> DEFINE r == req[w]
<1>1. r \in Requests /\ r.engine /\ req' = [req EXCEPT ![w] = Idle]
  BY DEF HomeInv, TypeOK, IntakeStore
<1>2. r.article \in Articles /\ r.next \in Taxonomies BY <1>1 DEF Requests
<1>3. UNCHANGED <<key, parent, writes, changes, deletes, legacy>> BY DEF IntakeStore
<1>4. Lawful(r.next)
  BY <1>1 DEF HomeInv, ReqsJudged, Judged, IntakeStore
<1>5. stranded' = stranded
  BY <1>4 DEF IntakeStore, Permitted, HomeInv, TypeOK
<1>6. \/ UNCHANGED <<main, latest>>
      \/ /\ Born(r.next)
         /\ latest' = [latest EXCEPT ![r.article] = r.next]
         /\ main' = [main EXCEPT ![r.article] = r.next]
  BY DEF IntakeStore
<1>7. TypeOK'
  BY <1>1, <1>2, <1>3, <1>5, <1>6 DEF HomeInv, TypeOK, Born, Exists
<1>8. \A a \in Articles : \A t \in {main'[a], latest'[a]} :
        t \in {main[a], latest[a]} \/ Lawful(t)
  BY <1>4, <1>6 DEF HomeInv, TypeOK
<1>9. \A v \in Writers : req'[v] = req[v] \/ req'[v] = Idle
  BY <1>1 DEF HomeInv, TypeOK
<1> QED BY <1>3, <1>5, <1>7, <1>8, <1>9, ArticleStep

-----------------------------------------------------------------------------
(* A row that appears, or that moves between keys that are not single-home,
   makes nothing unlawful: nobody points at a row that is not there yet. *)
LEMMA RowStep ==
  ASSUME HomeInv, NEW p \in Pillars, NEW k \in Keys, KeyFree(k),
         key[p] = Unborn \/ (key[p] \in Keys /\ RowMayBecome(p, k)),
         key' = [key EXCEPT ![p] = k],
         changes' \in 0..MaxChanges,
         UNCHANGED <<parent, main, latest, req, writes, deletes, legacy, stranded>>
  PROVE  HomeInv'
<1>1. \A q \in Pillars : key'[q] = IF q = p THEN k ELSE key[q]
  BY DEF HomeInv, TypeOK
<1>2. \A t \in Taxonomies : (Born(t) => Born(t)')
  BY KeysMove DEF HomeInv
<1>3. \A t \in Taxonomies : key[p] \in Keys \/ p \notin Refs(t) =>
        (Lawful(t) => Lawful(t)') /\ (Born(t)' => Born(t))
  <2> TAKE t \in Taxonomies
  <2> HAVE key[p] \in Keys \/ p \notin Refs(t)
  <2>1. TypeOK /\ key[p] \in Keys \cup {Unborn} BY DEF HomeInv
  <2>2. CASE key[p] \in Keys /\ RowMayBecome(p, k)
    BY <2>1, <2>2, KeysMove
  <2>3. CASE key[p] = Unborn /\ p \notin Refs(t)
    BY <2>1, <2>3, KeysMove
  <2> QED BY <2>2, <2>3, NonesAssumption
<1>4. \A a \in Articles : \A t \in {main[a], latest[a]} : t # NoArticle =>
        t \in Taxonomies /\ Born(t)
  BY DEF HomeInv, TypeOK
<1>5. TypeOK'
  <2>1. key' \in [Pillars -> Keys \cup {Unborn, Gone}]
    BY DEF HomeInv, TypeOK
  <2>2. \A a \in Articles : \A t \in {main'[a], latest'[a]} : t # NoArticle => Born(t)'
    BY <1>2, <1>4
  <2>3. \A s \in Subs : parent'[s] # NoPillar => Exists(parent[s])'
    BY <1>1 DEF HomeInv, TypeOK, Exists
  <2> QED BY <2>1, <2>2, <2>3 DEF HomeInv, TypeOK
<1>6. KeysUnique'
  <2> SUFFICES ASSUME NEW q \in Pillars, NEW r \in Pillars,
                      key'[q] \in Keys, key'[q] = key'[r]
               PROVE  q = r
    BY DEF KeysUnique, Exists
  <2>1. CASE q # p /\ r # p BY <1>1, <2>1 DEF HomeInv, KeysUnique, Exists
  <2>2. CASE q = p \/ r = p BY <1>1, <2>2 DEF KeyFree
  <2> QED BY <2>1, <2>2
<1>7. ReqsNamed'
  <2> SUFFICES ASSUME NEW w \in Writers, req[w] # Idle, NEW q \in Refs(req[w].next)
               PROVE  key'[q] # Unborn
    BY DEF ReqsNamed
  <2>1. req[w].next \in Taxonomies BY DEF HomeInv, TypeOK, Requests
  <2>2. q \in Pillars BY <2>1 DEF Refs, Taxonomies
  <2> QED BY <1>1, <2>2, NonesAssumption DEF HomeInv, ReqsNamed
<1>8. ReqsJudged'
  <2> SUFFICES ASSUME NEW w \in Writers, req[w] # Idle PROVE Judged(req[w])'
    BY DEF ReqsJudged
  <2> DEFINE t == req[w].next
  <2>1. t \in Taxonomies BY DEF HomeInv, TypeOK, Requests
  <2>2. key[p] \in Keys \/ p \notin Refs(t) BY DEF HomeInv, ReqsNamed
  <2>3. (Lawful(t) => Lawful(t)') /\ (~Born(t) => ~Born(t)')
    BY <1>3, <2>1, <2>2
  <2>4. Judged(req[w]) BY DEF HomeInv, ReqsJudged
  <2>5. (req[w].next)' = t /\ (req[w].engine)' = req[w].engine
        /\ (Inherited(t, req[w].article) => Inherited(t, req[w].article)')
    BY DEF Inherited
  <2>6. CASE Lawful(t)
    <3>1. Lawful(t)' BY <2>3, <2>6
    <3> QED BY <3>1 DEF Judged
  <2>7. CASE ~req[w].engine /\ Inherited(t, req[w].article)
    <3>1. Inherited(t, req[w].article)' BY <2>5, <2>7
    <3> QED BY <2>7, <3>1 DEF Judged
  <2>8. CASE ~req[w].engine /\ ~Born(t)
    <3>1. ~Born(t)' BY <2>3, <2>8
    <3> QED BY <2>8, <3>1 DEF Judged
  <2> QED BY <2>4, <2>6, <2>7, <2>8 DEF Judged
<1>9. OnlyInherited'
  <2> SUFFICES ASSUME NEW a \in Articles, NEW t \in {main[a], latest[a]}, t # NoArticle
               PROVE  Lawful(t)' \/ Inherited(t, a)'
    BY DEF OnlyInherited
  <2>1. t \in Taxonomies /\ Born(t) BY <1>4
  <2>2. key[p] \in Keys \/ p \notin Refs(t)
    BY <2>1, NonesAssumption DEF Born, Exists
  <2>3. Lawful(t) \/ Inherited(t, a) BY DEF HomeInv, OnlyInherited
  <2>4. CASE Lawful(t) BY <1>3, <2>1, <2>2, <2>4
  <2>5. CASE Inherited(t, a) BY <2>5 DEF Inherited
  <2> QED BY <2>3, <2>4, <2>5
<1>10. NoSubUnderHome'
  <2> SUFFICES ASSUME NEW s \in Subs PROVE ~SingleHome(parent[s])'
    BY DEF NoSubUnderHome
  <2>1. ~SingleHome(parent[s]) /\ (parent[s] # NoPillar => Exists(parent[s]))
    BY DEF HomeInv, NoSubUnderHome, TypeOK
  <2> QED BY <1>1, <2>1, NonesAssumption DEF SingleHome, Exists, RowMayBecome
<1>11. NothingStranded' BY DEF HomeInv, NothingStranded
<1> QED BY <1>5, <1>6, <1>7, <1>8, <1>9, <1>10, <1>11 DEF HomeInv

LEMMA CreatePillarKeeps ==
  ASSUME HomeInv, NEW p \in Pillars, CreatePillar(p)
  PROVE  HomeInv'
<1>1. PICK k \in Keys : KeyFree(k) /\ key[p] = Unborn /\ key' = [key EXCEPT ![p] = k]
  BY DEF CreatePillar
<1>2. changes' \in 0..MaxChanges
  BY BoundsAssumption DEF CreatePillar, HomeInv, TypeOK
<1>3. UNCHANGED <<parent, main, latest, req, writes, deletes, legacy, stranded>>
  BY DEF CreatePillar
<1> QED BY <1>1, <1>2, <1>3, RowStep

LEMMA ChangePillarKeeps ==
  ASSUME HomeInv, NEW p \in Pillars, ChangePillar(p)
  PROVE  HomeInv'
<1>1. PICK k \in Keys : /\ KeyFree(k) /\ key[p] \in Keys /\ RowMayBecome(p, k)
                        /\ key' = [key EXCEPT ![p] = k]
  BY DEF ChangePillar, Exists
<1>2. changes' \in 0..MaxChanges
  BY BoundsAssumption DEF ChangePillar, HomeInv, TypeOK
<1>3. UNCHANGED <<parent, main, latest, req, writes, deletes, legacy, stranded>>
  BY DEF ChangePillar
<1> QED BY <1>1, <1>2, <1>3, RowStep

LEMMA DeleteCountKeeps ==
  ASSUME HomeInv, NEW p \in Pillars, DeleteCount(p)
  PROVE  HomeInv'
<1>1. UNCHANGED <<key, parent, main, latest, req, writes, legacy, stranded>>
  BY DEF DeleteCount
<1>2. changes' \in 0..MaxChanges /\ deletes' \subseteq Pillars
  BY BoundsAssumption DEF DeleteCount, HomeInv, TypeOK
<1>3. TypeOK' BY <1>1, <1>2 DEF HomeInv, TypeOK, Born, Exists
<1> QED BY <1>1, <1>3, ArticleStep DEF HomeInv

(* A delete takes the pillar out of every article, the ones the rule found
   included, and leaves a request for it with a row that cannot be stored. *)
LEMMA DeleteRowKeeps ==
  ASSUME HomeInv, NEW p \in Pillars, DeleteRow(p)
  PROVE  HomeInv'
<1>1. UNCHANGED <<parent, req, writes, changes, stranded>> /\ deletes' = deletes \ {p}
  BY DEF DeleteRow
<1>2. CASE \E s \in Subs : parent[s] = p
  <2>1. UNCHANGED <<key, main, latest, legacy>> BY <1>2 DEF DeleteRow
  <2>2. TypeOK' BY <1>1, <2>1 DEF HomeInv, TypeOK, Born, Exists
  <2> QED BY <1>1, <2>1, <2>2, ArticleStep DEF HomeInv
<1>3. CASE ~\E s \in Subs : parent[s] = p
  <2>1. /\ key' = [key EXCEPT ![p] = Gone]
        /\ main' = [a \in Articles |-> Cleared(main[a], p)]
        /\ latest' = [a \in Articles |-> Cleared(latest[a], p)]
        /\ legacy' = [a \in Articles |-> Cleared(legacy[a], p)]
    BY <1>3 DEF DeleteRow
  <2>2. \A q \in Pillars : key'[q] = IF q = p THEN Gone ELSE key[q]
    BY <2>1 DEF HomeInv, TypeOK
  <2>3. \A t \in Taxonomies :
          /\ t # NoArticle => Cleared(t, p) \in Taxonomies
          /\ t # NoArticle /\ Born(t) => Born(Cleared(t, p))'
          /\ t # NoArticle /\ Lawful(t) => Lawful(Cleared(t, p))'
          /\ Lawful(t) => Lawful(t)'
          /\ ~Born(t) => ~Born(t)'
          /\ p \in Refs(t) => ~Born(t)'
    BY <2>1, ClearedFacts DEF HomeInv
  <2>4. Cleared(NoArticle, p) = NoArticle BY DEF Cleared
  <2>5. \A a \in Articles :
          /\ \A t \in {main[a], latest[a]} :
               t # NoArticle => t \in Taxonomies /\ Born(t) /\ (Lawful(t) \/ Inherited(t, a))
          /\ main[a] \in Taxonomies \cup {NoArticle}
          /\ latest[a] \in Taxonomies \cup {NoArticle}
          /\ legacy[a] \in Taxonomies \cup {NoArticle}
    BY DEF HomeInv, TypeOK, OnlyInherited
  <2>6. TypeOK'
    <3>1. \A t \in Taxonomies \cup {NoArticle} : Cleared(t, p) \in Taxonomies \cup {NoArticle}
      BY <2>3, <2>4
    <3>2. /\ main' \in [Articles -> Taxonomies \cup {NoArticle}]
          /\ latest' \in [Articles -> Taxonomies \cup {NoArticle}]
          /\ legacy' \in [Articles -> Taxonomies \cup {NoArticle}]
      BY <2>1, <2>5, <3>1
    <3>3. \A a \in Articles : \A t \in {main'[a], latest'[a]} : t # NoArticle => Born(t)'
      <4> SUFFICES ASSUME NEW a \in Articles, NEW t \in {main'[a], latest'[a]}, t # NoArticle
                   PROVE  Born(t)'
        OBVIOUS
      <4>1. PICK u \in {main[a], latest[a]} : t = Cleared(u, p) BY <2>1
      <4>2. u # NoArticle BY <2>4, <4>1
      <4>3. Born(Cleared(u, p))' BY <2>3, <2>5, <4>2
      <4> QED BY <4>1, <4>3 DEF Born, Refs, Exists
    <3>4. \A s \in Subs : parent'[s] # NoPillar => Exists(parent[s])'
      BY <1>1, <1>3, <2>2 DEF HomeInv, TypeOK, Exists
    <3>5. key' \in [Pillars -> Keys \cup {Unborn, Gone}]
      BY <2>1 DEF HomeInv, TypeOK
    <3> QED BY <1>1, <3>2, <3>3, <3>4, <3>5 DEF HomeInv, TypeOK
  <2>7. KeysUnique'
    BY <2>2, NonesAssumption DEF HomeInv, KeysUnique, Exists
  <2>8. ReqsNamed'
    <3> SUFFICES ASSUME NEW w \in Writers, req[w] # Idle, NEW q \in Refs(req[w].next)
                 PROVE  key'[q] # Unborn
      BY <1>1 DEF ReqsNamed
    <3>1. req[w].next \in Taxonomies BY DEF HomeInv, TypeOK, Requests
    <3>2. q \in Pillars BY <3>1 DEF Refs, Taxonomies
    <3> QED BY <2>2, <3>2, NonesAssumption DEF HomeInv, ReqsNamed
  <2>9. ReqsJudged'
    <3> SUFFICES ASSUME NEW w \in Writers, req[w] # Idle PROVE Judged(req[w])'
      BY <1>1 DEF ReqsJudged
    <3> DEFINE t == req[w].next
               a == req[w].article
    <3>1. t \in Taxonomies /\ a \in Articles BY DEF HomeInv, TypeOK, Requests
    <3>2. Judged(req[w]) BY DEF HomeInv, ReqsJudged
    <3>3. req'[w] = req[w] BY <1>1
    <3>4. CASE Lawful(t)
      <4>1. Lawful(t)' BY <1>1, <2>3, <3>1, <3>4
      <4> QED BY <4>1 DEF Judged
    <3>5. CASE ~req[w].engine /\ (~Born(t) \/ p \in Refs(t))
      <4>1. ~Born(t)' BY <1>1, <2>3, <3>1, <3>5
      <4> QED BY <1>1, <3>5, <4>1 DEF Judged
    <3>6. CASE ~req[w].engine /\ Inherited(t, a) /\ p \notin Refs(t)
      <4>1. legacy[a] \in Taxonomies /\ legacy[a] # NoArticle /\ Untouched(legacy[a], t)
        BY <2>5, <3>1, <3>6 DEF Inherited
      <4>2. legacy[a].pillar = t.pillar /\ legacy[a].secondary = t.secondary
        BY <3>1, <4>1 DEF Untouched, Taxonomies
      <4>3. Cleared(legacy[a], p) = legacy[a]
        <5>1. legacy[a].pillar # p /\ legacy[a].secondary \ {p} = legacy[a].secondary
          BY <3>6, <4>2, NonesAssumption DEF Refs
        <5>2. Cleared(legacy[a], p) = [legacy[a] EXCEPT !.pillar = legacy[a].pillar,
                                                        !.secondary = legacy[a].secondary]
          BY <4>1, <5>1 DEF Cleared
        <5> QED BY <4>1, <5>2 DEF Taxonomies
      <4>4. legacy'[a] = legacy[a] BY <2>1, <3>1, <4>3
      <4>5. Inherited(t, a)' BY <1>1, <4>1, <4>4 DEF Inherited, Untouched
      <4> QED BY <1>1, <3>6, <4>5 DEF Judged
    <3> QED BY <3>2, <3>4, <3>5, <3>6 DEF Judged
  <2>10. OnlyInherited'
    <3> SUFFICES ASSUME NEW a \in Articles, NEW t \in {main'[a], latest'[a]}, t # NoArticle
                 PROVE  Lawful(t)' \/ Inherited(t, a)'
      BY DEF OnlyInherited
    <3>1. PICK u \in {main[a], latest[a]} : t = Cleared(u, p) BY <2>1
    <3>2. u # NoArticle BY <2>4, <3>1
    <3>3. u \in Taxonomies /\ (Lawful(u) \/ Inherited(u, a)) BY <2>5, <3>2
    <3>4. CASE Lawful(u)
      <4>1. Lawful(Cleared(u, p))' BY <2>3, <3>2, <3>3, <3>4
      <4> QED BY <3>1, <4>1 DEF Lawful, SingleHome
    <3>5. CASE Inherited(u, a)
      <4>1. legacy[a] \in Taxonomies /\ legacy[a] # NoArticle /\ Untouched(legacy[a], u)
        BY <2>5, <3>5 DEF Inherited
      <4>2. Untouched(Cleared(legacy[a], p), t)
        BY <3>1, <3>2, <3>3, <4>1, ClearedInherits
      <4>3. legacy'[a] = Cleared(legacy[a], p) BY <2>1
      <4>4. Cleared(legacy[a], p) # NoArticle
        BY <2>3, <4>1, NoArticleAssumption
      <4> QED BY <4>2, <4>3, <4>4 DEF Inherited, Untouched
    <3> QED BY <3>3, <3>4, <3>5
  <2>11. NoSubUnderHome'
    <3> SUFFICES ASSUME NEW s \in Subs PROVE ~SingleHome(parent[s])'
      BY DEF NoSubUnderHome
    <3> QED BY <1>1, <1>3, <2>2 DEF HomeInv, NoSubUnderHome, SingleHome
  <2>12. NothingStranded' BY <1>1 DEF HomeInv, NothingStranded
  <2> QED BY <2>6, <2>7, <2>8, <2>9, <2>10, <2>11, <2>12 DEF HomeInv
<1> QED BY <1>2, <1>3

LEMMA SaveSubKeeps ==
  ASSUME HomeInv, NEW s \in Subs, SaveSub(s)
  PROVE  HomeInv'
<1>1. PICK p \in Pillars : Exists(p) /\ ~SingleHome(p) /\ parent' = [parent EXCEPT ![s] = p]
  BY DEF SaveSub, MayHold
<1>2. UNCHANGED <<key, main, latest, req, writes, changes, deletes, legacy, stranded>>
  BY DEF SaveSub
<1>3. TypeOK' BY <1>1, <1>2 DEF HomeInv, TypeOK, Born, Exists
<1>4. KeysUnique' /\ ReqsNamed'
  BY <1>2 DEF HomeInv, KeysUnique, ReqsNamed, Exists, Refs
<1>5. ReqsJudged'
  BY <1>2 DEF HomeInv, ReqsJudged, Judged, Lawful, SingleHome, Inherited, Untouched,
              Born, Exists, Refs
<1>6. OnlyInherited'
  BY <1>2 DEF HomeInv, OnlyInherited, Lawful, SingleHome, Inherited
<1>7. NoSubUnderHome'
  BY <1>1, <1>2 DEF HomeInv, TypeOK, NoSubUnderHome, SingleHome
<1>8. NothingStranded' BY <1>2 DEF HomeInv, NothingStranded
<1> QED BY <1>3, <1>4, <1>5, <1>6, <1>7, <1>8 DEF HomeInv

(* The invariant is inductive. *)
THEOREM NextInv == HomeInv /\ [Next]_vars => HomeInv'
<1> SUFFICES ASSUME HomeInv, [Next]_vars PROVE HomeInv'
  OBVIOUS
<1>1. CASE \E w \in Writers, a \in Articles : Open(w, a) \/ IntakeOpen(w, a)
  BY <1>1, OpenKeeps, IntakeOpenKeeps
<1>2. CASE \E w \in Writers : Store(w) \/ IntakeStore(w)
  BY <1>2, StoreKeeps, IntakeStoreKeeps
<1>3. CASE \E p \in Pillars :
             CreatePillar(p) \/ ChangePillar(p) \/ DeleteCount(p) \/ DeleteRow(p)
  BY <1>3, CreatePillarKeeps, ChangePillarKeeps, DeleteCountKeeps, DeleteRowKeeps
<1>4. CASE \E s \in Subs : SaveSub(s)
  BY <1>4, SaveSubKeeps
<1>5. CASE UNCHANGED vars
  <2>1. TypeOK' BY <1>5 DEF vars, HomeInv, TypeOK, Born, Exists
  <2> QED BY <1>5, <2>1, ArticleStep DEF vars, HomeInv
<1> QED BY <1>1, <1>2, <1>3, <1>4, <1>5 DEF Next

-----------------------------------------------------------------------------
(* What is stored points at rows that exist, whatever is deleted meanwhile. *)
THEOREM TypeCorrect == Spec => []TypeOK
<1>1. HomeInv => TypeOK BY DEF HomeInv
<1> QED BY InitInv, NextInv, <1>1, PTL DEF Spec

(* Neither surface of an article ever breaks the rule in a way the rule did
   not find there; no sub-section lies under a single-home pillar; and the
   intake's pre-check is as strict as the hook, so no request of the engine
   fails in the hook after its tags have been stored. *)
THEOREM RuleHolds == Spec => []RuleStands
<1>1. HomeInv => RuleStands BY DEF HomeInv, RuleStands
<1> QED BY InitInv, NextInv, <1>1, PTL DEF Spec

-----------------------------------------------------------------------------
(* Authors and tags: types, and the lost race for a tag.                   *)

Items == AuthorNames \cup TagSlugs

(* What a step of Taxonomy does to the requests: it changes one of them. *)
OnlyCall(r) == \A s \in Callers : s # r => call'[s] = call[s]

(* A lost create is looked up again only while no row was ever deleted, or *)
(* after a deletion.                                                       *)
LostToARow ==
  removals = 0 => \A r \in Callers :
    call[r] # NoCall => (call[r].at = "again" => call[r].item \in tags)

TaxInv == Tax!TypeOK /\ LostToARow

(* The states of the requests, one by one. *)
CallsWell ==
  /\ call \in [Callers -> Tax!Req \cup {NoCall}]
  /\ answer \in [Callers -> Tax!Answers]
  /\ \A r \in Callers : call[r] # NoCall =>
       (call[r].at = "again" => call[r].hub /\ call[r].item \in TagSlugs)

LEMMA StepsOfCalls ==
  ASSUME Tax!TypeOK, NEW r \in Callers,
         NEW new \in Tax!Req \cup {NoCall}, NEW what \in Tax!Answers,
         call' = [call EXCEPT ![r] = new], answer' = [answer EXCEPT ![r] = what] \/ answer' = answer,
         new # NoCall => (new.at = "again" => new.hub /\ new.item \in TagSlugs)
  PROVE  CallsWell' /\ OnlyCall(r) /\ call'[r] = new
BY DEF Tax!TypeOK, CallsWell, OnlyCall

LEMMA SaysType ==
  ASSUME Tax!TypeOK, NEW r \in Callers, NEW what \in Tax!Answers, Tax!Says(r, what)
  PROVE  CallsWell' /\ OnlyCall(r) /\ call'[r] = NoCall
BY StepsOfCalls DEF Tax!Says

LEMMA GoesType ==
  ASSUME Tax!TypeOK, NEW r \in Callers, NEW step \in {"count", "create", "again"},
         call[r] # NoCall, Tax!Goes(r, step),
         step = "again" => call[r].hub /\ call[r].item \in TagSlugs
  PROVE  /\ CallsWell' /\ OnlyCall(r)
         /\ call'[r] = [call[r] EXCEPT !.at = step]
<1>1. call[r] \in Tax!Req
  BY DEF Tax!TypeOK
<1> DEFINE new == [call[r] EXCEPT !.at = step]
<1>2. /\ new \in Tax!Req
      /\ new.at = "again" => new.hub /\ new.item \in TagSlugs
  BY <1>1 DEF Tax!Req
<1>3. call' = [call EXCEPT ![r] = new] /\ answer' = answer
  BY DEF Tax!Goes
<1> HIDE DEF new
<1>4. CallsWell' /\ OnlyCall(r) /\ call'[r] = new
  BY <1>2, <1>3, StepsOfCalls DEF Tax!Answers
<1>. QED BY <1>4 DEF new

(* Types are kept by every step of Taxonomy. *)
LEMMA TaxTypeStep ==
  ASSUME Tax!TypeOK, Tax!Next
  PROVE  Tax!TypeOK'
<1> USE TaxAssumption DEF Tax!NumbersAssumption, Tax!ItemsAssumption
<1>1. ASSUME NEW r \in Callers, Tax!Call(r)
      PROVE  Tax!TypeOK'
  <2>1. PICK item \in Items, hub \in BOOLEAN :
          call' = [call EXCEPT ![r] = [item |-> item, hub |-> hub, at |-> "find"]]
    BY <1>1 DEF Tax!Call, Items
  <2>2. [item |-> item, hub |-> hub, at |-> "find"] \in Tax!Req
    BY DEF Tax!Req, Items
  <2>3. CallsWell'
    BY <1>1, <2>1, <2>2, StepsOfCalls DEF Tax!Call, Tax!Answers
  <2>. QED BY <1>1, <2>3 DEF Tax!Call, Tax!TypeOK, CallsWell
<1>2. ASSUME NEW r \in Callers, Tax!Find(r)
      PROVE  Tax!TypeOK'
  <2>1. CallsWell'
    BY <1>2, SaysType, GoesType DEF Tax!Find, Tax!Answers, Tax!At
  <2>. QED BY <1>2, <2>1 DEF Tax!Find, Tax!TypeOK, CallsWell
<1>3. ASSUME NEW r \in Callers, Tax!Count(r)
      PROVE  Tax!TypeOK'
  <2>1. CallsWell'
    BY <1>3, SaysType, GoesType DEF Tax!Count, Tax!Answers, Tax!At
  <2>. QED BY <1>3, <2>1 DEF Tax!Count, Tax!TypeOK, CallsWell
<1>4. ASSUME NEW r \in Callers, Tax!Create(r)
      PROVE  Tax!TypeOK'
  <2>1. /\ call[r] # NoCall /\ call[r].item \in Items /\ call[r].at = "create"
        /\ tags \subseteq TagSlugs /\ authors \in [AuthorNames -> Nat] /\ byEngine \in Nat
    BY <1>4 DEF Tax!Create, Tax!At, Tax!TypeOK, Tax!Req, Items
  <2>2. CASE call[r].item \in tags
    <3>1. CallsWell'
      BY <1>4, <2>1, <2>2, SaysType, GoesType DEF Tax!Create, Tax!Loses, Tax!Answers
    <3>. QED BY <1>4, <2>2, <3>1 DEF Tax!Create, Tax!TypeOK, CallsWell
  <2>3. CASE call[r].item \notin tags
    <3>1. CallsWell'
      BY <1>4, <2>3, SaysType DEF Tax!Create, Tax!Answers
    <3>2. tags' \subseteq TagSlugs /\ authors' \in [AuthorNames -> Nat]
      BY <1>4, <2>1, <2>3 DEF Tax!Create, Items
    <3>3. byEngine' \in Nat /\ calls' = calls /\ removals' = removals
      BY <1>4, <2>1, <2>3 DEF Tax!Create
    <3>. QED BY <3>1, <3>2, <3>3 DEF Tax!TypeOK, CallsWell
  <2>. QED BY <2>2, <2>3
<1>5. ASSUME NEW r \in Callers, Tax!Again(r)
      PROVE  Tax!TypeOK'
  <2>1. CallsWell'
    BY <1>5, SaysType DEF Tax!Again, Tax!Answers
  <2>. QED BY <1>5, <2>1 DEF Tax!Again, Tax!TypeOK, CallsWell
<1>6. ASSUME NEW item \in Items, Tax!Delete(item)
      PROVE  Tax!TypeOK'
  <2>1. tags \subseteq TagSlugs /\ authors \in [AuthorNames -> Nat]
    BY DEF Tax!TypeOK
  <2>2. item \notin TagSlugs => authors[item] \in Nat /\ authors[item] > 0
    BY <1>6, <2>1 DEF Tax!Delete, Tax!There, Items
  <2>3. tags' \subseteq TagSlugs /\ authors' \in [AuthorNames -> Nat]
    BY <1>6, <2>1, <2>2 DEF Tax!Delete, Items
  <2>4. removals' \in 0..MaxRemovals
    BY <1>6 DEF Tax!Delete, Tax!TypeOK
  <2>. QED BY <1>6, <2>3, <2>4 DEF Tax!Delete, Tax!TypeOK
<1>. QED BY <1>1, <1>2, <1>3, <1>4, <1>5, <1>6 DEF Tax!Next, Items

(* LostToARow is kept: a tag goes only by a deletion. *)
LEMMA LostStep ==
  ASSUME TaxInv, Tax!Next
  PROVE  LostToARow'
<1> SUFFICES ASSUME removals' = 0
             PROVE  \A s \in Callers : call'[s] # NoCall =>
                      (call'[s].at = "again" => call'[s].item \in tags')
  BY DEF LostToARow
<1> USE DEF TaxInv
<1>1. ASSUME NEW r \in Callers, OnlyCall(r), removals = 0, tags \subseteq tags',
             call'[r] # NoCall => (call'[r].at = "again" => call'[r].item \in tags')
      PROVE  \A s \in Callers : call'[s] # NoCall =>
                      (call'[s].at = "again" => call'[s].item \in tags')
  BY <1>1 DEF LostToARow, OnlyCall
<1>2. ASSUME NEW r \in Callers, Tax!Call(r)
      PROVE  removals = 0 /\ tags' = tags /\ OnlyCall(r) /\ call'[r].at = "find"
  <2>1. PICK item \in Items, hub \in BOOLEAN :
          call' = [call EXCEPT ![r] = [item |-> item, hub |-> hub, at |-> "find"]]
    BY <1>2 DEF Tax!Call, Items
  <2>2. [item |-> item, hub |-> hub, at |-> "find"] \in Tax!Req
    BY DEF Tax!Req, Items
  <2>3. OnlyCall(r) /\ call'[r] = [item |-> item, hub |-> hub, at |-> "find"]
    BY <1>2, <2>1, <2>2, StepsOfCalls DEF Tax!Call, Tax!Answers
  <2>. QED BY <1>2, <2>3 DEF Tax!Call
<1>3. ASSUME NEW r \in Callers, Tax!Find(r)
      PROVE  removals = 0 /\ tags' = tags /\ OnlyCall(r) /\ (call'[r] = NoCall \/ call'[r].at # "again")
  <2>1. OnlyCall(r) /\ (call'[r] = NoCall \/ call'[r].at # "again")
    <3>1. PICK what \in Tax!Answers, step \in {"count", "create"} :
            call[r] # NoCall /\ (Tax!Says(r, what) \/ Tax!Goes(r, step))
      BY <1>3 DEF Tax!Find, Tax!Answers, Tax!At
    <3>2. CASE Tax!Says(r, what)
      BY <3>2, SaysType
    <3>3. CASE Tax!Goes(r, step)
      <4>1. OnlyCall(r) /\ call'[r] = [call[r] EXCEPT !.at = step]
        BY <3>1, <3>3, GoesType
      <4>2. call[r] \in Tax!Req
        BY <3>1 DEF Tax!TypeOK
      <4>. QED BY <4>1, <4>2 DEF Tax!Req
    <3>. QED BY <3>1, <3>2, <3>3
  <2>. QED BY <1>3, <2>1 DEF Tax!Find
<1>4. ASSUME NEW r \in Callers, Tax!Count(r)
      PROVE  removals = 0 /\ tags' = tags /\ OnlyCall(r) /\ (call'[r] = NoCall \/ call'[r].at # "again")
  <2>1. OnlyCall(r) /\ (call'[r] = NoCall \/ call'[r].at # "again")
    <3>1. call[r] # NoCall /\ (Tax!Says(r, "full") \/ Tax!Goes(r, "create"))
      BY <1>4 DEF Tax!Count, Tax!At
    <3>2. CASE Tax!Says(r, "full")
      <4>1. "full" \in Tax!Answers
        BY DEF Tax!Answers
      <4>. QED BY <3>2, <4>1, SaysType
    <3>3. CASE Tax!Goes(r, "create")
      <4>1. OnlyCall(r) /\ call'[r] = [call[r] EXCEPT !.at = "create"]
        BY <3>1, <3>3, GoesType
      <4>2. call[r] \in Tax!Req
        BY <3>1 DEF Tax!TypeOK
      <4>. QED BY <4>1, <4>2 DEF Tax!Req
    <3>. QED BY <3>1, <3>2, <3>3
  <2>. QED BY <1>4, <2>1 DEF Tax!Count
<1>5. ASSUME NEW r \in Callers, Tax!Create(r)
      PROVE  removals = 0 /\ tags \subseteq tags' /\ OnlyCall(r)
             /\ (call'[r] # NoCall => (call'[r].at = "again" => call'[r].item \in tags'))
  <2>1. removals = 0 /\ call[r] # NoCall /\ call[r] \in Tax!Req
    BY <1>5 DEF Tax!Create, Tax!At, Tax!TypeOK
  <2>2. CASE call[r].item \in tags
    <3>1. call[r].item \in TagSlugs
      BY <2>2 DEF Tax!TypeOK
    <3>2. OnlyCall(r) /\ (call'[r] = NoCall \/ call'[r] = [call[r] EXCEPT !.at = "again"])
      BY <1>5, <2>1, <2>2, <3>1, SaysType, GoesType DEF Tax!Create, Tax!Loses, Tax!Answers
    <3>3. tags' = tags
      BY <1>5, <2>2 DEF Tax!Create
    <3>4. [call[r] EXCEPT !.at = "again"].item = call[r].item
      BY <2>1 DEF Tax!Req
    <3>. QED BY <2>1, <2>2, <3>2, <3>3, <3>4
  <2>3. CASE call[r].item \notin tags
    <3>1. OnlyCall(r) /\ call'[r] = NoCall
      BY <1>5, <2>3, SaysType DEF Tax!Create, Tax!Answers
    <3>. QED BY <1>5, <2>1, <2>3, <3>1 DEF Tax!Create
  <2>. QED BY <2>2, <2>3
<1>6. ASSUME NEW r \in Callers, Tax!Again(r)
      PROVE  removals = 0 /\ tags' = tags /\ OnlyCall(r) /\ call'[r] = NoCall
  BY <1>6, SaysType DEF Tax!Again, Tax!Answers
<1>7. ASSUME NEW item \in Items, Tax!Delete(item)
      PROVE  FALSE
  BY <1>7 DEF Tax!Delete, Tax!TypeOK
<1>. QED BY <1>1, <1>2, <1>3, <1>4, <1>5, <1>6, <1>7 DEF Tax!Next, Items

(* A step of MCStructure is one of the taxonomy, or leaves it alone. *)
LEMMA TaxSteps ==
  ASSUME [MCNext]_MCvars
  PROVE  Tax!Next \/ UNCHANGED taxVars
BY DEF MCNext, MCvars

LEMMA TaxStays ==
  ASSUME TaxInv, UNCHANGED taxVars
  PROVE  TaxInv'
BY DEF TaxInv, taxVars, Tax!TypeOK, LostToARow

THEOREM TaxInvHolds == MCSpec => []TaxInv
<1>1. MCInit => TaxInv
  <2> SUFFICES ASSUME Tax!Init PROVE TaxInv
    BY DEF MCInit
  <2>1. Tax!TypeOK
    BY TaxAssumption DEF Tax!Init, Tax!TypeOK, Tax!Answers, Tax!NumbersAssumption
  <2>2. LostToARow
    BY DEF Tax!Init, LostToARow
  <2>. QED BY <2>1, <2>2 DEF TaxInv
<1>2. TaxInv /\ [MCNext]_MCvars => TaxInv'
  <2> SUFFICES ASSUME TaxInv, [MCNext]_MCvars PROVE TaxInv'
    OBVIOUS
  <2>1. CASE Tax!Next
    BY <2>1, TaxTypeStep, LostStep DEF TaxInv
  <2>2. CASE UNCHANGED taxVars
    BY <2>2, TaxStays
  <2>. QED BY <2>1, <2>2, TaxSteps
<1>. QED BY <1>1, <1>2, PTL DEF MCSpec

(* A request that goes on is not over. *)
LEMMA GoesAway ==
  ASSUME Tax!TypeOK, NEW r \in Callers, call[r] # NoCall, call'[r] = NoCall
  PROVE  ~Tax!Goes(r, "count") /\ ~Tax!Goes(r, "create") /\ ~Tax!Goes(r, "again")
<1>1. call[r] \in Tax!Req /\ call \in [Callers -> Tax!Req \cup {NoCall}]
  BY DEF Tax!TypeOK
<1>2. ASSUME NEW step \in {"count", "create", "again"}, Tax!Goes(r, step)
      PROVE  FALSE
  <2>1. call'[r] = [call[r] EXCEPT !.at = step]
    BY <1>1, <1>2 DEF Tax!Goes
  <2>2. [call[r] EXCEPT !.at = step] \in Tax!Req
    BY <1>1 DEF Tax!Req
  <2>. QED BY <2>1, <2>2, TaxAssumption DEF Tax!ItemsAssumption
<1>. QED BY <1>2

(* The hub's 500 for a tag means that a row was deleted meanwhile: a lost  *)
(* race is put right by the second look as long as nothing is deleted.     *)
THEOREM LostRacesAreMended == MCSpec => HubFailsOnlyAfterDelete
<1> DEFINE Mended == \A r \in Callers : call[r] # NoCall =>
      (call[r].hub /\ call'[r] = NoCall /\ answer'[r] = "error" => removals > 0)
<1>1. TaxInv /\ [MCNext]_MCvars => [Mended]_taxVars
  <2> SUFFICES ASSUME TaxInv, Tax!Next, NEW r \in Callers, call[r] # NoCall, call[r].hub,
                      call'[r] = NoCall, answer'[r] = "error", removals = 0
               PROVE  FALSE
    <3>1. TaxInv => removals \in Nat
      BY TaxAssumption DEF TaxInv, Tax!TypeOK, Tax!NumbersAssumption
    <3>. QED BY <3>1, TaxSteps
  <2>1. call \in [Callers -> Tax!Req \cup {NoCall}] /\ answer \in [Callers -> Tax!Answers]
    BY DEF TaxInv, Tax!TypeOK
  <2>2. ASSUME NEW s \in Callers, Tax!Call(s) \/ Tax!Find(s) \/ Tax!Count(s) \/ Tax!Create(s)
        PROVE  FALSE
    <3>1. s = r => ~Tax!Call(s)
      BY DEF Tax!Call
    <3>2. s # r => call'[r] = call[r]
      BY <2>1, <2>2 DEF Tax!Call, Tax!Find, Tax!Count, Tax!Create, Tax!Loses, Tax!Says, Tax!Goes
    <3>3. ASSUME s = r PROVE answer'[r] # "error"
      <4>1. ~Tax!Goes(r, "count") /\ ~Tax!Goes(r, "create") /\ ~Tax!Goes(r, "again")
        BY GoesAway DEF TaxInv
      <4>2. \A what \in Tax!Answers : Tax!Says(r, what) => answer'[r] = what
        BY <2>1 DEF Tax!Says
      <4>3. Tax!Says(r, "found") \/ Tax!Says(r, "full") \/ Tax!Says(r, "created")
        BY <2>2, <3>1, <3>3, <4>1 DEF Tax!Find, Tax!Count, Tax!Create, Tax!Loses
      <4>. QED BY <4>2, <4>3 DEF Tax!Answers
    <3>. QED BY <3>2, <3>3
  <2>3. ASSUME NEW s \in Callers, Tax!Again(s)
        PROVE  FALSE
    <3>1. call[s].at = "again" /\ call[s] # NoCall
      BY <2>3 DEF Tax!Again, Tax!At
    <3>2. call[s].item \in TagSlugs /\ call[s].item \in tags
      BY <3>1 DEF TaxInv, Tax!TypeOK, LostToARow
    <3>3. Tax!Says(s, "found")
      BY <2>3, <3>2 DEF Tax!Again, Tax!There
    <3>. QED BY <2>1, <3>3 DEF Tax!Says
  <2>4. ASSUME NEW item \in Items, Tax!Delete(item)
        PROVE  FALSE
    BY <2>4 DEF Tax!Delete
  <2>. QED BY <2>2, <2>3, <2>4 DEF Tax!Next, Items
<1>2. MCSpec => [][Mended]_taxVars
  BY <1>1, TaxInvHolds, PTL DEF MCSpec
<1>. QED BY <1>2 DEF HubFailsOnlyAfterDelete, Tax!HubFailsOnlyAfterDelete, Tax!vars, taxVars

-----------------------------------------------------------------------------
(* Caps and twins.  The invariants count, with the rows, the requests that *)
(* are past the query that would have stopped them.                        *)

(* Requests of the hub that have been let past the cap, for what is in X.  *)
Admitted(q, X) ==
  {r \in Callers : q[r] # NoCall /\ q[r].hub /\ q[r].item \in X /\ q[r].at = "create"}

(* Requests that have not found the author n. *)
Missed(q, n) ==
  {r \in Callers : q[r] # NoCall /\ q[r].item = n /\ q[r].at \in {"count", "create"}}

AuthorTable(rows) == UNION {{n} \X (1..rows[n]) : n \in AuthorNames}

Crowd == Cardinality(Callers)

CapsInv ==
  /\ IsFiniteSet(AuthorTable(authors)) /\ IsFiniteSet(tags)
  /\ Cardinality(AuthorTable(authors)) + Cardinality(Admitted(call, AuthorNames))
       < AuthorCap + Crowd + byEngine
  /\ Cardinality(tags) + Cardinality(Admitted(call, TagSlugs)) < TagCap + Crowd + byEngine

TwinsInv == \A n \in AuthorNames : authors[n] + Cardinality(Missed(call, n)) <= Crowd

(* The instance has its own copies of the two operators on finite sets. *)
LEMMA SameSizes ==
  /\ \A S : Tax!IsFiniteSet(S) <=> IsFiniteSet(S)
  /\ \A S : Tax!Cardinality(S) = Cardinality(S)
<1>1. \A S : Tax!IsFiniteSet(S) <=> IsFiniteSet(S)
  BY DEF Tax!IsFiniteSet, IsFiniteSet
<1>2. \A S : Tax!Cardinality(S) = Cardinality(S)
  BY DEF Tax!Cardinality, Cardinality
<1>. QED BY <1>1, <1>2

(* Requests are finitely many, so every set of them has a size. *)
LEMMA CrowdSize ==
  /\ IsFiniteSet(Callers) /\ Crowd \in Nat /\ Crowd > 0
  /\ \A S \in SUBSET Callers : IsFiniteSet(S) /\ Cardinality(S) \in Nat /\ Cardinality(S) <= Crowd
<1>1. IsFiniteSet(Callers) /\ Callers # {}
  BY TaxAssumption, SameSizes DEF Tax!NumbersAssumption
<1>2. Crowd \in Nat /\ Crowd # 0
  <2>1. Cardinality(Callers) \in Nat
    BY <1>1, FS_CardinalityType
  <2>2. Cardinality(Callers) = 0 <=> Callers = {}
    BY <1>1, FS_EmptySet
  <2>. QED BY <1>1, <2>1, <2>2 DEF Crowd
<1>3. ASSUME NEW S \in SUBSET Callers
      PROVE  IsFiniteSet(S) /\ Cardinality(S) \in Nat /\ Cardinality(S) <= Crowd
  BY <1>1, FS_Subset, FS_CardinalityType DEF Crowd
<1>. QED BY <1>1, <1>2, <1>3

(* One request in or out, or none. *)
LEMMA FewerRequests ==
  ASSUME NEW A \in SUBSET Callers, NEW B \in SUBSET A
  PROVE  Cardinality(B) <= Cardinality(A)
<1>1. IsFiniteSet(A)
  BY CrowdSize
<1>. QED BY <1>1, FS_Subset

LEMMA OneLess ==
  ASSUME NEW A \in SUBSET Callers, NEW r \in A, NEW B \in SUBSET (A \ {r})
  PROVE  Cardinality(B) + 1 <= Cardinality(A)
<1>1. IsFiniteSet(A) /\ A \ {r} \in SUBSET Callers
  BY CrowdSize
<1>2. Cardinality(A \ {r}) = Cardinality(A) - 1
  BY <1>1, FS_RemoveElement
<1>3. Cardinality(B) <= Cardinality(A \ {r})
  BY <1>1, FewerRequests
<1>4. Cardinality(A) \in Nat /\ Cardinality(B) \in Nat
  BY CrowdSize
<1>. QED BY <1>2, <1>3, <1>4

(* Two states of the requests that differ in one of them. *)
Alike(p, q, r) == \A s \in Callers : s # r => p[s] = q[s]

LEMMA AdmittedMoves ==
  ASSUME NEW p, NEW q, NEW r \in Callers, NEW X, Alike(p, q, r),
         r \in Admitted(p, X) => r \in Admitted(q, X)
  PROVE  /\ Cardinality(Admitted(p, X)) <= Cardinality(Admitted(q, X))
         /\ r \in Admitted(q, X) /\ r \notin Admitted(p, X) =>
              Cardinality(Admitted(p, X)) + 1 <= Cardinality(Admitted(q, X))
<1>1. Admitted(p, X) \in SUBSET Callers /\ Admitted(q, X) \in SUBSET Callers
  BY DEF Admitted
<1>2. Admitted(p, X) \in SUBSET Admitted(q, X)
  BY DEF Admitted, Alike
<1>3. r \notin Admitted(p, X) => Admitted(p, X) \in SUBSET (Admitted(q, X) \ {r})
  BY <1>2
<1>. QED BY <1>1, <1>2, <1>3, FewerRequests, OneLess

LEMMA MissedMoves ==
  ASSUME NEW p, NEW q, NEW r \in Callers, NEW n, Alike(p, q, r),
         r \in Missed(p, n) => r \in Missed(q, n)
  PROVE  /\ Cardinality(Missed(p, n)) <= Cardinality(Missed(q, n))
         /\ r \in Missed(q, n) /\ r \notin Missed(p, n) =>
              Cardinality(Missed(p, n)) + 1 <= Cardinality(Missed(q, n))
<1>1. Missed(p, n) \in SUBSET Callers /\ Missed(q, n) \in SUBSET Callers
  BY DEF Missed
<1>2. Missed(p, n) \in SUBSET Missed(q, n)
  BY DEF Missed, Alike
<1>3. r \notin Missed(p, n) => Missed(p, n) \in SUBSET (Missed(q, n) \ {r})
  BY <1>2
<1>. QED BY <1>1, <1>2, <1>3, FewerRequests, OneLess

(* A row more, a row less. *)
LEMMA RowAdded ==
  ASSUME NEW rows \in [AuthorNames -> Nat], NEW n \in AuthorNames,
         IsFiniteSet(AuthorTable(rows))
  PROVE  LET more == [rows EXCEPT ![n] = @ + 1] IN
         /\ IsFiniteSet(AuthorTable(more))
         /\ Cardinality(AuthorTable(more)) = Cardinality(AuthorTable(rows)) + 1
<1> DEFINE more == [rows EXCEPT ![n] = @ + 1]
           new  == <<n, rows[n] + 1>>
<1>1. rows[n] \in Nat /\ 1..(rows[n] + 1) = (1..rows[n]) \cup {rows[n] + 1}
  OBVIOUS
<1>2. \A m \in AuthorNames : more[m] = IF m = n THEN rows[n] + 1 ELSE rows[m]
  OBVIOUS
<1>3. AuthorTable(more) = AuthorTable(rows) \cup {new}
  <2>1. ASSUME NEW m \in AuthorNames
        PROVE  {m} \X (1..more[m]) = ({m} \X (1..rows[m])) \cup (IF m = n THEN {new} ELSE {})
    <3>1. CASE m = n
      <4>1. 1..more[m] = (1..rows[m]) \cup {rows[n] + 1}
        BY <1>1, <1>2, <3>1
      <4>. QED BY <3>1, <4>1
    <3>2. CASE m # n
      BY <1>2, <3>2
    <3>. QED BY <3>1, <3>2
  <2> HIDE DEF more, new
  <2>2. \A x : x \in AuthorTable(more) <=> \E m \in AuthorNames : x \in {m} \X (1..more[m])
    BY DEF AuthorTable
  <2>3. \A x : x \in AuthorTable(rows) <=> \E m \in AuthorNames : x \in {m} \X (1..rows[m])
    BY DEF AuthorTable
  <2>. QED BY <2>1, <2>2, <2>3
<1>4. new \notin AuthorTable(rows)
  BY <1>1 DEF AuthorTable
<1> HIDE DEF new, more
<1>5. /\ IsFiniteSet(AuthorTable(more))
      /\ Cardinality(AuthorTable(more)) = Cardinality(AuthorTable(rows)) + 1
  BY <1>3, <1>4, FS_AddElement
<1>. QED BY <1>5, Zenon DEF more

LEMMA RowRemoved ==
  ASSUME NEW rows \in [AuthorNames -> Nat], NEW n \in AuthorNames, rows[n] > 0,
         IsFiniteSet(AuthorTable(rows))
  PROVE  LET less == [rows EXCEPT ![n] = @ - 1] IN
         /\ IsFiniteSet(AuthorTable(less))
         /\ Cardinality(AuthorTable(less)) <= Cardinality(AuthorTable(rows))
<1> DEFINE less == [rows EXCEPT ![n] = @ - 1]
<1>1. \A m \in AuthorNames : less[m] \in Nat /\ less[m] <= rows[m] /\ rows[m] \in Nat
  OBVIOUS
<1> HIDE DEF less
<1>2. \A m \in AuthorNames : 1..less[m] \subseteq 1..rows[m]
  BY <1>1
<1>3. AuthorTable(less) \in SUBSET AuthorTable(rows)
  BY <1>2 DEF AuthorTable
<1>. QED BY <1>3, FS_Subset DEF less

(* Each step of Taxonomy, as the two counts see it: what is let past the   *)
(* cap, for authors and for tags, and who has missed a name.               *)
LEMMA CallCounts ==
  ASSUME Tax!TypeOK, NEW r \in Callers, Tax!Call(r)
  PROVE  /\ Alike(call', call, r)
         /\ \A X : r \notin Admitted(call', X)
         /\ \A n : r \notin Missed(call', n)
         /\ UNCHANGED <<authors, tags, byEngine>>
<1>1. PICK item \in Items, hub \in BOOLEAN :
        call' = [call EXCEPT ![r] = [item |-> item, hub |-> hub, at |-> "find"]]
  BY DEF Tax!Call, Items
<1> DEFINE new == [item |-> item, hub |-> hub, at |-> "find"]
<1>2. call'[r] = new /\ new.at = "find" /\ Alike(call', call, r)
  BY <1>1 DEF Tax!TypeOK, Alike
<1> HIDE DEF new
<1>. QED BY <1>2 DEF Admitted, Missed, Tax!Call

(* A request that is over, or goes on to another step. *)
LEMMA SaysCounts ==
  ASSUME Tax!TypeOK, NEW r \in Callers, NEW what, Tax!Says(r, what)
  PROVE  /\ Alike(call', call, r)
         /\ \A X : r \notin Admitted(call', X)
         /\ \A n : r \notin Missed(call', n)
<1>1. call'[r] = NoCall /\ Alike(call', call, r)
  BY DEF Tax!TypeOK, Tax!Says, Alike
<1>. QED BY <1>1 DEF Admitted, Missed

LEMMA GoesCounts ==
  ASSUME Tax!TypeOK, NEW r \in Callers, call[r] # NoCall, NEW step, Tax!Goes(r, step)
  PROVE  /\ Alike(call', call, r)
         /\ call'[r].hub = call[r].hub /\ call'[r].item = call[r].item /\ call'[r].at = step
<1>1. call[r] \in Tax!Req /\ call'[r] = [call[r] EXCEPT !.at = step] /\ Alike(call', call, r)
  BY DEF Tax!TypeOK, Tax!Goes, Alike
<1>. QED BY <1>1 DEF Tax!Req

(* The counts, as numbers. *)
LEMMA CountTypes ==
  ASSUME Tax!TypeOK
  PROVE  /\ \A X : Cardinality(Admitted(call, X)) \in Nat /\ Cardinality(Admitted(call, X)) <= Crowd
         /\ \A X : Cardinality(Admitted(call', X)) \in Nat /\ Cardinality(Admitted(call', X)) <= Crowd
         /\ \A n : Cardinality(Missed(call, n)) \in Nat /\ Cardinality(Missed(call, n)) <= Crowd
         /\ \A n : Cardinality(Missed(call', n)) \in Nat /\ Cardinality(Missed(call', n)) <= Crowd
         /\ byEngine \in Nat /\ AuthorCap \in Nat /\ TagCap \in Nat /\ Crowd \in Nat /\ Crowd > 0
<1>1. \A X : Admitted(call, X) \in SUBSET Callers /\ Admitted(call', X) \in SUBSET Callers
  BY DEF Admitted
<1>2. \A n : Missed(call, n) \in SUBSET Callers /\ Missed(call', n) \in SUBSET Callers
  BY DEF Missed
<1>. QED BY <1>1, <1>2, CrowdSize, TaxAssumption DEF Tax!TypeOK, Tax!NumbersAssumption

LEMMA TableSizes ==
  ASSUME CapsInv
  PROVE  Cardinality(AuthorTable(authors)) \in Nat /\ Cardinality(tags) \in Nat
BY FS_CardinalityType DEF CapsInv

(* A step that lets nobody past a cap and makes no row. *)
LEMMA CapsFrame ==
  ASSUME Tax!TypeOK, CapsInv,
         \A X : Cardinality(Admitted(call', X)) <= Cardinality(Admitted(call, X)),
         UNCHANGED <<authors, tags, byEngine>>
  PROVE  CapsInv'
<1>1. AuthorTable(authors)' = AuthorTable(authors)
  BY DEF AuthorTable
<1>. QED BY <1>1, CountTypes, TableSizes DEF CapsInv

LEMMA TwinsFrame ==
  ASSUME Tax!TypeOK, TwinsInv,
         \A n : Cardinality(Missed(call', n)) <= Cardinality(Missed(call, n)),
         UNCHANGED authors
  PROVE  TwinsInv'
BY CountTypes DEF TwinsInv, Tax!TypeOK

(* A request that is counted nowhere after the step. *)
LEMMA OutOfCounts ==
  ASSUME Tax!TypeOK, CapsInv, TwinsInv, NEW r \in Callers, Alike(call', call, r),
         \A X : r \notin Admitted(call', X), \A n : r \notin Missed(call', n),
         UNCHANGED <<authors, tags, byEngine>>
  PROVE  CapsInv' /\ TwinsInv'
BY AdmittedMoves, MissedMoves, CapsFrame, TwinsFrame

(* What is not there has no row; so a request goes on only past a bound    *)
(* that holds.                                                             *)
LEMMA FindCounts ==
  ASSUME Tax!TypeOK, CapsInv, TwinsInv, NEW r \in Callers, Tax!Find(r)
  PROVE  CapsInv' /\ TwinsInv'
<1>1. /\ call[r] # NoCall /\ call[r] \in Tax!Req
      /\ UNCHANGED <<authors, tags, byEngine>>
  BY DEF Tax!Find, Tax!At, Tax!TypeOK
<1>2. CASE Tax!Says(r, "found")
  BY <1>1, <1>2, SaysCounts, OutOfCounts
<1>3. CASE /\ ~Tax!There(call[r].item)
           /\ Tax!Goes(r, IF call[r].hub THEN "count" ELSE "create")
  <2>1. /\ Alike(call', call, r)
        /\ call'[r].hub = call[r].hub /\ call'[r].item = call[r].item
        /\ call'[r].at = IF call[r].hub THEN "count" ELSE "create"
    BY <1>1, <1>3, GoesCounts
  <2>2. \A X : r \notin Admitted(call', X)
    BY <2>1 DEF Admitted
  <2>3. CapsInv'
    BY <1>1, <2>1, <2>2, AdmittedMoves, CapsFrame
  <2>4. ASSUME NEW n \in AuthorNames
        PROVE  authors'[n] + Cardinality(Missed(call', n)) <= Crowd
    <3>1. CASE n = call[r].item
      <4>1. authors'[n] = 0
        BY <1>1, <1>3, <3>1, TaxAssumption
           DEF Tax!There, Tax!TypeOK, Tax!ItemsAssumption
      <4>. QED BY <4>1, CountTypes
    <3>2. CASE n # call[r].item
      <4>1. r \notin Missed(call', n)
        BY <2>1, <3>2 DEF Missed
      <4>2. Cardinality(Missed(call', n)) <= Cardinality(Missed(call, n))
        BY <2>1, <4>1, MissedMoves
      <4>3. authors[n] \in Nat /\ authors'[n] = authors[n]
        BY <1>1 DEF Tax!TypeOK
      <4>. QED BY <4>2, <4>3, CountTypes DEF TwinsInv
    <3>. QED BY <3>1, <3>2
  <2>. QED BY <2>3, <2>4 DEF TwinsInv
<1>. QED BY <1>2, <1>3 DEF Tax!Find, Tax!LooksUp

(* The count lets a request past the cap only below it. *)
LEMMA CountCounts ==
  ASSUME Tax!TypeOK, CapsInv, TwinsInv, NEW r \in Callers, Tax!Count(r)
  PROVE  CapsInv' /\ TwinsInv'
<1>1. /\ call[r] # NoCall /\ call[r] \in Tax!Req /\ call[r].at = "count"
      /\ UNCHANGED <<authors, tags, byEngine>>
  BY DEF Tax!Count, Tax!At, Tax!TypeOK
<1>2. CASE Tax!Says(r, "full")
  BY <1>1, <1>2, SaysCounts, OutOfCounts
<1>3. CASE ~Tax!Full(call[r].item) /\ Tax!Goes(r, "create")
  <2>1. /\ Alike(call', call, r)
        /\ call'[r].hub = call[r].hub /\ call'[r].item = call[r].item
        /\ call'[r].at = "create"
    BY <1>1, <1>3, GoesCounts
  <2>2. \A n : r \in Missed(call', n) => r \in Missed(call, n)
    BY <1>1, <2>1 DEF Missed
  <2>3. TwinsInv'
    BY <1>1, <2>1, <2>2, MissedMoves, TwinsFrame
  <2>4. AuthorTable(authors)' = AuthorTable(authors)
    BY <1>1 DEF AuthorTable
  <2>5. /\ call[r].item \notin TagSlugs => Cardinality(AuthorTable(authors)) < AuthorCap
        /\ call[r].item \in TagSlugs => Cardinality(tags) < TagCap
    BY <1>3, SameSizes, TableSizes, CountTypes DEF Tax!Full, Tax!AuthorRows, AuthorTable
  <2>6. Cardinality(AuthorTable(authors)) + Cardinality(Admitted(call', AuthorNames))
          < AuthorCap + Crowd + byEngine
    <3>1. CASE call[r].item \in TagSlugs
      <4>1. r \notin Admitted(call', AuthorNames)
        BY <2>1, <3>1, TaxAssumption DEF Admitted, Tax!ItemsAssumption
      <4>2. Cardinality(Admitted(call', AuthorNames)) <= Cardinality(Admitted(call, AuthorNames))
        BY <2>1, <4>1, AdmittedMoves
      <4>. QED BY <4>2, CountTypes, TableSizes DEF CapsInv
    <3>2. CASE call[r].item \notin TagSlugs
      BY <2>5, <3>2, CountTypes, TableSizes
    <3>. QED BY <3>1, <3>2
  <2>7. Cardinality(tags) + Cardinality(Admitted(call', TagSlugs)) < TagCap + Crowd + byEngine
    <3>1. CASE call[r].item \notin TagSlugs
      <4>1. r \notin Admitted(call', TagSlugs)
        BY <2>1, <3>1 DEF Admitted
      <4>2. Cardinality(Admitted(call', TagSlugs)) <= Cardinality(Admitted(call, TagSlugs))
        BY <2>1, <4>1, AdmittedMoves
      <4>. QED BY <4>2, CountTypes, TableSizes DEF CapsInv
    <3>2. CASE call[r].item \in TagSlugs
      BY <2>5, <3>2, CountTypes, TableSizes
    <3>. QED BY <3>1, <3>2
  <2>8. CapsInv'
    BY <1>1, <2>4, <2>6, <2>7 DEF CapsInv
  <2>. QED BY <2>3, <2>8
<1>. QED BY <1>2, <1>3 DEF Tax!Count

(* A row made is a request less that may make one, or one of the engine's. *)
LEMMA CreateCounts ==
  ASSUME Tax!TypeOK, CapsInv, TwinsInv, NEW r \in Callers, Tax!Create(r)
  PROVE  CapsInv' /\ TwinsInv'
<1>1. /\ call[r] # NoCall /\ call[r] \in Tax!Req /\ call[r].at = "create"
      /\ call[r].item \in Items
      /\ authors \in [AuthorNames -> Nat] /\ tags \subseteq TagSlugs
  BY DEF Tax!Create, Tax!At, Tax!TypeOK, Tax!Req, Items
<1>2. CASE call[r].item \in tags
  <2>1. UNCHANGED <<authors, tags, byEngine>>
    BY <1>2 DEF Tax!Create
  <2>2. CASE Tax!Says(r, "error")
    BY <2>1, <2>2, SaysCounts, OutOfCounts
  <2>3. CASE Tax!Goes(r, "again")
    <3>1. Alike(call', call, r) /\ call'[r].at = "again"
      BY <1>1, <2>3, GoesCounts
    <3>. QED BY <2>1, <3>1, OutOfCounts DEF Admitted, Missed
  <2>. QED BY <1>2, <2>2, <2>3 DEF Tax!Create, Tax!Loses
<1>3. CASE call[r].item \notin tags
  <2> DEFINE item == call[r].item
  <2>1. /\ Alike(call', call, r)
        /\ \A X : r \notin Admitted(call', X)
        /\ \A n : r \notin Missed(call', n)
    BY <1>3, SaysCounts DEF Tax!Create
  <2>2. byEngine' = IF call[r].hub THEN byEngine ELSE byEngine + 1
    BY <1>3 DEF Tax!Create
  <2>3. ASSUME NEW X, item \in X
        PROVE  Cardinality(Admitted(call', X)) + 1 + byEngine
                 <= Cardinality(Admitted(call, X)) + byEngine'
    <3>1. CASE call[r].hub
      <4>1. r \in Admitted(call, X)
        BY <1>1, <2>3, <3>1 DEF Admitted
      <4>2. Cardinality(Admitted(call', X)) + 1 <= Cardinality(Admitted(call, X))
        BY <2>1, <4>1, AdmittedMoves
      <4>. QED BY <2>2, <3>1, <4>2, CountTypes
    <3>2. CASE ~call[r].hub
      <4>1. Cardinality(Admitted(call', X)) <= Cardinality(Admitted(call, X))
        BY <2>1, AdmittedMoves
      <4>. QED BY <2>2, <3>2, <4>1, CountTypes
    <3>. QED BY <3>1, <3>2
  <2>4. ASSUME NEW X
        PROVE  Cardinality(Admitted(call', X)) + byEngine
                 <= Cardinality(Admitted(call, X)) + byEngine'
    <3>1. Cardinality(Admitted(call', X)) <= Cardinality(Admitted(call, X))
      BY <2>1, AdmittedMoves
    <3>. QED BY <2>2, <3>1, CountTypes
  <2>5. byEngine' \in Nat
    BY <2>2, CountTypes
  <2>6. CASE item \in TagSlugs
    <3>1. tags' = tags \cup {item} /\ authors' = authors
      BY <1>3, <2>6 DEF Tax!Create
    <3>2. IsFiniteSet(tags') /\ Cardinality(tags') = Cardinality(tags) + 1
      BY <1>3, <3>1, FS_AddElement DEF CapsInv
    <3>3. AuthorTable(authors)' = AuthorTable(authors)
      BY <3>1 DEF AuthorTable
    <3>4. Cardinality(tags') + Cardinality(Admitted(call', TagSlugs)) < TagCap + Crowd + byEngine'
      BY <2>3, <2>5, <2>6, <3>2, CountTypes, TableSizes DEF CapsInv
    <3>5. Cardinality(AuthorTable(authors)) + Cardinality(Admitted(call', AuthorNames))
            < AuthorCap + Crowd + byEngine'
      BY <2>4, <2>5, CountTypes, TableSizes DEF CapsInv
    <3>6. CapsInv'
      BY <3>2, <3>3, <3>4, <3>5 DEF CapsInv
    <3>7. TwinsInv'
      BY <2>1, <3>1, MissedMoves, TwinsFrame
    <3>. QED BY <3>6, <3>7
  <2>7. CASE item \notin TagSlugs
    <3>1. item \in AuthorNames /\ tags' = tags /\ authors' = [authors EXCEPT ![item] = @ + 1]
      BY <1>1, <1>3, <2>7 DEF Tax!Create, Items
    <3>2. /\ IsFiniteSet(AuthorTable(authors'))
          /\ Cardinality(AuthorTable(authors')) = Cardinality(AuthorTable(authors)) + 1
      BY <1>1, <3>1, RowAdded DEF CapsInv
    <3>3. Cardinality(AuthorTable(authors')) + Cardinality(Admitted(call', AuthorNames))
            < AuthorCap + Crowd + byEngine'
      BY <2>3, <2>5, <3>1, <3>2, CountTypes, TableSizes DEF CapsInv
    <3>4. Cardinality(tags') + Cardinality(Admitted(call', TagSlugs)) < TagCap + Crowd + byEngine'
      BY <2>4, <2>5, <3>1, CountTypes, TableSizes DEF CapsInv
    <3>5. CapsInv'
      BY <3>1, <3>2, <3>3, <3>4 DEF CapsInv
    <3>6. ASSUME NEW n \in AuthorNames
          PROVE  authors'[n] + Cardinality(Missed(call', n)) <= Crowd
      <4>1. authors[n] \in Nat
        BY <1>1
      <4>2. CASE n = item
        <5>1. r \in Missed(call, n)
          BY <1>1, <4>2 DEF Missed
        <5>2. Cardinality(Missed(call', n)) + 1 <= Cardinality(Missed(call, n))
          BY <2>1, <5>1, MissedMoves
        <5>3. authors'[n] = authors[n] + 1
          BY <1>1, <3>1, <4>2
        <5>. QED BY <4>1, <5>2, <5>3, CountTypes DEF TwinsInv
      <4>3. CASE n # item
        <5>1. Cardinality(Missed(call', n)) <= Cardinality(Missed(call, n))
          BY <2>1, MissedMoves
        <5>2. authors'[n] = authors[n]
          BY <1>1, <3>1, <4>3
        <5>. QED BY <4>1, <5>1, <5>2, CountTypes DEF TwinsInv
      <4>. QED BY <4>2, <4>3
    <3>. QED BY <3>5, <3>6 DEF TwinsInv
  <2>. QED BY <2>6, <2>7
<1>. QED BY <1>2, <1>3

(* A deletion only takes away. *)
LEMMA DeleteCounts ==
  ASSUME Tax!TypeOK, CapsInv, TwinsInv, NEW item \in Items, Tax!Delete(item)
  PROVE  CapsInv' /\ TwinsInv'
<1>1. call' = call /\ byEngine' = byEngine /\ authors \in [AuthorNames -> Nat]
  BY DEF Tax!Delete, Tax!TypeOK
<1>2. CASE item \in TagSlugs
  <2>1. tags' = tags \ {item} /\ authors' = authors
    BY <1>2 DEF Tax!Delete
  <2>2. IsFiniteSet(tags') /\ Cardinality(tags') <= Cardinality(tags) /\ Cardinality(tags') \in Nat
    BY <2>1, FS_Subset, FS_CardinalityType DEF CapsInv
  <2>3. AuthorTable(authors)' = AuthorTable(authors)
    BY <2>1 DEF AuthorTable
  <2>4. CapsInv'
    BY <1>1, <2>2, <2>3, CountTypes, TableSizes DEF CapsInv
  <2>. QED BY <1>1, <2>1, <2>4 DEF TwinsInv
<1>3. CASE item \notin TagSlugs
  <2>1. /\ item \in AuthorNames /\ tags' = tags /\ authors' = [authors EXCEPT ![item] = @ - 1]
        /\ authors[item] > 0
    BY <1>3 DEF Tax!Delete, Tax!There, Items
  <2>2. /\ IsFiniteSet(AuthorTable(authors'))
        /\ Cardinality(AuthorTable(authors')) <= Cardinality(AuthorTable(authors))
    BY <1>1, <2>1, RowRemoved DEF CapsInv
  <2>3. Cardinality(AuthorTable(authors')) \in Nat
    BY <2>2, FS_CardinalityType
  <2>4. CapsInv'
    BY <1>1, <2>1, <2>2, <2>3, CountTypes, TableSizes DEF CapsInv
  <2>5. \A n \in AuthorNames : authors'[n] <= authors[n] /\ authors'[n] \in Int /\ authors[n] \in Nat
    BY <1>1, <2>1
  <2>6. TwinsInv'
    BY <1>1, <2>5, CountTypes DEF TwinsInv
  <2>. QED BY <2>4, <2>6
<1>. QED BY <1>2, <1>3

(* CapsInv and TwinsInv are inductive. *)
LEMMA CountsStep ==
  ASSUME Tax!TypeOK, CapsInv, TwinsInv, [MCNext]_MCvars
  PROVE  CapsInv' /\ TwinsInv'
<1>1. CASE UNCHANGED taxVars
  BY <1>1 DEF taxVars, CapsInv, TwinsInv
<1>2. CASE Tax!Next
  <2>1. ASSUME NEW r \in Callers, Tax!Call(r) PROVE CapsInv' /\ TwinsInv'
    BY <2>1, CallCounts, OutOfCounts
  <2>2. ASSUME NEW r \in Callers, Tax!Again(r) PROVE CapsInv' /\ TwinsInv'
    <3>1. UNCHANGED <<authors, tags, byEngine>> /\ \E what : Tax!Says(r, what)
      BY <2>2 DEF Tax!Again
    <3>. QED BY <3>1, SaysCounts, OutOfCounts
  <2>. QED BY <1>2, <2>1, <2>2, FindCounts, CountCounts, CreateCounts, DeleteCounts
           DEF Tax!Next, Items
<1>. QED BY <1>1, <1>2, TaxSteps

(* The caps are passed, and a name is doubled, by no more than the         *)
(* requests that run at one time, whatever the intake adds to the caps.    *)
THEOREM RacesAreBounded == MCSpec => []RacesStayBounded
<1>1. MCInit => CapsInv /\ TwinsInv
  <2> SUFFICES ASSUME Tax!Init PROVE CapsInv /\ TwinsInv
    BY DEF MCInit
  <2>1. /\ authors = [n \in AuthorNames |-> 0] /\ tags = {} /\ byEngine = 0
        /\ call = [r \in Callers |-> NoCall]
    BY DEF Tax!Init
  <2>2. AuthorTable(authors) = {} /\ \A X : Admitted(call, X) = {} /\ Missed(call, X) = {}
    BY <2>1 DEF AuthorTable, Admitted, Missed
  <2>3. AuthorCap \in Nat /\ TagCap \in Nat
    BY TaxAssumption DEF Tax!NumbersAssumption
  <2>. QED BY <2>1, <2>2, <2>3, FS_EmptySet, CrowdSize DEF CapsInv, TwinsInv
<1>2. TaxInv /\ CapsInv /\ TwinsInv /\ [MCNext]_MCvars => CapsInv' /\ TwinsInv'
  BY CountsStep DEF TaxInv
<1>3. TaxInv /\ CapsInv /\ TwinsInv => RacesStayBounded
  <2> SUFFICES ASSUME TaxInv, CapsInv, TwinsInv PROVE RacesStayBounded
    OBVIOUS
  <2>1. Tax!AuthorRows = Cardinality(AuthorTable(authors))
    BY SameSizes DEF Tax!AuthorRows, AuthorTable
  <2>2. Tax!CapsBarelyPassed
    BY <2>1, SameSizes, CountTypes, TableSizes DEF TaxInv, CapsInv, Tax!CapsBarelyPassed, Crowd
  <2>3. Tax!TwinsStayFew
    BY SameSizes, CountTypes DEF TaxInv, Tax!TypeOK, TwinsInv, Tax!TwinsStayFew, Crowd
  <2>. QED BY <2>2, <2>3 DEF RacesStayBounded, Tax!RacesStayBounded
<1>. QED BY <1>1, <1>2, <1>3, TaxInvHolds, PTL DEF MCSpec
===============================================================================
