--------------------------- MODULE PublicSide_proofs ---------------------------
(***************************************************************************)
(* Proofs about the public routes: the types of ReadTokens and the age of  *)
(* its answers; that the view counter loses no view (ViewCounter); that    *)
(* one-click links keep working and a toggle changes what it names         *)
(* (Subscribers).  What is proved of a component is stated for the         *)
(* composition that TLC checks, whose steps are each a step of one of them.*)
(***************************************************************************)
EXTENDS MCPublicSide, TLAPS

-----------------------------------------------------------------------------
(* The read tokens. *)

(* The histories are up to date, and no request comes from the future. *)
NowNoted ==
  \A t \in Tokens : /\ IF tenantOn /\ rows[t] = "active" THEN goodAt[t] = clock ELSE badAt[t] = clock
                    /\ goodAt[t] # NoTime => goodAt[t] <= clock
                    /\ badAt[t] # NoTime => badAt[t] <= clock

ReqsArePast == \A r \in Requests : req[r] # Idle => req[r].now <= clock

TokenInv == TypeOK /\ NowNoted /\ ReqsArePast /\ AnswersAgeNoMoreThanTTL

(* Whether one entry, and one request, is as old as it may be. *)
EntryFresh(e, t) ==
  e.on => /\ e.exp >= TTL
          /\ IF e.ok THEN WasGood(t, e.exp - TTL) ELSE WasBad(t, e.exp - TTL)

ReqFresh(q) ==
  q.at = "fill" => IF q.ok THEN WasGood(q.tok, q.now) ELSE WasBad(q.tok, q.now)

LEMMA FreshIs ==
  AnswersAgeNoMoreThanTTL <=> /\ \A r \in Requests : ReqFresh(req[r])
                              /\ \A i \in Instances, t \in Tokens : EntryFresh(cache[i][t], t)
BY DEF AnswersAgeNoMoreThanTTL, ReqFresh, EntryFresh

(* A request is idle, asking or answered. *)
LEMMA ReqShape ==
  ASSUME TypeOK, NEW r \in Requests, req[r] # Idle
  PROVE  /\ req[r] \in Asking \cup Answered
         /\ req[r].now \in Nat /\ req[r].tok \in Tokens /\ req[r].inst \in Instances
         /\ req[r].at = "lookup" => req[r] \in Asking
         /\ req[r].at = "fill" => req[r] \in Answered /\ req[r].ok \in BOOLEAN
<1>1. req[r] \in Asking \cup Answered
  BY DEF TypeOK
<1> QED BY <1>1 DEF Asking, Answered

-----------------------------------------------------------------------------
(* The histories. *)

(* What the histories have noted is not forgotten. *)
LEMMA NotesGrow ==
  ASSUME TypeOK, NowNoted, clock' \in Nat, clock' >= clock, rows' \in Rows, tenantOn' \in BOOLEAN,
         Noted(rows', tenantOn', clock')
  PROVE  /\ goodAt' \in [Tokens -> Nat \cup {NoTime}] /\ badAt' \in [Tokens -> Nat \cup {NoTime}]
         /\ NowNoted'
         /\ \A t \in Tokens, n \in Nat : /\ WasGood(t, n) => WasGood(t, n)'
                                         /\ WasBad(t, n) => WasBad(t, n)'
<1>1. goodAt' \in [Tokens -> Nat \cup {NoTime}] /\ badAt' \in [Tokens -> Nat \cup {NoTime}]
  BY DEF TypeOK, Noted
<1>2. \A t \in Tokens :
        /\ goodAt'[t] = IF tenantOn' /\ rows'[t] = "active" THEN clock' ELSE goodAt[t]
        /\ badAt'[t] = IF tenantOn' /\ rows'[t] = "active" THEN badAt[t] ELSE clock'
  BY DEF Noted
<1>3. \A t \in Tokens : /\ goodAt[t] \in Nat \cup {NoTime} /\ badAt[t] \in Nat \cup {NoTime}
                        /\ goodAt[t] # NoTime => goodAt[t] <= clock
                        /\ badAt[t] # NoTime => badAt[t] <= clock
  BY DEF TypeOK, NowNoted
<1>4. clock \in Nat /\ NoTime \notin Nat
  BY TimesAssumption DEF TypeOK
<1>5. NowNoted'
  BY <1>2, <1>3, <1>4 DEF NowNoted
<1>6. ASSUME NEW t \in Tokens, NEW n \in Nat
      PROVE  /\ WasGood(t, n) => WasGood(t, n)'
             /\ WasBad(t, n) => WasBad(t, n)'
  BY <1>2, <1>3, <1>4 DEF WasGood, WasBad
<1> QED BY <1>1, <1>5, <1>6

(* What is fresh stays fresh as the histories grow. *)
LEMMA EntriesStayFresh ==
  ASSUME TypeOK, NEW e \in {NoEntry} \cup Entry, NEW t \in Tokens, EntryFresh(e, t),
         \A n \in Nat : /\ WasGood(t, n) => WasGood(t, n)'
                        /\ WasBad(t, n) => WasBad(t, n)'
  PROVE  EntryFresh(e, t)'
<1>1. CASE e = NoEntry
  BY <1>1 DEF EntryFresh, NoEntry
<1>2. CASE e \in Entry
  <2>1. e.exp \in Nat /\ TTL \in Nat
    BY <1>2, TimesAssumption DEF Entry
  <2>2. e.on
    BY <1>2 DEF Entry
  <2>3. e.exp - TTL \in Nat
    BY <2>1, <2>2 DEF EntryFresh
  <2> QED BY <2>1, <2>2, <2>3 DEF EntryFresh
<1> QED BY <1>1, <1>2

LEMMA ReqsStayFresh ==
  ASSUME TypeOK, NEW r \in Requests, ReqFresh(req[r]),
         \A t \in Tokens, n \in Nat : /\ WasGood(t, n) => WasGood(t, n)'
                                      /\ WasBad(t, n) => WasBad(t, n)',
         req' = req
  PROVE  ReqFresh(req[r])'
<1>1. CASE req[r].at # "fill"
  BY <1>1 DEF ReqFresh
<1>2. CASE req[r].at = "fill"
  <2>1. req[r] # Idle
    BY <1>2 DEF Idle
  <2>2. req[r].now \in Nat /\ req[r].tok \in Tokens /\ req[r].ok \in BOOLEAN
    BY <1>2, <2>1, ReqShape
  <2>3. IF req[r].ok THEN WasGood(req[r].tok, req[r].now) ELSE WasBad(req[r].tok, req[r].now)
    BY <1>2 DEF ReqFresh
  <2>4. IF req[r].ok THEN WasGood(req[r].tok, req[r].now)' ELSE WasBad(req[r].tok, req[r].now)'
    <3>1. CASE req[r].ok
      <4>1. WasGood(req[r].tok, req[r].now)
        BY <2>3, <3>1
      <4> QED BY <2>2, <3>1, <4>1 DEF WasGood
    <3>2. CASE ~req[r].ok
      <4>1. WasBad(req[r].tok, req[r].now)
        BY <2>3, <3>2
      <4> QED BY <2>2, <3>2, <4>1 DEF WasBad
    <3> QED BY <3>1, <3>2
  <2> QED BY <1>2, <2>4 DEF ReqFresh
<1> QED BY <1>1, <1>2

(* A step of the console, the tenant or the clock. *)
LEMMA NotingStep ==
  ASSUME TokenInv, clock' \in Nat, clock' >= clock, rows' \in Rows, tenantOn' \in BOOLEAN,
         form' \in [Admins -> {NoForm} \cup Form], Noted(rows', tenantOn', clock'),
         UNCHANGED <<cache, req>>
  PROVE  TokenInv'
<1>1. /\ goodAt' \in [Tokens -> Nat \cup {NoTime}] /\ badAt' \in [Tokens -> Nat \cup {NoTime}]
      /\ NowNoted'
      /\ \A t \in Tokens, n \in Nat : /\ WasGood(t, n) => WasGood(t, n)'
                                      /\ WasBad(t, n) => WasBad(t, n)'
  BY NotesGrow DEF TokenInv
<1>2. TypeOK'
  BY <1>1 DEF TokenInv, TypeOK
<1>3. ReqsArePast'
  <2> SUFFICES ASSUME NEW r \in Requests, req[r] # Idle PROVE req[r].now <= clock'
    BY DEF ReqsArePast
  <2>1. req[r].now \in Nat /\ req[r].now <= clock /\ clock \in Nat
    BY ReqShape DEF TokenInv, ReqsArePast, TypeOK
  <2> QED BY <2>1
<1>4. \A r \in Requests : ReqFresh(req[r])'
  BY <1>1, ReqsStayFresh, FreshIs DEF TokenInv
<1>5. ASSUME NEW i \in Instances, NEW t \in Tokens PROVE EntryFresh(cache[i][t], t)'
  <2>1. cache[i][t] \in {NoEntry} \cup Entry /\ EntryFresh(cache[i][t], t)
    BY FreshIs DEF TokenInv, TypeOK
  <2>2. EntryFresh(cache[i][t], t)'
    BY <1>1, <2>1, EntriesStayFresh DEF TokenInv
  <2> QED BY <2>2 DEF EntryFresh, WasGood, WasBad
<1>6. AnswersAgeNoMoreThanTTL'
  BY <1>4, <1>5 DEF AnswersAgeNoMoreThanTTL, ReqFresh, EntryFresh
<1> QED BY <1>1, <1>2, <1>3, <1>6 DEF TokenInv

-----------------------------------------------------------------------------
(* The public routes leave the histories alone. *)

LEMMA QuietStep ==
  ASSUME TokenInv, UNCHANGED <<clock, rows, tenantOn, goodAt, badAt>>,
         form' \in [Admins -> {NoForm} \cup Form],
         req' \in [Requests -> {Idle} \cup Asking \cup Answered],
         cache' \in [Instances -> [Tokens -> {NoEntry} \cup Entry]],
         \A r \in Requests : req'[r] # Idle => req'[r].now <= clock,
         \A r \in Requests : ReqFresh(req'[r]),
         \A i \in Instances, t \in Tokens : EntryFresh(cache'[i][t], t)
  PROVE  TokenInv'
<1>1. TypeOK' /\ NowNoted' /\ ReqsArePast'
  BY DEF TokenInv, TypeOK, NowNoted, ReqsArePast
<1>2. AnswersAgeNoMoreThanTTL'
  BY DEF AnswersAgeNoMoreThanTTL, ReqFresh, EntryFresh, WasGood, WasBad
<1> QED BY <1>1, <1>2 DEF TokenInv

LEMMA AskStep ==
  ASSUME TokenInv, NEW r \in Requests, Ask(r)
  PROVE  TokenInv'
<1>1. PICK i \in Instances, t \in Tokens :
        req' = [req EXCEPT ![r] = [at |-> "lookup", inst |-> i, tok |-> t, now |-> clock]]
  BY DEF Ask
<1> DEFINE new == [at |-> "lookup", inst |-> i, tok |-> t, now |-> clock]
<1>2. new \in Asking /\ new.now <= clock /\ ReqFresh(new)
  BY DEF Asking, ReqFresh, TokenInv, TypeOK
<1>3. \A s \in Requests : req'[s] = IF s = r THEN new ELSE req[s]
  BY <1>1 DEF TokenInv, TypeOK
<1>4. req' \in [Requests -> {Idle} \cup Asking \cup Answered]
  BY <1>1, <1>2 DEF TokenInv, TypeOK
<1> HIDE DEF new
<1>5. UNCHANGED <<clock, rows, tenantOn, form, cache, goodAt, badAt>>
  BY DEF Ask, Unnoted
<1>6. \A s \in Requests : req'[s] # Idle => req'[s].now <= clock
  BY <1>2, <1>3 DEF TokenInv, ReqsArePast
<1>7. \A s \in Requests : ReqFresh(req'[s])
  BY <1>2, <1>3, FreshIs DEF TokenInv
<1>8. form' \in [Admins -> {NoForm} \cup Form]
      /\ cache' \in [Instances -> [Tokens -> {NoEntry} \cup Entry]]
      /\ \A j \in Instances, u \in Tokens : EntryFresh(cache'[j][u], u)
  BY <1>5, FreshIs DEF TokenInv, TypeOK
<1> QED BY <1>4, <1>5, <1>6, <1>7, <1>8, QuietStep

LEMMA LookupStep ==
  ASSUME TokenInv, NEW r \in Requests, Lookup(r)
  PROVE  TokenInv'
<1> DEFINE q == req[r]
           new == [at |-> "fill", inst |-> q.inst, tok |-> q.tok, now |-> q.now,
                   ok |-> Opens(rows, tenantOn, q.tok)]
<1>1. q # Idle /\ q.at = "lookup"
  BY DEF Lookup, Idle
<1>2. q.now \in Nat /\ q.tok \in Tokens /\ q.inst \in Instances /\ q.now <= clock
  BY <1>1, ReqShape DEF TokenInv, ReqsArePast
<1>3. Opens(rows, tenantOn, q.tok) \in BOOLEAN
  BY DEF Opens, TokenInv, TypeOK
<1>4. new \in Answered /\ new.now <= clock
  BY <1>2, <1>3 DEF Answered
<1>5. ReqFresh(new)
  <2>1. /\ IF tenantOn /\ rows[q.tok] = "active" THEN goodAt[q.tok] = clock ELSE badAt[q.tok] = clock
        /\ clock \in Nat /\ NoTime \notin Nat
    BY <1>2, TimesAssumption DEF TokenInv, NowNoted, TypeOK
  <2>2. new.ok <=> tenantOn /\ rows[q.tok] = "active"
    BY DEF Opens
  <2>3. new.tok = q.tok /\ new.now = q.now
    OBVIOUS
  <2> HIDE DEF new
  <2> QED BY <1>2, <2>1, <2>2, <2>3 DEF ReqFresh, WasGood, WasBad
<1>6. req' = [req EXCEPT ![r] = new]
  BY DEF Lookup
<1> HIDE DEF new
<1>7. req' \in [Requests -> {Idle} \cup Asking \cup Answered]
      /\ \A s \in Requests : req'[s] = IF s = r THEN new ELSE req[s]
  BY <1>4, <1>6 DEF TokenInv, TypeOK
<1>8. UNCHANGED <<clock, rows, tenantOn, form, cache, goodAt, badAt>>
  BY DEF Lookup, Unnoted
<1>9. \A s \in Requests : (req'[s] # Idle => req'[s].now <= clock) /\ ReqFresh(req'[s])
  BY <1>4, <1>5, <1>7, FreshIs DEF TokenInv, ReqsArePast
<1>10. form' \in [Admins -> {NoForm} \cup Form]
      /\ cache' \in [Instances -> [Tokens -> {NoEntry} \cup Entry]]
      /\ \A j \in Instances, u \in Tokens : EntryFresh(cache'[j][u], u)
  BY <1>8, FreshIs DEF TokenInv, TypeOK
<1> QED BY <1>7, <1>8, <1>9, <1>10, QuietStep

LEMMA FillStep ==
  ASSUME TokenInv, NEW r \in Requests, Fill(r)
  PROVE  TokenInv'
<1> DEFINE q == req[r]
           new == [on |-> TRUE, ok |-> q.ok, exp |-> Expiry(q)]
           old == cache[q.inst]
<1>1. q # Idle /\ q.at = "fill" /\ ReqFresh(q)
  BY FreshIs DEF Fill, Idle, TokenInv
<1>2. q.now \in Nat /\ q.tok \in Tokens /\ q.inst \in Instances /\ q.ok \in BOOLEAN
  BY <1>1, ReqShape DEF TokenInv
<1>3. new.on /\ new.ok = q.ok /\ new.exp = q.now + TTL /\ new.exp \in Nat /\ new \in Entry
  BY <1>2, TimesAssumption DEF Entry, Expiry
<1>4. EntryFresh(new, q.tok)
  <2>1. new.exp >= TTL /\ new.exp - TTL = q.now
    BY <1>2, <1>3, TimesAssumption
  <2> HIDE DEF new
  <2> QED BY <1>1, <1>3, <2>1 DEF EntryFresh, ReqFresh
<1>5. old \in [Tokens -> {NoEntry} \cup Entry] /\ \A t \in Tokens : EntryFresh(old[t], t)
  BY <1>2, FreshIs DEF TokenInv, TypeOK
<1>6. EntryFresh(NoEntry, q.tok) /\ \A t \in Tokens : EntryFresh(NoEntry, t)
  BY DEF EntryFresh, NoEntry
<1> DEFINE stored == [old EXCEPT ![q.tok] = new]
<1>7. \A t \in Tokens : stored[t] \in {NoEntry} \cup Entry /\ EntryFresh(stored[t], t)
  <2> HIDE DEF new
  <2> QED BY <1>2, <1>3, <1>4, <1>5
<1> DEFINE filled == Filled(old, q)
<1>8. \A t \in Tokens : filled[t] = NoEntry \/ filled[t] = stored[t]
  BY DEF Filled
<1>9. filled \in [Tokens -> {NoEntry} \cup Entry] /\ \A t \in Tokens : EntryFresh(filled[t], t)
  <2>1. filled = [t \in Tokens |-> filled[t]]
    BY DEF Filled
  <2> HIDE DEF filled, stored
  <2> QED BY <1>6, <1>7, <1>8, <2>1
<1>10. cache' = [cache EXCEPT ![q.inst] = filled] /\ req' = [req EXCEPT ![r] = Idle]
      /\ UNCHANGED <<clock, rows, tenantOn, form, goodAt, badAt>>
  BY DEF Fill, Unnoted
<1> HIDE DEF filled, q
<1>11. cache' \in [Instances -> [Tokens -> {NoEntry} \cup Entry]]
      /\ \A j \in Instances, u \in Tokens : EntryFresh(cache'[j][u], u)
  BY <1>2, <1>9, <1>10, FreshIs DEF TokenInv, TypeOK
<1>12. req' \in [Requests -> {Idle} \cup Asking \cup Answered]
      /\ \A s \in Requests : (req'[s] # Idle => req'[s].now <= clock)
  BY <1>10 DEF TokenInv, TypeOK, ReqsArePast
<1>13. \A s \in Requests : ReqFresh(req'[s])
  <2>1. ReqFresh(Idle)
    BY DEF ReqFresh, Idle
  <2> QED BY <1>10, <2>1, FreshIs DEF TokenInv, TypeOK
<1>14. form' \in [Admins -> {NoForm} \cup Form]
  BY <1>10 DEF TokenInv, TypeOK
<1> QED BY <1>10, <1>11, <1>12, <1>13, <1>14, QuietStep

LEMMA RecycleStep ==
  ASSUME TokenInv, NEW i \in Instances, Recycle(i)
  PROVE  TokenInv'
<1>1. cache' = [cache EXCEPT ![i] = [t \in Tokens |-> NoEntry]]
      /\ req' = [r \in Requests |-> IF req[r] # Idle /\ req[r].inst = i THEN Idle ELSE req[r]]
      /\ UNCHANGED <<clock, rows, tenantOn, form, goodAt, badAt>>
  BY DEF Recycle, Unnoted
<1>2. ReqFresh(Idle) /\ \A t \in Tokens : EntryFresh(NoEntry, t)
  BY DEF ReqFresh, Idle, EntryFresh, NoEntry
<1>3. cache' \in [Instances -> [Tokens -> {NoEntry} \cup Entry]]
      /\ \A j \in Instances, u \in Tokens : EntryFresh(cache'[j][u], u)
  BY <1>1, <1>2, FreshIs DEF TokenInv, TypeOK
<1>4. req' \in [Requests -> {Idle} \cup Asking \cup Answered]
      /\ \A s \in Requests : (req'[s] # Idle => req'[s].now <= clock) /\ ReqFresh(req'[s])
  BY <1>1, <1>2, FreshIs DEF TokenInv, TypeOK, ReqsArePast
<1>5. form' \in [Admins -> {NoForm} \cup Form]
  BY <1>1 DEF TokenInv, TypeOK
<1> QED BY <1>1, <1>3, <1>4, <1>5, QuietStep

(* Opening a form of the console changes the form only. *)
LEMMA ReadListStep ==
  ASSUME TokenInv, NEW a \in Admins, ReadList(a)
  PROVE  TokenInv'
<1>1. form' \in [Admins -> {NoForm} \cup Form]
  BY DEF ReadList, TokenInv, TypeOK, Form
<1>2. UNCHANGED <<clock, rows, tenantOn, cache, req, goodAt, badAt>>
  BY DEF ReadList, Unnoted
<1> QED BY <1>1, <1>2, QuietStep, FreshIs DEF TokenInv, TypeOK, ReqsArePast

(* A list that is written is a list. *)
LEMMA WriteListStep ==
  ASSUME TokenInv, NEW a \in Admins, WriteList(a)
  PROVE  TokenInv'
<1>1. form[a] \in Form
  BY DEF WriteList, TokenInv, TypeOK
<1>2. NewList(form[a]) \in Rows
  BY <1>1 DEF NewList, Form, Rows, RowStatus
<1>3. form' \in [Admins -> {NoForm} \cup Form]
  BY DEF WriteList, TokenInv, TypeOK
<1>4. clock' = clock /\ tenantOn' = tenantOn /\ clock \in Nat /\ clock >= clock /\ tenantOn \in BOOLEAN
  BY DEF WriteList, TokenInv, TypeOK
<1>5. Noted(rows', tenantOn', clock')
  BY <1>4 DEF WriteList, Noted
<1> QED BY <1>2, <1>3, <1>4, <1>5, NotingStep DEF WriteList

LEMMA SwitchTenantStep ==
  ASSUME TokenInv, SwitchTenant
  PROVE  TokenInv'
<1>1. clock' = clock /\ rows' = rows /\ clock \in Nat /\ clock >= clock /\ tenantOn' \in BOOLEAN
      /\ rows \in Rows /\ form' \in [Admins -> {NoForm} \cup Form]
  BY DEF SwitchTenant, TokenInv, TypeOK
<1>2. Noted(rows', tenantOn', clock')
  BY <1>1 DEF SwitchTenant, Noted
<1> QED BY <1>1, <1>2, NotingStep DEF SwitchTenant

LEMMA TickStep ==
  ASSUME TokenInv, Tick
  PROVE  TokenInv'
<1>1. rows' = rows /\ tenantOn' = tenantOn /\ rows \in Rows /\ tenantOn \in BOOLEAN
      /\ form' \in [Admins -> {NoForm} \cup Form]
  BY DEF Tick, TokenInv, TypeOK
<1>2. clock' \in Nat /\ clock' >= clock
  BY DEF Tick, TokenInv, TypeOK
<1>3. Noted(rows', tenantOn', clock')
  BY <1>1 DEF Tick, Noted
<1> QED BY <1>1, <1>2, <1>3, NotingStep DEF Tick

-----------------------------------------------------------------------------
(* Every step keeps the invariant. *)
LEMMA NextInv == TokenInv /\ [Next]_vars => TokenInv'
<1> SUFFICES ASSUME TokenInv, [Next]_vars PROVE TokenInv'
  OBVIOUS
<1>1. CASE UNCHANGED vars
  BY <1>1, QuietStep, FreshIs DEF vars, TokenInv, TypeOK, ReqsArePast
<1>2. CASE \E i \in Instances, t \in Tokens : Serve(i, t)
  BY <1>1, <1>2 DEF Serve
<1>3. ASSUME NEW r \in Requests, Ask(r) \/ Lookup(r) \/ Fill(r) PROVE TokenInv'
  BY <1>3, AskStep, LookupStep, FillStep
<1>4. ASSUME NEW i \in Instances, Recycle(i) PROVE TokenInv'
  BY <1>4, RecycleStep
<1>5. ASSUME NEW a \in Admins, ReadList(a) \/ WriteList(a) PROVE TokenInv'
  BY <1>5, ReadListStep, WriteListStep
<1> QED BY <1>1, <1>2, <1>3, <1>4, <1>5, SwitchTenantStep, TickStep DEF Next

(* No token, no entry and no request at first. *)
LEMMA InitInv == Init => TokenInv
<1> SUFFICES ASSUME Init PROVE TokenInv
  OBVIOUS
<1>1. TypeOK
  BY DEF Init, TypeOK, Rows, RowStatus
<1>2. NowNoted
  BY TimesAssumption DEF Init, NowNoted
<1>3. ReqsArePast /\ AnswersAgeNoMoreThanTTL
  BY DEF Init, ReqsArePast, AnswersAgeNoMoreThanTTL, Idle, NoEntry
<1> QED BY <1>1, <1>2, <1>3 DEF TokenInv

LEMMA Invariance == Spec => []TokenInv
BY InitInv, NextInv, PTL DEF Spec

(* Every reachable state has its types. *)
THEOREM TypeCorrect == Spec => []TypeOK
<1>1. TokenInv => TypeOK
  BY DEF TokenInv
<1> QED BY <1>1, Invariance, PTL

(* For any number of tokens, instances, requests and admins: no answer of  *)
(* resolveReadToken is older than READ_TOKEN_TTL_MS, whatever the order in *)
(* which racing requests store what they found.                            *)
THEOREM AnswersAreRecent == Spec => []AnswersAgeNoMoreThanTTL
<1>1. TokenInv => AnswersAgeNoMoreThanTTL
  BY DEF TokenInv
<1> QED BY <1>1, Invariance, PTL

-----------------------------------------------------------------------------
(* The view counter. *)

(* Nothing that is stored, or about to be, is ahead of the views there were,
   and nobody reads or edits before the article is there. *)
ViewsInv ==
  /\ Views!TypeOK /\ EveryViewCounts
  /\ main # NoArticle => main <= seen /\ latest <= seen
  /\ \A e \in Editors : editor[e] # NoWork => editor[e].views <= seen
  /\ base <= seen /\ since <= seen
  /\ main = NoArticle => /\ base = 0 /\ since = 0
                         /\ \A r \in Readers : reader[r] = NoWork
                         /\ \A e \in Editors : editor[e] = NoWork

LEMMA ViewNumbers ==
  /\ MaxViews \in Nat /\ MaxSaves \in Nat /\ NoArticle \notin Nat
  /\ \A n : n \in Views!Views <=> n \in Nat /\ n <= MaxViews
BY ViewsAssumption DEF Views!BoundsAssumption, Views!Views

LEMMA ViewsInit ==
  ASSUME Views!Init
  PROVE  ViewsInv
<1>1. main = NoArticle /\ latest = NoArticle /\ public = FALSE /\ seen = 0 /\ saves = 0
      /\ base = 0 /\ since = 0 /\ reader = [r \in Readers |-> NoWork]
      /\ editor = [e \in Editors |-> NoWork] /\ answered = [r \in Readers |-> 0]
  BY DEF Views!Init
<1>2. 0 \in Views!Views /\ 0 \in 0..MaxSaves
  BY ViewNumbers
<1>3. /\ reader \in [Readers -> Views!Views \cup {NoWork}]
      /\ editor \in [Editors -> Views!Update \cup {NoWork}]
      /\ answered \in [Readers -> Views!Views] /\ \A r \in Readers : answered[r] <= seen
  BY <1>1, <1>2
<1>4. Views!TypeOK
  BY <1>1, <1>2, <1>3 DEF Views!TypeOK
<1> QED BY <1>1, <1>4 DEF ViewsInv, EveryViewCounts, Views!EveryViewCounts

LEMMA PublishStep ==
  ASSUME ViewsInv, Views!Publish
  PROVE  ViewsInv'
<1>1. 0 \in Views!Views /\ NoArticle # 0
  BY ViewNumbers
<1>2. Views!TypeOK'
  BY <1>1 DEF ViewsInv, Views!TypeOK, Views!Publish
<1>3. seen \in Nat
  BY ViewNumbers DEF ViewsInv, Views!TypeOK
<1> QED BY <1>1, <1>2, <1>3 DEF ViewsInv, EveryViewCounts, Views!EveryViewCounts, Views!Publish

LEMMA FindStep ==
  ASSUME NEW r \in Readers, ViewsInv, Views!Find(r)
  PROVE  ViewsInv'
<1>1. reader' \in [Readers -> Views!Views \cup {NoWork}]
  BY DEF ViewsInv, Views!TypeOK, Views!Find
<1>2. UNCHANGED <<main, latest, public, editor, answered, seen, saves, base, since>> /\ main # NoArticle
  BY DEF Views!Find
<1> QED BY <1>1, <1>2 DEF ViewsInv, Views!TypeOK, EveryViewCounts, Views!EveryViewCounts

(* A view is one more in the main row and one more since it was stored. *)
LEMMA CountStep ==
  ASSUME NEW r \in Readers, ViewsInv, Views!Count(r)
  PROVE  ViewsInv'
<1>1. main # NoArticle
  BY DEF Views!Count, ViewsInv
<1>2. main \in Nat /\ latest \in Nat /\ base \in Nat /\ since \in Nat /\ seen \in Nat
      /\ latest # NoArticle
  BY <1>1, ViewNumbers DEF ViewsInv, Views!TypeOK
<1>3. main + 1 \in Views!Views /\ seen + 1 \in Views!Views /\ since + 1 \in Views!Views
      /\ main + 1 <= seen + 1
  BY <1>1, <1>2, ViewNumbers DEF ViewsInv, Views!Count
<1>4. main' = main + 1 /\ seen' = seen + 1 /\ since' = since + 1
      /\ UNCHANGED <<latest, public, editor, saves, base>>
      /\ reader' = [reader EXCEPT ![r] = NoWork] /\ answered' = [answered EXCEPT ![r] = main + 1]
  BY DEF Views!Count, Views!Counted
<1>5. \A q \in Readers : answered[q] \in Nat /\ answered[q] <= seen
  BY ViewNumbers DEF ViewsInv, Views!TypeOK
<1>6. \A q \in Readers : answered'[q] <= seen'
  BY <1>2, <1>3, <1>4, <1>5 DEF ViewsInv, Views!TypeOK
<1>7. Views!TypeOK'
  BY <1>2, <1>3, <1>4, <1>6, ViewNumbers DEF ViewsInv, Views!TypeOK
<1>8. main' # NoArticle
  BY <1>2, <1>4, ViewNumbers
<1>9. \A e \in Editors : editor'[e] # NoWork => editor'[e].views <= seen'
  <2> SUFFICES ASSUME NEW e \in Editors, editor[e] # NoWork PROVE editor[e].views <= seen + 1
    BY <1>4
  <2>1. editor[e].views \in Nat /\ editor[e].views <= seen
    BY ViewNumbers DEF ViewsInv, Views!TypeOK, Views!Update
  <2> QED BY <1>2, <2>1
<1>10. EveryViewCounts'
  BY <1>1, <1>2, <1>4 DEF ViewsInv, EveryViewCounts, Views!EveryViewCounts
<1>11. main' <= seen' /\ latest' <= seen' /\ base' <= seen' /\ since' <= seen'
  BY <1>1, <1>2, <1>4 DEF ViewsInv
<1> QED BY <1>7, <1>8, <1>9, <1>10, <1>11 DEF ViewsInv

LEMMA BeginStep ==
  ASSUME NEW e \in Editors, ViewsInv, Views!Begin(e)
  PROVE  ViewsInv'
<1>1. PICK kind \in {"draft", "plain", "hide"} :
        editor' = [editor EXCEPT ![e] = [kind |-> kind, views |-> latest]]
  BY DEF Views!Begin
<1>2. main # NoArticle /\ latest \in Views!Views /\ latest <= seen /\ saves + 1 \in 0..MaxSaves
  BY ViewNumbers DEF Views!Begin, ViewsInv, Views!TypeOK
<1>3. [kind |-> kind, views |-> latest] \in Views!Update
  BY <1>2 DEF Views!Update
<1>4. editor' \in [Editors -> Views!Update \cup {NoWork}]
      /\ \A d \in Editors : editor'[d] # NoWork => editor'[d].views <= seen
  BY <1>1, <1>2, <1>3 DEF ViewsInv, Views!TypeOK
<1>5. saves' = saves + 1 /\ UNCHANGED <<main, latest, public, reader, answered, seen, base, since>>
  BY DEF Views!Begin
<1> QED BY <1>2, <1>4, <1>5 DEF ViewsInv, Views!TypeOK, EveryViewCounts, Views!EveryViewCounts

(* What is stored is what the main row counts on from; a draft leaves it alone. *)
LEMMA StoreStep ==
  ASSUME NEW e \in Editors, ViewsInv, Views!Store(e)
  PROVE  ViewsInv'
<1> DEFINE u == editor[e]
<1>1. u # NoWork /\ u \in Views!Update /\ u.views \in Views!Views /\ u.views <= seen
      /\ u.kind \in {"draft", "plain", "hide"}
  BY DEF Views!Store, ViewsInv, Views!TypeOK, Views!Update
<1>2. main # NoArticle /\ u.views # NoArticle /\ u.views \in Nat /\ main \in Nat
  BY <1>1, ViewNumbers DEF ViewsInv, Views!TypeOK
<1>3. editor' = [editor EXCEPT ![e] = NoWork] /\ latest' = u.views
      /\ main' = (IF u.kind = "draft" THEN main ELSE u.views)
      /\ public' = (IF u.kind = "draft" THEN public ELSE u.kind = "plain")
      /\ base' = (IF u.kind = "draft" THEN base ELSE u.views)
      /\ since' = (IF u.kind = "draft" THEN since ELSE 0)
      /\ UNCHANGED <<reader, answered, seen, saves>>
  BY DEF Views!Store, Views!Stored
<1> HIDE DEF u
<1>4. editor' \in [Editors -> Views!Update \cup {NoWork}]
      /\ \A d \in Editors : editor'[d] # NoWork => editor'[d].views <= seen'
  BY <1>3 DEF ViewsInv, Views!TypeOK
<1>5. 0 \in Views!Views /\ seen \in Nat /\ base \in Nat /\ since \in Nat
  BY ViewNumbers DEF ViewsInv, Views!TypeOK
<1>6. main' \in Views!Views /\ latest' \in Views!Views /\ main' # NoArticle /\ latest' # NoArticle
      /\ base' \in Views!Views /\ since' \in Views!Views /\ public' \in BOOLEAN
  BY <1>1, <1>2, <1>3, <1>5 DEF ViewsInv, Views!TypeOK
<1>7. Views!TypeOK'
  BY <1>3, <1>4, <1>6 DEF ViewsInv, Views!TypeOK
<1>8. main' = base' + since' /\ main' <= seen' /\ latest' <= seen' /\ base' <= seen' /\ since' <= seen'
  BY <1>1, <1>2, <1>3, <1>5 DEF ViewsInv, EveryViewCounts, Views!EveryViewCounts
<1> QED BY <1>4, <1>6, <1>7, <1>8 DEF ViewsInv, EveryViewCounts, Views!EveryViewCounts

LEMMA ViewsNext == ViewsInv /\ [Views!Next]_viewsVars => ViewsInv'
<1>1. CASE UNCHANGED viewsVars
  BY <1>1 DEF viewsVars, ViewsInv, Views!TypeOK, EveryViewCounts, Views!EveryViewCounts
<1> QED BY <1>1, PublishStep, FindStep, CountStep, BeginStep, StoreStep DEF Views!Next

(* For any number of readers, editors, views and updates: between two stores
   of the main row every POST to the views route adds one. *)
THEOREM ViewsAreCounted == MCSpec => []EveryViewCounts
<1>1. MCInit => ViewsInv
  BY ViewsInit DEF MCInit
<1>2. ViewsInv /\ [MCNext]_MCvars => ViewsInv'
  BY ViewsNext DEF MCNext, MCvars, viewsVars
<1>3. ViewsInv => EveryViewCounts
  BY DEF ViewsInv
<1> QED BY <1>1, <1>2, <1>3, PTL DEF MCSpec

-----------------------------------------------------------------------------
(* The newsletter address. *)

(* The link of what is to be stored is the link of the row, or an
   administrator made the row. *)
SameLink(data, rw, made) ==
  rw # NoRow /\ rw.id = data.id => rw.token = data.token \/ rw.id \in made

(* What a request carries from one of its statements to the next: the link it
   was called with, a token that has been made, and, as long as nobody has
   written the row, the row as it is. *)
Carries(q, rw, i, m, made) ==
  /\ q.op.kind = "unsubscribe" => q.op.token \in 1..m
  /\ q.pc = "create" => q.op.kind # "unsubscribe" /\ q.data \in News!Row /\ q.data.token \in 1..m
  /\ q.pc \in {"base", "store"} =>
       /\ q.found # NoRow /\ q.found.id \in 1..i
       /\ ~q.late /\ rw # NoRow /\ rw.id = q.found.id => rw = q.found
  /\ q.pc = "store" \/ (q.pc = "base" /\ q.op.kind # "unsubscribe") =>
       /\ q.data \in News!Row /\ q.data.token \in 1..m /\ q.data.id = q.found.id
       /\ q.op.kind = "toggle" => q.data.sel = News!Selection(q.found, q.op)
       /\ SameLink(q.data, rw, made)
  /\ q.pc = "base" /\ q.op.kind = "unsubscribe" =>
       (rw # NoRow /\ rw.id = q.found.id => rw.token # 0)
  /\ q.pc = "store" /\ q.op.kind = "unsubscribe" /\ ~q.late => q.data.sel = q.found.sel

AllCarry == \A r \in Requests : call[r] # NoCall => Carries(call[r], row, ids, minted, bare)

NewsInv ==
  /\ News!TypeOK /\ LinksKeepWorking /\ AllCarry
  /\ row # NoRow => row.id \in 1..ids

LEMMA NewsTyped ==
  ASSUME NewsInv
  PROVE  /\ ids \in Nat /\ minted \in Nat /\ row \in News!Row \cup {NoRow}
         /\ row # NoRow => row \in News!Row /\ row.id \in 1..ids /\ row.token \in Nat
         /\ \A r \in Requests : call[r] # NoCall => call[r] \in News!Request
         /\ bare \subseteq 1..ids
BY NewsAssumption DEF NewsInv, News!TypeOK, News!BoundsAssumption, News!Row

(* A request is not disturbed by rows that come and go. *)
LEMMA CarriesOn ==
  ASSUME NEW q \in News!Request, NEW rw, NEW i \in Nat, NEW m \in Nat, NEW made,
         Carries(q, rw, i, m, made),
         NEW rw2, NEW i2 \in Nat, NEW m2 \in Nat, NEW made2, i2 >= i, m2 >= m, made \subseteq made2,
         rw2 = rw \/ rw2 = NoRow \/ (rw2.id \in Nat /\ rw2.id > i)
  PROVE  Carries(q, rw2, i2, m2, made2)
<1>1. \A k \in 1..m : k \in 1..m2
  OBVIOUS
<1>2. \A k \in 1..i : k \in 1..i2 /\ ~(rw2.id \in Nat /\ rw2.id > i /\ rw2.id = k)
  OBVIOUS
<1>3. q.pc \in {"base", "store"} => q.found # NoRow /\ q.found.id \in 1..i
  BY DEF Carries
<1>4. q.pc = "store" \/ (q.pc = "base" /\ q.op.kind # "unsubscribe") => q.data.id = q.found.id
  BY DEF Carries
<1>5. CASE rw2 = rw \/ rw2 = NoRow
  BY <1>1, <1>2, <1>5 DEF Carries, SameLink
<1>6. CASE rw2.id \in Nat /\ rw2.id > i
  BY <1>1, <1>2, <1>3, <1>4, <1>6 DEF Carries, SameLink
<1> QED BY <1>5, <1>6

(* Who has found a row is late once it is stored. *)
LEMMA CarriesLate ==
  ASSUME NEW q \in News!Request, NEW rw, NEW i \in Nat, NEW m \in Nat, NEW made,
         Carries(q, rw, i, m, made),
         NEW rw2, rw # NoRow, rw2.id = rw.id, rw2.token \in 1..m, rw.token = rw2.token \/ rw.id \in made
  PROVE  Carries([q EXCEPT !.late = TRUE], rw2, i, m, made)
<1> DEFINE late == [q EXCEPT !.late = TRUE]
<1>1. late.op = q.op /\ late.pc = q.pc /\ late.found = q.found /\ late.data = q.data /\ late.late = TRUE
  BY DEF News!Request
<1> HIDE DEF late
<1>2. rw2.token # 0
  OBVIOUS
<1>3. q.pc = "store" \/ (q.pc = "base" /\ q.op.kind # "unsubscribe") => SameLink(q.data, rw2, made)
  BY DEF Carries, SameLink
<1>4. Carries(late, rw2, i, m, made)
  BY <1>1, <1>2, <1>3 DEF Carries
<1> QED BY <1>4 DEF late

(* Being late, a request carries no more than before. *)
LEMMA LateCarries ==
  ASSUME NEW q \in News!Request, NEW rw, NEW i \in Nat, NEW m \in Nat, NEW made,
         Carries(q, rw, i, m, made)
  PROVE  /\ [q EXCEPT !.late = TRUE] \in News!Request
         /\ Carries([q EXCEPT !.late = TRUE], rw, i, m, made)
<1> DEFINE late == [q EXCEPT !.late = TRUE]
<1>1. late \in News!Request /\ late.op = q.op /\ late.pc = q.pc /\ late.found = q.found
      /\ late.data = q.data /\ late.late = TRUE
  BY DEF News!Request
<1> HIDE DEF late
<1>2. Carries(late, rw, i, m, made)
  BY <1>1 DEF Carries
<1> QED BY <1>1, <1>2 DEF late

(* A request that has not looked yet carries no more than the link it was called with. *)
LEMMA CarriesNothing ==
  ASSUME NEW q \in News!Request, NEW rw, NEW i \in Nat, NEW m \in Nat, NEW made,
         Carries(q, rw, i, m, made), q.pc = "find", NEW rw2
  PROVE  Carries(q, rw2, i, m, made)
BY DEF Carries

(* One request goes on, or ends, and the others are not disturbed. *)
LEMMA OneGoesOn ==
  ASSUME NewsInv, NEW r \in Requests,
         \A s \in Requests : s # r => call'[s] = call[s],
         call'[r] # NoCall => Carries(call'[r], row', ids', minted', bare'),
         ids' \in Nat, minted' \in Nat, ids' >= ids, minted' >= minted, bare \subseteq bare',
         row' = row \/ row' = NoRow \/ (row'.id \in Nat /\ row'.id > ids)
  PROVE  AllCarry'
<1>1. ASSUME NEW s \in Requests, call'[s] # NoCall
      PROVE  Carries(call'[s], row', ids', minted', bare')
  <2>1. CASE s = r
    BY <1>1, <2>1
  <2>2. CASE s # r
    <3>1. call'[s] = call[s] /\ call[s] \in News!Request /\ Carries(call[s], row, ids, minted, bare)
      BY <1>1, <2>2, NewsTyped DEF NewsInv, AllCarry
    <3> QED BY <3>1, NewsTyped, CarriesOn
  <2> QED BY <2>1, <2>2
<1> QED BY <1>1 DEF AllCarry

(* What a step does to one request. *)
LEMMA OneChanges ==
  ASSUME NewsInv, NEW r \in Requests, NEW new, new = NoCall \/ new \in News!Request,
         call' = [call EXCEPT ![r] = new]
  PROVE  /\ call' \in [Requests -> News!Request \cup {NoCall}] /\ call'[r] = new
         /\ \A s \in Requests : s # r => call'[s] = call[s]
BY DEF NewsInv, News!TypeOK

LEMMA NewsInit ==
  ASSUME News!Init
  PROVE  NewsInv
<1>1. News!TypeOK
  <2>1. 0 \in 0..MaxCalls /\ 0 \in 0..MaxIds
    BY NewsAssumption DEF News!BoundsAssumption
  <2> QED BY <2>1 DEF News!Init, News!TypeOK
<1> QED BY <1>1 DEF News!Init, NewsInv, LinksKeepWorking, News!LinksKeepWorking, AllCarry

(* A step that stores no row. *)
LEMMA NothingStored ==
  ASSUME NewsInv, UNCHANGED <<row, ids, links, bare>>, AllCarry',
         call' \in [Requests -> News!Request \cup {NoCall}],
         answer' \in [Requests -> {"none", "ok", "notFound", "error"}],
         calls' \in 0..MaxCalls, minted' \in Nat, minted' >= minted
  PROVE  NewsInv'
<1>1. links \subseteq [id: 1..ids, token: 1..minted']
  BY NewsTyped DEF NewsInv, News!TypeOK
<1>2. row # NoRow => row.token <= minted' /\ (row.token = News!NoToken => row.id \in bare)
  BY NewsTyped DEF NewsInv, News!TypeOK
<1>3. News!TypeOK'
  BY <1>1, <1>2 DEF NewsInv, News!TypeOK
<1>4. LinksKeepWorking'
  BY DEF NewsInv, LinksKeepWorking, News!LinksKeepWorking
<1> QED BY <1>3, <1>4 DEF NewsInv

LEMMA CallStep ==
  ASSUME NewsInv, NEW r \in Requests, News!Call(r)
  PROVE  NewsInv'
<1>1. PICK op \in News!Sets \cup News!Toggles \cup {News!Unsubscribe(l.token) : l \in links} :
        call' = [call EXCEPT ![r] = [op |-> op, pc |-> "find", found |-> NoRow,
                                     data |-> NoRow, late |-> FALSE]]
  BY DEF News!Call
<1> DEFINE new == [op |-> op, pc |-> "find", found |-> NoRow, data |-> NoRow, late |-> FALSE]
<1>2. op \in News!Op /\ (op.kind = "unsubscribe" => op.token \in 1..minted)
  <2>1. ASSUME op \in News!Sets \cup News!Toggles
        PROVE  op \in News!Op /\ op.kind # "unsubscribe"
    <3>1. 0 \in Nat /\ {} \in SUBSET Lists
      OBVIOUS
    <3>2. CASE op \in News!Sets
      BY <3>1, <3>2 DEF News!Sets, News!Op, News!NoToken
    <3>3. CASE op \in News!Toggles
      BY <3>1, <3>3 DEF News!Toggles, News!Op, News!NoToken
    <3> QED BY <2>1, <3>2, <3>3
  <2>2. ASSUME NEW l \in links, op = News!Unsubscribe(l.token)
        PROVE  op \in News!Op /\ op.token \in 1..minted
    <3>1. l.token \in 1..minted /\ l.token \in Nat
      BY <2>2, NewsTyped DEF NewsInv, News!TypeOK
    <3> QED BY <2>2, <3>1 DEF News!Unsubscribe, News!Op
  <2>3. CASE op \in News!Sets \cup News!Toggles
    BY <2>1, <2>3
  <2>4. CASE op \in {News!Unsubscribe(l.token) : l \in links}
    <3>1. PICK l \in links : op = News!Unsubscribe(l.token)
      BY <2>4
    <3> QED BY <2>2, <3>1
  <2> QED BY <2>3, <2>4
<1>3. new \in News!Request
  BY <1>2 DEF News!Request
<1>4. Carries(new, row, ids, minted, bare)
  BY <1>2 DEF Carries
<1>5. calls + 1 \in 0..MaxCalls
  BY NewsAssumption DEF News!Call, NewsInv, News!TypeOK, News!BoundsAssumption
<1>6. UNCHANGED <<row, ids, minted, links, bare>> /\ calls' = calls + 1
      /\ answer' = [answer EXCEPT ![r] = "none"]
  BY DEF News!Call
<1> HIDE DEF new
<1>7. /\ call' \in [Requests -> News!Request \cup {NoCall}] /\ call'[r] = new
      /\ \A s \in Requests : s # r => call'[s] = call[s]
  BY <1>1, <1>3, OneChanges DEF new
<1>9. AllCarry'
  BY <1>4, <1>6, <1>7, OneGoesOn, NewsTyped
<1>8. answer' \in [Requests -> {"none", "ok", "notFound", "error"}]
  BY <1>6 DEF NewsInv, News!TypeOK
<1> QED BY <1>5, <1>6, <1>7, <1>8, <1>9, NothingStored, NewsTyped

LEMMA NewsFindStep ==
  ASSUME NewsInv, NEW r \in Requests, News!Find(r)
  PROVE  NewsInv'
<1> DEFINE q == call[r]
           sel == News!Selection(row, q.op)
           data == [id |-> IF row = NoRow THEN 0 ELSE row.id, sel |-> sel,
                    status |-> News!StatusFor(q.op, sel), token |-> News!TokenFor(row)]
           based == [q EXCEPT !.pc = "base", !.found = row]
           computed == [q EXCEPT !.pc = IF row = NoRow THEN "create" ELSE "base",
                                 !.found = row, !.data = data]
<1>1. q \in News!Request /\ q.pc = "find" /\ Carries(q, row, ids, minted, bare)
  BY NewsTyped DEF News!Find, News!At, NewsInv, AllCarry
<1>2. UNCHANGED <<row, calls, ids, links, bare>>
  BY DEF News!Find
<1>3. q.op.kind = "unsubscribe" => q.op.token \in 1..minted
  BY <1>1 DEF Carries
<1>7. answer \in [Requests -> {"none", "ok", "notFound", "error"}] /\ calls \in 0..MaxCalls
  BY DEF NewsInv, News!TypeOK
<1>4. CASE q.op.kind = "unsubscribe" /\ row # NoRow /\ row.token = q.op.token
  <2>1. call' = [call EXCEPT ![r] = based] /\ UNCHANGED <<answer, minted>>
    BY <1>4 DEF News!Find
  <2>2. based \in News!Request /\ based.op = q.op /\ based.pc = "base" /\ based.found = row
    BY <1>1, <1>4 DEF News!Request, NewsInv, News!TypeOK
  <2> HIDE DEF based, data, computed, sel
  <2>3. Carries(based, row', ids', minted', bare')
    BY <1>2, <1>3, <1>4, <2>1, <2>2, NewsTyped DEF Carries
  <2>5. /\ call' \in [Requests -> News!Request \cup {NoCall}] /\ call'[r] = based
        /\ \A s \in Requests : s # r => call'[s] = call[s]
    BY <2>1, <2>2, OneChanges
  <2>4. AllCarry'
    BY <1>2, <2>1, <2>3, <2>5, OneGoesOn, NewsTyped
  <2> QED BY <1>2, <1>7, <2>1, <2>4, <2>5, NothingStored, NewsTyped
<1>5. CASE q.op.kind = "unsubscribe" /\ ~(row # NoRow /\ row.token = q.op.token)
  <2>1. call' = [call EXCEPT ![r] = NoCall] /\ answer' = [answer EXCEPT ![r] = "notFound"]
        /\ UNCHANGED minted
    BY <1>5 DEF News!Find, News!Ends
  <2> HIDE DEF based, data, computed, sel
  <2>4. /\ call' \in [Requests -> News!Request \cup {NoCall}] /\ call'[r] = NoCall
        /\ \A s \in Requests : s # r => call'[s] = call[s]
    BY <2>1, OneChanges
  <2>2. AllCarry'
    BY <1>2, <2>1, <2>4, OneGoesOn, NewsTyped
  <2>3. answer' \in [Requests -> {"none", "ok", "notFound", "error"}]
    BY <1>7, <2>1
  <2> QED BY <1>2, <1>7, <2>1, <2>2, <2>3, <2>4, NothingStored, NewsTyped
<1>6. CASE q.op.kind # "unsubscribe"
  <2>1. call' = [call EXCEPT ![r] = computed] /\ UNCHANGED answer
        /\ minted' = IF News!TokenFor(row) > minted THEN minted + 1 ELSE minted
    BY <1>6 DEF News!Find
  <2>2. /\ News!TokenFor(row) \in Nat /\ minted' \in Nat /\ minted' >= minted
        /\ News!TokenFor(row) \in 1..minted'
        /\ row # NoRow => row.token = News!TokenFor(row) \/ row.id \in bare
    <3>1. CASE row # NoRow /\ row.token # 0
      BY <2>1, <3>1, NewsTyped DEF News!TokenFor, News!NoToken, NewsInv, News!TypeOK
    <3>2. CASE ~(row # NoRow /\ row.token # 0)
      <4>1. News!TokenFor(row) = minted + 1 /\ minted \in Nat
        BY <3>2, NewsTyped DEF News!TokenFor, News!NoToken
      <4>2. minted' = minted + 1
        BY <2>1, <4>1
      <4> QED BY <3>2, <4>1, <4>2 DEF NewsInv, News!TypeOK, News!NoToken
    <3> QED BY <3>1, <3>2
  <2>3. sel \in SUBSET Lists
    <3>1. q.op \in News!Op /\ (row # NoRow => row.sel \in SUBSET Lists)
      BY <1>1, NewsTyped DEF News!Request, News!Row
    <3> QED BY <3>1 DEF News!Selection, News!Op
  <2>4. data \in News!Row /\ data.id = (IF row = NoRow THEN 0 ELSE row.id)
        /\ data.token = News!TokenFor(row) /\ data.sel = sel
    <3>1. News!StatusFor(q.op, sel) \in {"subscribed", "unsubscribed"}
      BY DEF News!StatusFor
    <3>2. (IF row = NoRow THEN 0 ELSE row.id) \in Nat
      BY NewsTyped
    <3> HIDE DEF sel
    <3> QED BY <2>2, <2>3, <3>1, <3>2 DEF News!Row
  <2> HIDE DEF data
  <2>5. /\ computed \in News!Request /\ computed.op = q.op /\ computed.found = row
        /\ computed.data = data /\ computed.late = q.late
        /\ computed.pc = IF row = NoRow THEN "create" ELSE "base"
    BY <1>1, <2>4, NewsTyped DEF News!Request
  <2> HIDE DEF computed
  <2>7. Carries(computed, row', ids', minted', bare')
    BY <1>2, <1>6, <2>2, <2>4, <2>5, NewsTyped DEF Carries, SameLink
  <2>9. /\ call' \in [Requests -> News!Request \cup {NoCall}] /\ call'[r] = computed
        /\ \A s \in Requests : s # r => call'[s] = call[s]
    BY <2>1, <2>5, OneChanges
  <2>8. AllCarry'
    BY <1>2, <2>1, <2>2, <2>7, <2>9, OneGoesOn, NewsTyped
  <2> QED BY <1>2, <1>7, <2>1, <2>2, <2>8, <2>9, NothingStored
<1> QED BY <1>4, <1>5, <1>6

(* The row is stored by one request, which ends; the others are late, and
   carry what they carried. *)
LEMMA OthersCarry ==
  ASSUME NewsInv, NEW r \in Requests, call' = [News!Others(r) EXCEPT ![r] = NoCall],
         minted' = minted, bare' = bare, ids' \in Nat, ids' >= ids,
         \/ row = NoRow /\ row'.id \in Nat /\ row'.id > ids
         \/ /\ ids' = ids /\ row # NoRow /\ row'.id = row.id /\ row'.token \in 1..minted
            /\ row.token = row'.token \/ row.id \in bare
  PROVE  AllCarry' /\ call' \in [Requests -> News!Request \cup {NoCall}]
<1> DEFINE late(s) == [call[s] EXCEPT !.late = TRUE]
<1>1. call \in [Requests -> News!Request \cup {NoCall}]
  BY DEF NewsInv, News!TypeOK
<1>2. \A s \in Requests : call'[s] = IF s = r THEN NoCall
                                     ELSE IF call[s] = NoCall \/ call[s].pc = "find" THEN call[s]
                                     ELSE late(s)
  BY <1>1 DEF News!Others
<1>3. DOMAIN call' = Requests /\ call' = [s \in Requests |-> call'[s]]
  BY DEF News!Others
<1>4. ASSUME NEW s \in Requests, call'[s] # NoCall
      PROVE  call'[s] \in News!Request /\ Carries(call'[s], row', ids', minted', bare')
  <2>1. s # r /\ call[s] # NoCall /\ call[s] \in News!Request
        /\ Carries(call[s], row, ids, minted, bare)
    BY <1>2, <1>4, NewsTyped DEF NewsInv, AllCarry
  <2>2. /\ late(s) \in News!Request /\ Carries(late(s), row, ids, minted, bare)
        /\ ids \in Nat /\ minted \in Nat
    BY <2>1, LateCarries, NewsTyped
  <2> HIDE DEF late
  <2>3. CASE row = NoRow /\ row'.id \in Nat /\ row'.id > ids
    <3>1. Carries(late(s), row', ids', minted', bare')
      BY <2>2, <2>3, CarriesOn
    <3>2. Carries(call[s], row', ids', minted', bare')
      BY <2>1, <2>2, <2>3, CarriesOn
    <3> QED BY <1>2, <2>1, <2>2, <3>1, <3>2
  <2>4. CASE /\ ids' = ids /\ row # NoRow /\ row'.id = row.id /\ row'.token \in 1..minted
             /\ row.token = row'.token \/ row.id \in bare
    <3>1. call[s].pc = "find" => Carries(call[s], row', ids', minted', bare')
      BY <2>1, <2>2, <2>4, CarriesNothing
    <3>2. Carries(late(s), row', ids', minted', bare')
      BY <2>1, <2>2, <2>4, CarriesLate DEF late
    <3> QED BY <1>2, <2>1, <2>2, <3>1, <3>2
  <2> QED BY <2>3, <2>4
<1> QED BY <1>3, <1>4 DEF AllCarry

(* The link of the row that is stored is the one it had. *)
LEMMA LinksStay ==
  ASSUME NewsInv, row' \in News!Row, row'.id \in 1..ids', row'.token \in 1..minted,
         News!Answered(row'), minted' = minted, bare' = bare, ids' \in Nat, ids' >= ids,
         \/ row = NoRow /\ row'.id > ids
         \/ row # NoRow /\ row'.id = row.id /\ (row.token = row'.token \/ row.id \in bare)
  PROVE  /\ LinksKeepWorking' /\ links' \subseteq [id: 1..ids', token: 1..minted']
         /\ bare' \subseteq 1..ids'
<1>1. links \subseteq [id: 1..ids, token: 1..minted] /\ ids \in Nat /\ minted \in Nat /\ bare \subseteq 1..ids
  BY NewsTyped DEF NewsInv, News!TypeOK
<1>2. \A k \in 1..ids : k \in 1..ids'
  BY <1>1
<1>3. \A l \in links : l \in [id: 1..ids', token: 1..minted'] /\ l.id \in Nat /\ l.id <= ids
  BY <1>1, <1>2
<1>4. links' = links \cup {[id |-> row'.id, token |-> row'.token]}
  BY DEF News!Answered
<1>5. links' \subseteq [id: 1..ids', token: 1..minted']
  BY <1>3, <1>4
<1>6. \A l \in links : l.id = row'.id => l.token = row'.token \/ row'.id \in bare
  BY <1>1, <1>3 DEF NewsInv, LinksKeepWorking, News!LinksKeepWorking
<1> QED BY <1>1, <1>2, <1>4, <1>5, <1>6 DEF LinksKeepWorking, News!LinksKeepWorking

Answers == [Requests -> {"none", "ok", "notFound", "error"}]

(* A request that ends without having stored anything. *)
LEMMA EndsUnstored ==
  ASSUME NewsInv, NEW r \in Requests, NEW says \in {"notFound", "error"}, News!Ends(r, says, call),
         UNCHANGED <<row, calls, ids, minted, links, bare>>
  PROVE  NewsInv'
<1>1. call' = [call EXCEPT ![r] = NoCall] /\ answer' = [answer EXCEPT ![r] = says]
  BY DEF News!Ends
<1>2. /\ call' \in [Requests -> News!Request \cup {NoCall}] /\ call'[r] = NoCall
      /\ \A s \in Requests : s # r => call'[s] = call[s]
  BY <1>1, OneChanges
<1>3. AllCarry'
  BY <1>2, OneGoesOn, NewsTyped
<1>4. answer' \in Answers /\ calls \in 0..MaxCalls
  BY <1>1 DEF NewsInv, News!TypeOK, Answers
<1> QED BY <1>2, <1>3, <1>4, NothingStored, NewsTyped DEF Answers

LEMMA CreateStep ==
  ASSUME NewsInv, NEW r \in Requests, News!Create(r)
  PROVE  NewsInv'
<1> DEFINE q == call[r]
           new == [q.data EXCEPT !.id = ids + 1]
<1>1. q \in News!Request /\ q.pc = "create" /\ Carries(q, row, ids, minted, bare)
  BY NewsTyped DEF News!Create, News!At, NewsInv, AllCarry
<1>2. UNCHANGED <<calls, minted, bare>>
  BY DEF News!Create
<1>3. CASE row # NoRow
  <2>1. News!Ends(r, "error", call) /\ UNCHANGED <<row, ids, links>>
    BY <1>3 DEF News!Create
  <2> QED BY <1>2, <2>1, EndsUnstored
<1>4. CASE row = NoRow
  <2>1. ids < MaxIds /\ ids' = ids + 1 /\ row' = new /\ News!Answered(new)
        /\ News!Ends(r, "ok", News!Others(r))
    BY <1>4 DEF News!Create
  <2>2. q.data \in News!Row /\ q.data.token \in 1..minted /\ ids \in Nat
    BY <1>1, NewsTyped DEF Carries
  <2>3. new \in News!Row /\ new.id = ids + 1 /\ new.token \in 1..minted
    BY <2>2 DEF News!Row
  <2> HIDE DEF new
  <2>4. call' = [News!Others(r) EXCEPT ![r] = NoCall] /\ answer' = [answer EXCEPT ![r] = "ok"]
    BY <2>1 DEF News!Ends
  <2>5. ids' \in Nat /\ ids' >= ids /\ row'.id \in Nat /\ row'.id > ids /\ row'.id \in 1..ids'
    BY <2>1, <2>2, <2>3
  <2>6. AllCarry' /\ call' \in [Requests -> News!Request \cup {NoCall}]
    BY <1>2, <1>4, <2>4, <2>5, OthersCarry
  <2>7. /\ LinksKeepWorking' /\ links' \subseteq [id: 1..ids', token: 1..minted'] /\ bare' \subseteq 1..ids'
    BY <1>2, <1>4, <2>1, <2>3, <2>5, LinksStay
  <2>8. answer' \in Answers /\ ids' \in 0..MaxIds
    BY <2>1, <2>2, <2>4, NewsAssumption DEF NewsInv, News!TypeOK, Answers, News!BoundsAssumption
  <2>9. row'.token <= minted' /\ row'.token # 0
    BY <1>2, <2>1, <2>3, NewsTyped
  <2>10. News!TypeOK'
    BY <1>2, <2>1, <2>3, <2>6, <2>7, <2>8, <2>9 DEF NewsInv, News!TypeOK, Answers, News!NoToken
  <2> QED BY <2>5, <2>6, <2>7, <2>10 DEF NewsInv
<1> QED BY <1>3, <1>4

LEMMA BaseStep ==
  ASSUME NewsInv, NEW r \in Requests, News!Base(r)
  PROVE  NewsInv'
<1> DEFINE q == call[r]
           new == [q EXCEPT !.pc = "store",
                     !.data = IF q.op.kind = "unsubscribe" THEN [row EXCEPT !.status = "unsubscribed"]
                              ELSE @]
<1>1. q # NoCall /\ q \in News!Request /\ q.pc = "base" /\ Carries(q, row, ids, minted, bare)
  BY NewsTyped DEF News!Base, News!At, NewsInv, AllCarry
<1>2. UNCHANGED <<row, calls, ids, minted, links, bare>>
  BY DEF News!Base
<1>3. CASE row = NoRow \/ row.id # q.found.id
  <2>1. News!Ends(r, "error", call)
    BY <1>3 DEF News!Base
  <2> QED BY <1>2, <2>1, EndsUnstored
<1>4. CASE row # NoRow /\ row.id = q.found.id
  <2>1. call' = [call EXCEPT ![r] = new] /\ UNCHANGED answer
    BY <1>4 DEF News!Base
  <2>2. row \in News!Row /\ row.id \in 1..ids /\ row.token \in Nat /\ row.token <= minted /\ minted \in Nat
    BY <1>4, NewsTyped DEF NewsInv, News!TypeOK
  <2>3. /\ new \in News!Request /\ new.op = q.op /\ new.found = q.found /\ new.pc = "store" /\ new.late = q.late
        /\ q.op.kind # "unsubscribe" => new.data = q.data
        /\ q.op.kind = "unsubscribe" => new.data \in News!Row /\ new.data.id = row.id
                                        /\ new.data.token = row.token /\ new.data.sel = row.sel
    <3>1. [row EXCEPT !.status = "unsubscribed"] \in News!Row
      BY <2>2 DEF News!Row
    <3> QED BY <1>1, <2>2, <3>1 DEF News!Request, News!Row
  <2> HIDE DEF new
  <2>4. Carries(new, row, ids, minted, bare)
    <3>1. CASE q.op.kind = "unsubscribe"
      <4>1. row.token \in 1..minted
        BY <1>1, <1>4, <2>2, <3>1 DEF Carries
      <4> QED BY <1>1, <1>4, <2>3, <3>1, <4>1 DEF Carries, SameLink
    <3>2. CASE q.op.kind # "unsubscribe"
      BY <1>1, <2>3, <3>2 DEF Carries
    <3> QED BY <3>1, <3>2
  <2>5. /\ call' \in [Requests -> News!Request \cup {NoCall}] /\ call'[r] = new
        /\ \A s \in Requests : s # r => call'[s] = call[s]
    BY <2>1, <2>3, OneChanges
  <2>6. AllCarry'
    BY <1>2, <2>4, <2>5, OneGoesOn, NewsTyped
  <2>7. answer' \in Answers /\ calls \in 0..MaxCalls
    BY <2>1 DEF NewsInv, News!TypeOK, Answers
  <2> QED BY <1>2, <2>5, <2>6, <2>7, NothingStored, NewsTyped DEF Answers
<1> QED BY <1>3, <1>4

LEMMA NewsStoreStep ==
  ASSUME NewsInv, NEW r \in Requests, News!Store(r)
  PROVE  NewsInv'
<1> DEFINE q == call[r]
<1>1. q # NoCall /\ q \in News!Request /\ q.pc = "store" /\ Carries(q, row, ids, minted, bare)
  BY NewsTyped DEF News!Store, News!At, NewsInv, AllCarry
<1>2. UNCHANGED <<calls, ids, minted, bare>>
  BY DEF News!Store
<1>3. CASE row = NoRow \/ row.id # q.data.id
  <2>1. News!Ends(r, "error", call) /\ UNCHANGED <<row, links>>
    BY <1>3 DEF News!Store
  <2> QED BY <1>2, <2>1, EndsUnstored
<1>4. CASE row # NoRow /\ row.id = q.data.id
  <2>1. row' = q.data /\ News!Answered(q.data) /\ News!Ends(r, "ok", News!Others(r))
    BY <1>4 DEF News!Store
  <2>2. row' \in News!Row /\ row'.id = row.id /\ row'.token \in 1..minted /\ ids \in Nat /\ minted \in Nat
        /\ (row.token = row'.token \/ row.id \in bare) /\ row.id \in 1..ids
    BY <1>1, <1>4, <2>1, NewsTyped DEF Carries, SameLink
  <2>3. call' = [News!Others(r) EXCEPT ![r] = NoCall] /\ answer' = [answer EXCEPT ![r] = "ok"]
    BY <2>1 DEF News!Ends
  <2>9. ids' = ids /\ ids' \in Nat /\ ids' >= ids /\ minted' = minted /\ bare' = bare
    BY <1>2, <2>2
  <2>4. AllCarry' /\ call' \in [Requests -> News!Request \cup {NoCall}]
    BY <1>4, <2>2, <2>3, <2>9, OthersCarry
  <2>5. /\ LinksKeepWorking' /\ links' \subseteq [id: 1..ids', token: 1..minted'] /\ bare' \subseteq 1..ids'
    BY <1>4, <2>1, <2>2, <2>9, LinksStay
  <2>6. answer' \in Answers
    BY <2>3 DEF NewsInv, News!TypeOK, Answers
  <2>7. row'.token <= minted /\ row'.token # 0
    BY <2>2
  <2>8. News!TypeOK'
    BY <1>2, <2>2, <2>4, <2>5, <2>6, <2>7 DEF NewsInv, News!TypeOK, Answers, News!NoToken
  <2> QED BY <1>2, <2>2, <2>4, <2>5, <2>8 DEF NewsInv
<1> QED BY <1>3, <1>4

(* The administrator: a row without a token, and no row. *)
LEMMA AdminStep ==
  ASSUME NewsInv, News!AdminAdd \/ News!AdminDelete
  PROVE  NewsInv'
<1>1. call' = call /\ UNCHANGED <<answer, calls, minted, links>> /\ ids \in Nat /\ minted \in Nat
  BY NewsTyped DEF News!AdminAdd, News!AdminDelete
<1>2. links \subseteq [id: 1..ids, token: 1..minted] /\ bare \subseteq 1..ids
  BY DEF NewsInv, News!TypeOK
<1>3. CASE News!AdminAdd
  <2>1. PICK sel \in SUBSET Lists :
          row' = [id |-> ids + 1, sel |-> sel, status |-> "subscribed", token |-> 0]
    BY <1>3 DEF News!AdminAdd, News!NoToken
  <2>2. row = NoRow /\ ids < MaxIds /\ ids' = ids + 1 /\ bare' = bare \cup {ids + 1}
    BY <1>3 DEF News!AdminAdd
  <2>3. row' \in News!Row /\ row'.id = ids + 1 /\ row'.token = 0
    BY <1>1, <2>1 DEF News!Row
  <2>4. ids' \in 0..MaxIds /\ ids' \in Nat /\ ids' >= ids /\ row'.id \in 1..ids' /\ row'.id > ids
    BY <1>1, <2>2, <2>3, NewsAssumption DEF News!BoundsAssumption
  <2>5. ASSUME NEW s \in Requests, call[s] # NoCall
        PROVE  Carries(call[s], row', ids', minted, bare')
    <3>1. call[s] \in News!Request /\ Carries(call[s], row, ids, minted, bare) /\ bare \subseteq bare'
      BY <2>2, <2>5, NewsTyped DEF NewsInv, AllCarry
    <3> QED BY <1>1, <2>4, <3>1, CarriesOn
  <2>6. AllCarry'
    BY <1>1, <2>5 DEF AllCarry
  <2>7. links' \subseteq [id: 1..ids', token: 1..minted'] /\ bare' \subseteq 1..ids'
    BY <1>1, <1>2, <2>2, <2>4
  <2>8. row'.token <= minted' /\ row'.id \in bare'
    BY <1>1, <2>2, <2>3
  <2>9. News!TypeOK'
    BY <1>1, <2>3, <2>4, <2>7, <2>8 DEF NewsInv, News!TypeOK
  <2> QED BY <2>4, <2>6, <2>8, <2>9 DEF NewsInv, LinksKeepWorking, News!LinksKeepWorking
<1>4. CASE News!AdminDelete
  <2>1. row' = NoRow /\ UNCHANGED <<ids, bare>>
    BY <1>4 DEF News!AdminDelete
  <2>2. ASSUME NEW s \in Requests, call[s] # NoCall
        PROVE  Carries(call[s], row', ids, minted, bare)
    <3>1. call[s] \in News!Request /\ Carries(call[s], row, ids, minted, bare)
      BY <2>2, NewsTyped DEF NewsInv, AllCarry
    <3> QED BY <1>1, <2>1, <3>1, CarriesOn
  <2>3. AllCarry'
    BY <1>1, <2>1, <2>2 DEF AllCarry
  <2>4. News!TypeOK'
    BY <1>1, <2>1 DEF NewsInv, News!TypeOK
  <2> QED BY <2>1, <2>3, <2>4 DEF NewsInv, LinksKeepWorking, News!LinksKeepWorking
<1> QED BY <1>3, <1>4

LEMMA NewsNext == NewsInv /\ [News!Next]_newsVars => NewsInv'
<1>1. CASE UNCHANGED newsVars
  BY <1>1 DEF newsVars, NewsInv, News!TypeOK, LinksKeepWorking, News!LinksKeepWorking, AllCarry
<1> QED BY <1>1, CallStep, NewsFindStep, CreateStep, BaseStep, NewsStoreStep, AdminStep DEF News!Next


LEMMA NewsInvariance == MCSpec => []NewsInv
<1>1. MCInit => NewsInv
  BY NewsInit DEF MCInit
<1>2. NewsInv /\ [MCNext]_MCvars => NewsInv'
  BY NewsNext DEF MCNext, MCvars, newsVars
<1> QED BY <1>1, <1>2, PTL DEF MCSpec

(* For any number of requests, calls and newsletters: a one-click link that
   was answered for a row works for as long as the row is there. *)
THEOREM LinksHold == MCSpec => []LinksKeepWorking
<1>1. NewsInv => LinksKeepWorking
  BY DEF NewsInv
<1> QED BY <1>1, NewsInvariance, PTL

-----------------------------------------------------------------------------
(* What OnlyRacesLose says of one step. *)
ChangesOnlyNamed ==
  \A r \in Requests :
    News!Stores(r) /\ call'[r] = NoCall /\ call[r].op.kind # "set" /\ ~call[r].late
      => News!Changed(row, row') \subseteq News!Named(call[r].op)

(* A request that does not store is late once another has stored, not gone. *)
LEMMA OthersStay ==
  ASSUME NewsInv, NEW r \in Requests, NEW s \in Requests, s # r, call[s] # NoCall,
         News!Ends(r, "ok", News!Others(r))
  PROVE  call'[s] # NoCall
<1>1. call[s] \in News!Request
  BY NewsTyped
<1>2. [call[s] EXCEPT !.late = TRUE] \in News!Request
  BY <1>1 DEF News!Request
<1>3. call'[s] \in News!Request
  BY <1>1, <1>2 DEF News!Ends, News!Others
<1> QED BY <1>3, NewsAssumption DEF News!BoundsAssumption

LEMMA StoreChangesOnlyNamed ==
  ASSUME NewsInv, NEW r \in Requests, News!Store(r)
  PROVE  ChangesOnlyNamed
<1> SUFFICES ASSUME NEW s \in Requests, News!Stores(s), call'[s] = NoCall,
                    call[s].op.kind # "set", ~call[s].late
             PROVE  News!Changed(row, row') \subseteq News!Named(call[s].op)
  BY DEF ChangesOnlyNamed
<1> DEFINE q == call[r]
<1>1. row # NoRow /\ row' # row /\ call[s] # NoCall
  BY DEF News!Stores, News!At
<1>2. row.id = q.data.id /\ row' = q.data /\ News!Ends(r, "ok", News!Others(r))
  BY <1>1 DEF News!Store
<1>3. s = r
  BY <1>1, <1>2, OthersStay
<1>4. q.pc = "store" /\ Carries(q, row, ids, minted, bare) /\ q \in News!Request
  BY NewsTyped DEF News!Store, News!At, NewsInv, AllCarry
<1>5. row = q.found /\ q.op.kind \in {"toggle", "unsubscribe"}
  BY <1>1, <1>2, <1>3, <1>4 DEF Carries, News!Request, News!Op
<1>6. CASE q.op.kind = "toggle"
  <2>1. row'.sel = (row.sel \cup q.op.add) \ q.op.remove
    BY <1>1, <1>2, <1>4, <1>5, <1>6 DEF Carries, News!Selection
  <2> QED BY <1>3, <2>1 DEF News!Changed, News!Named
<1>7. CASE q.op.kind = "unsubscribe"
  <2>1. row'.sel = row.sel
    BY <1>2, <1>3, <1>4, <1>5, <1>7 DEF Carries
  <2> QED BY <1>3, <2>1 DEF News!Changed, News!Named
<1> QED BY <1>5, <1>6, <1>7

LEMMA NewsStepChangesOnlyNamed ==
  ASSUME NewsInv, News!Next
  PROVE  ChangesOnlyNamed
<1>1. ASSUME NEW r \in Requests, News!Call(r) \/ News!Find(r) \/ News!Base(r)
      PROVE  ChangesOnlyNamed
  <2>1. row' = row
    BY <1>1 DEF News!Call, News!Find, News!Base
  <2> QED BY <2>1 DEF ChangesOnlyNamed, News!Stores
<1>2. ASSUME NEW r \in Requests, News!Create(r)
      PROVE  ChangesOnlyNamed
  <2>1. row = NoRow \/ row' = row
    BY <1>2 DEF News!Create
  <2> QED BY <2>1 DEF ChangesOnlyNamed, News!Stores
<1>3. ASSUME News!AdminAdd \/ News!AdminDelete
      PROVE  ChangesOnlyNamed
  <2>1. call' = call
    BY <1>3 DEF News!AdminAdd, News!AdminDelete
  <2> QED BY <2>1 DEF ChangesOnlyNamed, News!Stores, News!At
<1> QED BY <1>1, <1>2, <1>3, StoreChangesOnlyNamed DEF News!Next

(* For any number of requests, calls and newsletters: a toggle that nobody
   wrote in between changes only what it names, and an unsubscribe no
   selection. *)
THEOREM RacesAloneLose == MCSpec => OnlyRacesLose
<1>1. NewsInv /\ [MCNext]_MCvars => [ChangesOnlyNamed]_(News!vars)
  <2>1. CASE News!Next
    BY <2>1, NewsStepChangesOnlyNamed
  <2>2. CASE UNCHANGED newsVars
    BY <2>2 DEF newsVars, News!vars
  <2> QED BY <2>1, <2>2 DEF MCNext, MCvars
<1> QED BY <1>1, NewsInvariance, PTL DEF MCSpec, OnlyRacesLose, News!OnlyRacesLose, ChangesOnlyNamed
===============================================================================
