------------------------------ MODULE ReadTokens ------------------------------
(***************************************************************************)
(* The read tokens of a publication and who may read with them.            *)
(*                                                                         *)
(*   the public routes   look a token up once per instance and remember    *)
(*                       the answer, yes or no, for TTL                    *)
(*   the console         mints and revokes: it reads the list of tokens    *)
(*                       and writes the whole list back                    *)
(*   the tenant          may be suspended and taken back                   *)
(*                                                                         *)
(* A request that misses the cache is three steps, so other requests of    *)
(* its instance, the console and the clock run between them.               *)
(***************************************************************************)
EXTENDS Naturals, FiniteSets

CONSTANTS
  Tokens,
  Instances,
  Requests,
  Admins,
  TTL,         \* READ_TOKEN_TTL_MS
  SweepAbove,  \* entries beyond which a fill drops what has expired
  NoTime,
  MaxTime      \* bound: the clock stops here

ASSUME TimesAssumption == TTL \in Nat \ {0} /\ MaxTime \in Nat /\ NoTime \notin Nat
ASSUME SweepAssumption == SweepAbove \in Nat

VARIABLES
  clock,
  rows,      \* readTokens: the status of each token's row
  tenantOn,  \* the tenant is active
  form,      \* console actions between reading the list and writing it
  cache,     \* readTokenCache of each instance
  req,       \* requests that missed the cache
  goodAt,    \* history: the last instant each token opened the publication
  badAt      \* history: the last instant it did not

vars == <<clock, rows, tenantOn, form, cache, req, goodAt, badAt>>

RowStatus == {"none", "active", "revoked"}
Rows == [Tokens -> RowStatus]

NoForm == [op |-> "none"]
Form == [op: {"mint", "revoke"}, tok: Tokens, rows: Rows]

NoEntry == [on |-> FALSE]
Entry == [on: {TRUE}, ok: BOOLEAN, exp: Nat]

Idle == [at |-> "idle"]
Asking == [at: {"lookup"}, inst: Instances, tok: Tokens, now: Nat]
Answered == [at: {"fill"}, inst: Instances, tok: Tokens, now: Nat, ok: BOOLEAN]

(* Rows, cache entries and requests have their shapes. *)
TypeOK ==
  /\ clock \in Nat
  /\ rows \in Rows
  /\ tenantOn \in BOOLEAN
  /\ form \in [Admins -> {NoForm} \cup Form]
  /\ cache \in [Instances -> [Tokens -> {NoEntry} \cup Entry]]
  /\ req \in [Requests -> {Idle} \cup Asking \cup Answered]
  /\ goodAt \in [Tokens -> Nat \cup {NoTime}]
  /\ badAt \in [Tokens -> Nat \cup {NoTime}]

Init ==
  /\ clock = 0
  /\ rows = [t \in Tokens |-> "none"]
  /\ tenantOn = TRUE
  /\ form = [a \in Admins |-> NoForm]
  /\ cache = [i \in Instances |-> [t \in Tokens |-> NoEntry]]
  /\ req = [r \in Requests |-> Idle]
  /\ goodAt = [t \in Tokens |-> NoTime]
  /\ badAt = [t \in Tokens |-> 0]

-----------------------------------------------------------------------------
(* lookupReadToken: the tenant is active and the row is not revoked. *)
Opens(rs, on, t) == on /\ rs[t] = "active"

(* What the histories note about the moment after a step. *)
Noted(rs, on, now) ==
  /\ goodAt' = [t \in Tokens |-> IF on /\ rs[t] = "active" THEN now ELSE goodAt[t]]
  /\ badAt' = [t \in Tokens |-> IF on /\ rs[t] = "active" THEN badAt[t] ELSE now]

Unnoted == UNCHANGED <<goodAt, badAt>>

-----------------------------------------------------------------------------
(* The public routes. *)

Hit(i, t) == cache[i][t].on /\ cache[i][t].exp > clock

(* Answered from the cache of its instance; nothing changes. *)
Serve(i, t) == Hit(i, t) /\ UNCHANGED vars

Ask(r) ==
  /\ req[r] = Idle
  /\ \E i \in Instances, t \in Tokens :
       /\ ~Hit(i, t)
       /\ req' = [req EXCEPT ![r] = [at |-> "lookup", inst |-> i, tok |-> t, now |-> clock]]
  /\ UNCHANGED <<clock, rows, tenantOn, form, cache>> /\ Unnoted

Lookup(r) ==
  /\ req[r].at = "lookup"
  /\ req' = [req EXCEPT ![r] = [at |-> "fill", inst |-> @.inst, tok |-> @.tok, now |-> @.now,
                                ok |-> Opens(rows, tenantOn, @.tok)]]
  /\ UNCHANGED <<clock, rows, tenantOn, form, cache>> /\ Unnoted

(* Seeded fault: the time to live is counted from the end of the lookup. *)
ExpiryFromFill(q) == clock + TTL

Expiry(q) == q.now + TTL

(* The entry is stored, and a cache grown large loses what has expired. *)
Filled(entries, q) ==
  LET stored == [entries EXCEPT ![q.tok] = [on |-> TRUE, ok |-> q.ok, exp |-> Expiry(q)]]
      size == Cardinality({t \in Tokens : stored[t].on}) IN
  [t \in Tokens |-> IF size > SweepAbove /\ stored[t].on /\ stored[t].exp <= q.now
                    THEN NoEntry ELSE stored[t]]

Fill(r) ==
  LET q == req[r] IN
  /\ q.at = "fill"
  /\ cache' = [cache EXCEPT ![q.inst] = Filled(@, q)]
  /\ req' = [req EXCEPT ![r] = Idle]
  /\ UNCHANGED <<clock, rows, tenantOn, form>> /\ Unnoted

(* An instance goes away with its memory and its requests. *)
Recycle(i) ==
  /\ cache' = [cache EXCEPT ![i] = [t \in Tokens |-> NoEntry]]
  /\ req' = [r \in Requests |-> IF req[r] # Idle /\ req[r].inst = i THEN Idle ELSE req[r]]
  /\ UNCHANGED <<clock, rows, tenantOn, form>> /\ Unnoted

-----------------------------------------------------------------------------
(* The console. *)

ReadList(a) ==
  /\ form[a] = NoForm
  /\ \E t \in Tokens :
       \/ /\ rows[t] = "none"
          /\ \A b \in Admins : form[b] # NoForm => form[b].tok # t  \* random: nobody else mints it
          /\ form' = [form EXCEPT ![a] = [op |-> "mint", tok |-> t, rows |-> rows]]
       \/ /\ rows[t] # "none"
          /\ form' = [form EXCEPT ![a] = [op |-> "revoke", tok |-> t, rows |-> rows]]
  /\ UNCHANGED <<clock, rows, tenantOn, cache, req>> /\ Unnoted

NewList(f) == [f.rows EXCEPT ![f.tok] = IF f.op = "mint" THEN "active" ELSE "revoked"]

WriteList(a) ==
  /\ form[a] # NoForm
  /\ rows' = NewList(form[a])
  /\ form' = [form EXCEPT ![a] = NoForm]
  /\ Noted(rows', tenantOn, clock)
  /\ UNCHANGED <<clock, tenantOn, cache, req>>

(* An admin suspends the tenant or takes it back. *)
SwitchTenant ==
  /\ tenantOn' = ~tenantOn
  /\ Noted(rows, tenantOn', clock)
  /\ UNCHANGED <<clock, rows, form, cache, req>>

Tick ==
  /\ clock < MaxTime
  /\ clock' = clock + 1
  /\ Noted(rows, tenantOn, clock')
  /\ UNCHANGED <<rows, tenantOn, form, cache, req>>

Next ==
  \/ \E i \in Instances, t \in Tokens : Serve(i, t)
  \/ \E r \in Requests : Ask(r) \/ Lookup(r) \/ Fill(r)
  \/ \E i \in Instances : Recycle(i)
  \/ \E a \in Admins : ReadList(a) \/ WriteList(a)
  \/ SwitchTenant
  \/ Tick

Spec == Init /\ [][Next]_vars

-----------------------------------------------------------------------------
(* Properties. *)

WasGood(t, since) == goodAt[t] # NoTime /\ goodAt[t] >= since
WasBad(t, since) == badAt[t] # NoTime /\ badAt[t] >= since

(***************************************************************************)
(* An answer about to be given was true at some instant after its request  *)
(* arrived, and an answer in a cache was true at some instant less than    *)
(* TTL before it expires: a token that is revoked, or a tenant that is     *)
(* suspended, and that stays so, is refused by every instance once TTL has *)
(* passed, and a new token is let in as soon.  Two requests of one         *)
(* instance may store their answers in either order, at any later time,    *)
(* and an old answer may replace a newer one; the expiry still counts from *)
(* the arrival of the request whose answer it is (resolveReadToken).       *)
(***************************************************************************)
AnswersAgeNoMoreThanTTL ==
  /\ \A r \in Requests : req[r].at = "fill" =>
       IF req[r].ok THEN WasGood(req[r].tok, req[r].now) ELSE WasBad(req[r].tok, req[r].now)
  /\ \A i \in Instances, t \in Tokens : cache[i][t].on =>
       /\ cache[i][t].exp >= TTL
       /\ IF cache[i][t].ok THEN WasGood(t, cache[i][t].exp - TTL)
                            ELSE WasBad(t, cache[i][t].exp - TTL)
=============================================================================
