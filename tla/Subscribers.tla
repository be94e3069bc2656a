------------------------------ MODULE Subscribers ------------------------------
(***************************************************************************)
(* One newsletter address of a tenant, as POST /api/public/subscribers     *)
(* keeps it: a selection of newsletters, a status, and the token of the    *)
(* one-click unsubscribe link.  The route finds the row, computes what it  *)
(* shall be, and creates or updates it; nothing holds the row meanwhile.   *)
(* payload.update reads the row once more and writes all of it.            *)
(***************************************************************************)
EXTENDS Naturals

CONSTANTS
  Lists,        \* newsletters of the tenant
  Requests,
  NoRow, Idle,  \* model values
  MaxCalls,     \* bound
  MaxIds        \* bound: rows made

VARIABLES
  row,      \* of the address
  req,
  answer,   \* the last answer of each request
  calls, ids, minted,
  links,    \* history: the links the site was answered
  bare      \* history: rows that were made without a token

vars == <<row, req, answer, calls, ids, minted, links, bare>>

NoToken == 0
Row == [id: Nat, sel: SUBSET Lists, status: {"subscribed", "unsubscribed"}, token: Nat]
Op == [kind: {"set", "toggle", "unsubscribe"}, sel: SUBSET Lists,
       add: SUBSET Lists, remove: SUBSET Lists, token: Nat]
Sets == [kind: {"set"}, sel: SUBSET Lists, add: {{}}, remove: {{}}, token: {NoToken}]
Toggles == [kind: {"toggle"}, sel: {{}}, add: SUBSET Lists, remove: SUBSET Lists, token: {NoToken}]
Unsubscribe(token) ==
  [kind |-> "unsubscribe", sel |-> {}, add |-> {}, remove |-> {}, token |-> token]

(* late says that somebody wrote the row after this request had found it. *)
Request == [op: Op, pc: {"find", "create", "base", "store"},
            found: Row \cup {NoRow}, data: Row \cup {NoRow}, late: BOOLEAN]

BoundsAssumption == MaxCalls \in Nat /\ MaxIds \in Nat /\ Idle \notin Request

(* Types; a row that the route made has a token, and tokens are fresh. *)
TypeOK ==
  /\ row \in Row \cup {NoRow} /\ req \in [Requests -> Request \cup {Idle}]
  /\ answer \in [Requests -> {"none", "ok", "notFound", "error"}]
  /\ calls \in 0..MaxCalls /\ ids \in 0..MaxIds /\ minted \in Nat
  /\ links \subseteq [id: 1..ids, token: 1..minted] /\ bare \subseteq 1..ids
  /\ row # NoRow => row.token <= minted /\ (row.token = NoToken => row.id \in bare)

Init ==
  /\ row = NoRow /\ req = [r \in Requests |-> Idle]
  /\ answer = [r \in Requests |-> "none"]
  /\ calls = 0 /\ ids = 0 /\ minted = 0 /\ links = {} /\ bare = {}

-----------------------------------------------------------------------------
At(r, pc) == req[r] # Idle /\ req[r].pc = pc

(* The row is written: those who have found it are late from now on. *)
Others(r) == [q \in Requests |->
  IF q = r \/ req[q] = Idle \/ req[q].pc = "find" THEN req[q] ELSE [req[q] EXCEPT !.late = TRUE]]

Ends(r, says, reqs) ==
  /\ req' = [reqs EXCEPT ![r] = Idle]
  /\ answer' = [answer EXCEPT ![r] = says]

Call(r) ==
  /\ req[r] = Idle /\ calls < MaxCalls
  /\ calls' = calls + 1
  /\ \E op \in Sets \cup Toggles \cup {Unsubscribe(l.token) : l \in links} :
       req' = [req EXCEPT ![r] = [op |-> op, pc |-> "find", found |-> NoRow,
                                data |-> NoRow, late |-> FALSE]]
  /\ answer' = [answer EXCEPT ![r] = "none"]
  /\ UNCHANGED <<row, ids, minted, links, bare>>

(* Seeded fault: every call gives the row a new token. *)
TokenForNew(found) == minted + 1

(* The row's token, or a new one. *)
TokenFor(found) ==
  IF found # NoRow /\ found.token # NoToken THEN found.token ELSE minted + 1

(* Seeded fault: a toggle starts from nothing. *)
SelectionAnew(found, op) == IF op.kind = "set" THEN op.sel ELSE op.add \ op.remove

Selection(found, op) ==
  IF op.kind = "set" THEN op.sel
  ELSE ((IF found = NoRow THEN {} ELSE found.sel) \cup op.add) \ op.remove

StatusFor(op, sel) ==
  IF op.kind = "set" \/ sel # {} THEN "subscribed" ELSE "unsubscribed"

Find(r) == LET op == req[r].op IN
  /\ At(r, "find")
  /\ IF op.kind = "unsubscribe"
     THEN /\ IF row # NoRow /\ row.token = op.token
             THEN /\ req' = [req EXCEPT ![r].pc = "base", ![r].found = row]
                  /\ UNCHANGED answer
             ELSE Ends(r, "notFound", req)
          /\ UNCHANGED minted
     ELSE /\ LET sel == Selection(row, op) IN
             req' = [req EXCEPT ![r].pc = IF row = NoRow THEN "create" ELSE "base",
                                ![r].found = row,
                                ![r].data = [id |-> IF row = NoRow THEN 0 ELSE row.id,
                                             sel |-> sel, status |-> StatusFor(op, sel),
                                             token |-> TokenFor(row)]]
          /\ minted' = IF TokenFor(row) > minted THEN minted + 1 ELSE minted
          /\ UNCHANGED answer
  /\ UNCHANGED <<row, calls, ids, links, bare>>

Answered(new) == links' = links \cup {[id |-> new.id, token |-> new.token]}

(* The unique index on tenant and email, and the hook before it. *)
Create(r) == LET new == [req[r].data EXCEPT !.id = ids + 1] IN
  /\ At(r, "create")
  /\ IF row # NoRow THEN Ends(r, "error", req) /\ UNCHANGED <<row, ids, links>>
     ELSE /\ ids < MaxIds /\ ids' = ids + 1
          /\ row' = new /\ Answered(new)
          /\ Ends(r, "ok", Others(r))
  /\ UNCHANGED <<calls, minted, bare>>

(* payload.update: what the call does not set is taken from the row. *)
Base(r) ==
  /\ At(r, "base")
  /\ IF row = NoRow \/ row.id # req[r].found.id
     THEN Ends(r, "error", req)
     ELSE /\ req' = [req EXCEPT ![r].pc = "store",
                       ![r].data = IF req[r].op.kind = "unsubscribe"
                                   THEN [row EXCEPT !.status = "unsubscribed"] ELSE @]
          /\ UNCHANGED answer
  /\ UNCHANGED <<row, calls, ids, minted, links, bare>>

Store(r) ==
  /\ At(r, "store")
  /\ IF row = NoRow \/ row.id # req[r].data.id
     THEN Ends(r, "error", req) /\ UNCHANGED <<row, links>>
     ELSE row' = req[r].data /\ Answered(req[r].data) /\ Ends(r, "ok", Others(r))
  /\ UNCHANGED <<calls, ids, minted, bare>>

(* The admin: a row without a token, and a row deleted. *)
AdminAdd ==
  /\ row = NoRow /\ ids < MaxIds
  /\ ids' = ids + 1 /\ bare' = bare \cup {ids + 1}
  /\ \E sel \in SUBSET Lists :
       row' = [id |-> ids + 1, sel |-> sel, status |-> "subscribed", token |-> NoToken]
  /\ UNCHANGED <<req, answer, calls, minted, links>>

AdminDelete ==
  /\ row # NoRow
  /\ row' = NoRow
  /\ UNCHANGED <<req, answer, calls, ids, minted, links, bare>>

Next ==
  \/ \E r \in Requests : Call(r) \/ Find(r) \/ Create(r) \/ Base(r) \/ Store(r)
  \/ AdminAdd \/ AdminDelete

Spec == Init /\ [][Next]_vars

-----------------------------------------------------------------------------
(* A link that was answered for a row works as long as the row is there, if it
   was not an administrator who made the row. *)
LinksKeepWorking == row # NoRow =>
  \A l \in links : l.id = row.id => l.token = row.token \/ row.id \in bare

Named(op) == op.add \cup op.remove
Changed(old, new) == (old.sel \ new.sel) \cup (new.sel \ old.sel)
Stores(r) == At(r, "store") /\ row # NoRow /\ row' # row

(* A toggle changes only what it names, and an unsubscribe no selection at
   all, unless somebody wrote the row in between. *)
OnlyRacesLose == [][\A r \in Requests :
  Stores(r) /\ req'[r] = Idle /\ req[r].op.kind # "set" /\ ~req[r].late
    => Changed(row, row') \subseteq Named(req[r].op)]_vars
===============================================================================
