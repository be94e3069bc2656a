------------------------------ MODULE HubDrafts ------------------------------
(***************************************************************************)
(* What the hub's writes on articles promise: each call takes effect at    *)
(* one moment between the call and its answer, on the version the caller   *)
(* named and with a slug nobody else in the tenant has, or not at all.     *)
(*                                                                         *)
(*   ok        it took effect                                              *)
(*   refused   409 or 422: it did not                                      *)
(*   busy      503 with Retry-After: it did not                            *)
(*   error     500: unknown                                                *)
(***************************************************************************)
EXTENDS Naturals

CONSTANTS Articles, Slugs, Requests, NoSlug, NoOp

VARIABLES
  rows,     \* the articles as committed
  open,     \* the operation each caller is waiting for
  answer    \* the last answer each caller got

vars == <<rows, open, answer>>

(* main and latest are the slugs of the main row and the latest version. *)
Row == [ver: Nat, main: Slugs \cup {NoSlug}, latest: Slugs \cup {NoSlug},
        ws: {"absent", "draft", "published"}]
Absent == [ver |-> 0, main |-> NoSlug, latest |-> NoSlug, ws |-> "absent"]

(* patch leaves the slug alone, rename sets a new one. *)
Kinds == {"create", "patch", "rename", "publish"}
Op == [kind: Kinds, art: Articles, slug: Slugs \cup {NoSlug}, ver: Nat]
Answers == {"none", "ok", "refused", "busy", "error"}

(* The rows of the tenant's articles and the calls that are open. *)
TypeOK ==
  /\ rows \in [Articles -> Row]
  /\ open \in [Requests -> Op \cup {NoOp}]
  /\ answer \in [Requests -> Answers]

Init ==
  /\ rows = [a \in Articles |-> Absent]
  /\ open = [r \in Requests |-> NoOp]
  /\ answer = [r \in Requests |-> "none"]

SlugsOf(rs, a) == {rs[a].main, rs[a].latest} \ {NoSlug}
SlugFree(rs, s, a) == \A b \in Articles \ {a} : s \notin SlugsOf(rs, b)

(* May op take effect on these rows, and what does it leave? *)
Applicable(rs, op) ==
  CASE op.kind = "create"  -> rs[op.art] = Absent /\ SlugFree(rs, op.slug, op.art)
    [] op.kind = "patch"   -> rs[op.art].ws = "draft" /\ rs[op.art].ver = op.ver
    [] op.kind = "rename"  -> /\ rs[op.art].ws = "draft" /\ rs[op.art].ver = op.ver
                              /\ SlugFree(rs, op.slug, op.art)
    [] op.kind = "publish" -> /\ rs[op.art].ws = "draft" /\ rs[op.art].ver = op.ver
                              /\ SlugFree(rs, rs[op.art].latest, op.art)

Outcome(row, op) ==
  CASE op.kind = "create"  -> [ver |-> 1, main |-> op.slug, latest |-> op.slug, ws |-> "draft"]
    [] op.kind = "patch"   -> [row EXCEPT !.ver = row.ver + 1]
    [] op.kind = "rename"  -> [row EXCEPT !.ver = row.ver + 1, !.latest = op.slug]
    [] op.kind = "publish" -> [row EXCEPT !.ws = "published", !.main = row.latest]

Effect(op) ==
  /\ Applicable(rows, op)
  /\ rows' = [rows EXCEPT ![op.art] = Outcome(rows[op.art], op)]

Reply(r, says) ==
  /\ open' = [open EXCEPT ![r] = NoOp]
  /\ answer' = [answer EXCEPT ![r] = says]

Invoke(r) ==
  /\ open[r] = NoOp
  /\ open'[r] \in Op
  /\ open' = [open EXCEPT ![r] = open'[r]]
  /\ answer' = [answer EXCEPT ![r] = "none"]
  /\ UNCHANGED rows

Succeed(r) == open[r] # NoOp /\ Effect(open[r]) /\ Reply(r, "ok")

Refuse(r) ==
  /\ open[r] # NoOp
  /\ \E says \in {"refused", "busy", "error"} : Reply(r, says)
  /\ UNCHANGED rows

(* The commit went through and its confirmation was lost. *)
Unknown(r) == open[r] # NoOp /\ Effect(open[r]) /\ Reply(r, "error")

Next == \E r \in Requests : Invoke(r) \/ Succeed(r) \/ Refuse(r) \/ Unknown(r)

Spec == Init /\ [][Next]_vars
=============================================================================
