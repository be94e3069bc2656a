----------------------------- MODULE ClientUpload -----------------------------
(***************************************************************************)
(* Images that editors upload from the admin (src/lib/upload-integrity.ts).*)
(*                                                                         *)
(* The browser puts the file into the bucket under a key that was signed   *)
(* for the form's prefix and the name as the editor's disk has it.  The    *)
(* create comes later.  Payload cleans the name, numbers it when a row of  *)
(* the tenant has it, and inserts the row, whose prefix is the tenant's.   *)
(* verifyClientUpload then looks for the object at the key of the row, and *)
(* moves it there from where the browser may have put it, or throws, which *)
(* rolls the row back.  The bucket knows no transaction.                   *)
(*                                                                         *)
(* One file name, clean or with characters that do not survive cleaning.   *)
(***************************************************************************)
EXTENDS Naturals, Sequences

CONSTANTS
  Tenants,
  Root,        \* where objects lie that were signed without a prefix
  Uploads,
  Nothing,
  MaxNumber,   \* bound: numbers after the file name
  MaxDeaths    \* bound: requests that die

RootAssumption == Root \notin Tenants /\ Nothing \notin Uploads
BoundsAssumption == MaxNumber \in Nat /\ MaxDeaths \in Nat

VARIABLES
  objects,      \* the bucket: whose file lies under each key
  rows,         \* committed media rows
  up,           \* the uploads
  deaths,       \* counted for the bound
  overwritten,  \* history: files lost to a later put or copy, or with their row
  relocated     \* history: keys that a move has emptied

vars == <<objects, rows, up, deaths, overwritten, relocated>>

Key == [at: Tenants \cup {Root}, clean: BOOLEAN, n: 0..MaxNumber]
MediaRow == [tenant: Tenants, n: 0..MaxNumber, of: Uploads]

Phases == {"put", "name", "insert", "check", "look", "copy", "delete", "commit", "done", "failed"}
Upload == [tenant: Tenants, at: Tenants \cup {Root}, clean: BOOLEAN,
           pc: Phases, n: 0..MaxNumber, i: Nat, saw: Uploads \cup {Nothing}]
New == [pc |-> "new"]

(* File names are unique within a tenant. *)
TypeOK ==
  /\ objects \in [Key -> Uploads \cup {Nothing}]
  /\ rows \subseteq MediaRow
  /\ up \in [Uploads -> {New} \cup Upload]
  /\ deaths \in 0..MaxDeaths /\ overwritten \subseteq Uploads /\ relocated \subseteq Key
  /\ \A a, b \in rows : a.tenant = b.tenant /\ a.n = b.n => a = b

Init ==
  /\ objects = [k \in Key |-> Nothing] /\ rows = {}
  /\ up = [u \in Uploads |-> New]
  /\ deaths = 0 /\ overwritten = {} /\ relocated = {}

-----------------------------------------------------------------------------
At(u, pc) == up[u].pc = pc
Goes(u, pc) == up' = [up EXCEPT ![u].pc = pc]
Same == UNCHANGED <<objects, rows, deaths, overwritten, relocated>>

KeyOf(row) == [at |-> row.tenant, clean |-> TRUE, n |-> row.n]

(* tenantKeyPrefix: the form's prefix, or else the slug of the row's tenant. *)
KeyPrefix(u) == IF up[u].at = Root THEN up[u].tenant ELSE up[u].at

SignedKey(u) == [at |-> up[u].at, clean |-> up[u].clean, n |-> 0]
WantKey(u) == [at |-> KeyPrefix(u), clean |-> TRUE, n |-> up[u].n]

(* The keys the browser could have signed, the likeliest first. *)
Candidates(u) ==
  LET Other(k) == IF k = WantKey(u) THEN <<>> ELSE <<k>> IN
  Other([at |-> KeyPrefix(u), clean |-> up[u].clean, n |-> 0])
    \o Other([at |-> Root, clean |-> up[u].clean, n |-> 0])
    \o Other([at |-> Root, clean |-> TRUE, n |-> up[u].n])

Writes(k, what) ==
  /\ objects' = [objects EXCEPT ![k] = what]
  /\ overwritten' = IF objects[k] \in {Nothing, what} THEN overwritten
                    ELSE overwritten \cup {objects[k]}

-----------------------------------------------------------------------------
(* The form is opened, with a tenant cookie or without, and a file chosen. *)
Choose(u) ==
  /\ up[u] = New
  /\ \E t \in Tenants, clean \in BOOLEAN : \E at \in {t, Root} :
       up' = [up EXCEPT ![u] = [tenant |-> t, at |-> at, clean |-> clean,
                                pc |-> "put", n |-> 0, i |-> 1, saw |-> Nothing]]
  /\ Same

Put(u) ==
  /\ At(u, "put")
  /\ Writes(SignedKey(u), u)
  /\ Goes(u, "name")
  /\ UNCHANGED <<rows, deaths, relocated>>

(* The create reads the file back, and chooses a number that is free. *)
Taken(t, n) == \E row \in rows : row.tenant = t /\ row.n = n
Name(u) ==
  /\ At(u, "name")
  /\ IF objects[SignedKey(u)] = Nothing THEN Goes(u, "failed")
     ELSE \E n \in 0..MaxNumber :
            /\ ~Taken(up[u].tenant, n) /\ \A m \in 0..MaxNumber : m < n => Taken(up[u].tenant, m)
            /\ up' = [up EXCEPT ![u].pc = "insert", ![u].n = n]
  /\ Same

Refused(u) == Taken(up[u].tenant, up[u].n)

(* A transaction that inserts the same name is waited for. *)
Inserted(u) == up[u].pc \in {"check", "look", "copy", "delete", "commit"}
Insert(u) ==
  /\ At(u, "insert")
  /\ ~\E v \in Uploads \ {u} :
       Inserted(v) /\ up[v].tenant = up[u].tenant /\ up[v].n = up[u].n
  /\ Goes(u, IF Refused(u) THEN "failed" ELSE "check")
  /\ Same

Check(u) ==
  /\ At(u, "check")
  /\ Goes(u, IF objects[WantKey(u)] # Nothing THEN "commit" ELSE "look")
  /\ Same

(* Seeded fault: a miss is only logged. *)
MissWarns(u) == Goes(u, "commit")

(* A miss throws, which rolls the row back. *)
Miss(u) == Goes(u, "failed")

Look(u) ==
  /\ At(u, "look")
  /\ IF up[u].i > Len(Candidates(u)) THEN Miss(u)
     ELSE LET there == objects[Candidates(u)[up[u].i]] IN
          up' = IF there # Nothing THEN [up EXCEPT ![u].pc = "copy", ![u].saw = there]
                ELSE [up EXCEPT ![u].i = @ + 1]
  /\ Same

(* Seeded fault: the source is deleted whatever became of the copy. *)
CopyErrorIgnored(u) == Goes(u, "delete")

CopyError(u) == Goes(u, "failed")

(* r2MoveObject, first half; the source may be gone by now, or the bucket fail. *)
Copy(u) == LET from == Candidates(u)[up[u].i] IN
  /\ At(u, "copy")
  /\ \/ objects[from] # Nothing /\ Writes(WantKey(u), objects[from]) /\ Goes(u, "delete")
     \/ CopyError(u) /\ UNCHANGED <<objects, overwritten>>
  /\ UNCHANGED <<rows, deaths, relocated>>

(* Second half: whatever lies there by now goes. *)
Delete(u) == LET from == Candidates(u)[up[u].i] IN
  /\ At(u, "delete")
  /\ objects' = [objects EXCEPT ![from] = Nothing]
  /\ relocated' = relocated \cup {from}
  /\ overwritten' = overwritten \cup ({objects[from]} \ {Nothing, up[u].saw})
  /\ Goes(u, "commit")
  /\ UNCHANGED <<rows, deaths>>

Commit(u) ==
  /\ At(u, "commit")
  /\ rows' = rows \cup {[tenant |-> up[u].tenant, n |-> up[u].n, of |-> u]}
  /\ Goes(u, "done")
  /\ UNCHANGED <<objects, deaths, overwritten, relocated>>

(* The function is ended, or Postgres ends the transaction. *)
Dies(u) ==
  /\ Inserted(u) /\ deaths < MaxDeaths
  /\ deaths' = deaths + 1
  /\ Goes(u, "failed")
  /\ UNCHANGED <<objects, rows, overwritten, relocated>>

(* An editor deletes an image, and the storage plugin its object. *)
RemoveRow(row) ==
  /\ rows' = rows \ {row}
  /\ Writes(KeyOf(row), Nothing)
  /\ UNCHANGED <<up, deaths, relocated>>

Next ==
  \/ \E u \in Uploads : \/ Choose(u) \/ Put(u) \/ Name(u) \/ Insert(u) \/ Check(u) \/ Look(u)
                        \/ Copy(u) \/ Delete(u) \/ Commit(u) \/ Dies(u)
  \/ \E row \in rows : RemoveRow(row)

Spec == Init /\ [][Next]_vars

-----------------------------------------------------------------------------
(* No row is committed without its object.  One that has none lost it to a
   move: a later upload had been put under its key. *)
MissingOnlyByRelocation ==
  \A row \in rows : objects[KeyOf(row)] # Nothing \/ KeyOf(row) \in relocated

(* A move that fails or dies halfway destroys no file. *)
FilesSurvive == \A u \in Uploads :
  up[u] # New /\ up[u].pc # "put" =>
    u \in overwritten \/ \E k \in Key : objects[k] = u

(* No file is lost, and none misses from its row, but through a move's known gap. *)
FilesStand == MissingOnlyByRelocation /\ FilesSurvive
===============================================================================
