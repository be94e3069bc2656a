----------------------------- MODULE DirectUpload -----------------------------
(***************************************************************************)
(* The hub's direct image upload: sign, PUT to the staging area, register. *)
(*                                                                         *)
(*   sign       names a staging key and gives an uploadId and a PUT URL,   *)
(*              which expire; it stores nothing                            *)
(*   hub        puts an object under the key, as often as the URL lasts,   *)
(*              and registers it, again when an answer is lost             *)
(*   register   looks at the staged object, reads it, looks its name up in *)
(*              the media of the tenant, and stores or updates             *)
(*                                                                         *)
(* A register is several steps, and its process may die between any two.   *)
(* Deleting from the staging area may fail.  One article: the name of an   *)
(* image is fixed by its bytes.  Storing is Payload's: it renames a file   *)
(* whose name it finds taken, and the index refuses the same name twice.   *)
(***************************************************************************)
EXTENDS Naturals

CONSTANTS
  Keys,       \* staging keys: uploads the hub asks for
  Contents,   \* objects the hub may put
  Fitting,    \* those with the size and type that were signed
  Images,     \* those that pass validateMediaFile
  TooBig,     \* images that stay over the cap after re-encoding
  Requests,
  PutTtl,     \* putTtlSeconds
  IdTtl,      \* uploadIdTtlSeconds
  NotSigned,
  MaxTime,    \* bound: the clock stops here
  MaxPuts,    \* bound: objects put
  MaxDocs     \* bound: numbers after a file name

ASSUME ContentsAssumption ==
  Fitting \subseteq Contents /\ Images \subseteq Contents /\ TooBig \subseteq Images
ASSUME TtlAssumption == PutTtl \in Nat /\ IdTtl \in Nat /\ PutTtl <= IdTtl /\ NotSigned \notin Nat
ASSUME BoundsAssumption == {MaxTime, MaxPuts, MaxDocs} \subseteq Nat

VARIABLES
  clock,
  signed,   \* when each key was signed
  staging,  \* the object under each key
  puts,     \* counted for the bound
  media,    \* the media rows of the tenant: bytes, and the number after the name
  req,      \* registers at work
  raced     \* history: contents that two registers were about to store at once

vars == <<clock, signed, staging, puts, media, req, raced>>

Nothing == [none |-> TRUE]
Object == [bytes: Contents]
MediaDoc == [bytes: Contents, n: Nat]

Idle == [pc |-> "idle"]
Working == [pc: {"head", "read", "find", "update", "create", "insert", "drop"},
            key: Keys, bytes: {Nothing} \cup Object, n: Nat]

(* Staging, media and registers have their shapes, and file names are unique. *)
TypeOK ==
  /\ clock \in Nat /\ puts \in Nat
  /\ signed \in [Keys -> Nat \cup {NotSigned}]
  /\ staging \in [Keys -> {Nothing} \cup Object]
  /\ media \subseteq MediaDoc
  /\ req \in [Requests -> {Idle} \cup Working]
  /\ raced \subseteq Contents

Init ==
  /\ clock = 0 /\ puts = 0
  /\ signed = [k \in Keys |-> NotSigned]
  /\ staging = [k \in Keys |-> Nothing]
  /\ media = {}
  /\ req = [r \in Requests |-> Idle]
  /\ raced = {}

-----------------------------------------------------------------------------
(* The hub. *)

Sign(k) ==
  /\ signed[k] = NotSigned
  /\ signed' = [signed EXCEPT ![k] = clock]
  /\ UNCHANGED <<clock, staging, puts, media, req, raced>>

Put(k) ==
  /\ signed[k] # NotSigned /\ clock <= signed[k] + PutTtl /\ puts < MaxPuts
  /\ \E c \in Contents : staging' = [staging EXCEPT ![k] = [bytes |-> c]]
  /\ puts' = puts + 1
  /\ UNCHANGED <<clock, signed, media, req, raced>>

(* verifyUploadId: good until its last second. *)
Fresh(k) == signed[k] # NotSigned /\ clock <= signed[k] + IdTtl

(* Gate and uploadId are in order; a request refused there changes nothing. *)
Register(r) ==
  /\ req[r] = Idle
  /\ \E k \in Keys :
       /\ Fresh(k)
       /\ req' = [req EXCEPT ![r] = [pc |-> "head", key |-> k, bytes |-> Nothing, n |-> 0]]
  /\ UNCHANGED <<clock, signed, staging, puts, media, raced>>

-----------------------------------------------------------------------------
(* One register. *)

At(r, pc) == req[r].pc = pc

Go(r, pc) == req' = [req EXCEPT ![r].pc = pc]
Answer(r) == req' = [req EXCEPT ![r] = Idle]
Kept == UNCHANGED <<clock, signed, puts>>

(* HEAD: the object is there, with the size and type that were signed. *)
HeadStaging(r) ==
  LET o == staging[req[r].key] IN
  /\ At(r, "head")
  /\ IF o = Nothing THEN Answer(r)
     ELSE Go(r, IF o.bytes \in Fitting THEN "read" ELSE "drop")
  /\ UNCHANGED <<staging, media, raced>> /\ Kept

(* The read is capped at the signed size; bad bytes are dropped, a bad     *)
(* text keeps the object.                                                  *)
Read(r) ==
  LET o == staging[req[r].key] IN
  /\ At(r, "read")
  /\ \/ o = Nothing /\ Answer(r)
     \/ o # Nothing /\ o.bytes \notin (Fitting \cap Images) /\ Go(r, "drop")
     \/ o # Nothing /\ o.bytes \in (Fitting \cap Images) /\ Answer(r)
     \/ /\ o # Nothing /\ o.bytes \in (Fitting \cap Images)
        /\ req' = [req EXCEPT ![r].pc = "find", ![r].bytes = o]
  /\ UNCHANGED <<staging, media, raced>> /\ Kept

Named(c) == {d \in media : d.bytes = c /\ d.n = 0}

(* Seeded fault: the name is random, so nothing is found under it. *)
FindNothing(r) == Go(r, "create")

(* findMediaByName. *)
FindByName(r) == Go(r, IF Named(req[r].bytes.bytes) = {} THEN "create" ELSE "update")

(* Others between looking the name up and storing the same bytes. *)
Storing(c) == {q \in Requests : req[q].pc \in {"create", "insert"} /\ req[q].bytes.bytes = c}

Find(r) ==
  /\ At(r, "find")
  /\ FindByName(r)
  /\ raced' = IF Storing(req[r].bytes.bytes) = {} THEN raced ELSE raced \cup {req[r].bytes.bytes}
  /\ UNCHANGED <<staging, media>> /\ Kept

(* Alt, caption and credit of the image that is there are written again. *)
Update(r) ==
  /\ At(r, "update")
  /\ Go(r, "drop")
  /\ UNCHANGED <<staging, media, raced>> /\ Kept

(* The first number with which the file name is free. *)
FreeName(c, n) ==
  /\ [bytes |-> c, n |-> n] \notin media
  /\ \A m \in 0..MaxDocs : m < n => [bytes |-> c, n |-> m] \in media

(* createTenantMedia: re-encoded or refused, then a name that is not taken. *)
Create(r) ==
  LET c == req[r].bytes.bytes IN
  /\ At(r, "create")
  /\ \/ c \in TooBig /\ Go(r, "drop")
     \/ /\ c \notin TooBig
        /\ \E n \in 0..MaxDocs :
             FreeName(c, n) /\ req' = [req EXCEPT ![r].pc = "insert", ![r].n = n]
  /\ UNCHANGED <<staging, media, raced>> /\ Kept

Insert(r) ==
  LET new == [bytes |-> req[r].bytes.bytes, n |-> req[r].n] IN
  /\ At(r, "insert")
  /\ \/ new \notin media /\ media' = media \cup {new}
     \/ UNCHANGED media  \* refused: the answer is an error
  /\ Go(r, "drop")
  /\ UNCHANGED <<staging, raced>> /\ Kept

(* dropStaging is best effort; then the answer. *)
Drop(r) ==
  LET k == req[r].key IN
  /\ At(r, "drop")
  /\ \/ staging' = [staging EXCEPT ![k] = Nothing]
     \/ UNCHANGED staging
  /\ Answer(r)
  /\ UNCHANGED <<media, raced>> /\ Kept

(* The process dies, or something it called fails: nobody deletes anything. *)
Die(r) ==
  /\ req[r] # Idle
  /\ Answer(r)
  /\ UNCHANGED <<staging, media, raced>> /\ Kept

Tick ==
  /\ clock < MaxTime
  /\ clock' = clock + 1
  /\ UNCHANGED <<signed, staging, puts, media, req, raced>>

Next ==
  \/ \E k \in Keys : Sign(k) \/ Put(k)
  \/ \E r \in Requests :
       \/ Register(r) \/ HeadStaging(r) \/ Read(r) \/ Find(r) \/ Update(r)
       \/ Create(r) \/ Insert(r) \/ Drop(r) \/ Die(r)
  \/ Tick

Spec == Init /\ [][Next]_vars

-----------------------------------------------------------------------------
(* Properties. *)

(***************************************************************************)
(* However often an image is put and registered - under one key or two,    *)
(* after a lost answer, a death or a delete that failed - it has one media *)
(* row, unless two registers had both looked for it in vain when the first *)
(* of them stored it (deterministicMediaName, findMediaByName).            *)
(***************************************************************************)
TwinsOnlyFromARace ==
  \A d, e \in media : d.bytes = e.bytes /\ d # e => d.bytes \in raced
=============================================================================
