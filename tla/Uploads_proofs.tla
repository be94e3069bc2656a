---------------------------- MODULE Uploads_proofs ----------------------------
(***************************************************************************)
(* The two ways an image is uploaded, proved for any contents, tenants,    *)
(* keys and requests.                                                      *)
(*                                                                         *)
(*   the hub    DirectUpload: its types, and that an image has one media   *)
(*              row unless two registers raced for it                      *)
(*   editors    ClientUpload: no file is lost, and no row is without its   *)
(*              object, but through the known gap of a move                *)
(*                                                                         *)
(* MoveInv carries the second.  Its heart is that moves go up only, from a *)
(* key that no row has to the bare name and from there to a numbered one:  *)
(* two moves of one file can therefore not take each other's copy away.    *)
(***************************************************************************)
EXTENDS MCUploads, SequenceTheorems, TLAPS

-----------------------------------------------------------------------------
(* The hub.                                                                *)

StoringPc == {"create", "insert"}

(* A register past the read knows its bytes. *)
BytesRead ==
  \A r \in Requests : req[r].pc \in {"find", "update", "create", "insert"} => req[r].bytes \in Object

(* Nobody raced for these bytes: one register stores them at most, it will *)
(* store them under their own name, and nothing has them yet.              *)
Alone(c) ==
  /\ \A r, q \in Requests : r \in Storing(c) /\ q \in Storing(c) => r = q
  /\ \A r \in Storing(c) : req[r].pc = "insert" => req[r].n = 0
  /\ Storing(c) # {} => \A d \in media : d.bytes # c
  /\ \A d \in media : d.bytes = c => d.n = 0

UploadInv == TypeOK /\ BytesRead /\ \A c \in Contents \ raced : Alone(c)

(* The invariant is strong enough. *)
LEMMA AloneIsOne == UploadInv => TwinsOnlyFromARace
<1> SUFFICES ASSUME UploadInv, NEW d \in media, NEW e \in media, d.bytes = e.bytes, d # e,
                    d.bytes \notin raced
             PROVE  FALSE
  BY DEF TwinsOnlyFromARace
<1>1. d \in MediaDoc /\ e \in MediaDoc
  BY DEF UploadInv, TypeOK
<1>2. d.bytes \in Contents \ raced
  BY <1>1 DEF MediaDoc
<1>3. d.n = 0 /\ e.n = 0
  BY <1>2 DEF UploadInv, Alone
<1> QED BY <1>1, <1>3 DEF MediaDoc

LEMMA ReqShape ==
  ASSUME TypeOK, NEW r \in Requests, req[r].pc # "idle"
  PROVE  req[r] \in Working
BY DEF TypeOK, Idle

(* A step of a register that neither begins to store nor stores. *)
LEMMA QuietRequest ==
  ASSUME UploadInv, NEW r \in Requests, NEW new \in {Idle} \cup Working,
         req' = [req EXCEPT ![r] = new], media' = media, raced' = raced,
         new.pc \notin StoringPc,
         new.pc \in {"find", "update"} => new.bytes \in Object,
         staging' \in [Keys -> {Nothing} \cup Object], Kept
  PROVE  UploadInv'
<1>1. req' \in [Requests -> {Idle} \cup Working]
      /\ \A q \in Requests : req'[q] = IF q = r THEN new ELSE req[q]
  BY DEF UploadInv, TypeOK
<1>2. TypeOK'
  BY <1>1 DEF UploadInv, TypeOK, Kept
<1>3. BytesRead'
  BY <1>1 DEF UploadInv, BytesRead, StoringPc
<1>4. ASSUME NEW c \in Contents \ raced PROVE Alone(c)'
  <2>1. Alone(c)
    BY DEF UploadInv
  <2>2. \A q \in Requests : q \in Storing(c)' => q \in Storing(c) /\ req'[q] = req[q]
    BY <1>1 DEF Storing, StoringPc
  <2>3. Storing(c)' \subseteq Requests /\ Storing(c)' \subseteq Storing(c)
    BY <2>2 DEF Storing
  <2> QED BY <2>1, <2>2, <2>3 DEF Alone
<1> QED BY <1>2, <1>3, <1>4 DEF UploadInv

(* Moving on to another step of the code. *)
LEMMA Moved ==
  ASSUME TypeOK, NEW r \in Requests, req[r].pc # "idle",
         NEW pc \in {"head", "read", "find", "update", "create", "insert", "drop"}
  PROVE  /\ [req[r] EXCEPT !.pc = pc] \in Working
         /\ [req[r] EXCEPT !.pc = pc].pc = pc
         /\ [req[r] EXCEPT !.pc = pc].bytes = req[r].bytes
BY ReqShape DEF Working

LEMMA IdleStep ==
  ASSUME UploadInv, NEW r \in Requests, req' = [req EXCEPT ![r] = Idle], media' = media,
         raced' = raced, staging' \in [Keys -> {Nothing} \cup Object], Kept
  PROVE  UploadInv'
BY QuietRequest DEF Idle, StoringPc

LEMMA RegisterStep ==
  ASSUME UploadInv, NEW r \in Requests, Register(r)
  PROVE  UploadInv'
<1>1. PICK k \in Keys : req' = [req EXCEPT ![r] = [pc |-> "head", key |-> k, bytes |-> Nothing, n |-> 0]]
  BY DEF Register
<1> DEFINE new == [pc |-> "head", key |-> k, bytes |-> Nothing, n |-> 0]
<1>2. new \in Working /\ new.pc = "head"
  BY DEF Working
<1> HIDE DEF new
<1>3. req' = [req EXCEPT ![r] = new] /\ new.pc \notin StoringPc /\ new.pc \notin {"find", "update"}
  BY <1>1, <1>2 DEF StoringPc, new
<1>4. media' = media /\ raced' = raced /\ staging' \in [Keys -> {Nothing} \cup Object]
      /\ Kept
  BY DEF Register, UploadInv, TypeOK, Kept
<1> QED BY <1>2, <1>3, <1>4, QuietRequest

LEMMA HeadStep ==
  ASSUME UploadInv, NEW r \in Requests, HeadStaging(r)
  PROVE  UploadInv'
<1>1. media' = media /\ raced' = raced /\ staging' \in [Keys -> {Nothing} \cup Object]
      /\ Kept
  BY DEF HeadStaging, UploadInv, TypeOK
<1>2. CASE Answer(r)
  BY <1>1, <1>2, IdleStep DEF Answer
<1>3. ASSUME NEW pc \in {"read", "drop"}, Go(r, pc) PROVE UploadInv'
  <2>1. req' = [req EXCEPT ![r] = [req[r] EXCEPT !.pc = pc]]
    BY <1>3 DEF Go, UploadInv, TypeOK
  <2>2. req[r].pc # "idle"
    BY DEF HeadStaging, At
  <2>3. [req[r] EXCEPT !.pc = pc] \in Working /\ [req[r] EXCEPT !.pc = pc].pc = pc
    <3>1. TypeOK /\ pc \in {"head", "read", "find", "update", "create", "insert", "drop"}
      BY DEF UploadInv
    <3> QED BY <2>2, <3>1, Moved
  <2> QED BY <1>1, <2>1, <2>3, QuietRequest DEF StoringPc
<1> QED BY <1>2, <1>3 DEF HeadStaging

LEMMA ReadStep ==
  ASSUME UploadInv, NEW r \in Requests, Read(r)
  PROVE  UploadInv'
<1> DEFINE o == staging[req[r].key]
<1>1. media' = media /\ raced' = raced /\ staging' \in [Keys -> {Nothing} \cup Object]
      /\ Kept
  BY DEF Read, UploadInv, TypeOK
<1>2. req[r].pc # "idle" /\ req[r] \in Working
  BY ReqShape DEF Read, At, UploadInv
<1>3. CASE Answer(r)
  BY <1>1, <1>3, IdleStep DEF Answer
<1>4. CASE Go(r, "drop")
  <2>1. req' = [req EXCEPT ![r] = [req[r] EXCEPT !.pc = "drop"]]
    BY <1>4 DEF Go, UploadInv, TypeOK
  <2>2. [req[r] EXCEPT !.pc = "drop"] \in Working /\ [req[r] EXCEPT !.pc = "drop"].pc = "drop"
    BY <1>2, Moved DEF UploadInv
  <2> QED BY <1>1, <2>1, <2>2, QuietRequest DEF StoringPc
<1>5. CASE o # Nothing /\ req' = [req EXCEPT ![r].pc = "find", ![r].bytes = o]
  <2>1. o \in Object
    BY <1>2, <1>5 DEF UploadInv, TypeOK, Working
  <2> DEFINE new == [req[r] EXCEPT !.pc = "find", !.bytes = o]
  <2>2. req' = [req EXCEPT ![r] = new]
    BY <1>5 DEF UploadInv, TypeOK
  <2>3. new \in Working /\ new.pc = "find" /\ new.bytes \in Object
    BY <1>2, <2>1 DEF Working
  <2> HIDE DEF new
  <2> QED BY <1>1, <2>2, <2>3, QuietRequest DEF StoringPc
<1> QED BY <1>3, <1>4, <1>5 DEF Read

(* Looking the name up: alone, or noted as a race. *)
LEMMA FindStep ==
  ASSUME UploadInv, NEW r \in Requests, Find(r)
  PROVE  UploadInv'
<1> DEFINE b == req[r].bytes.bytes
<1>1. media' = media /\ staging' = staging /\ Kept
      /\ raced' = IF Storing(b) = {} THEN raced ELSE raced \cup {b}
  BY DEF Find
<1>2. req[r].pc = "find" /\ req[r] \in Working /\ req[r].bytes \in Object /\ b \in Contents
  BY ReqShape DEF Find, At, UploadInv, BytesRead, Object
<1>3. PICK pc \in {"create", "update"} :
        /\ req' = [req EXCEPT ![r] = [req[r] EXCEPT !.pc = pc]]
        /\ pc = "create" => Named(b) = {}
  BY DEF Find, FindByName, Go, UploadInv, TypeOK
<1> DEFINE new == [req[r] EXCEPT !.pc = pc]
<1>4. new \in Working /\ new.pc = pc /\ new.bytes = req[r].bytes
  <2>1. TypeOK /\ req[r].pc # "idle"
    BY <1>2 DEF UploadInv
  <2>2. pc \in {"head", "read", "find", "update", "create", "insert", "drop"}
    OBVIOUS
  <2>. QED BY <2>1, <2>2, Moved
<1>5. req' = [req EXCEPT ![r] = new]
  BY <1>3
<1> HIDE DEF new
<1>6. req' \in [Requests -> {Idle} \cup Working]
      /\ \A q \in Requests : req'[q] = IF q = r THEN new ELSE req[q]
  BY <1>4, <1>5 DEF UploadInv, TypeOK
<1>7. TypeOK'
  BY <1>1, <1>2, <1>6 DEF UploadInv, TypeOK, Kept
<1>8. BytesRead'
  BY <1>2, <1>4, <1>6 DEF UploadInv, BytesRead
<1>9. ASSUME NEW c \in Contents \ raced' PROVE Alone(c)'
  <2>1. c \notin raced /\ Alone(c)
    BY <1>1 DEF UploadInv
  <2>2. CASE c # b \/ pc = "update"
    <3>1. \A q \in Requests : q \in Storing(c)' => q \in Storing(c) /\ req'[q] = req[q]
      BY <1>4, <1>6, <2>2 DEF Storing
    <3>2. Storing(c)' \subseteq Requests /\ Storing(c)' \subseteq Storing(c)
      BY <3>1 DEF Storing
    <3> QED BY <1>1, <2>1, <3>1, <3>2 DEF Alone
  <2>3. CASE c = b /\ pc = "create"
    <3>1. Storing(c) = {}
      BY <1>1, <2>3
    <3>2. \A q \in Requests : q \in Storing(c)' => q = r
      BY <1>6, <3>1 DEF Storing
    <3>3. req'[r].pc = "create"
      BY <1>4, <1>6, <2>3
    <3>4. \A d \in media : d.bytes # c
      BY <1>3, <2>1, <2>3 DEF Alone, Named
    <3>5. Storing(c)' \subseteq Requests
      BY DEF Storing
    <3> QED BY <1>1, <3>2, <3>3, <3>4, <3>5 DEF Alone
  <2> QED BY <2>2, <2>3, <1>3
<1> QED BY <1>7, <1>8, <1>9 DEF UploadInv

LEMMA UpdateStep ==
  ASSUME UploadInv, NEW r \in Requests, Update(r)
  PROVE  UploadInv'
<1> DEFINE new == [req[r] EXCEPT !.pc = "drop"]
<1>1. media' = media /\ raced' = raced /\ staging' \in [Keys -> {Nothing} \cup Object]
      /\ Kept
  BY DEF Update, UploadInv, TypeOK
<1>2. req' = [req EXCEPT ![r] = new]
  BY DEF Update, Go, UploadInv, TypeOK
<1>3. new \in Working /\ new.pc = "drop"
  BY ReqShape DEF Update, At, UploadInv, Working
<1> HIDE DEF new
<1> QED BY <1>1, <1>2, <1>3, QuietRequest DEF StoringPc

(* Bytes nobody has stored get the bare name. *)
LEMMA CreateStep ==
  ASSUME UploadInv, NEW r \in Requests, Create(r)
  PROVE  UploadInv'
<1> DEFINE b == req[r].bytes.bytes
<1>1. media' = media /\ raced' = raced /\ staging' = staging /\ Kept
  BY DEF Create
<1>2. req[r].pc = "create" /\ req[r] \in Working /\ req[r].bytes \in Object /\ b \in Contents
  BY ReqShape DEF Create, At, UploadInv, BytesRead, Object
<1>3. CASE Go(r, "drop")
  <2>1. req' = [req EXCEPT ![r] = [req[r] EXCEPT !.pc = "drop"]]
    BY <1>3 DEF Go, UploadInv, TypeOK
  <2>2. [req[r] EXCEPT !.pc = "drop"] \in Working /\ [req[r] EXCEPT !.pc = "drop"].pc = "drop"
    BY <1>2, Moved DEF UploadInv
  <2>3. staging' \in [Keys -> {Nothing} \cup Object]
    BY <1>1 DEF UploadInv, TypeOK
  <2> QED BY <1>1, <2>1, <2>2, <2>3, QuietRequest DEF StoringPc
<1>4. ASSUME NEW n \in 0..MaxDocs, FreeName(b, n),
             req' = [req EXCEPT ![r].pc = "insert", ![r].n = n]
      PROVE  UploadInv'
  <2> DEFINE new == [req[r] EXCEPT !.pc = "insert", !.n = n]
  <2>1. req' = [req EXCEPT ![r] = new]
    BY <1>4 DEF UploadInv, TypeOK
  <2>2. n \in Nat /\ 0 \in 0..MaxDocs
    BY <1>4, BoundsAssumption
  <2>3. new \in Working /\ new.pc = "insert" /\ new.n = n /\ new.bytes = req[r].bytes
    BY <1>2, <2>2 DEF Working
  <2> HIDE DEF new
  <2>4. req' \in [Requests -> {Idle} \cup Working]
        /\ \A q \in Requests : req'[q] = IF q = r THEN new ELSE req[q]
    BY <2>1, <2>3 DEF UploadInv, TypeOK
  <2>5. TypeOK'
    BY <1>1, <2>4 DEF UploadInv, TypeOK, Kept
  <2>6. BytesRead'
    BY <1>2, <2>3, <2>4 DEF UploadInv, BytesRead
  <2>7. ASSUME NEW c \in Contents \ raced' PROVE Alone(c)'
    <3>1. Alone(c) /\ raced' = raced
      BY <1>1 DEF UploadInv
    <3>2. \A q \in Requests : q \in Storing(c)' <=> q \in Storing(c)
      BY <1>2, <2>3, <2>4 DEF Storing
    <3>3. Storing(c)' = Storing(c) /\ Storing(c) \subseteq Requests
      BY <3>2 DEF Storing
    <3>4. CASE c = b
      <4>1. r \in Storing(c)
        BY <1>2, <3>4 DEF Storing
      <4>2. \A d \in media : d.bytes # c
        BY <3>1, <4>1 DEF Alone
      <4>3. n = 0
        <5>1. [bytes |-> b, n |-> 0] \notin media
          BY <3>4, <4>2
        <5> QED BY <1>4, <2>2, <5>1 DEF FreeName
      <4>4. \A q \in Storing(c)' : q = r
        BY <3>1, <3>3, <4>1 DEF Alone
      <4> QED BY <1>1, <2>3, <2>4, <3>1, <3>3, <4>2, <4>3, <4>4 DEF Alone
    <3>5. CASE c # b
      <4>1. r \notin Storing(c)
        BY <1>2, <3>5 DEF Storing
      <4>2. \A q \in Storing(c)' : req'[q] = req[q]
        BY <2>4, <3>3, <4>1
      <4> QED BY <1>1, <3>1, <3>3, <4>2 DEF Alone
    <3> QED BY <3>4, <3>5
  <2> QED BY <2>5, <2>6, <2>7 DEF UploadInv
<1> QED BY <1>3, <1>4 DEF Create

(* The first to store uncontended bytes is the last. *)
LEMMA InsertStep ==
  ASSUME UploadInv, NEW r \in Requests, Insert(r)
  PROVE  UploadInv'
<1> DEFINE b == req[r].bytes.bytes
           row == [bytes |-> b, n |-> req[r].n]
<1>1. raced' = raced /\ staging' = staging /\ Kept
  BY DEF Insert
<1>2. req[r].pc = "insert" /\ req[r] \in Working /\ req[r].bytes \in Object /\ b \in Contents
  BY ReqShape DEF Insert, At, UploadInv, BytesRead, Object
<1>3. CASE Go(r, "drop") /\ media' = media
  <2>1. req' = [req EXCEPT ![r] = [req[r] EXCEPT !.pc = "drop"]]
    BY <1>3 DEF Go, UploadInv, TypeOK
  <2>2. [req[r] EXCEPT !.pc = "drop"] \in Working /\ [req[r] EXCEPT !.pc = "drop"].pc = "drop"
    BY <1>2, Moved DEF UploadInv
  <2>3. staging' \in [Keys -> {Nothing} \cup Object]
    BY <1>1 DEF UploadInv, TypeOK
  <2> QED BY <1>1, <1>3, <2>1, <2>2, <2>3, QuietRequest DEF StoringPc
<1>4. ASSUME media' = media \cup {row}, Go(r, "drop")
      PROVE  UploadInv'
  <2> DEFINE new == [req[r] EXCEPT !.pc = "drop"]
  <2>1. req' = [req EXCEPT ![r] = new]
    BY <1>4 DEF Go, UploadInv, TypeOK
  <2>2. new \in Working /\ new.pc = "drop"
    BY <1>2 DEF Working
  <2> HIDE DEF new
  <2>3. req' \in [Requests -> {Idle} \cup Working]
        /\ \A q \in Requests : req'[q] = IF q = r THEN new ELSE req[q]
    BY <2>1, <2>2 DEF UploadInv, TypeOK
  <2>4. row \in MediaDoc /\ row.bytes = b /\ row.n = req[r].n
    BY <1>2 DEF MediaDoc, Working
  <2> HIDE DEF row
  <2>5. TypeOK'
    BY <1>1, <1>4, <2>3, <2>4 DEF UploadInv, TypeOK, Kept
  <2>6. BytesRead'
    BY <2>2, <2>3 DEF UploadInv, BytesRead
  <2>7. ASSUME NEW c \in Contents \ raced' PROVE Alone(c)'
    <3>1. Alone(c)
      BY <1>1 DEF UploadInv
    <3>2. \A q \in Requests : q \in Storing(c)' => q \in Storing(c) /\ q # r /\ req'[q] = req[q]
      BY <2>2, <2>3 DEF Storing
    <3>3. Storing(c)' \subseteq Requests /\ Storing(c)' \subseteq Storing(c)
      BY <3>2 DEF Storing
    <3>4. CASE c = b
      <4>1. r \in Storing(c)
        BY <1>2, <3>4 DEF Storing
      <4>2. Storing(c)' = {}
        BY <3>1, <3>2, <3>3, <4>1 DEF Alone
      <4>3. req[r].n = 0
        BY <1>2, <3>1, <4>1 DEF Alone
      <4> QED BY <1>4, <2>4, <3>1, <4>2, <4>3 DEF Alone
    <3>5. CASE c # b
      <4>1. \A d \in media' : d.bytes = c => d \in media
        BY <1>4, <2>4, <3>5
      <4> QED BY <3>1, <3>2, <3>3, <4>1 DEF Alone
    <3> QED BY <3>4, <3>5
  <2> QED BY <2>5, <2>6, <2>7 DEF UploadInv
<1> QED BY <1>3, <1>4 DEF Insert

LEMMA DropStep ==
  ASSUME UploadInv, NEW r \in Requests, Drop(r)
  PROVE  UploadInv'
<1>1. req[r] \in Working
  BY ReqShape DEF Drop, At, UploadInv
<1>2. staging' \in [Keys -> {Nothing} \cup Object]
  BY <1>1 DEF Drop, UploadInv, TypeOK, Working
<1> QED BY <1>2, IdleStep DEF Drop, Answer

LEMMA DieStep ==
  ASSUME UploadInv, NEW r \in Requests, Die(r)
  PROVE  UploadInv'
<1>1. staging' \in [Keys -> {Nothing} \cup Object]
  BY DEF Die, UploadInv, TypeOK
<1> QED BY <1>1, IdleStep DEF Die, Answer

(* The hub and the clock touch neither media nor registers. *)
LEMMA OutsideStep ==
  ASSUME UploadInv, UNCHANGED <<media, req, raced>>, TypeOK'
  PROVE  UploadInv'
<1>1. BytesRead'
  BY DEF UploadInv, BytesRead
<1>2. ASSUME NEW c \in Contents \ raced PROVE Alone(c)'
  BY DEF UploadInv, Alone, Storing
<1> QED BY <1>1, <1>2 DEF UploadInv

LEMMA HubStep ==
  ASSUME UploadInv, NEW k \in Keys, Sign(k) \/ Put(k)
  PROVE  UploadInv'
<1>1. CASE Sign(k)
  <2>1. TypeOK'
    BY <1>1 DEF Sign, UploadInv, TypeOK
  <2> QED BY <1>1, <2>1, OutsideStep DEF Sign
<1>2. CASE Put(k)
  <2>1. PICK c \in Contents : staging' = [staging EXCEPT ![k] = [bytes |-> c]]
    BY <1>2 DEF Put
  <2>2. [bytes |-> c] \in Object
    BY DEF Object
  <2>3. TypeOK'
    BY <1>2, <2>1, <2>2 DEF Put, UploadInv, TypeOK
  <2> QED BY <1>2, <2>3, OutsideStep DEF Put
<1> QED BY <1>1, <1>2

LEMMA TickStep ==
  ASSUME UploadInv, Tick
  PROVE  UploadInv'
<1>1. TypeOK'
  BY DEF Tick, UploadInv, TypeOK
<1> QED BY <1>1, OutsideStep DEF Tick

-----------------------------------------------------------------------------
(* Every step keeps the invariant. *)
LEMMA NextInv == UploadInv /\ [Next]_vars => UploadInv'
<1> SUFFICES ASSUME UploadInv, [Next]_vars PROVE UploadInv'
  OBVIOUS
<1>1. CASE UNCHANGED vars
  <2>1. TypeOK'
    BY <1>1 DEF vars, UploadInv, TypeOK
  <2> QED BY <1>1, <2>1, OutsideStep DEF vars
<1>2. ASSUME NEW k \in Keys, Sign(k) \/ Put(k) PROVE UploadInv'
  BY <1>2, HubStep
<1>3. ASSUME NEW r \in Requests,
             \/ Register(r) \/ HeadStaging(r) \/ Read(r) \/ Find(r) \/ Update(r)
             \/ Create(r) \/ Insert(r) \/ Drop(r) \/ Die(r)
      PROVE  UploadInv'
  BY <1>3, RegisterStep, HeadStep, ReadStep, FindStep, UpdateStep, CreateStep, InsertStep,
     DropStep, DieStep
<1> QED BY <1>1, <1>2, <1>3, TickStep DEF Next

(* Nothing is stored and nobody is at work at first. *)
LEMMA InitInv == Init => UploadInv
<1> SUFFICES ASSUME Init PROVE UploadInv
  OBVIOUS
<1>1. TypeOK
  BY DEF Init, TypeOK
<1>2. BytesRead /\ \A c \in Contents : Alone(c)
  BY DEF Init, BytesRead, Alone, Storing, Idle
<1> QED BY <1>1, <1>2 DEF UploadInv

LEMMA Invariance == Spec => []UploadInv
BY InitInv, NextInv, PTL DEF Spec

(* Every reachable state has its types. *)
THEOREM TypeCorrect == Spec => []TypeOK
<1>1. UploadInv => TypeOK
  BY DEF UploadInv
<1> QED BY <1>1, Invariance, PTL

(* For any number of keys, images and registers, and wherever registers    *)
(* die: an image has one media row, unless two registers raced for it      *)
(* (the lookup of the deterministic name in handleHubMediaRegister).       *)
THEOREM OneRowPerImage == Spec => []TwinsOnlyFromARace
BY AloneIsOne, Invariance, PTL

-----------------------------------------------------------------------------
(* Uploads of editors.                                                     *)

New     == Editors!New
Inserts == {"check", "look", "copy", "delete", "commit"}
Moves   == {"copy", "delete"}

(* WantKey and Candidates, as functions of the upload's record alone. *)
WantOf(x) == [at |-> IF x.at = Root THEN x.tenant ELSE x.at, clean |-> TRUE, n |-> x.n]
OtherThan(k, x) == IF k = WantOf(x) THEN <<>> ELSE <<k>>
FromsOf(x) ==
  OtherThan([at |-> IF x.at = Root THEN x.tenant ELSE x.at, clean |-> x.clean, n |-> 0], x)
    \o OtherThan([at |-> Root, clean |-> x.clean, n |-> 0], x)
    \o OtherThan([at |-> Root, clean |-> TRUE, n |-> x.n], x)
FromOf(x) == FromsOf(x)[x.i]

(* The form's prefix is the tenant's or none; what moves has a source. *)
Formed(x) == x # New =>
  /\ x.at \in {x.tenant, Root} /\ x.i >= 1
  /\ x.pc \in Moves => x.i <= Len(FromsOf(x)) /\ x.saw \in Uploads

(* A row that is inserted has a name of its own, among rows and inserts. *)
NamesInv ==
  /\ \A u, v \in Uploads : u # v /\ up[u].pc \in Inserts /\ up[v].pc \in Inserts =>
       up[u].tenant # up[v].tenant \/ up[u].n # up[v].n
  /\ \A u \in Uploads : up[u].pc \in Inserts =>
       \A row \in rows : row.tenant # up[u].tenant \/ row.n # up[u].n

(* The object of a row, or of an insert that has been checked, is there,   *)
(* or a move has emptied its key.                                          *)
Held(o, emptied, k) == o[k] # NoFile \/ k \in emptied

HeldInv ==
  /\ \A u \in Uploads : up[u].pc \in {"delete", "commit"} => Held(objects, relocated, WantOf(up[u]))
  /\ \A row \in rows : Held(objects, relocated, Editors!KeyOf(row))

(* Moves go up only: from a key that no row has, to the bare name, to a    *)
(* numbered one.                                                           *)
Height(k) == IF k.at = Root \/ ~k.clean THEN 0 ELSE IF k.n = 0 THEN 1 ELSE 2

(* So what a move is about to take away has a copy further up, unless a    *)
(* later file was written over it.                                         *)
Above(o, lost, x) ==
  \/ x.saw \in lost
  \/ x.pc = "copy" /\ o[FromOf(x)] = x.saw
  \/ \E k \in Editors!Key : o[k] = x.saw /\ Height(k) > Height(FromOf(x))

Past(x) == x # New /\ x.pc # "put"
Stands(o, lost, f) == f \in lost \/ \E k \in Editors!Key : o[k] = f

CopiesInv == \A u \in Uploads :
  /\ Past(up[u]) => Stands(objects, overwritten, u)
  /\ up[u].pc \in Moves => Above(objects, overwritten, up[u])

MoveInv ==
  /\ Editors!TypeOK
  /\ \A u \in Uploads : Formed(up[u])
  /\ NamesInv /\ HeldInv /\ CopiesInv

-----------------------------------------------------------------------------
(* Keys. *)

Sane == Editors!RootAssumption /\ Editors!BoundsAssumption

LEMMA Constants ==
  Root \notin Tenants /\ NoFile \notin Uploads /\ MaxNumber \in Nat /\ MaxDeaths \in Nat
  /\ 0 \in 0..MaxNumber
BY EditorsAssumption DEF Editors!RootAssumption, Editors!BoundsAssumption

(* A record past the choice of the file is an upload. *)
LEMMA IsUpload ==
  ASSUME Editors!TypeOK, NEW u \in Uploads, up[u].pc # "new"
  PROVE  up[u] \in Editors!Upload /\ up[u] # New
BY DEF Editors!TypeOK, Editors!New, New

LEMMA NewIsNone == New.pc = "new"
BY DEF New, Editors!New

(* The operators of the module are those of the record. *)
LEMMA OfRecord ==
  ASSUME NEW u \in Uploads
  PROVE  /\ Editors!WantKey(u) = WantOf(up[u])
         /\ Editors!Candidates(u) = FromsOf(up[u])
BY DEF Editors!WantKey, Editors!KeyPrefix, Editors!Candidates, WantOf, FromsOf, OtherThan

LEMMA KeysOfUpload ==
  ASSUME NEW x \in Editors!Upload, x.at \in {x.tenant, Root}
  PROVE  /\ WantOf(x) \in Editors!Key
         /\ WantOf(x) = [at |-> x.tenant, clean |-> TRUE, n |-> x.n]
         /\ FromsOf(x) \in Seq(Editors!Key)
         /\ \A i \in 1..Len(FromsOf(x)) :
              /\ FromsOf(x)[i] \in Editors!Key
              /\ FromsOf(x)[i] # WantOf(x)
              /\ Height(FromsOf(x)[i]) < Height(WantOf(x))
<1>1. /\ x.tenant \in Tenants /\ x.at \in Tenants \cup {Root} /\ x.clean \in BOOLEAN
      /\ x.n \in 0..MaxNumber /\ x.n \in Nat
  BY Constants DEF Editors!Upload
<1>2. WantOf(x) = [at |-> x.tenant, clean |-> TRUE, n |-> x.n] /\ WantOf(x) \in Editors!Key
  BY <1>1, Constants DEF WantOf, Editors!Key
<1> DEFINE Low == {k \in Editors!Key : k # WantOf(x) /\ Height(k) < Height(WantOf(x))}
           a == [at |-> IF x.at = Root THEN x.tenant ELSE x.at, clean |-> x.clean, n |-> 0]
           b == [at |-> Root, clean |-> x.clean, n |-> 0]
           c == [at |-> Root, clean |-> TRUE, n |-> x.n]
<1>3. a = [at |-> x.tenant, clean |-> x.clean, n |-> 0]
  BY <1>1
<1>4. /\ a \in Editors!Key /\ b \in Editors!Key /\ c \in Editors!Key
      /\ Height(b) = 0 /\ Height(c) = 0 /\ Height(WantOf(x)) \in {1, 2}
      /\ b # WantOf(x) /\ c # WantOf(x)
  BY <1>1, <1>2, <1>3, Constants DEF Editors!Key, Height
<1>5. a # WantOf(x) => Height(a) < Height(WantOf(x))
  <2>1. a.at = x.tenant /\ a.clean = x.clean /\ a.n = 0 /\ x.tenant # Root
    BY <1>1, <1>3, Constants
  <2>2. WantOf(x).at = x.tenant /\ WantOf(x).clean = TRUE /\ WantOf(x).n = x.n
    BY <1>2
  <2>3. CASE x.clean = TRUE
    <3>1. a # WantOf(x) => x.n # 0
      BY <1>2, <1>3, <2>3
    <3> HIDE DEF a
    <3>. QED BY <1>1, <2>1, <2>2, <2>3, <3>1 DEF Height
  <2>4. CASE x.clean = FALSE
    <3> HIDE DEF a
    <3>. QED BY <1>1, <2>1, <2>2, <2>4 DEF Height
  <2>. QED BY <1>1, <2>3, <2>4
<1>6. b \in Low /\ c \in Low /\ (a # WantOf(x) => a \in Low)
  BY <1>4, <1>5
<1> HIDE DEF Low, a, b, c
<1>7. OtherThan(a, x) \in Seq(Low) /\ OtherThan(b, x) \in Seq(Low) /\ OtherThan(c, x) \in Seq(Low)
  BY <1>6 DEF OtherThan
<1>8. FromsOf(x) \in Seq(Low)
  <2>1. FromsOf(x) = OtherThan(a, x) \o OtherThan(b, x) \o OtherThan(c, x)
    BY DEF FromsOf, a, b, c
  <2>. QED BY <1>7, <2>1, ConcatProperties
<1>9. \A i \in 1..Len(FromsOf(x)) : FromsOf(x)[i] \in Low
  BY <1>8
<1>10. FromsOf(x) \in Seq(Editors!Key)
  BY <1>8 DEF Low
<1>. QED BY <1>2, <1>9, <1>10 DEF Low

(* What a move takes away, and where it puts it. *)
LEMMA MoveGoesUp ==
  ASSUME MoveInv, NEW u \in Uploads, up[u].pc \in Moves
  PROVE  /\ FromOf(up[u]) \in Editors!Key /\ WantOf(up[u]) \in Editors!Key
         /\ FromOf(up[u]) # WantOf(up[u])
         /\ Height(FromOf(up[u])) < Height(WantOf(up[u]))
         /\ Editors!Candidates(u)[up[u].i] = FromOf(up[u])
         /\ up[u].saw \in Uploads
<1>1. up[u] \in Editors!Upload /\ up[u] # New
  BY IsUpload DEF MoveInv, Moves
<1>2. Formed(up[u])
  BY DEF MoveInv
<1>3. /\ up[u].i \in 1..Len(FromsOf(up[u])) /\ up[u].at \in {up[u].tenant, Root}
      /\ up[u].saw \in Uploads
  <2>1. FromsOf(up[u]) \in Seq(Editors!Key)
    BY <1>1, <1>2, KeysOfUpload DEF Formed
  <2>2. up[u].i \in Nat /\ Len(FromsOf(up[u])) \in Nat
    BY <1>1, <2>1 DEF Editors!Upload
  <2>. QED BY <1>1, <1>2, <2>2 DEF Formed
<1>. QED BY <1>1, <1>3, KeysOfUpload, OfRecord DEF FromOf

(* The keys of two inserts, and of an insert and a row, are different. *)
LEMMA OwnKeys ==
  ASSUME MoveInv, NEW u \in Uploads, up[u].pc \in Inserts
  PROVE  /\ WantOf(up[u]) = [at |-> up[u].tenant, clean |-> TRUE, n |-> up[u].n]
         /\ up[u] \in Editors!Upload
         /\ \A row \in rows : Editors!KeyOf(row) # WantOf(up[u])
<1>1. up[u] \in Editors!Upload /\ up[u] # New /\ Formed(up[u])
  BY IsUpload DEF MoveInv, Inserts
<1>2. WantOf(up[u]) = [at |-> up[u].tenant, clean |-> TRUE, n |-> up[u].n]
  BY <1>1, KeysOfUpload DEF Formed
<1>. QED BY <1>1, <1>2 DEF MoveInv, NamesInv, Editors!KeyOf

LEMMA RowKeys ==
  ASSUME Editors!TypeOK, NEW a \in rows, NEW b \in rows, a # b
  PROVE  Editors!KeyOf(a) # Editors!KeyOf(b) /\ Editors!KeyOf(a) \in Editors!Key
BY DEF Editors!TypeOK, Editors!KeyOf, Editors!Key, Editors!MediaRow

-----------------------------------------------------------------------------
(* Writing to the bucket loses no file unnoticed. *)

LEMMA WriteKeeps ==
  ASSUME Editors!TypeOK, NEW k \in Editors!Key, NEW what \in Uploads \cup {NoFile},
         Editors!Writes(k, what)
  PROVE  /\ objects' \in [Editors!Key -> Uploads \cup {NoFile}]
         /\ objects'[k] = what
         /\ \A j \in Editors!Key : j # k => objects'[j] = objects[j]
         /\ overwritten' \subseteq Uploads /\ overwritten \subseteq overwritten'
         /\ \A f \in Uploads : objects[k] = f => objects'[k] = f \/ f \in overwritten'
<1>1. /\ objects \in [Editors!Key -> Uploads \cup {NoFile}] /\ overwritten \subseteq Uploads
      /\ objects' = [objects EXCEPT ![k] = what]
      /\ overwritten' = IF objects[k] \in {NoFile, what} THEN overwritten
                        ELSE overwritten \cup {objects[k]}
  BY DEF Editors!TypeOK, Editors!Writes
<1>2. /\ objects' \in [Editors!Key -> Uploads \cup {NoFile}]
      /\ objects'[k] = what
      /\ \A j \in Editors!Key : j # k => objects'[j] = objects[j]
  BY <1>1
<1>3. objects[k] \in Uploads \cup {NoFile}
  BY <1>1
<1>4. overwritten' \subseteq Uploads /\ overwritten \subseteq overwritten'
  BY <1>1, <1>3
<1>5. \A f \in Uploads : objects[k] = f => objects'[k] = f \/ f \in overwritten'
  BY <1>1, <1>2, Constants
<1>. QED BY <1>2, <1>4, <1>5

(* What stands, stands after a write, and what is above, too. *)
LEMMA StandsOn ==
  ASSUME Editors!TypeOK, NEW k \in Editors!Key, NEW what \in Uploads \cup {NoFile},
         Editors!Writes(k, what), NEW f \in Uploads, Stands(objects, overwritten, f)
  PROVE  Stands(objects', overwritten', f)
BY WriteKeeps DEF Stands

LEMMA AboveOn ==
  ASSUME Editors!TypeOK, NEW k \in Editors!Key, NEW what \in Uploads \cup {NoFile},
         Editors!Writes(k, what),
         NEW x, x.saw \in Uploads, FromOf(x) \in Editors!Key, Above(objects, overwritten, x)
  PROVE  Above(objects', overwritten', x)
BY WriteKeeps DEF Above

-----------------------------------------------------------------------------
(* A step of one upload.                                                   *)

(* What it has become may be inserted only under a name that is its own. *)
OwnName(u, new) == new.pc \in Inserts =>
  \/ up[u].pc \in Inserts /\ new.tenant = up[u].tenant /\ new.n = up[u].n
  \/ /\ \A v \in Uploads \ {u} : up[v].pc \in Inserts =>
          up[v].tenant # new.tenant \/ up[v].n # new.n
     /\ \A row \in rows : row.tenant # new.tenant \/ row.n # new.n

Proper(u, new) ==
  /\ up' = [up EXCEPT ![u] = new]
  /\ new \in Editors!Upload /\ Formed(new) /\ OwnName(u, new)

(* The bucket stays in its types, empties no key, and loses no file. *)
BucketStands ==
  /\ objects' \in [Editors!Key -> Uploads \cup {NoFile}]
  /\ overwritten' \subseteq Uploads /\ relocated' \subseteq Editors!Key
  /\ \A k \in Editors!Key : Held(objects, relocated, k) => Held(objects', relocated', k)
  /\ \A f \in Uploads : Stands(objects, overwritten, f) => Stands(objects', overwritten', f)

LEMMA KeysAreKeys ==
  ASSUME MoveInv
  PROVE  /\ \A u \in Uploads : up[u].pc \in Inserts => WantOf(up[u]) \in Editors!Key
         /\ \A row \in rows : Editors!KeyOf(row) \in Editors!Key
<1>1. ASSUME NEW u \in Uploads, up[u].pc \in Inserts PROVE WantOf(up[u]) \in Editors!Key
  <2>1. up[u] \in Editors!Upload /\ up[u] # New /\ Formed(up[u])
    BY <1>1, IsUpload DEF MoveInv, Inserts
  <2>. QED BY <2>1, KeysOfUpload DEF Formed
<1>2. \A row \in rows : Editors!KeyOf(row) \in Editors!Key
  BY DEF MoveInv, Editors!TypeOK, Editors!KeyOf, Editors!Key, Editors!MediaRow
<1>. QED BY <1>1, <1>2

LEMMA OneStep ==
  ASSUME MoveInv, NEW u \in Uploads, NEW new, Proper(u, new), BucketStands,
         rows' = rows, deaths' \in 0..MaxDeaths,
         new.pc \in {"delete", "commit"} => Held(objects', relocated', WantOf(new)),
         Past(new) => Stands(objects', overwritten', u),
         new.pc \in Moves => Above(objects', overwritten', new),
         \A v \in Uploads \ {u} : up[v].pc \in Moves => Above(objects', overwritten', up[v])
  PROVE  MoveInv'
<1>1. up'[u] = new /\ \A v \in Uploads : v # u => up'[v] = up[v]
  BY DEF MoveInv, Editors!TypeOK, Proper
<1>2. Editors!TypeOK'
  <2>1. up' \in [Uploads -> {New} \cup Editors!Upload]
    BY DEF MoveInv, Editors!TypeOK, Proper, New
  <2>. QED BY <2>1 DEF MoveInv, Editors!TypeOK, BucketStands, New
<1>3. \A v \in Uploads : Formed(up'[v])
  BY <1>1 DEF MoveInv, Proper
<1>4. NamesInv'
  <2>1. \A v \in Uploads \ {u} : up'[u].pc \in Inserts /\ up'[v].pc \in Inserts =>
          up'[u].tenant # up'[v].tenant \/ up'[u].n # up'[v].n
    BY <1>1 DEF MoveInv, NamesInv, Proper, OwnName
  <2>2. \A v, w \in Uploads \ {u} : v # w /\ up'[w].pc \in Inserts /\ up'[v].pc \in Inserts =>
          up'[w].tenant # up'[v].tenant \/ up'[w].n # up'[v].n
    BY <1>1 DEF MoveInv, NamesInv
  <2>3. up'[u].pc \in Inserts => \A row \in rows : row.tenant # up'[u].tenant \/ row.n # up'[u].n
    BY <1>1 DEF MoveInv, NamesInv, Proper, OwnName
  <2>4. \A v \in Uploads \ {u} : up'[v].pc \in Inserts =>
          \A row \in rows : row.tenant # up'[v].tenant \/ row.n # up'[v].n
    BY <1>1 DEF MoveInv, NamesInv
  <2>. QED BY <2>1, <2>2, <2>3, <2>4 DEF NamesInv
<1>5. HeldInv'
  <2>1. \A v \in Uploads \ {u} : up'[v].pc \in {"delete", "commit"} =>
          Held(objects', relocated', WantOf(up'[v]))
    BY <1>1, KeysAreKeys DEF MoveInv, HeldInv, BucketStands, Inserts
  <2>2. \A row \in rows : Held(objects', relocated', Editors!KeyOf(row))
    BY KeysAreKeys DEF MoveInv, HeldInv, BucketStands
  <2>. QED BY <1>1, <2>1, <2>2 DEF HeldInv
<1>6. CopiesInv'
  <2>1. \A v \in Uploads \ {u} : Past(up'[v]) => Stands(objects', overwritten', v)
    BY <1>1 DEF MoveInv, CopiesInv, BucketStands
  <2>2. \A v \in Uploads \ {u} : up'[v].pc \in Moves => Above(objects', overwritten', up'[v])
    BY <1>1
  <2>. QED BY <1>1, <2>1, <2>2 DEF CopiesInv
<1>. QED BY <1>2, <1>3, <1>4, <1>5, <1>6 DEF MoveInv

(* A step that leaves the bucket alone. *)
LEMMA QuietStep ==
  ASSUME MoveInv, NEW u \in Uploads, NEW new, Proper(u, new),
         UNCHANGED <<objects, rows, overwritten, relocated>>, deaths' \in 0..MaxDeaths,
         new.pc \in {"delete", "commit"} => Held(objects, relocated, WantOf(new)),
         Past(new) => Past(up[u]) \/ Stands(objects, overwritten, u),
         new.pc \in Moves => Above(objects, overwritten, new)
  PROVE  MoveInv'
<1>1. BucketStands
  BY DEF MoveInv, Editors!TypeOK, BucketStands
<1>2. \A v \in Uploads \ {u} : up[v].pc \in Moves => Above(objects, overwritten, up[v])
  BY DEF MoveInv, CopiesInv
<1>3. Past(new) => Stands(objects, overwritten, u)
  BY DEF MoveInv, CopiesInv
<1>. QED BY <1>1, <1>2, <1>3, OneStep

(* A step to another phase keeps the upload as it is otherwise. *)
LEMMA PhaseStep ==
  ASSUME MoveInv, NEW u \in Uploads, up[u].pc # "new", NEW pc \in Editors!Phases \ Moves
  PROVE  LET new == [up[u] EXCEPT !.pc = pc] IN
         /\ Editors!Goes(u, pc) => up' = [up EXCEPT ![u] = new]
         /\ new \in Editors!Upload /\ Formed(new) /\ up[u] \in Editors!Upload
         /\ new.pc = pc /\ new.tenant = up[u].tenant /\ new.n = up[u].n
         /\ WantOf(new) = WantOf(up[u])
<1> DEFINE new == [up[u] EXCEPT !.pc = pc]
<1>1. up[u] \in Editors!Upload /\ up[u] # New /\ Formed(up[u])
  BY IsUpload DEF MoveInv
<1>2. /\ new \in Editors!Upload /\ new.pc = pc /\ new.tenant = up[u].tenant /\ new.n = up[u].n
      /\ new.at = up[u].at /\ new.i = up[u].i
  BY <1>1 DEF Editors!Upload
<1>3. Formed(new)
  BY <1>1, <1>2 DEF Formed
<1>4. WantOf(new) = WantOf(up[u])
  BY <1>2 DEF WantOf
<1>5. Editors!Goes(u, pc) => up' = [up EXCEPT ![u] = new]
  BY DEF Editors!Goes
<1>. QED BY <1>1, <1>2, <1>3, <1>4, <1>5

-----------------------------------------------------------------------------
(* The steps before the object is moved. *)

LEMMA ChooseKeeps ==
  ASSUME MoveInv, NEW u \in Uploads, Editors!Choose(u)
  PROVE  MoveInv'
<1>1. PICK t \in Tenants, clean \in BOOLEAN, at \in Tenants \cup {Root} :
        /\ at \in {t, Root}
        /\ up' = [up EXCEPT ![u] = [tenant |-> t, at |-> at, clean |-> clean,
                                    pc |-> "put", n |-> 0, i |-> 1, saw |-> NoFile]]
  BY DEF Editors!Choose
<1> DEFINE new == [tenant |-> t, at |-> at, clean |-> clean,
                   pc |-> "put", n |-> 0, i |-> 1, saw |-> NoFile]
<1>2. new \in Editors!Upload /\ new.pc = "put" /\ new.at \in {new.tenant, Root} /\ new.i = 1
  BY <1>1, Constants DEF Editors!Upload, Editors!Phases
<1>3. UNCHANGED <<objects, rows, deaths, overwritten, relocated>>
  BY DEF Editors!Choose, Editors!Same
<1>4. up' = [up EXCEPT ![u] = new]
  BY <1>1
<1> HIDE DEF new
<1>5. Proper(u, new) /\ ~Past(new) /\ new.pc \notin Moves
  BY <1>2, <1>4 DEF Proper, Formed, OwnName, Inserts, Moves, Past
<1>6. deaths' \in 0..MaxDeaths
  BY <1>3 DEF MoveInv, Editors!TypeOK
<1>. QED BY <1>2, <1>3, <1>5, <1>6, QuietStep

(* A write that puts a file into the bucket. *)
LEMMA WriteStands ==
  ASSUME MoveInv, NEW k \in Editors!Key, NEW what \in Uploads, Editors!Writes(k, what),
         relocated' = relocated
  PROVE  /\ BucketStands
         /\ \A v \in Uploads : up[v].pc \in Moves => Above(objects', overwritten', up[v])
<1>1. Editors!TypeOK /\ what \in Uploads \cup {NoFile}
  BY DEF MoveInv
<1>2. /\ objects' \in [Editors!Key -> Uploads \cup {NoFile}]
      /\ overwritten' \subseteq Uploads /\ overwritten \subseteq overwritten'
      /\ objects'[k] = what
      /\ \A j \in Editors!Key : j # k => objects'[j] = objects[j]
  BY <1>1, WriteKeeps
<1>3. \A j \in Editors!Key : Held(objects, relocated, j) => Held(objects', relocated', j)
  BY <1>2, Constants DEF Held
<1>4. \A f \in Uploads : Stands(objects, overwritten, f) => Stands(objects', overwritten', f)
  BY <1>1, StandsOn
<1>5. relocated' \subseteq Editors!Key
  BY <1>1 DEF Editors!TypeOK
<1>6. ASSUME NEW v \in Uploads, up[v].pc \in Moves
      PROVE  Above(objects', overwritten', up[v])
  BY <1>1, <1>6, MoveGoesUp, AboveOn DEF MoveInv, CopiesInv
<1>. QED BY <1>2, <1>3, <1>4, <1>5, <1>6 DEF BucketStands

LEMMA PutKeeps ==
  ASSUME MoveInv, NEW u \in Uploads, Editors!Put(u)
  PROVE  MoveInv'
<1> DEFINE new == [up[u] EXCEPT !.pc = "name"]
           k   == Editors!SignedKey(u)
<1>1. up[u].pc = "put" /\ "name" \in Editors!Phases \ Moves
  BY DEF Editors!Put, Editors!At, Editors!Phases, Moves
<1>2. /\ up' = [up EXCEPT ![u] = new] /\ new \in Editors!Upload /\ Formed(new)
      /\ new.pc = "name" /\ up[u] \in Editors!Upload
  BY <1>1, PhaseStep DEF Editors!Put
<1>3. k \in Editors!Key
  BY <1>2, Constants DEF Editors!SignedKey, Editors!Key, Editors!Upload
<1>4. Editors!Writes(k, u) /\ UNCHANGED <<rows, deaths, relocated>>
  BY DEF Editors!Put
<1> HIDE DEF new, k
<1>5. Proper(u, new) /\ new.pc \notin Moves
  BY <1>2 DEF Proper, OwnName, Inserts, Moves
<1>6. objects'[k] = u
  BY <1>3, <1>4, WriteKeeps DEF MoveInv
<1>7. /\ BucketStands
      /\ \A v \in Uploads : up[v].pc \in Moves => Above(objects', overwritten', up[v])
  BY <1>3, <1>4, WriteStands
<1>8. Stands(objects', overwritten', u)
  BY <1>3, <1>6 DEF Stands
<1>9. deaths' \in 0..MaxDeaths
  BY <1>4 DEF MoveInv, Editors!TypeOK
<1>. QED BY <1>2, <1>4, <1>5, <1>7, <1>8, <1>9, OneStep

LEMMA NameKeeps ==
  ASSUME MoveInv, NEW u \in Uploads, Editors!Name(u)
  PROVE  MoveInv'
<1>1. /\ up[u].pc = "name" /\ UNCHANGED <<objects, rows, overwritten, relocated>>
      /\ deaths' \in 0..MaxDeaths
  BY DEF Editors!Name, Editors!At, Editors!Same, MoveInv, Editors!TypeOK
<1>2. Past(up[u]) /\ up[u] \in Editors!Upload /\ Formed(up[u])
  BY <1>1, IsUpload DEF Past, MoveInv
<1>3. CASE Editors!Goes(u, "failed")
  <2>1. "failed" \in Editors!Phases \ Moves
    BY DEF Editors!Phases, Moves
  <2>. QED BY <1>1, <1>2, <1>3, <2>1, PhaseStep, QuietStep DEF Proper, OwnName, Inserts, Moves
<1>4. ASSUME NEW n \in 0..MaxNumber, up' = [up EXCEPT ![u].pc = "insert", ![u].n = n]
      PROVE  MoveInv'
  <2> DEFINE new == [up[u] EXCEPT !.pc = "insert", !.n = n]
  <2>1. up' = [up EXCEPT ![u] = new]
    BY <1>4
  <2>2. /\ new \in Editors!Upload /\ new.pc = "insert" /\ new.at = up[u].at
        /\ new.tenant = up[u].tenant /\ new.i = up[u].i
    BY <1>2, <1>4 DEF Editors!Upload, Editors!Phases
  <2> HIDE DEF new
  <2>3. Proper(u, new) /\ new.pc \notin Moves
    BY <1>2, <2>1, <2>2, NewIsNone DEF Proper, Formed, OwnName, Inserts, Moves, Past
  <2>. QED BY <1>1, <1>2, <2>2, <2>3, QuietStep
<1>. QED BY <1>3, <1>4 DEF Editors!Name

LEMMA InsertKeeps ==
  ASSUME MoveInv, NEW u \in Uploads, Editors!Insert(u)
  PROVE  MoveInv'
<1>1. /\ up[u].pc = "insert" /\ UNCHANGED <<objects, rows, overwritten, relocated>>
      /\ deaths' \in 0..MaxDeaths
  BY DEF Editors!Insert, Editors!At, Editors!Same, MoveInv, Editors!TypeOK
<1>2. Past(up[u]) /\ {"failed", "check"} \subseteq Editors!Phases \ Moves
  BY <1>1, NewIsNone DEF Past, Editors!Phases, Moves
<1>3. CASE Editors!Goes(u, "failed")
  BY <1>1, <1>2, <1>3, PhaseStep, QuietStep DEF Proper, OwnName, Inserts, Moves
<1>4. CASE ~Editors!Refused(u) /\ Editors!Goes(u, "check")
  <2> DEFINE new == [up[u] EXCEPT !.pc = "check"]
  <2>1. /\ up' = [up EXCEPT ![u] = new] /\ new \in Editors!Upload /\ Formed(new)
        /\ new.pc = "check" /\ new.tenant = up[u].tenant /\ new.n = up[u].n
    BY <1>1, <1>2, <1>4, PhaseStep
  <2> HIDE DEF new
  <2>2. \A row \in rows : row.tenant # new.tenant \/ row.n # new.n
    BY <1>4, <2>1 DEF Editors!Refused, Editors!Taken
  <2>3. \A v \in Uploads \ {u} : up[v].pc \in Inserts => up[v].tenant # new.tenant \/ up[v].n # new.n
    BY <2>1 DEF Editors!Insert, Editors!Inserted, Inserts
  <2>4. Proper(u, new)
    BY <2>1, <2>2, <2>3 DEF Proper, OwnName
  <2>. QED BY <1>1, <1>2, <2>1, <2>4, QuietStep DEF Moves
<1>. QED BY <1>3, <1>4 DEF Editors!Insert

LEMMA CheckKeeps ==
  ASSUME MoveInv, NEW u \in Uploads, Editors!Check(u)
  PROVE  MoveInv'
<1>1. /\ up[u].pc = "check" /\ UNCHANGED <<objects, rows, overwritten, relocated>>
      /\ deaths' \in 0..MaxDeaths
  BY DEF Editors!Check, Editors!At, Editors!Same, MoveInv, Editors!TypeOK
<1>2. Past(up[u]) /\ {"look", "commit"} \subseteq Editors!Phases \ Moves
  BY <1>1, NewIsNone DEF Past, Editors!Phases, Moves
<1>3. CASE Editors!Goes(u, "look")
  BY <1>1, <1>2, <1>3, PhaseStep, QuietStep DEF Proper, OwnName, Inserts, Moves
<1>4. CASE objects[Editors!WantKey(u)] # NoFile /\ Editors!Goes(u, "commit")
  <2>1. Held(objects, relocated, WantOf(up[u]))
    BY <1>4, OfRecord DEF Held
  <2>. QED BY <1>1, <1>2, <1>4, <2>1, PhaseStep, QuietStep DEF Proper, OwnName, Inserts, Moves
<1>. QED BY <1>3, <1>4 DEF Editors!Check

(* Dying, at any step between insert and commit, only ends the upload. *)
LEMMA DiesKeeps ==
  ASSUME MoveInv, NEW u \in Uploads, Editors!Dies(u)
  PROVE  MoveInv'
<1>1. /\ up[u].pc \in Inserts /\ UNCHANGED <<objects, rows, overwritten, relocated>>
      /\ Editors!Goes(u, "failed")
  BY DEF Editors!Dies, Editors!Inserted, Inserts
<1>2. deaths' \in 0..MaxDeaths
  BY Constants DEF Editors!Dies, MoveInv, Editors!TypeOK
<1>3. Past(up[u]) /\ "failed" \in Editors!Phases \ Moves /\ up[u].pc # "new"
  BY <1>1, NewIsNone DEF Past, Editors!Phases, Moves, Inserts
<1>. QED BY <1>1, <1>2, <1>3, PhaseStep, QuietStep DEF Proper, OwnName, Inserts, Moves

-----------------------------------------------------------------------------
(* The move.                                                               *)

(* While it looks, the candidates and the number of the next one stand.    *)
LEMMA LookKeeps ==
  ASSUME MoveInv, NEW u \in Uploads, Editors!Look(u)
  PROVE  MoveInv'
<1>1. /\ up[u].pc = "look" /\ UNCHANGED <<objects, rows, overwritten, relocated>>
      /\ deaths' \in 0..MaxDeaths
  BY DEF Editors!Look, Editors!At, Editors!Same, MoveInv, Editors!TypeOK
<1>2. /\ Past(up[u]) /\ up[u] \in Editors!Upload /\ Formed(up[u]) /\ up[u] # New
      /\ "failed" \in Editors!Phases \ Moves
  BY <1>1, IsUpload, NewIsNone DEF Past, MoveInv, Editors!Phases, Moves
<1>3. /\ up[u].at \in {up[u].tenant, Root} /\ up[u].i \in Nat /\ up[u].i >= 1
      /\ FromsOf(up[u]) \in Seq(Editors!Key) /\ Len(FromsOf(up[u])) \in Nat
      /\ Editors!Candidates(u) = FromsOf(up[u])
  <2>1. FromsOf(up[u]) \in Seq(Editors!Key)
    BY <1>2, KeysOfUpload DEF Formed
  <2>2. Len(FromsOf(up[u])) \in Nat
    BY <2>1
  <2>. QED BY <1>2, <2>1, <2>2, OfRecord DEF Formed, Editors!Upload
<1>4. CASE Editors!Goes(u, "failed")
  BY <1>1, <1>2, <1>4, PhaseStep, QuietStep DEF Proper, OwnName, Inserts, Moves
<1>5. CASE up[u].i <= Len(FromsOf(up[u]))
  <2> DEFINE there == objects[FromsOf(up[u])[up[u].i]]
  <2>1. FromsOf(up[u])[up[u].i] \in Editors!Key /\ there \in Uploads \cup {NoFile}
    BY <1>3, <1>5 DEF MoveInv, Editors!TypeOK
  <2>2. up' = IF there # NoFile THEN [up EXCEPT ![u].pc = "copy", ![u].saw = there]
              ELSE [up EXCEPT ![u].i = @ + 1]
    BY <1>3, <1>5 DEF Editors!Look
  <2>3. CASE there # NoFile
    <3> DEFINE new == [up[u] EXCEPT !.pc = "copy", !.saw = there]
    <3>1. up' = [up EXCEPT ![u] = new]
      BY <2>2, <2>3
    <3>2. /\ new \in Editors!Upload /\ new.pc = "copy" /\ new.saw = there /\ new.i = up[u].i
          /\ new.tenant = up[u].tenant /\ new.n = up[u].n /\ new.at = up[u].at
          /\ new.clean = up[u].clean
      BY <1>2, <2>1 DEF Editors!Upload, Editors!Phases
    <3> HIDE DEF new
    <3>3. FromsOf(new) = FromsOf(up[u])
      BY <3>2 DEF FromsOf, OtherThan, WantOf
    <3> HIDE DEF there
    <3>4. Formed(new)
      BY <1>3, <1>5, <2>1, <2>3, <3>2, <3>3 DEF Formed
    <3>5. Proper(u, new)
      BY <1>1, <3>1, <3>2, <3>4 DEF Proper, OwnName, Inserts
    <3>6. Above(objects, overwritten, new)
      BY <3>2, <3>3 DEF Above, FromOf, there
    <3>. QED BY <1>1, <1>2, <3>2, <3>5, <3>6, QuietStep
  <2>4. CASE there = NoFile
    <3> DEFINE new == [up[u] EXCEPT !.i = up[u].i + 1]
    <3>1. up' = [up EXCEPT ![u] = new]
      BY <2>2, <2>4
    <3>2. /\ new \in Editors!Upload /\ new.pc = "look" /\ new.i = up[u].i + 1
          /\ new.tenant = up[u].tenant /\ new.n = up[u].n /\ new.at = up[u].at
      BY <1>1, <1>2 DEF Editors!Upload
    <3> HIDE DEF new
    <3>3. Proper(u, new) /\ new.pc \notin Moves
      BY <1>1, <1>3, <3>1, <3>2 DEF Proper, Formed, OwnName, Inserts, Moves
    <3>. QED BY <1>1, <1>2, <3>2, <3>3, QuietStep
  <2>. QED BY <2>3, <2>4
<1>6. CASE up[u].i > Len(FromsOf(up[u]))
  BY <1>3, <1>4, <1>6 DEF Editors!Look, Editors!Miss
<1>. QED BY <1>3, <1>5, <1>6

(* What a mover becomes keeps its source and its goal. *)
LEMMA MoverOn ==
  ASSUME MoveInv, NEW u \in Uploads, up[u].pc \in Moves, NEW pc \in {"delete", "commit", "failed"}
  PROVE  LET new == [up[u] EXCEPT !.pc = pc] IN
         /\ Editors!Goes(u, pc) => Proper(u, new)
         /\ new.pc = pc /\ new.saw = up[u].saw
         /\ WantOf(new) = WantOf(up[u]) /\ FromOf(new) = FromOf(up[u])
<1> DEFINE new == [up[u] EXCEPT !.pc = pc]
<1>1. up[u] \in Editors!Upload /\ up[u] # New /\ Formed(up[u])
  BY IsUpload DEF MoveInv, Moves
<1>2. /\ new \in Editors!Upload /\ new.pc = pc /\ new.tenant = up[u].tenant /\ new.n = up[u].n
      /\ new.at = up[u].at /\ new.i = up[u].i /\ new.clean = up[u].clean /\ new.saw = up[u].saw
  BY <1>1 DEF Editors!Upload, Editors!Phases
<1>3. up' = [up EXCEPT ![u] = new] <=> Editors!Goes(u, pc)
  BY DEF Editors!Goes
<1> HIDE DEF new
<1>4. WantOf(new) = WantOf(up[u]) /\ FromsOf(new) = FromsOf(up[u])
  BY <1>2 DEF WantOf, FromsOf, OtherThan
<1>5. Formed(new)
  BY <1>1, <1>2, <1>4 DEF Formed
<1>6. OwnName(u, new)
  BY <1>2 DEF OwnName, Inserts, Moves
<1>7. Editors!Goes(u, pc) => Proper(u, new)
  BY <1>2, <1>3, <1>5, <1>6 DEF Proper
<1>8. FromOf(new) = FromOf(up[u])
  BY <1>2, <1>4 DEF FromOf
<1>. QED BY <1>2, <1>4, <1>7, <1>8 DEF new

(* The copy: what the mover saw is now at its goal, or had gone further up *)
(* before, or is lost to a later file.                                     *)
LEMMA CopyKeeps ==
  ASSUME MoveInv, NEW u \in Uploads, Editors!Copy(u)
  PROVE  MoveInv'
<1> DEFINE from == FromOf(up[u])
           want == WantOf(up[u])
<1>1. /\ up[u].pc = "copy" /\ up[u].pc \in Moves /\ UNCHANGED <<rows, relocated>>
      /\ deaths' \in 0..MaxDeaths /\ Past(up[u])
  BY NewIsNone DEF Editors!Copy, Editors!At, MoveInv, Editors!TypeOK, Moves, Past
<1>2. /\ from \in Editors!Key /\ want \in Editors!Key
      /\ Height(from) < Height(want)
      /\ Editors!Candidates(u)[up[u].i] = from /\ Editors!WantKey(u) = want
      /\ up[u].saw \in Uploads
  BY <1>1, MoveGoesUp, OfRecord
<1> HIDE DEF from, want
<1>3. CASE Editors!Goes(u, "failed") /\ UNCHANGED <<objects, overwritten>>
  <2> DEFINE new == [up[u] EXCEPT !.pc = "failed"]
  <2>1. Proper(u, new) /\ new.pc = "failed"
    BY <1>1, <1>3, MoverOn
  <2> HIDE DEF new
  <2>. QED BY <1>1, <1>3, <2>1, QuietStep DEF Moves
<1>4. CASE /\ objects[from] # NoFile /\ Editors!Writes(want, objects[from])
           /\ Editors!Goes(u, "delete")
  <2> DEFINE new == [up[u] EXCEPT !.pc = "delete"]
             there == objects[from]
  <2>1. /\ Proper(u, new) /\ new.pc = "delete" /\ new.saw = up[u].saw
        /\ WantOf(new) = want /\ FromOf(new) = from
    BY <1>1, <1>4, MoverOn DEF from, want
  <2>2. there \in Uploads /\ Editors!Writes(want, there)
    BY <1>2, <1>4 DEF MoveInv, Editors!TypeOK
  <2> HIDE DEF new, there
  <2>3. /\ BucketStands
        /\ \A v \in Uploads : up[v].pc \in Moves => Above(objects', overwritten', up[v])
    BY <1>1, <1>2, <2>2, WriteStands
  <2>4. objects'[want] = there /\ want \in Editors!Key /\ there # NoFile
    BY <1>2, <2>2, Constants, WriteKeeps DEF MoveInv
  <2>5. Held(objects', relocated', WantOf(new))
    BY <2>1, <2>4 DEF Held
  <2>6. Above(objects', overwritten', new)
    <3>1. CASE there = new.saw
      BY <1>2, <2>1, <2>4, <3>1 DEF Above
    <3>2. CASE there # new.saw
      <4>1. \/ up[u].saw \in overwritten
            \/ \E k \in Editors!Key : objects[k] = up[u].saw /\ Height(k) > Height(from)
        BY <1>1, <2>1, <3>2 DEF MoveInv, CopiesInv, Above, there, from
      <4>2. overwritten \subseteq overwritten'
        BY <1>2, <2>2, WriteKeeps DEF MoveInv
      <4>3. ASSUME NEW k \in Editors!Key, objects[k] = up[u].saw
            PROVE  objects'[k] = up[u].saw \/ up[u].saw \in overwritten'
        BY <1>2, <2>2, <4>3, WriteKeeps DEF MoveInv
      <4>. QED BY <2>1, <4>1, <4>2, <4>3 DEF Above
    <3>. QED BY <3>1, <3>2
  <2>7. Stands(objects', overwritten', u)
    BY <1>1, <2>3 DEF MoveInv, CopiesInv, BucketStands
  <2>. QED BY <1>1, <2>1, <2>3, <2>5, <2>6, <2>7, OneStep
<1>. QED BY <1>2, <1>3, <1>4 DEF Editors!Copy, Editors!CopyError

(* The delete takes nothing away that is not further up or overwritten.    *)
LEMMA DeleteKeeps ==
  ASSUME MoveInv, NEW u \in Uploads, Editors!Delete(u)
  PROVE  MoveInv'
<1> DEFINE from == FromOf(up[u])
           want == WantOf(up[u])
           new  == [up[u] EXCEPT !.pc = "commit"]
           gone == objects[from]
<1>1. /\ up[u].pc = "delete" /\ up[u].pc \in Moves /\ UNCHANGED rows
      /\ deaths' \in 0..MaxDeaths /\ Past(up[u])
  BY NewIsNone DEF Editors!Delete, Editors!At, MoveInv, Editors!TypeOK, Moves, Past
<1>2. /\ from \in Editors!Key /\ want \in Editors!Key /\ from # want
      /\ Editors!Candidates(u)[up[u].i] = from
      /\ up[u].saw \in Uploads /\ gone \in Uploads \cup {NoFile}
  BY <1>1, MoveGoesUp, OfRecord DEF MoveInv, Editors!TypeOK
<1>3. /\ Proper(u, new) /\ new.pc = "commit" /\ WantOf(new) = want
  <2>1. Editors!Goes(u, "commit")
    BY DEF Editors!Delete
  <2>. QED BY <1>1, <2>1, MoverOn
<1> HIDE DEF from, want, new, gone
<1>4. /\ objects' = [objects EXCEPT ![from] = NoFile]
      /\ relocated' = relocated \cup {from}
      /\ overwritten' = overwritten \cup ({gone} \ {NoFile, up[u].saw})
  BY <1>2 DEF Editors!Delete, gone
<1>5. /\ objects' \in [Editors!Key -> Uploads \cup {NoFile}]
      /\ objects'[from] = NoFile
      /\ \A k \in Editors!Key : k # from => objects'[k] = objects[k]
      /\ overwritten' \subseteq Uploads /\ overwritten \subseteq overwritten'
      /\ relocated' \subseteq Editors!Key
  BY <1>2, <1>4 DEF MoveInv, Editors!TypeOK
<1>6. \A k \in Editors!Key : Held(objects, relocated, k) => Held(objects', relocated', k)
  BY <1>4, <1>5 DEF Held
(* What lay under the source is overwritten, or above it once more. *)
<1>7. ASSUME NEW f \in Uploads, gone = f
      PROVE  \/ f \in overwritten'
             \/ \E k \in Editors!Key : objects'[k] = f /\ Height(k) > Height(from)
  <2>1. CASE f # up[u].saw
    BY <1>4, <1>7, <2>1, Constants
  <2>2. CASE f = up[u].saw
    <3>1. Above(objects, overwritten, up[u])
      BY <1>1 DEF MoveInv, CopiesInv
    <3>2. \/ f \in overwritten
          \/ \E k \in Editors!Key : objects[k] = f /\ Height(k) > Height(from)
      BY <1>1, <2>2, <3>1 DEF Above, from
    <3>3. \A k \in Editors!Key : Height(k) > Height(from) => k # from
      BY DEF Height
    <3>. QED BY <1>5, <3>2, <3>3
  <2>. QED BY <2>1, <2>2
<1>8. ASSUME NEW f \in Uploads, Stands(objects, overwritten, f)
      PROVE  Stands(objects', overwritten', f)
  <2>1. CASE gone = f
    BY <1>7, <2>1 DEF Stands
  <2>2. CASE gone # f
    BY <1>5, <1>8, <2>2 DEF Stands, gone
  <2>. QED BY <2>1, <2>2
<1>9. ASSUME NEW v \in Uploads \ {u}, up[v].pc \in Moves
      PROVE  Above(objects', overwritten', up[v])
  <2> DEFINE f == up[v].saw
             low == FromOf(up[v])
  <2>1. Above(objects, overwritten, up[v]) /\ f \in Uploads /\ low \in Editors!Key
    BY <1>9, MoveGoesUp DEF MoveInv, CopiesInv
  <2>2. CASE f \in overwritten
    BY <1>5, <2>2 DEF Above
  <2>3. CASE up[v].pc = "copy" /\ objects[low] = f
    <3>1. CASE low # from
      BY <1>5, <2>1, <2>3, <3>1 DEF Above
    <3>2. CASE low = from
      BY <1>7, <2>1, <2>3, <3>2 DEF Above, gone
    <3>. QED BY <3>1, <3>2
  <2>4. ASSUME NEW k \in Editors!Key, objects[k] = f, Height(k) > Height(low)
        PROVE  Above(objects', overwritten', up[v])
    <3>1. CASE k # from
      BY <1>5, <2>4, <3>1 DEF Above
    <3>2. CASE k = from
      <4>1. \/ f \in overwritten'
            \/ \E j \in Editors!Key : objects'[j] = f /\ Height(j) > Height(from)
        BY <1>7, <2>1, <2>4, <3>2 DEF gone
      <4>2. \A j \in Editors!Key : Height(j) \in Nat
        BY DEF Height
      <4>. QED BY <1>2, <2>1, <2>4, <3>2, <4>1, <4>2 DEF Above
    <3>. QED BY <3>1, <3>2
  <2>. QED BY <2>1, <2>2, <2>3, <2>4 DEF Above
<1>10. BucketStands
  BY <1>5, <1>6, <1>8 DEF BucketStands
<1>11. Held(objects', relocated', WantOf(new))
  BY <1>1, <1>2, <1>3, <1>6 DEF MoveInv, HeldInv, want
<1>12. Stands(objects', overwritten', u) /\ new.pc \notin Moves
  BY <1>1, <1>3, <1>8 DEF MoveInv, CopiesInv, Moves
<1>. QED BY <1>1, <1>3, <1>9, <1>10, <1>11, <1>12, OneStep

-----------------------------------------------------------------------------
(* Rows come and go.                                                       *)

LEMMA CommitKeeps ==
  ASSUME MoveInv, NEW u \in Uploads, Editors!Commit(u)
  PROVE  MoveInv'
<1> DEFINE new == [up[u] EXCEPT !.pc = "done"]
           row == [tenant |-> up[u].tenant, n |-> up[u].n, of |-> u]
<1>1. /\ up[u].pc = "commit" /\ rows' = rows \cup {row}
      /\ UNCHANGED <<objects, deaths, overwritten, relocated>> /\ Editors!Goes(u, "done")
  BY DEF Editors!Commit, Editors!At
<1>2. "done" \in Editors!Phases \ Moves /\ up[u].pc \in Inserts /\ up[u].pc # "new"
  BY <1>1 DEF Editors!Phases, Moves, Inserts
<1>3. /\ up' = [up EXCEPT ![u] = new] /\ new \in Editors!Upload /\ Formed(new) /\ new.pc = "done"
      /\ up[u] \in Editors!Upload
  BY <1>1, <1>2, PhaseStep
<1>4. /\ row \in Editors!MediaRow /\ row.tenant = up[u].tenant /\ row.n = up[u].n
      /\ Editors!KeyOf(row) = WantOf(up[u])
  BY <1>2, <1>3, OwnKeys DEF Editors!MediaRow, Editors!Upload, Editors!KeyOf
<1>5. Held(objects, relocated, Editors!KeyOf(row)) /\ Stands(objects, overwritten, u)
  BY <1>1, <1>4, NewIsNone DEF MoveInv, HeldInv, CopiesInv, Past
<1>6. up'[u] = new /\ \A v \in Uploads : v # u => up'[v] = up[v]
  BY <1>3 DEF MoveInv, Editors!TypeOK
<1>7. new.pc \notin Inserts
  BY <1>3 DEF Inserts
<1>8. \A r \in rows : r.tenant # row.tenant \/ r.n # row.n
  BY <1>2, <1>4 DEF MoveInv, NamesInv
<1> HIDE DEF new, row
<1>9. Editors!TypeOK'
  <2>1. up' \in [Uploads -> {New} \cup Editors!Upload]
    BY <1>3 DEF MoveInv, Editors!TypeOK, New
  <2>2. \A a, b \in rows' : a.tenant = b.tenant /\ a.n = b.n => a = b
    BY <1>1, <1>8 DEF MoveInv, Editors!TypeOK
  <2>. QED BY <1>1, <1>4, <2>1, <2>2 DEF MoveInv, Editors!TypeOK, New
<1>10. \A v \in Uploads : Formed(up'[v])
  BY <1>3, <1>6 DEF MoveInv
<1>11. NamesInv'
  <2>1. \A v \in Uploads : up'[v].pc \in Inserts => v # u /\ up'[v] = up[v]
    BY <1>6, <1>7
  <2>2. ASSUME NEW v \in Uploads, up'[v].pc \in Inserts
        PROVE  row.tenant # up'[v].tenant \/ row.n # up'[v].n
    BY <1>2, <1>4, <2>1, <2>2 DEF MoveInv, NamesInv
  <2>. QED BY <1>1, <2>1, <2>2 DEF MoveInv, NamesInv
<1>12. HeldInv'
  BY <1>1, <1>3, <1>5, <1>6 DEF MoveInv, HeldInv
<1>13. CopiesInv'
  BY <1>1, <1>3, <1>5, <1>6 DEF MoveInv, CopiesInv, Moves
<1>. QED BY <1>9, <1>10, <1>11, <1>12, <1>13 DEF MoveInv

(* A row goes with its object; no other row or insert has its key. *)
LEMMA RemoveRowKeeps ==
  ASSUME MoveInv, NEW row \in rows, Editors!RemoveRow(row)
  PROVE  MoveInv'
<1> DEFINE k == Editors!KeyOf(row)
<1>1. /\ rows' = rows \ {row} /\ Editors!Writes(k, NoFile) /\ UNCHANGED <<up, deaths, relocated>>
      /\ k \in Editors!Key
  BY KeysAreKeys DEF Editors!RemoveRow
<1>2. /\ objects' \in [Editors!Key -> Uploads \cup {NoFile}]
      /\ \A j \in Editors!Key : j # k => objects'[j] = objects[j]
      /\ overwritten' \subseteq Uploads
  BY <1>1, WriteKeeps DEF MoveInv
<1> HIDE DEF k
<1>3. Editors!TypeOK'
  BY <1>1, <1>2 DEF MoveInv, Editors!TypeOK
<1>4. NamesInv'
  BY <1>1 DEF MoveInv, NamesInv
<1>5. ASSUME NEW v \in Uploads, up[v].pc \in {"delete", "commit"}
      PROVE  Held(objects', relocated', WantOf(up[v]))
  <2>1. up[v].pc \in Inserts
    BY <1>5 DEF Inserts
  <2>2. WantOf(up[v]) # k /\ WantOf(up[v]) \in Editors!Key
    BY <2>1, OwnKeys, KeysAreKeys DEF k
  <2>. QED BY <1>1, <1>2, <1>5, <2>2 DEF MoveInv, HeldInv, Held
<1>6. ASSUME NEW r \in rows'
      PROVE  Held(objects', relocated', Editors!KeyOf(r))
  <2>1. r \in rows /\ Editors!KeyOf(r) # k /\ Editors!KeyOf(r) \in Editors!Key
    BY <1>1, <1>6, RowKeys DEF MoveInv, k
  <2>. QED BY <1>1, <1>2, <2>1 DEF MoveInv, HeldInv, Held
<1>7. HeldInv'
  BY <1>1, <1>5, <1>6 DEF HeldInv
<1>8. CopiesInv'
  <2>1. ASSUME NEW v \in Uploads, Past(up[v]) PROVE Stands(objects', overwritten', v)
    BY <1>1, <2>1, StandsOn DEF MoveInv, CopiesInv
  <2>2. ASSUME NEW v \in Uploads, up[v].pc \in Moves PROVE Above(objects', overwritten', up[v])
    BY <1>1, <2>2, MoveGoesUp, AboveOn DEF MoveInv, CopiesInv
  <2>. QED BY <1>1, <2>1, <2>2 DEF CopiesInv
<1>. QED BY <1>1, <1>3, <1>4, <1>7, <1>8 DEF MoveInv

(* MoveInv is inductive. *)
LEMMA MoveStep ==
  ASSUME MoveInv, [MCNext]_MCvars
  PROVE  MoveInv'
<1>1. Editors!Next \/ UNCHANGED editorsVars
  BY DEF MCNext, MCvars
<1>2. CASE UNCHANGED editorsVars
  BY <1>2 DEF editorsVars, MoveInv, Editors!TypeOK, NamesInv, HeldInv, CopiesInv
<1>3. CASE Editors!Next
  BY <1>3, ChooseKeeps, PutKeeps, NameKeeps, InsertKeeps, CheckKeeps, LookKeeps, CopyKeeps,
     DeleteKeeps, CommitKeeps, DiesKeeps, RemoveRowKeeps DEF Editors!Next
<1>. QED BY <1>1, <1>2, <1>3

(* A move that fails or dies halfway, with other moves of the same file    *)
(* beside it, destroys no file; and a committed row has its object, unless *)
(* a move has emptied its key.                                             *)
THEOREM NoFileIsLost == MCSpec => []FilesStand
<1>1. MCInit => MoveInv
  <2> SUFFICES ASSUME Editors!Init PROVE MoveInv
    BY DEF MCInit
  <2>1. /\ objects = [k \in Editors!Key |-> NoFile] /\ rows = {} /\ up = [u \in Uploads |-> New]
        /\ deaths = 0 /\ overwritten = {} /\ relocated = {}
    BY DEF Editors!Init, New
  <2>2. \A u \in Uploads : up[u] = New /\ up[u].pc = "new"
    BY <2>1, NewIsNone
  <2>3. Editors!TypeOK
    BY <2>1, Constants DEF Editors!TypeOK, New
  <2>. QED BY <2>1, <2>2, <2>3
           DEF MoveInv, Formed, NamesInv, HeldInv, CopiesInv, Past, Inserts, Moves
<1>2. MoveInv /\ [MCNext]_MCvars => MoveInv'
  BY MoveStep
<1>3. MoveInv => FilesStand
  BY DEF MoveInv, HeldInv, CopiesInv, Held, Past, Stands, New, FilesStand, Editors!FilesStand,
         Editors!MissingOnlyByRelocation, Editors!FilesSurvive
<1>. QED BY <1>1, <1>2, <1>3, PTL DEF MCSpec
===============================================================================
