----------------------------- MODULE Revalidation -----------------------------
(***************************************************************************)
(* The webhook that tells a publication's site to drop its cache           *)
(* (src/hooks/revalidate.ts), for one document and one cached page.        *)
(*                                                                         *)
(* The hook runs inside the transaction of the save, so the webhook leaves *)
(* before the save is committed, and the save waits for the answer, five   *)
(* seconds at most.  Whatever becomes of the webhook, the save goes on.    *)
(* The site is external: it serves what it has cached, reads from the CMS  *)
(* when it has nothing, and drops a page when its window has passed.       *)
(***************************************************************************)
EXTENDS Naturals

CONSTANTS
  Nothing, Idle,  \* model values
  MaxSaves        \* bound

MaxSavesAssumption == MaxSaves \in Nat

VARIABLES
  stored,   \* the document as committed: how often it was saved
  save,     \* the save at work
  site,     \* up, refusing (401, 503), hung or down
  cache,    \* the cached page
  fetch,    \* the site's reading of the CMS
  untold    \* history: saves the site was not told of, as the hook knows

vars == <<stored, save, site, cache, fetch, untold>>

Sites == {"up", "refusing", "hung", "down"}
Save == [pc: {"hook", "commit"}, silent: BOOLEAN, told: BOOLEAN]
(* gap: read from the CMS after the webhook and before the commit, or under *)
(* way when the webhook came.                                               *)
Page == [v: Nat, gap: BOOLEAN]

(* Types; what is cached was committed. *)
TypeOK ==
  /\ stored \in 0..MaxSaves /\ save \in Save \cup {Idle} /\ site \in Sites
  /\ cache \in Page \cup {Nothing} /\ fetch \in Page \cup {Idle}
  /\ untold \subseteq 1..MaxSaves
  /\ cache # Nothing => cache.v <= stored
  /\ save # Idle => save.pc = "commit" \/ ~save.told

Init ==
  /\ stored = 0 /\ save = Idle /\ site = "up"
  /\ cache = Nothing /\ fetch = Idle /\ untold = {}

-----------------------------------------------------------------------------
(* A save changes the row, which is locked until the commit; context.disableRevalidate
   makes it silent, as does a tenant without a frontendUrl, or no secret. *)
Begin ==
  /\ save = Idle /\ stored < MaxSaves
  /\ \E silent \in BOOLEAN : save' = [pc |-> "hook", silent |-> silent, told |-> FALSE]
  /\ UNCHANGED <<stored, site, cache, fetch, untold>>

(* Seeded fault: any answer counts. *)
AcceptedAny == site # "down"

(* The site has verified the token and dropped the page: res.ok. *)
Accepted == site = "up"

(* Seeded fault: no timeout. *)
AnsweredAtLast == site # "hung"

(* An answer, an error, or the timeout. *)
Answered == TRUE

(* postRevalidate catches everything. *)
AfterError == [save EXCEPT !.pc = "commit"]

Post ==
  /\ save # Idle /\ save.pc = "hook"
  /\ IF save.silent
     THEN save' = [save EXCEPT !.pc = "commit"] /\ UNCHANGED <<cache, fetch>>
     ELSE /\ Answered
          /\ save' = IF Accepted THEN [save EXCEPT !.pc = "commit", !.told = TRUE] ELSE AfterError
          /\ IF site = "up"
             THEN /\ cache' = Nothing
                  /\ fetch' = IF fetch = Idle THEN Idle ELSE [fetch EXCEPT !.gap = TRUE]
             ELSE UNCHANGED <<cache, fetch>>
  /\ UNCHANGED <<stored, site, untold>>

Commit ==
  /\ save # Idle /\ save.pc = "commit"
  /\ stored' = stored + 1
  /\ untold' = IF save.told THEN untold ELSE untold \cup {stored + 1}
  /\ save' = Idle
  /\ UNCHANGED <<site, cache, fetch>>

-----------------------------------------------------------------------------
(* The site. *)
Turn(s) == site # s /\ site' = s /\ UNCHANGED <<stored, save, cache, fetch, untold>>

Read ==
  /\ cache = Nothing /\ fetch = Idle
  /\ fetch' = [v |-> stored, gap |-> save # Idle /\ save.pc = "commit" /\ save.told]
  /\ UNCHANGED <<stored, save, site, cache, untold>>

Fill ==
  /\ fetch # Idle
  /\ cache' = fetch /\ fetch' = Idle
  /\ UNCHANGED <<stored, save, site, untold>>

(* The window of the page has passed. *)
Expire ==
  /\ cache # Nothing
  /\ cache' = Nothing
  /\ UNCHANGED <<stored, save, site, fetch, untold>>

Next ==
  \/ Begin \/ Post \/ Commit \/ Read \/ Fill \/ Expire
  \/ \E s \in Sites : Turn(s)

Fairness == WF_vars(Post) /\ WF_vars(Commit)

Spec == Init /\ [][Next]_vars /\ Fairness

-----------------------------------------------------------------------------
(* A page that is older than the document was read in the gap between webhook
   and commit, or the hook knows that the site was not told. *)
StaleOnlyFromTheGap == cache # Nothing /\ cache.v < stored =>
  cache.gap \/ \E v \in (cache.v + 1)..stored : v \in untold

(* However the site behaves, a save that has begun is stored. *)
EverySaveLands == \A n \in 0..MaxSaves :
  save # Idle /\ stored = n ~> stored > n
===============================================================================
