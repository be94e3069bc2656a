---------------------------- MODULE IntakePromise ----------------------------
(***************************************************************************)
(* What the intake promises an engine that sends a draft again when the    *)
(* answer is a 5xx or does not come (the head of                           *)
(* src/app/api/engine/intake/route.ts): a delivery takes effect at one     *)
(* moment before its answer, or not at all; it makes the draft's article   *)
(* only if there is none, and refreshes one only if the engine made one.   *)
(*                                                                         *)
(*   stored    200 or 201: it took effect                                  *)
(*   refused   4xx: it did not, for the sake of what people have changed,  *)
(*             or because its terms do not allow it; an earlier delivery   *)
(*             of the draft, whose answer was lost, may have               *)
(*   again     5xx or no answer: unknown                                   *)
(*                                                                         *)
(* Nothing is promised of a draft of which two deliveries ran at one time. *)
(***************************************************************************)
EXTENDS Naturals

CONSTANTS Drafts

VARIABLES
  lacking,   \* drafts that lack what a creation needs
  strict,    \* drafts of which no refresh is promised
  open,      \* drafts a delivery is at work on
  done,      \* those of them whose delivery has taken effect
  articles,  \* draft -> how many articles it has
  told,      \* draft -> what the engine has heard of it
  edits,     \* changes that people have made to articles
  doubled    \* drafts of which two deliveries ran at one time

vars == <<lacking, strict, open, done, articles, told, edits, doubled>>

Init ==
  /\ lacking \subseteq Drafts /\ strict \subseteq Drafts
  /\ open = {} /\ done = {} /\ doubled = {}
  /\ articles = [d \in Drafts |-> 0]
  /\ told = [d \in Drafts |-> "nothing"]
  /\ edits = 0

Hears(d, what) == told' = [told EXCEPT ![d] = what]

-----------------------------------------------------------------------------
(* The engine sends what is new or was not answered. *)
Send(d) ==
  /\ told[d] \in {"nothing", "again"} /\ Hears(d, "waiting")
  /\ open' = open \cup {d}
  /\ doubled' = IF d \in open THEN doubled \cup {d} ELSE doubled
  /\ UNCHANGED <<lacking, strict, done, articles, edits>>

(* It waits no longer; the delivery goes on. *)
GiveUp(d) ==
  /\ d \in open /\ told[d] = "waiting" /\ Hears(d, "again")
  /\ UNCHANGED <<lacking, strict, open, done, articles, edits, doubled>>

Create(d) ==
  /\ d \in open \ (done \cup lacking) /\ articles[d] = 0
  /\ done' = done \cup {d}
  /\ articles' = [articles EXCEPT ![d] = 1]
  /\ UNCHANGED <<lacking, strict, open, told, edits, doubled>>

(* The article of the draft, or that of another draft with its source. *)
Refresh(d) ==
  /\ d \in open \ done /\ \E e \in Drafts : articles[e] > 0
  /\ done' = done \cup {d}
  /\ UNCHANGED <<lacking, strict, open, articles, told, edits, doubled>>

(* People have changed something, the draft cannot be created and has not been, or
   there is an article that it may not refresh. *)
MayRefuse(d) ==
  \/ edits > 0
  \/ d \in lacking /\ articles[d] = 0
  \/ d \in strict /\ \E e \in Drafts : articles[e] > 0

Truthful(d, says) ==
  \/ says = "stored" /\ d \in done
  \/ says = "refused" /\ d \notin done /\ MayRefuse(d)
  \/ says = "again"

(* The delivery ends, with an answer or without. *)
End(d) ==
  /\ d \in open
  /\ open' = open \ {d} /\ done' = done \ {d}
  /\ IF told[d] = "waiting"
     THEN \E says \in {"stored", "refused", "again"} : Truthful(d, says) /\ Hears(d, says)
     ELSE UNCHANGED told
  /\ UNCHANGED <<lacking, strict, articles, edits, doubled>>

(* An editor saves an article, or deletes it. *)
Edit ==
  /\ edits' = edits + 1
  /\ \/ UNCHANGED articles
     \/ \E d \in Drafts : articles[d] > 0 /\ articles' = [articles EXCEPT ![d] = @ - 1]
  /\ UNCHANGED <<lacking, strict, open, done, told, doubled>>

(* Deliveries that overlap may do anything, but to their own draft. *)
Overlap(d) ==
  /\ d \in doubled
  /\ open' \in {open \ {d}, open \cup {d}}
  /\ done' \in {done \ {d}, done \cup {d}}
  /\ articles' = [articles EXCEPT ![d] = articles'[d]]
  /\ Hears(d, told'[d])
  /\ UNCHANGED <<lacking, strict, edits, doubled>>

Next ==
  \/ \E d \in Drafts : Send(d) \/ GiveUp(d) \/ Create(d) \/ Refresh(d) \/ End(d) \/ Overlap(d)
  \/ Edit

Spec == Init /\ [][Next]_vars
==============================================================================
