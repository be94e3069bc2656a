------------------------------- MODULE MCUploads -------------------------------
(***************************************************************************)
(* The two ways an image is uploaded, for TLC: by the hub, through the     *)
(* staging area, and by an editor, from the browser.  They write under     *)
(* different keys and names of their own, so a behaviour of both is one    *)
(* behaviour of each, side by side; TLC explores the steps of one at a     *)
(* time, and no behaviour of either is left out by that.                   *)
(***************************************************************************)
EXTENDS DirectUpload, TLC

CONSTANTS Tenants, Root, Uploads, NoFile, MaxNumber, MaxDeaths  \* of ClientUpload

VARIABLES
  part,                                                \* the component that moves
  objects, rows, up, deaths, overwritten, relocated    \* of ClientUpload

Editors == INSTANCE ClientUpload WITH Nothing <- NoFile

ASSUME EditorsAssumption == Editors!RootAssumption /\ Editors!BoundsAssumption

editorsVars == <<objects, rows, up, deaths, overwritten, relocated>>
MCvars == <<part, vars, editorsVars>>

MCInit ==
  /\ part \in {"hub", "editors"}
  /\ Init /\ Editors!Init

MCNext ==
  \/ part = "hub" /\ Next /\ UNCHANGED <<part, editorsVars>>
  \/ part = "editors" /\ Editors!Next /\ UNCHANGED <<part, vars>>

MCSpec == MCInit /\ [][MCNext]_MCvars

(* Uploads of editors are interchangeable, and so are registers. *)
MCSymmetry == Permutations(Uploads) \cup Permutations(Requests)

-----------------------------------------------------------------------------
(* No media row is committed without its object, and one that has none lost it
   to a move after a later upload had been put under its key; a move that fails
   or dies halfway destroys no file. *)
FilesStand == Editors!FilesStand
=============================================================================
