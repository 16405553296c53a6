---------------------------- MODULE MCAuthoring ----------------------------
(***************************************************************************)
(* Finite instances of Authoring.  Three places that span a triangle: only *)
(* a triple that comes back to its first place is collinear.               *)
(***************************************************************************)
EXTENDS Authoring

BackAndForth ==
    {triple \in Positions \X Positions \X Positions : triple[1] = triple[3]}

\* Nothing tells one place from another: the drafts that begin elsewhere are
\* these with the places renamed.
FirstPoint == {[place |-> "p", setup |-> "tool1"]}
=============================================================================
