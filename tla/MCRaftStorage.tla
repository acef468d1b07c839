--------------------------- MODULE MCRaftStorage ---------------------------
(* The storage of one node: one term, as only committed entries matter to  *)
(* the state machine; see the .cfg files for the bounds.                   *)
EXTENDS RaftStorage

MCTerms  == {1}
MCNormal == {1}
MCMember == {0}
=============================================================================
