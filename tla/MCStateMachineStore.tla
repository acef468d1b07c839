------------------------ MODULE MCStateMachineStore ------------------------
(* The state machine store by itself, on a log with two memberships.       *)
EXTENDS StateMachineStore

MCTerms  == {1}
MCNormal == {1, 3, 4}
MCMember == {0, 2}
=============================================================================
