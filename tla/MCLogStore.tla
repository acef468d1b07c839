----------------------------- MODULE MCLogStore -----------------------------
(* The log store on a small instance: see MCLogStore.cfg for the bounds.   *)
EXTENDS LogStore

MCTerms == {1, 2}
=============================================================================
