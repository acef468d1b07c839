----------------------------- MODULE MCClients -----------------------------
(* Two nodes, of which the cluster begins with n1 or with both.            *)
EXTENDS Clients

CONSTANTS n1, n2, w1, s1, i1, c1

MCNode      == {n1, n2}
MCFirst     == n1
MCWrites    == {w1}
MCSafeReads == {s1}
MCInits     == {i1}
MCChanges   == {c1}
=============================================================================
