---------------------------- MODULE MCApiServer ----------------------------
(***************************************************************************)
(* Small instances of the server's start, its accounts and its callers.    *)
(***************************************************************************)
EXTENDS ApiServer

LOCAL INSTANCE TLC

CONSTANTS u1, u2

RestoredAccounts == {[user |-> u1, role |-> "operator"]}

SeededAccounts == {[user |-> u2, role |-> "user"]}

ApiSymmetry == Permutations(Clients) \cup Permutations(Instances)
=============================================================================
