---------------------------- MODULE MCAccounts ----------------------------
(* Accounts on a small instance. *)
EXTENDS Accounts, TLC

\* Requests are alike, and so are searches.
Alike == Permutations(Request) \cup Permutations(Url)
=============================================================================
