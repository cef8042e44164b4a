----------------------------- MODULE MCAccounts -----------------------------
(* Two accounts, two session tokens and two requests at the same time.     *)
EXTENDS Accounts, TLC

Symmetry == Permutations(Tokens) \cup Permutations(Reqs)
            \cup Permutations(Passwords) \cup Permutations(Ids)
=============================================================================
