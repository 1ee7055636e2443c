----------------------------- MODULE MCBilling -------------------------------
(* Small instances of Billing. *)
EXTENDS Billing, TLC

CONSTANTS u1, u2, c1, c2, s1, s2, h1, h2

Anonymity == Permutations({u1, u2}) \cup Permutations({c1, c2}) \cup Permutations({h1, h2})
==============================================================================
