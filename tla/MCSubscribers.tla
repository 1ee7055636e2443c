---------------------------- MODULE MCSubscribers ----------------------------
(* Small instances of Subscribers. *)
EXTENDS Subscribers, TLC

CONSTANTS e1, e2, r1, r2, r3, r4, r5, noemail, notoken

Symmetric == Permutations(Request)

=============================================================================
