---------------------------- MODULE MCTorchSecret ----------------------------
(* Small instances of TorchSecret. *)
EXTENDS TorchSecretInv, TLC

CONSTANTS s1, s2, r1, r2, r3, w1, u1, nobody, nosession, nosecret

MCSession == Request \cup Worker \cup User

(* Every kind of secret; only the ones a password protects; one of each     *)
(* kind the bulk statements tell apart.                                     *)
AnyKind == [owner : User \cup {NoUser}, pw : BOOLEAN, notify : BOOLEAN]
ProtectedKind == [owner : User \cup {NoUser}, pw : {TRUE}, notify : {FALSE}]
OwnedOrNot == [owner : User \cup {NoUser}, pw : {FALSE}, notify : {FALSE}]

Symmetric == Permutations(Request) \cup Permutations(Secret)

=============================================================================
