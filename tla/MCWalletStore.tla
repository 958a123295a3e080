--------------------------- MODULE MCWalletStore ---------------------------
(* WalletStore for model checking. *)
EXTENDS WalletStore, TLC

CONSTANTS f1, f2, w1, w2

StoreSymmetry == Permutations({f1, f2}) \cup Permutations({w1, w2})
=============================================================================
