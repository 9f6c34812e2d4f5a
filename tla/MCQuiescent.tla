---------------------------- MODULE MCQuiescent ----------------------------
EXTENDS Verify, TLC
Symmetric == Permutations(Workers) \cup Permutations(Reconcilers)
               \cup Permutations(Relays) \cup Permutations(Schedulers)
=============================================================================
