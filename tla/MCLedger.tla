------------------------------ MODULE MCLedger ------------------------------
EXTENDS Ledger, TLC
Symmetric == Permutations(Requests) \cup Permutations(Hashes)
=============================================================================
