----------------------------- MODULE MCDatabases ------------------------------
\* Outputs of two transactions for TLC, the later index at the smaller hash.
EXTENDS Databases

MCTxInputs == {[Hash |-> 0, Index |-> 1], [Hash |-> 1, Index |-> 0]}
MCAddressOf == [i \in MCTxInputs |-> "watched"]
=============================================================================
