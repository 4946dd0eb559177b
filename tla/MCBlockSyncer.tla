--------------------------- MODULE MCBlockSyncer ----------------------------
\* Clients of the syncer for TLC.
EXTENDS BlockSyncer

CONSTANTS main, second
=============================================================================
