---------------------------- MODULE MCUtxoIndex -----------------------------
(***************************************************************************)
(* Transactions for TLC between an address the indexer watches and others: *)
(* money that arrives, leaves again, passes through foreign hands and      *)
(* comes back, with two transactions that compete for the same output.     *)
(***************************************************************************)
EXTENDS UtxoIndex

CONSTANTS t1, t2, t3, t4, t5, t6,
          before, own1, foreign1, foreign2, own2, own3, foreign3,
          watched, other

\* t1 pays the watched address, t2 and t6 compete for that money, t3 lets
\* foreign money through, t4 brings both back, t5 takes it away.
MCSpends ==
  [t \in Tx |->
     CASE t = t1 -> {before}
       [] t = t2 -> {own1}
       [] t = t3 -> {foreign1}
       [] t = t4 -> {foreign2, foreign3}
       [] t = t5 -> {own2}
       [] t = t6 -> {own1}]

MCCreates ==
  [t \in Tx |->
     CASE t = t1 -> {own1, foreign1}
       [] t = t2 -> {foreign2}
       [] t = t3 -> {foreign3}
       [] t = t4 -> {own2}
       [] t = t5 -> {}
       [] t = t6 -> {own3}]

MCAddressOf ==
  [o \in Output |-> IF o \in {own1, own2, own3} THEN watched ELSE other]

MCEverything == {c \in Config : c.addressesOfInterest \in {{}, {watched}}}

\* Those that keep every output, with a writer that finds what it has added.
MCChained ==
  {c \in MCEverything : /\ c.KeepAllTxOutputsInDB \/ c.addressesOfInterest = {}
                        /\ c.backend = "bbolt" \/ ~c.SoftDeleteUtxo}

\* The configurations for one question each.
MCKeepAll(backend) ==
  {c \in MCEverything : c.backend = backend /\ c.KeepAllTxOutputsInDB}
MCKeepAllBBolt == MCKeepAll("bbolt")
MCKeepAllLevelDB == MCKeepAll("leveldb")
MCSoftLevelDB == {c \in MCKeepAllLevelDB : c.SoftDeleteUtxo}
MCOfInterestOnly ==
  {c \in MCEverything : c.AddressCheck = {"inputs", "outputs"} /\ ~c.KeepAllTxOutputsInDB}
=============================================================================
