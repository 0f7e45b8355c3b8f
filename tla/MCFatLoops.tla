----------------------------- MODULE MCFatLoops -----------------------------
(***************************************************************************)
(* The loops over the file allocation table, those of a put or a get       *)
(* (ChainLoops) or those between two commands (PackedFat), on a table for  *)
(* five clusters.  The former start from all tables of free and used       *)
(* clusters, with four bytes per cluster and sixteen in place of 65536, so *)
(* that chains of four clusters are too long.  The latter start from all   *)
(* tables of six values that have different digits in all three nibbles,   *)
(* or are the markers of the program.                                      *)
(***************************************************************************)
EXTENDS ChainLoops, PackedFat

AllTables == [Clusters -> {0, EndOfChain}]
AllSizes == 0 .. (ClusterSize * Cardinality(Clusters) + 1)
EntryValues == {0, 2, 291, 2748, 4080, 4095}

VARIABLE working  \* the module whose loops run; the other one stays where it starts

FatLoopsInit ==
    /\ Init
    /\ PackInit
    /\ \/ working = "chains" /\ entries = [n \in Indices |-> 0]
       \/ working = "packing" /\ size = 0 /\ given = [c \in Clusters |-> 0]

RunChains ==
    /\ working = "chains"
    /\ Next
    /\ UNCHANGED <<packVars, working>>

RunPacking ==
    /\ working = "packing"
    /\ PackNext
    /\ UNCHANGED <<vars, working>>

FatLoopsSpec ==
    FatLoopsInit /\ [][RunChains \/ RunPacking]_<<vars, packVars, working>>
=============================================================================
