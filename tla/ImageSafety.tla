---------------------------- MODULE ImageSafety ----------------------------
(***************************************************************************)
(* The safety properties of Image that are proved for every value of its   *)
(* constants in ImageProofs and model-checked on small instances.          *)
(***************************************************************************)
EXTENDS Image

\* The values the variables take.
TypeOK ==
    /\ fats \in [1 .. NumberOfFats -> [Stored -> FatValues]]
    /\ root \in [1 .. RootSlots -> Entry]
    /\ data \in [Clusters -> Block]
    /\ pc \in {"idle", "scan", "format", "create", "path", "visit", "sweep", "erase",
               "fat", "dirs", "undefined"}
    /\ cmd \in Commands \union {NoCommand}
    /\ fat \in [Clusters -> FatValues]
    /\ DOMAIN tabs \subseteq Seq(Nat)
    /\ tabs \in [DOMAIN tabs -> Seq(Entry)]
    /\ at \in Seq(Nat)
    /\ slot \in Nat
    /\ head \in Clusters \union {0}
    /\ job \in Nat
    /\ copy \in 0 .. NumberOfFats
    /\ todo \subseteq DOMAIN tabs
    /\ res \in {"none", "ok", "failed", "full", "logic", "interrupted"}

\* Every directory in memory has its table.
TablesComplete ==
    \A d \in DOMAIN tabs : \A i \in DOMAIN tabs[d] :
        IsSubdir(tabs[d][i]) => Append(d, i) \in DOMAIN tabs

\* What the phases have set up: TypeOK is inductive with it.
PhaseOK ==
    /\ <<>> \in DOMAIN tabs
    /\ Running => Len(tabs[<<>>]) = RootSlots
    /\ pc # "dirs" => todo = {}
    /\ (pc = "fat") = (copy # 0)
    /\ pc = "format" => cmd.op = "create" /\ TablesComplete
    /\ pc \in {"create", "path"} =>
        /\ cmd.op \in {"create", "put"}
        /\ job \in 1 .. Len(cmd.files)
        /\ TablesComplete
    /\ pc = "path" => at \in DOMAIN tabs /\ Len(at) < Len(cmd.files[job].path)
    /\ pc = "sweep" => at # <<>>

TypeInv == TypeOK /\ PhaseOK

\* The first clusters named by any directory entry on the disk: in the root
\* directory, and in every cluster that holds directory entries, reachable
\* from the root directory or not.
HeadsOnDisk ==
    {root[i].first : i \in DOMAIN root}
        \union {data[c].slots[i].first : c \in Clusters, i \in 1 .. SlotsPerCluster}

\* Whenever a command stops, whatever it has written so far: the chain of
\* every entry on the disk is allocated to its end in every FAT copy (up to
\* the clusters no copy keeps).  No entry is ever ahead of the FAT, so any copy
\* can serve after a crash (lf12_write_metadata writes all copies before the
\* first directory).
HeadsAnchored ==
    \A k \in 1 .. NumberOfFats : \A h \in HeadsOnDisk : Anchored(fats[k], h)

\* The first copy, the one read_fat_entries reads, knows every allocation that
\* any other copy knows.
FirstFatLeads == \A k \in 1 .. NumberOfFats : Below(fats[k], fats[1])

\* What the running command knows: every FAT copy is a part of its table, the
\* copies it has rewritten are all of it, and every entry in its memory is
\* anchored there.  HeadsAnchored and FirstFatLeads are inductive with it.
MemoryAnchored ==
    /\ pc = "path" => Anchored(fat, head)
    /\ \A p \in DOMAIN tabs : \A i \in DOMAIN tabs[p] : Anchored(fat, tabs[p][i].first)

FatsBelow ==
    Running /\ pc # "format" => \A k \in 1 .. NumberOfFats : Below(fats[k], fat)

CopiesSaved ==
    \A k \in 1 .. NumberOfFats :
        (pc = "fat" /\ k < copy) \/ pc = "dirs" => \A c \in Stored : fats[k][c] = fat[c]

SafetyInv ==
    /\ HeadsAnchored
    /\ FirstFatLeads
    /\ MemoryAnchored
    /\ FatsBelow
    /\ CopiesSaved

\* No command but f12_create changes or frees an allocated entry of any FAT
\* copy, even when it is interrupted within a copy.
FatOnlyGrows ==
    [][pc # "format" => \A k \in 1 .. NumberOfFats : Below(fats[k], fats'[k])]_fats
=============================================================================
