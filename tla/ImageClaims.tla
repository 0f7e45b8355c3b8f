---------------------------- MODULE ImageClaims ----------------------------
(***************************************************************************)
(* What a comment of the repository says of the program and the code does  *)
(* not do: TLC finds the property violated.                                *)
(***************************************************************************)
EXTENDS ImageProperties

\* io.c on write_fats: "Writes the file allocation table from the metadata on
\* the partition".  What the command has allocated is then in every copy.  The
\* last two clusters the allocator hands out are not.
AllocationsSaved ==
    [][res' = "ok" /\ pc = "dirs"
        => \A c \in Clusters : fat[c] # 0
            => c \in Stored /\ \A k \in 1 .. NumberOfFats : fats[k][c] = fat[c]]_vars

\* libfat12.h on lf12_del_entry: "soft_delete if non zero the entry is not erased,
\* but marked as deleted".  When it has succeeded a reader no longer finds the
\* entry.  He does: nothing has been written.
SoftDeletionMarks ==
    [][cmd.op = "del" /\ cmd.soft /\ res' = "ok"
        => \A e \in DiskTree' : e.path # cmd.path]_vars
=============================================================================
