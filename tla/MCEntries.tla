------------------------------ MODULE MCEntries ------------------------------
(***************************************************************************)
(* What a put makes of a host file in a directory entry: its name, on the  *)
(* strings of MCPathNames, or its time, on the instants of MCTimeStamps.   *)
(***************************************************************************)
EXTENDS MCPathNames, MCTimeStamps

VARIABLE field  \* the field of the entry whose life is followed

EntriesInit ==
    /\ Init
    /\ StampInit
    /\ \/ field = "name" /\ zone = Zone(0, 0, {})
       \/ field = "time" /\ dest = NoDestination /\ argument = <<>>

FollowName ==
    /\ field = "name"
    /\ Next
    /\ UNCHANGED <<stampVars, field>>

FollowTime ==
    /\ field = "time"
    /\ StampNext
    /\ UNCHANGED <<vars, field>>

EntriesSpec ==
    EntriesInit /\ [][FollowName \/ FollowTime]_<<vars, stampVars, field>>
==============================================================================
