------------------------------ MODULE MCMetering ------------------------------
(***************************************************************************)
(* A primary and a data pack, batches that spill from one into the other   *)
(* and out of both, and a clock that crosses one bucket boundary.          *)
(***************************************************************************)
EXTENDS Metering

Row(id, kind, transfer) ==
    [ID |-> id, Kind |-> kind, TransferBytes |-> transfer, UsedBytes |-> 0,
     ExpiredAt |-> NoTime, LastResetAt |-> NoTime, ResetEpoch |-> 0]

\* The reset job on time in all of them.
MCDisturbances == { {"drop"}, {"crash", "stale"} }

MCPlans == <<Row(1, "primary", 3), Row(2, "data_pack", 1)>>
=============================================================================
