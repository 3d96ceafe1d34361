--------------------------- MODULE MCQuotaLadder ---------------------------
(***************************************************************************)
(* Small instances of QuotaLadder for TLC.                                 *)
(***************************************************************************)
EXTENDS QuotaLadder

-----------------------------------------------------------------------------
(* Instances.                                                              *)

Sub(id, kind, transfer, used, expiry, reset) ==
    [ID |-> id, Kind |-> kind, TransferBytes |-> transfer, UsedBytes |-> used,
     ExpiredAt |-> expiry, LastResetAt |-> reset, ResetEpoch |-> 0]

Primary == Sub(1, "primary", 2, 0, NoTime, NoTime)
Pack    == Sub(2, "data_pack", 1, 0, NoTime, NoTime)

\* A primary and a pack in the wrong order with a row of a join repeated, and
\* the primary alone with a counter the table has not rolled up yet.
MCSubLists == { <<Primary, Pack, Primary>>, <<Sub(1, "primary", 2, 1, 3, NoTime)>> }

\* For liveness the data matters less than the number of goroutines.
LiveSubLists == { <<Sub(1, "primary", 1, 0, NoTime, NoTime)>> }
=============================================================================
