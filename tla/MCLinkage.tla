------------------------------ MODULE MCLinkage ------------------------------
(***************************************************************************)
(* The two rows of the linkage matrix that move a user's authorisation,    *)
(* with the subscriber that does and one that does not.                    *)
(***************************************************************************)
EXTENDS Linkage, TLC

MCRequired ==
    ("user.banned" :> <<"nodeplane.revoke", "audit.record">>)
    @@ ("user.unbanned" :> <<"nodeplane.grant", "audit.record">>)
=============================================================================
