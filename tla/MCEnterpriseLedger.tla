------------------------- MODULE MCEnterpriseLedger -------------------------
(* A customer, the owner of one listing, one billed message per day. *)
EXTENDS EnterpriseLedger

CONSTANTS acme, vendor, bot

OneListing == [l \in {bot} |-> vendor]

=============================================================================
