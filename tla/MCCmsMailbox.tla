---------------------------- MODULE MCCmsMailbox ----------------------------
(* Two threads and a card, small enough for TLC. *)
EXTENDS CmsMailbox

CONSTANTS t1, t2

=============================================================================
