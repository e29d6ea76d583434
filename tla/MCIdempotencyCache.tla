------------------------- MODULE MCIdempotencyCache -------------------------
(* IdempotencyCache with more keys than nodes.  The hash values 8 and 9 lie  *)
(* beyond the mask and leave two buckets for five keys.                      *)
EXTENDS IdempotencyCache
=============================================================================
