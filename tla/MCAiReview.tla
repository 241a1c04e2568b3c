---------------------------- MODULE MCAiReview ------------------------------
(* Instances of AiReview for TLC: two requests in flight.                  *)
EXTENDS AiReview
=============================================================================
