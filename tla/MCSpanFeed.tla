---------------------------- MODULE MCSpanFeed ----------------------------
(* The instance of SpanFeed that the run span_feed checks. *)
EXTENDS SpanFeed
===========================================================================
