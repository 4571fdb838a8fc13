--------------------------- MODULE MCRetryPipeline ---------------------------
(* Small instances of RetryPipeline: one or two events, the default budget  *)
(* of two in-flight attempts.                                               *)
EXTENDS RetryPipeline
=============================================================================
