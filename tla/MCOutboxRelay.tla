--------------------------- MODULE MCOutboxRelay ----------------------------
(* Small instances of OutboxRelay: three rows over two keys, batches of    *)
(* two, so that a batch may be full, stale and interrupted.                *)
EXTENDS OutboxRelay
=============================================================================
