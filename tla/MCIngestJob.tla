----------------------------- MODULE MCIngestJob -----------------------------
(* IngestJob with short times: each wait is there, and none is long.        *)
EXTENDS IngestJob
=============================================================================
