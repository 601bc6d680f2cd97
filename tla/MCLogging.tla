----------------------------- MODULE MCLogging -----------------------------
(* Instances of Logging for TLC. *)
EXTENDS Logging

(* Three requests empty the bucket, are skipped and get a summary; the JSONL
   writer treats all events alike. *)
MCMaxLoad == [human |-> 3, jsonl |-> 2]
=============================================================================
