----------------------------- MODULE MCLocalAudit -----------------------------
(* Instances of LocalAudit for TLC.                                        *)
EXTENDS LocalAudit

\* Every mixture of loggers with and without integrity metadata.
AnyIntegrity == [Caller -> {"none", "hash_chain"}]

=============================================================================
