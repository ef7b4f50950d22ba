----------------------------- MODULE MCMonitoring -----------------------------
(* Two repositories, one of which is walked through after the other.        *)
EXTENDS Monitoring

CONSTANTS r1, r2
MCRepositories == <<r1, r2>>
=============================================================================
