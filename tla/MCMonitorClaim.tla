---------------------------- MODULE MCMonitorClaim ----------------------------
(* A direct and a service start and one process started outside them, on two *)
(* process numbers, so that numbers are used again.                          *)
EXTENDS MonitorClaim

CONSTANTS s1, u, m, n1, n2
=============================================================================
