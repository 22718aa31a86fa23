------------------------- MODULE MC_HandlerSafety -------------------------
(* TLC instance for the bulk loop and the invariant of HandlerSafetyProofs: *)
(* one client id, an application logger, bulks of up to two elements, valid *)
(* and invalid, racing CONNECTs, sweeps and the clock.                    *)
EXTENDS HandlerSafetyProofs, TLC

CONSTANTS c1, app, residue

MCClientIds == {c1}
MCAppLoggers == {app}
=============================================================================
