------------------------ MODULE MC_LogRequestHandler ------------------------
(* A small instance of LogRequestHandler for TLC: one client id, an       *)
(* application logger and the internal logger, two requests of at most    *)
(* two elements.                                                           *)
EXTENDS LogRequestHandler, TLC

CONSTANTS c1, app, residue

MCClientIds == {c1}
MCLoggers == {app, residue}
MCAppLoggers == {app}
=============================================================================
