--------------------- MODULE MC_LogRequestHandlerProofs ---------------------
(* TLC instance for the inductive invariant of LogRequestHandlerProofs,  *)
(* on the plain-request path: plain frames allowed, bulk arrays refused, *)
(* unknown loggers accepted, requests with and without a client id.      *)
EXTENDS LogRequestHandlerProofs, TLC

CONSTANTS c1, app, residue

MCClientIds == {c1}
MCSenderIds == {c1, EmptyId}
MCLoggers == {app, residue}
MCAppLoggers == {app}
=============================================================================
