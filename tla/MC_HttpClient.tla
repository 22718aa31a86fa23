---------------------------- MODULE MC_HttpClient ----------------------------
(* A small instance of HttpClient for TLC: bodies of up to three chunks of *)
(* two kinds, a 200 and a 404 answer, and the three kinds of URL.          *)
EXTENDS HttpClient, TLC

CONSTANTS a, b

MCChunks == {a, b}
=============================================================================
