---------------------------- MODULE MCHttpClient ----------------------------
(***************************************************************************)
(* Instances of HttpClient for TLC.                                        *)
(***************************************************************************)
EXTENDS HttpClient, TLC

CONSTANTS r1, r2, r3, api, apiPlain

\* Requests are told apart by nothing but their names.
Symmetry == Permutations(Requests)
=============================================================================
