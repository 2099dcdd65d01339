---------------------------- MODULE MCDispatcher ----------------------------
(* Small instances of Dispatcher for TLC.                                  *)
EXTENDS Dispatcher, TLC

CONSTANTS d1, d2, h1, c1

\* Processes differ in name only.
Interchangeable == Permutations({d1, d2})
=============================================================================
