---------------------------- MODULE MCDispatcher -----------------------------
(* Dispatcher on small instances.                                          *)
EXTENDS Dispatcher, TLC

DispatcherSymmetry == Permutations(Dispatchers)
==============================================================================
