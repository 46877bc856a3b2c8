-------------------------- MODULE MCTerminalState --------------------------
EXTENDS TerminalState, TLC

AllOps == {"start", "wait", "get", "send", "kill", "store", "reset"}

(* A bound: synthetic snapshots are stored before the first command is     *)
(* started.  MCTerminalListing has the others, and two sessions; with one  *)
(* they change nothing of it.                                              *)
StoreFirst ==
  manualLast' /\ ~manualLast =>
    sessions = {} /\ \A s \in SessionIds : waiter[s] = "none"

(* Sessions and callers are interchangeable in every safety property.      *)
Symmetric == Permutations(Callers) \cup Permutations(SessionIds)
=============================================================================
