-------------------------- MODULE SessionLifecycle --------------------------
(***************************************************************************)
(* What internal/terminalstate promises of one terminal session to the     *)
(* clients that watch it: it starts or fails to start, its output only     *)
(* grows and only while it runs, it ends once with one exit code, and its  *)
(* end is announced after the exit code is there.                          *)
(***************************************************************************)
EXTENDS Naturals

CONSTANT SessionIds  \* the sessions that may be started

VARIABLES
  phase,     \* "free", "starting", "failed", "running" or "exited"
  exit,      \* the exit code, "none" before there is one
  out,       \* how much output there is
  accepts,   \* may a line still be sent to it?
  notified   \* has its end been announced?

vars == <<phase, exit, out, accepts, notified>>

Codes == {"zero", "nonzero", "minusOne"}

Init ==
  /\ phase = [s \in SessionIds |-> "free"]
  /\ exit = [s \in SessionIds |-> "none"]
  /\ out = [s \in SessionIds |-> 0]
  /\ accepts = [s \in SessionIds |-> FALSE]
  /\ notified = [s \in SessionIds |-> FALSE]

Enter(s, from, to) == phase[s] = from /\ phase' = [phase EXCEPT ![s] = to]

(* An id is used for one session, once.                                    *)
Begin(s) ==
  /\ Enter(s, "free", "starting")
  /\ accepts' = [accepts EXCEPT ![s] = TRUE]
  /\ UNCHANGED <<exit, out, notified>>

Start(s) ==
  /\ Enter(s, "starting", "running")
  /\ UNCHANGED <<exit, out, accepts, notified>>

Fail(s) ==
  /\ Enter(s, "starting", "failed")
  /\ accepts' = [accepts EXCEPT ![s] = FALSE]
  /\ UNCHANGED <<exit, out, notified>>

(* Input, once closed, never opens again.                                  *)
CloseInput(s) ==
  /\ accepts' = [accepts EXCEPT ![s] = FALSE]
  /\ UNCHANGED <<phase, exit, out, notified>>

Output(s) ==
  /\ phase[s] = "running"
  /\ out'[s] \in Nat /\ out'[s] > out[s]
  /\ out' = [out EXCEPT ![s] = out'[s]]
  /\ UNCHANGED <<phase, exit, accepts, notified>>

(* The exit code and the end of running are seen together.                 *)
Exit(s) ==
  /\ Enter(s, "running", "exited")
  /\ \E e \in Codes : exit' = [exit EXCEPT ![s] = e]
  /\ accepts' = [accepts EXCEPT ![s] = FALSE]
  /\ UNCHANGED <<out, notified>>

Announce(s) ==
  /\ phase[s] = "exited"
  /\ notified' = [notified EXCEPT ![s] = TRUE]
  /\ UNCHANGED <<phase, exit, out, accepts>>

Next == \E s \in SessionIds :
  \/ Begin(s) \/ Start(s) \/ Fail(s)
  \/ CloseInput(s) \/ Output(s)
  \/ Exit(s) \/ Announce(s)

Spec == Init /\ [][Next]_vars
=============================================================================
