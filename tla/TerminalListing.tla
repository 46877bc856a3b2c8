-------------------------- MODULE TerminalListing ---------------------------
(***************************************************************************)
(* The readers of the registry, execute_listTerminals (ListSnapshots of    *)
(* terminalstate/state.go) and read_terminalLastCommand (LastSnapshot),    *)
(* beside the calls of TerminalState: the sessions are collected under one *)
(* lock and looked at one by one later, while they are started, end, and   *)
(* leave the registry because their start failed.                          *)
(***************************************************************************)
EXTENDS TerminalState

VARIABLES
  clock,      \* the millisecond of the latest start
  startedAt,  \* session.startedAtMS
  reader,     \* the call under way: "list", "last", or "idle"
  collected,  \* sessions it still has to look at
  entries,    \* the snapshots it has taken
  listed,     \* its last answer
  live        \* history: of the sessions it is about, those with a command

listVars == <<clock, startedAt, reader, collected, entries, listed, live>>
allVars  == <<vars, listVars>>

ListInit ==
  /\ Init
  /\ clock = 0
  /\ startedAt = [s \in SessionIds |-> 0]
  /\ reader = "idle"
  /\ collected = {}
  /\ entries = {}
  /\ listed = <<>>
  /\ live = {}

-----------------------------------------------------------------------------
(* StartWithOptions gives a session its time when it makes it, before it   *)
(* takes the lock that registers it: the millisecond of the start before,  *)
(* or a later one.                                                         *)
Made(s) == shell[s] = "free" /\ shell'[s] # "free"

Other ==
  /\ Next
  /\ \/ UNCHANGED clock
     \/ /\ \E s \in SessionIds : Made(s)
        /\ \E s \in SessionIds : shell[s] # "free"
        /\ clock' = clock + 1
  /\ startedAt' = [s \in SessionIds |-> IF Made(s) THEN clock' ELSE startedAt[s]]
  /\ UNCHANGED <<reader, collected, entries, listed, live>>

(* Under mu.                                                               *)
Collect(op, ids, about) ==
  /\ reader = "idle"
  /\ reader' = op
  /\ collected' = ids
  /\ live' = {s \in about \ {NoID} : waiter[s] # "none"}
  /\ listed' = <<>>
  /\ UNCHANGED <<vars, clock, startedAt, entries>>

CallList == Collect("list", sessions, SessionIds)

(* Without a session registered last, the synthetic snapshot is answered,  *)
(* or an empty one.                                                        *)
CallLast == Collect("last", {lastID} \ {NoID}, {lastID})

(* Mutant of Look: the exit is read under another hold of the lock than    *)
(* running, so that it may be that of before.                              *)
LookTorn(s) ==
  /\ s \in collected
  /\ reader = "list" \/ s \in sessions
  /\ collected' = collected \ {s}
  /\ entries' \in {entries \cup {[id |-> s, running |-> running[s], exit |-> e, out |-> output[s]]} :
                     e \in {exitCode[s], "none"}}
  /\ UNCHANGED <<vars, clock, startedAt, reader, listed, live>>

(* snapshot, under the session's lock.                                     *)
Look(s) ==
  /\ s \in collected
  /\ reader = "list" \/ s \in sessions
  /\ collected' = collected \ {s}
  /\ entries' = entries \cup
       {[id |-> s, running |-> running[s], exit |-> exitCode[s], out |-> output[s]]}
  /\ UNCHANGED <<vars, clock, startedAt, reader, listed, live>>

(* LastSnapshot looks its id up again: its start may have failed since.    *)
LookFails(s) ==
  /\ s \in collected
  /\ reader = "last" /\ s \notin sessions
  /\ collected' = collected \ {s}
  /\ UNCHANGED <<vars, clock, startedAt, reader, entries, listed, live>>

NewestFirst(seq) ==
  \A i, j \in DOMAIN seq : i < j => startedAt[seq[i].id] >= startedAt[seq[j].id]

Orders(S) ==
  {seq \in [1..Cardinality(S) -> S] : \A i, j \in DOMAIN seq : seq[i] = seq[j] => i = j}

(* sort.Slice is not stable: sessions of one millisecond come in any order. *)
Answer ==
  /\ reader # "idle" /\ collected = {}
  /\ reader' = "idle"
  /\ entries' = {}
  /\ listed' \in {seq \in Orders(entries) : NewestFirst(seq)}
  /\ live' = {}
  /\ UNCHANGED <<vars, clock, startedAt, collected>>

ListNext ==
  \/ Other
  \/ CallList \/ CallLast \/ Answer
  \/ \E s \in SessionIds : Look(s) \/ LookFails(s)

ListSpec == ListInit /\ [][ListNext]_allVars

-----------------------------------------------------------------------------
(* The listing, "newest first", names each session once, and each one that *)
(* had a command when the call began, although the snapshots are taken one *)
(* after the other; the last command is that of the session registered     *)
(* last, if it had one.  A session said to be completed is so for good,    *)
(* with the exit code and all of the output.  Only Reset, which no tool    *)
(* calls, takes a session away between the two locks.                      *)
ListingCorrect ==
  /\ live \subseteq collected \cup {e.id : e \in entries}
  /\ NewestFirst(listed)
  /\ \A i, j \in DOMAIN listed : listed[i].id = listed[j].id => i = j
  /\ \A i \in DOMAIN listed : ~listed[i].running =>
       /\ listed[i].exit # "none"
       /\ listed[i].exit = exitCode[listed[i].id]
       /\ listed[i].out = written[listed[i].id]
=============================================================================
