------------------------ MODULE TerminalListingProofs -----------------------
(***************************************************************************)
(* Proofs about TerminalListing, for every set of sessions and callers.    *)
(* They go on from the invariants of TerminalStateProofs: a reader's steps *)
(* change nothing of the sessions.                                         *)
(***************************************************************************)
EXTENDS TerminalListing, TerminalStateProofs

(* What holds of the sessions beside the readers.                          *)
Sessions == IInv /\ Tracked /\ Answers /\ RegistryConsistent

LEMMA SessionsInit == Init => Sessions
  BY IInvInit DEF Init, Sessions, Tracked, LiveTracked, Answers, NoReply, RegistryConsistent

LEMMA SessionsStep ==
  ASSUME "reset" \notin Ops, Sessions, [Next]_vars
  PROVE  Sessions'
  BY IInvStep, TrackedStep, AnswersStep, RegistryStep DEF Sessions, IInv

(* A command that was started stays one.                                   *)
LEMMA WaiterStays ==
  ASSUME IInv, [Next]_vars
  PROVE  \A s \in SessionIds : waiter[s] # "none" => waiter'[s] # "none"
  <1> USE DEF IInv, ArgOK, TypeOK
  <1>1. ASSUME NEW c \in Callers,
               \/ StartStep(c) \/ WaitStep(c) \/ GetStep(c)
               \/ SendStep(c) \/ KillStep(c) \/ ResetStep(c),
               NEW s \in SessionIds, waiter[s] # "none"
        PROVE  waiter'[s] # "none"
    BY <1>1
    DEF StartStep, CallStart, Register, Exec, ExecFails, Unregister, StartSnap,
        WaitStep, WaitLookup, WaitDone, WaitTimeout, WaitSnap,
        GetStep, CallGet, Lookup, GetSnap,
        SendStep, CallSend, SendCheck, SendWrite, SendFails, SendSnap,
        KillStep, CallKill, KillCheck, KillStdin, KillPoll, KillSignal,
        KillSignalFails, KillDone, KillTimeout, KillSnap,
        ResetStep, CallReset, ResetOne, ResetReturns
  <1>2. ASSUME NEW x \in SessionIds, Wait(x) \/ Copying(x) \/ Command(x),
               NEW s \in SessionIds, waiter[s] # "none"
        PROVE  waiter'[s] # "none"
    BY <1>2
    DEF Wait, WaitProcess, WaitCopiers, WaitErrText, WaitPublish, WaitClose,
        Copying, Copy, Command, Write, ReadStdin, Fork, ChildExit, ShellExit, ShellDies
  <1>3. CASE Store \/ UNCHANGED vars
    BY <1>3 DEF Store, vars
  <1> QED
    BY NextSteps, <1>1, <1>2, <1>3

-----------------------------------------------------------------------------
(* A snapshot that was taken of a session: if it says that the session has *)
(* ended, it says how, and nothing of that has changed.                    *)
Snapshot(e) ==
  /\ e.id \in SessionIds
  /\ shell[e.id] # "free"
  /\ ~e.running => /\ e.exit # "none"
                   /\ e.exit = exitCode[e.id]
                   /\ e.out = output[e.id]

LEMMA SnapshotStays ==
  ASSUME IInv, [Next]_vars, NEW e, Snapshot(e)
  PROVE  Snapshot(e)'
  BY StableStep, Monotone DEF Snapshot, Stable

LEMMA SnapshotTaken ==
  ASSUME IInv, NEW s \in SessionIds, shell[s] # "free"
  PROVE  Snapshot([id |-> s, running |-> running[s], exit |-> exitCode[s], out |-> output[s]])
  BY DEF IInv, SessionInv, Snapshot

(* The reader: what it collects and what it has looked at are apart, and   *)
(* all that was running when it began is in one or the other.              *)
ReaderInv ==
  /\ reader = "idle" => collected = {} /\ entries = {} /\ live = {}
  /\ collected \subseteq SessionIds /\ \A s \in collected : shell[s] # "free"
  /\ \A e \in entries : Snapshot(e) /\ e.id \notin collected
  /\ \A d, e \in entries : d.id = e.id => d = e
  /\ \A s \in live : s \in SessionIds /\ waiter[s] # "none"
  /\ live \subseteq collected \cup {e.id : e \in entries}

(* Its last answer.                                                        *)
ListedInv ==
  /\ \A i \in DOMAIN listed : Snapshot(listed[i])
  /\ \A i, j \in DOMAIN listed : listed[i].id = listed[j].id => i = j
  /\ NewestFirst(listed)

LInv == Sessions /\ ReaderInv /\ ListedInv

LEMMA LInvInit == ListInit => LInv
  BY SessionsInit DEF ListInit, LInv, ReaderInv, ListedInv, NewestFirst

(* A step of the rest: sessions that are known keep their place.           *)
LEMMA OtherInv ==
  ASSUME "reset" \notin Ops, LInv, Other
  PROVE  LInv'
  <1>1. /\ [Next]_vars /\ Sessions /\ IInv
        /\ UNCHANGED <<reader, collected, entries, listed, live>>
    BY DEF LInv, Sessions, Other
  <1>2. Sessions'
    BY <1>1, SessionsStep
  <1>3. ReaderInv'
    BY <1>1, SnapshotStays, WaiterStays, Monotone DEF LInv, ReaderInv
  <1>4. ASSUME NEW s \in SessionIds, shell[s] # "free" PROVE startedAt'[s] = startedAt[s]
    BY <1>4 DEF Other, Made
  <1>5. ListedInv'
    <2>1. \A i \in DOMAIN listed : startedAt'[listed[i].id] = startedAt[listed[i].id]
      BY <1>4 DEF LInv, ListedInv, Snapshot
    <2> QED
      BY <1>1, <2>1, SnapshotStays DEF LInv, ListedInv, NewestFirst
  <1> QED
    BY <1>2, <1>3, <1>5 DEF LInv

(* A step of the reader, which sees the sessions and leaves them alone.    *)
LEMMA SessionsSeen ==
  ASSUME LInv, UNCHANGED vars
  PROVE  /\ Sessions' /\ \A s : waiter'[s] = waiter[s] /\ shell'[s] = shell[s]
         /\ \A e : Snapshot(e) => Snapshot(e)'
  BY DEF LInv, Sessions, IInv, ArgOK, TypeOK, StartersInv, Starting, SessionInv, Tracked,
         LiveTracked, Answers, RegistryConsistent, Snapshot, vars, registry, fields, process, locals

LEMMA CollectInv ==
  ASSUME "reset" \notin Ops, LInv, CallList \/ CallLast
  PROVE  LInv'
  <1>1. UNCHANGED vars /\ reader = "idle" /\ UNCHANGED <<startedAt, entries>> /\ listed' = <<>>
    BY DEF CallList, CallLast, Collect
  <1>2. /\ Sessions' /\ \A s : waiter'[s] = waiter[s] /\ shell'[s] = shell[s]
    BY <1>1, SessionsSeen
  <1>3. sessions \subseteq SessionIds /\ \A s \in sessions : shell[s] # "free"
    BY DEF LInv, Sessions, IInv, ArgOK, TypeOK, Answers
  <1>4. collected' \subseteq sessions
    BY DEF CallList, CallLast, Collect, LInv, Sessions, RegistryConsistent
  <1>5. live' \subseteq collected' /\ \A s \in live' : s \in SessionIds /\ waiter[s] # "none"
    <2>1. CASE CallList
      BY <2>1 DEF CallList, Collect, LInv, Sessions, Tracked, LiveTracked
    <2>2. CASE CallLast
      BY <1>3, <2>2 DEF CallLast, Collect, LInv, Sessions, RegistryConsistent
    <2> QED
      BY <2>1, <2>2
  <1>6. entries' = {} /\ reader' # "idle"
    BY <1>1 DEF LInv, ReaderInv, CallList, CallLast, Collect
  <1>7. ReaderInv'
    BY <1>2, <1>3, <1>4, <1>5, <1>6 DEF ReaderInv
  <1>8. ListedInv'
    BY <1>1 DEF ListedInv, NewestFirst
  <1> QED
    BY <1>2, <1>7, <1>8 DEF LInv

LEMMA LookInv ==
  ASSUME LInv, NEW s \in SessionIds, Look(s) \/ LookFails(s)
  PROVE  LInv'
  <1>1. /\ UNCHANGED vars /\ UNCHANGED <<startedAt, reader, listed, live>>
        /\ s \in collected /\ collected' = collected \ {s}
    BY DEF Look, LookFails
  <1>2. /\ Sessions' /\ \A x : waiter'[x] = waiter[x] /\ shell'[x] = shell[x]
        /\ \A e : Snapshot(e) => Snapshot(e)'
    BY <1>1, SessionsSeen
  <1>3. ListedInv'
    BY <1>1, <1>2 DEF LInv, ListedInv, NewestFirst
  <1>4. reader # "idle" /\ shell[s] # "free"
    BY <1>1 DEF LInv, ReaderInv
  <1>5. CASE Look(s)
    <2>1. PICK new : new = [id |-> s, running |-> running[s], exit |-> exitCode[s],
                            out |-> output[s]]
      OBVIOUS
    <2>2. entries' = entries \cup {new} /\ new.id = s
      BY <1>5, <2>1 DEF Look
    <2>3. Snapshot(new)
      BY <1>4, <2>1, SnapshotTaken DEF LInv, Sessions
    <2>4. Snapshot(new)'
      BY <1>2, <2>3
    <2>5. \A e \in entries' : Snapshot(e)' /\ e.id \notin collected'
      BY <1>1, <1>2, <2>2, <2>4 DEF LInv, ReaderInv
    <2>6. \A d, e \in entries' : d.id = e.id => d = e
      BY <1>1, <2>2 DEF LInv, ReaderInv
    <2>7. live' \subseteq collected' \cup {e.id : e \in entries'}
      BY <1>1, <2>2 DEF LInv, ReaderInv
    <2>8. ReaderInv'
      BY <1>1, <1>2, <1>4, <2>5, <2>6, <2>7 DEF LInv, ReaderInv
    <2> QED
      BY <1>2, <1>3, <2>8 DEF LInv
  <1>6. CASE LookFails(s)
    <2>1. s \notin sessions /\ entries' = entries
      BY <1>6 DEF LookFails
    <2>2. s \notin live
      BY <2>1 DEF LInv, ReaderInv, Sessions, Tracked, LiveTracked
    <2>3. ReaderInv'
      BY <1>1, <1>2, <1>4, <2>1, <2>2 DEF LInv, ReaderInv
    <2> QED
      BY <1>2, <1>3, <2>3 DEF LInv
  <1> QED
    BY <1>5, <1>6

LEMMA AnswerInv ==
  ASSUME LInv, Answer
  PROVE  LInv'
  <1>1. /\ UNCHANGED vars /\ UNCHANGED <<startedAt, collected>> /\ collected = {}
        /\ entries' = {} /\ live' = {}
        /\ listed' \in Orders(entries) /\ NewestFirst(listed')
    BY DEF Answer
  <1>2. Sessions' /\ \A e : Snapshot(e) => Snapshot(e)'
    BY <1>1, SessionsSeen
  <1>3. ReaderInv'
    BY <1>1 DEF ReaderInv
  <1>4. PICK seq \in Orders(entries) : listed' = seq
    BY <1>1
  <1>5. /\ \A i \in DOMAIN seq : seq[i] \in entries
        /\ \A i, j \in DOMAIN seq : seq[i] = seq[j] => i = j
    BY <1>4 DEF Orders
  <1>6. NewestFirst(listed)'
    BY <1>1 DEF NewestFirst
  <1>7. ListedInv'
    BY <1>2, <1>4, <1>5, <1>6 DEF LInv, ReaderInv, ListedInv
  <1> QED
    BY <1>2, <1>3, <1>7 DEF LInv

(* Whatever sessions start, end or fail to start between the two locks, a  *)
(* listing has each session with a command once, newest first, and what it *)
(* says of an end is true for good; as long as no test calls Reset.        *)
THEOREM ListingHolds ==
  ASSUME "reset" \notin Ops
  PROVE  ListSpec => []ListingCorrect
  <1>1. LInv /\ [ListNext]_allVars => LInv'
    <2> SUFFICES ASSUME LInv, [ListNext]_allVars PROVE LInv'
      OBVIOUS
    <2>1. CASE UNCHANGED allVars
      <3>1. UNCHANGED vars /\ UNCHANGED listVars
        BY <2>1 DEF allVars
      <3>2. /\ Sessions' /\ \A s : waiter'[s] = waiter[s] /\ shell'[s] = shell[s]
            /\ \A e : Snapshot(e) => Snapshot(e)'
        BY <3>1, SessionsSeen
      <3> QED
        BY <3>1, <3>2 DEF LInv, ReaderInv, ListedInv, NewestFirst, listVars
    <2> QED
      BY <2>1, OtherInv, CollectInv, LookInv, AnswerInv DEF ListNext
  <1>2. LInv => ListingCorrect
    <2> SUFFICES ASSUME LInv PROVE ListingCorrect
      OBVIOUS
    <2>1. ASSUME NEW i \in DOMAIN listed, ~listed[i].running
          PROVE  /\ listed[i].exit # "none"
                 /\ listed[i].exit = exitCode[listed[i].id]
                 /\ listed[i].out = written[listed[i].id]
      <3>1. Snapshot(listed[i])
        BY DEF LInv, ListedInv
      <3> QED
        BY <2>1, <3>1 DEF Snapshot, LInv, Sessions, IInv, SessionInv
    <2> QED
      BY <2>1 DEF LInv, ReaderInv, ListedInv, ListingCorrect
  <1> QED
    BY <1>1, <1>2, LInvInit, PTL DEF ListSpec

(* Readers only look: what is proved of TerminalState holds beside them.   *)
THEOREM ReadersOnlyLook == ListSpec => Spec
  <1>1. ListInit => Init
    BY DEF ListInit
  <1>2. [ListNext]_allVars => [Next]_vars
    BY DEF ListNext, Other, CallList, CallLast, Collect, Look, LookFails, Answer, allVars
  <1> QED
    BY <1>1, <1>2, PTL DEF ListSpec, Spec
=============================================================================
