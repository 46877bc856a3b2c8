------------------------ MODULE TerminalStateProofs ------------------------
(***************************************************************************)
(* Proofs about TerminalState, for every set of sessions and callers, every*)
(* set of calls and every length of output.                                *)
(***************************************************************************)
EXTENDS TerminalState, TLAPS

-----------------------------------------------------------------------------
(* The steps of Next, by whose they are: a proof about a step has one case *)
(* for each action.                                                        *)

StartStep(c) ==
  \/ \E s \in SessionIds, m \in {"async", "sync", "timed"} : CallStart(c, s, m)
  \/ Register(c) \/ Exec(c) \/ ExecFails(c) \/ Unregister(c) \/ StartSnap(c)

WaitStep(c) == WaitLookup(c) \/ WaitDone(c) \/ WaitTimeout(c) \/ WaitSnap(c)

GetStep(c) == (\E s \in SessionIds : CallGet(c, s)) \/ GetSnap(c)

SendStep(c) ==
  \/ \E s \in SessionIds : CallSend(c, s)
  \/ SendCheck(c) \/ SendWrite(c) \/ SendFails(c) \/ SendSnap(c)

KillStep(c) ==
  \/ \E s \in SessionIds : CallKill(c, s)
  \/ KillCheck(c) \/ KillStdin(c) \/ KillPoll(c) \/ KillSignal(c)
  \/ KillSignalFails(c) \/ KillDone(c) \/ KillTimeout(c) \/ KillSnap(c)

ResetStep(c) ==
  CallReset(c) \/ (\E s \in SessionIds : ResetOne(c, s)) \/ ResetReturns(c)

LEMMA NextSteps ==
  ASSUME Next
  PROVE  \/ \E c \in Callers : \/ StartStep(c) \/ WaitStep(c) \/ GetStep(c)
                               \/ SendStep(c) \/ KillStep(c) \/ ResetStep(c)
         \/ Store
         \/ \E s \in SessionIds : Wait(s) \/ Copying(s) \/ Command(s)
  BY DEF Next, Call, Handle, Timeout, StartStep, WaitStep, GetStep, SendStep,
         KillStep, ResetStep

-----------------------------------------------------------------------------
(* Type correctness.  The local variables of a call under way are needed   *)
(* beside TypeOK: a caller that is in a call has a session.                *)

ArgOK ==
  /\ TypeOK
  /\ \A c \in Callers : pc[c] \notin {"idle", "resetLoop"} => arg[c] \in SessionIds

LEMMA ArgOKInit == Init => ArgOK
  <1>1. NoReply \in Replies
    BY DEF NoReply, Replies
  <1>2. 0 \in 0..StdinCap
    BY TerminalAssumption DEF TerminalAssumption
  <1> SUFFICES ASSUME Init PROVE ArgOK
    OBVIOUS
  <1>3. \A c \in Callers : pc[c] = "idle"
    BY DEF Init
  <1>4. TypeOK
    BY <1>1, <1>2 DEF Init, TypeOK, Exits
  <1> QED
    BY <1>3, <1>4 DEF ArgOK

(* A handler that returns a reply leaves the types alone, and has no       *)
(* session any more.                                                       *)
LEMMA ArgOKReturn ==
  ASSUME ArgOK, NEW c \in Callers, NEW from, NEW r \in Replies, Return(c, from, r),
         UNCHANGED <<registry, fields, waiter, process, locals>>
  PROVE  ArgOK'
  BY DEF ArgOK, TypeOK, Return, Goto, registry, fields, process, locals

LEMMA RepliesOK ==
  ASSUME TypeOK, NEW s \in SessionIds
  PROVE  Running(s) \in Replies /\ Completed(s) \in Replies /\ Failure(s) \in Replies
  BY DEF TypeOK, Replies, Running, Completed, Failure

LEMMA ArgOKLookup ==
  ASSUME ArgOK, NEW c \in Callers, NEW s \in SessionIds, NEW op,
         NEW next \in {"getSnap", "sendCheck", "killCheck"}, Lookup(c, s, op, next)
  PROVE  ArgOK'
  <1>1. NoReply \in Replies /\ Failure(s) \in Replies
    BY DEF NoReply, Failure, Replies
  <1>2. CASE s \in sessions
    BY <1>1, <1>2 DEF ArgOK, TypeOK, Lookup, registry, fields, process
  <1>3. CASE s \notin sessions
    BY <1>1, <1>3 DEF ArgOK, TypeOK, Lookup, registry, fields, process
  <1> QED
    BY <1>2, <1>3

LEMMA ArgOKStart ==
  ASSUME ArgOK, NEW c \in Callers, StartStep(c)
  PROVE  ArgOK'
  <1>1. CASE \E s \in SessionIds, m \in {"async", "sync", "timed"} : CallStart(c, s, m)
    BY <1>1 DEF ArgOK, TypeOK, CallStart, Goto, NoReply, Replies, registry, fields
  <1>2. CASE Register(c)
    BY <1>2 DEF ArgOK, TypeOK, Register, Goto, fields, process, locals
  <1>3. CASE Exec(c)
    BY <1>3 DEF ArgOK, TypeOK, Exec, Goto, registry, fields, locals
  <1>4. CASE ExecFails(c)
    BY <1>4 DEF ArgOK, TypeOK, ExecFails, Goto, registry, locals
  <1>5. CASE Unregister(c)
    BY <1>5 DEF ArgOK, TypeOK, Unregister, Return, Goto, Failure, Replies, fields, process, locals
  <1>6. CASE StartSnap(c)
    <2>1. arg[c] \in SessionIds
      BY <1>6 DEF ArgOK, TypeOK, StartSnap, Return, Goto
    <2> QED
      BY <1>6, <2>1, RepliesOK, ArgOKReturn DEF StartSnap, ArgOK
  <1> QED
    BY StartStep(c), <1>1, <1>2, <1>3, <1>4, <1>5, <1>6 DEF StartStep

LEMMA ArgOKWait ==
  ASSUME ArgOK, NEW c \in Callers, WaitStep(c)
  PROVE  ArgOK'
  <1>1. CASE WaitLookup(c)
    <2>1. arg[c] \in SessionIds
      BY <1>1 DEF ArgOK, TypeOK, WaitLookup, Return, Goto
    <2>2. CASE UNCHANGED reply
      BY <1>1, <2>1, <2>2 DEF ArgOK, TypeOK, WaitLookup, Return, Goto, registry, fields, process, locals
    <2>3. CASE ~UNCHANGED reply
      BY <1>1, <2>1, <2>3, RepliesOK, ArgOKReturn DEF WaitLookup, ArgOK
    <2> QED
      BY <2>2, <2>3
  <1>2. CASE WaitDone(c)
    BY <1>2 DEF ArgOK, TypeOK, WaitDone, Goto, registry, fields, process, locals
  <1>3. CASE WaitTimeout(c)
    BY <1>3 DEF ArgOK, TypeOK, WaitTimeout, Goto, registry, fields, process, locals
  <1>4. CASE WaitSnap(c)
    <2>1. arg[c] \in SessionIds
      BY <1>4 DEF ArgOK, TypeOK, WaitSnap, Return, Goto
    <2> QED
      BY <1>4, <2>1, RepliesOK, ArgOKReturn DEF WaitSnap, ArgOK
  <1> QED
    BY WaitStep(c), <1>1, <1>2, <1>3, <1>4 DEF WaitStep

LEMMA ArgOKGet ==
  ASSUME ArgOK, NEW c \in Callers, GetStep(c)
  PROVE  ArgOK'
  <1>1. CASE \E s \in SessionIds : CallGet(c, s)
    BY <1>1, ArgOKLookup DEF CallGet
  <1>2. CASE GetSnap(c)
    <2>1. arg[c] \in SessionIds
      BY <1>2 DEF ArgOK, TypeOK, GetSnap, Return, Goto
    <2> QED
      BY <1>2, <2>1, RepliesOK, ArgOKReturn DEF GetSnap, ArgOK
  <1> QED
    BY GetStep(c), <1>1, <1>2 DEF GetStep

LEMMA ArgOKSend ==
  ASSUME ArgOK, NEW c \in Callers, SendStep(c)
  PROVE  ArgOK'
  <1>1. CASE \E s \in SessionIds : CallSend(c, s)
    BY <1>1, ArgOKLookup DEF CallSend
  <1>2. CASE SendCheck(c)
    <2>1. arg[c] \in SessionIds
      BY <1>2 DEF ArgOK, TypeOK, SendCheck, Return, Goto
    <2>2. CASE UNCHANGED reply
      BY <1>2, <2>1, <2>2 DEF ArgOK, TypeOK, SendCheck, Return, Goto, registry, fields, process, locals
    <2>3. CASE ~UNCHANGED reply
      BY <1>2, <2>1, <2>3, RepliesOK, ArgOKReturn DEF SendCheck, ArgOK
    <2> QED
      BY <2>2, <2>3
  <1>3. CASE SendWrite(c)
    BY <1>3, TerminalAssumption DEF ArgOK, TypeOK, TerminalAssumption, SendWrite, Goto, registry, fields, locals
  <1>4. CASE SendFails(c)
    <2>1. arg[c] \in SessionIds
      BY <1>4 DEF ArgOK, TypeOK, SendFails, Return, Goto
    <2> QED
      BY <1>4, <2>1, RepliesOK, ArgOKReturn DEF SendFails, ArgOK
  <1>5. CASE SendSnap(c)
    <2>1. arg[c] \in SessionIds
      BY <1>5 DEF ArgOK, TypeOK, SendSnap, Return, Goto
    <2> QED
      BY <1>5, <2>1, RepliesOK, ArgOKReturn DEF SendSnap, ArgOK
  <1> QED
    BY SendStep(c), <1>1, <1>2, <1>3, <1>4, <1>5 DEF SendStep

LEMMA ArgOKKill ==
  ASSUME ArgOK, NEW c \in Callers, KillStep(c)
  PROVE  ArgOK'
  <1>1. CASE \E s \in SessionIds : CallKill(c, s)
    BY <1>1, ArgOKLookup DEF CallKill
  <1>2. CASE KillCheck(c)
    <2>1. arg[c] \in SessionIds
      BY <1>2 DEF ArgOK, TypeOK, KillCheck, Return, Goto
    <2>2. CASE UNCHANGED reply
      BY <1>2, <2>1, <2>2 DEF ArgOK, TypeOK, KillCheck, Return, Goto, registry, fields, process, locals
    <2>3. CASE ~UNCHANGED reply
      BY <1>2, <2>1, <2>3, RepliesOK, ArgOKReturn DEF KillCheck, ArgOK
    <2> QED
      BY <2>2, <2>3
  <1>3. CASE KillStdin(c)
    BY <1>3 DEF ArgOK, TypeOK, KillStdin, Goto, registry, process, locals
  <1>4. CASE KillPoll(c)
    BY <1>4 DEF ArgOK, TypeOK, KillPoll, Goto, registry, fields, process, locals
  <1>5. CASE KillSignal(c)
    BY <1>5 DEF ArgOK, TypeOK, KillSignal, Signal, Goto, registry, fields, locals
  <1>6. CASE KillSignalFails(c)
    <2>1. arg[c] \in SessionIds
      BY <1>6 DEF ArgOK, TypeOK, KillSignalFails, Return, Goto
    <2> QED
      BY <1>6, <2>1, RepliesOK, ArgOKReturn DEF KillSignalFails, ArgOK
  <1>7. CASE KillDone(c)
    BY <1>7 DEF ArgOK, TypeOK, KillDone, Goto, registry, fields, process, locals
  <1>8. CASE KillTimeout(c)
    <2>1. arg[c] \in SessionIds
      BY <1>8 DEF ArgOK, TypeOK, KillTimeout, Return, Goto
    <2> QED
      BY <1>8, <2>1, RepliesOK, ArgOKReturn DEF KillTimeout, ArgOK
  <1>9. CASE KillSnap(c)
    <2>1. arg[c] \in SessionIds
      BY <1>9 DEF ArgOK, TypeOK, KillSnap, Return, Goto
    <2> QED
      BY <1>9, <2>1, RepliesOK, ArgOKReturn DEF KillSnap, ArgOK
  <1> QED
    BY KillStep(c), <1>1, <1>2, <1>3, <1>4, <1>5, <1>6, <1>7, <1>8, <1>9 DEF KillStep

LEMMA ArgOKReset ==
  ASSUME ArgOK, NEW c \in Callers, ResetStep(c)
  PROVE  ArgOK'
  <1>1. CASE CallReset(c)
    BY <1>1 DEF ArgOK, TypeOK, CallReset, Goto, NoReply, Replies, fields, process
  <1>2. CASE \E s \in SessionIds : ResetOne(c, s)
    BY <1>2 DEF ArgOK, TypeOK, ResetOne, Signal, registry
  <1>3. CASE ResetReturns(c)
    BY <1>3 DEF ArgOK, TypeOK, ResetReturns, Goto, registry, fields, process, locals
  <1> QED
    BY ResetStep(c), <1>1, <1>2, <1>3 DEF ResetStep

LEMMA ArgOKWaiter ==
  ASSUME ArgOK, NEW s \in SessionIds, Wait(s)
  PROVE  ArgOK'
  <1>1. CASE WaitProcess(s)
    BY <1>1 DEF ArgOK, TypeOK, WaitProcess, Exits, registry, fields, locals
  <1>2. CASE WaitCopiers(s)
    BY <1>2 DEF ArgOK, TypeOK, WaitCopiers, registry, process, locals
  <1>3. CASE WaitErrText(s)
    BY <1>3 DEF ArgOK, TypeOK, WaitErrText, registry, locals
  <1>4. CASE WaitPublish(s)
    BY <1>4 DEF ArgOK, TypeOK, WaitPublish, Code, Exits, registry, process, locals
  <1>5. CASE WaitClose(s)
    BY <1>5 DEF ArgOK, TypeOK, WaitClose, registry, process, locals
  <1> QED
    BY Wait(s), <1>1, <1>2, <1>3, <1>4, <1>5 DEF Wait

LEMMA ArgOKCopy ==
  ASSUME ArgOK, NEW s \in SessionIds, Copying(s)
  PROVE  ArgOK'
  BY TerminalAssumption
  DEF TerminalAssumption, ArgOK, TypeOK, Copying, Copy, registry, process, locals

LEMMA ArgOKCommand ==
  ASSUME ArgOK, NEW s \in SessionIds, Command(s)
  PROVE  ArgOK'
  <1>1. CASE Write(s)
    BY <1>1 DEF ArgOK, TypeOK, Write, registry, fields, locals
  <1>2. CASE ReadStdin(s)
    BY <1>2, TerminalAssumption DEF ArgOK, TypeOK, TerminalAssumption, ReadStdin, registry, fields, locals
  <1>3. CASE Fork(s)
    BY <1>3 DEF ArgOK, TypeOK, Fork, registry, fields, locals
  <1>4. CASE ChildExit(s)
    BY <1>4 DEF ArgOK, TypeOK, ChildExit, registry, fields, locals
  <1>5. CASE ShellExit(s)
    BY <1>5 DEF ArgOK, TypeOK, ShellExit, Exits, registry, fields, locals
  <1>6. CASE ShellDies(s)
    BY <1>6 DEF ArgOK, TypeOK, ShellDies, Exits, registry, fields, locals
  <1> QED
    BY Command(s), <1>1, <1>2, <1>3, <1>4, <1>5, <1>6 DEF Command

LEMMA ArgOKStep == ArgOK /\ [Next]_vars => ArgOK'
  <1> SUFFICES ASSUME ArgOK, [Next]_vars PROVE ArgOK'
    OBVIOUS
  <1>1. CASE UNCHANGED vars
    BY <1>1 DEF ArgOK, TypeOK, vars, registry, fields, process, locals
  <1>2. CASE Store
    BY <1>2 DEF ArgOK, TypeOK, Store, fields, process, locals
  <1> QED
    BY <1>1, <1>2, NextSteps, ArgOKStart, ArgOKWait, ArgOKGet, ArgOKSend, ArgOKKill,
       ArgOKReset, ArgOKWaiter, ArgOKCopy, ArgOKCommand

(* Every variable keeps its type, and no more lines wait in a stdin pipe   *)
(* than it holds, in every reachable state of TerminalState.               *)
THEOREM TypeCorrect == Spec => []TypeOK
  <1>1. ArgOK => TypeOK
    BY DEF ArgOK
  <1> QED
    BY <1>1, ArgOKInit, ArgOKStep, PTL DEF Spec

-----------------------------------------------------------------------------
(* The registry.  RegistryConsistent is inductive with the types.          *)

LEMMA RegistryStep ==
  ASSUME ArgOK, RegistryConsistent, [Next]_vars
  PROVE  RegistryConsistent'
  <1>1. CASE UNCHANGED registry
    BY <1>1 DEF RegistryConsistent, registry
  <1>2. ASSUME NEW c \in Callers, Register(c) PROVE RegistryConsistent'
    BY <1>2 DEF RegistryConsistent, Register
  <1>3. ASSUME NEW c \in Callers, Unregister(c) PROVE RegistryConsistent'
    BY <1>3 DEF RegistryConsistent, Unregister
  <1>4. ASSUME NEW c \in Callers, CallReset(c) PROVE RegistryConsistent'
    BY <1>4 DEF RegistryConsistent, CallReset
  <1>5. CASE Store
    BY <1>5 DEF RegistryConsistent, Store
  <1>6. ASSUME NEW c \in Callers, StartStep(c) PROVE RegistryConsistent'
    BY <1>1, <1>2, <1>3, <1>6
    DEF StartStep, CallStart, Exec, ExecFails, StartSnap
  <1>7. ASSUME NEW c \in Callers, WaitStep(c) \/ GetStep(c) \/ SendStep(c) \/ KillStep(c)
        PROVE  RegistryConsistent'
    BY <1>1, <1>7
    DEF WaitStep, WaitLookup, WaitDone, WaitTimeout, WaitSnap,
        GetStep, CallGet, Lookup, GetSnap,
        SendStep, CallSend, SendCheck, SendWrite, SendFails, SendSnap,
        KillStep, CallKill, KillCheck, KillStdin, KillPoll, KillSignal,
        KillSignalFails, KillDone, KillTimeout, KillSnap
  <1>8. ASSUME NEW c \in Callers, ResetStep(c) PROVE RegistryConsistent'
    BY <1>1, <1>4, <1>8 DEF ResetStep, ResetOne, ResetReturns
  <1>9. ASSUME NEW s \in SessionIds, Wait(s) \/ Copying(s) \/ Command(s)
        PROVE  RegistryConsistent'
    BY <1>1, <1>9
    DEF Wait, WaitProcess, WaitCopiers, WaitErrText, WaitPublish, WaitClose,
        Copying, Copy, Command, Write, ReadStdin, Fork, ChildExit, ShellExit, ShellDies
  <1>10. CASE UNCHANGED vars
    BY <1>1, <1>10 DEF vars
  <1> QED
    BY NextSteps, <1>5, <1>6, <1>7, <1>8, <1>9, <1>10

(* In every reachable state, whichever starts, failed starts, resets and   *)
(* stores of synthetic snapshots overlap, lastID names a session that is   *)
(* registered or none, and while a synthetic snapshot stands it names      *)
(* none: the last command is never both.                                   *)
THEOREM RegistryCorrect == Spec => []RegistryConsistent
  <1>1. Init => RegistryConsistent
    BY DEF Init, RegistryConsistent
  <1>2. ArgOK /\ RegistryConsistent /\ [Next]_vars => RegistryConsistent'
    BY RegistryStep
  <1> QED
    BY <1>1, <1>2, ArgOKInit, ArgOKStep, PTL DEF Spec

-----------------------------------------------------------------------------
(* The inductive invariant behind CompletedIsFinal.  The wait goroutine    *)
(* does one thing after the other, and where it stands says what is        *)
(* already true of the process, the pipes and the session's fields; the    *)
(* callers come in only where a session is started, which needs that no    *)
(* two callers start the same one.                                         *)

(* What is known of a session from where its wait goroutine stands.        *)
SessionInv(s) ==
  /\ waiter[s] = "none"    <=> shell[s] \in {"free", "unborn", "failed"}
  /\ waiter[s] = "process" <=> shell[s] \in {"live", "dying", "zombie"}
  /\ shell[s] \in {"zombie", "reaped"} <=> status[s] # "none"
  /\ waiter[s] = "none" => ~child[s] /\ written[s] = 0
  /\ output[s] <= written[s]
  /\ waiter[s] \in {"errText", "publish", "close", "finished"} =>
       ~child[s] /\ ~stdinOpen[s] /\ output[s] = written[s]
  /\ exitCode[s] # "none" <=> waiter[s] \in {"close", "finished"}
  /\ running[s] <=> shell[s] # "free" /\ exitCode[s] = "none"
  /\ done[s] <=> waiter[s] = "finished"

Starting == {"register", "exec", "unregister"}

(* A caller that starts a session is the only one that does.               *)
StartersInv ==
  \A c \in Callers :
    /\ pc[c] \in {"register", "exec"} => shell[arg[c]] = "unborn"
    /\ pc[c] = "unregister" => shell[arg[c]] = "failed"
    /\ \A d \in Callers \ {c} :
         pc[c] \in Starting /\ pc[d] \in Starting => arg[c] # arg[d]

IInv ==
  /\ ArgOK
  /\ StartersInv
  /\ \A s \in SessionIds : SessionInv(s)

LEMMA StartersStart ==
  ASSUME ArgOK, StartersInv, \A x \in SessionIds : SessionInv(x), NEW c \in Callers, StartStep(c)
  PROVE  StartersInv'
  <1>1. CASE \E s \in SessionIds, m \in {"async", "sync", "timed"} : CallStart(c, s, m)
    BY <1>1 DEF ArgOK, TypeOK, StartersInv, Starting, SessionInv, CallStart, Goto, registry
  <1>2. CASE Register(c)
    BY <1>2 DEF ArgOK, TypeOK, StartersInv, Starting, SessionInv, Register, Goto, fields, process, locals
  <1>3. CASE Exec(c)
    BY <1>3 DEF ArgOK, TypeOK, StartersInv, Starting, SessionInv, Exec, Goto, fields, locals
  <1>4. CASE ExecFails(c)
    BY <1>4 DEF ArgOK, TypeOK, StartersInv, Starting, SessionInv, ExecFails, Goto, locals
  <1>5. CASE Unregister(c)
    BY <1>5 DEF ArgOK, TypeOK, StartersInv, Starting, SessionInv, Unregister, Return, Goto, fields, process, locals
  <1>6. CASE StartSnap(c)
    BY <1>6 DEF ArgOK, TypeOK, StartersInv, Starting, SessionInv, StartSnap, Return, Goto, registry, fields, process, locals
  <1> QED
    BY StartStep(c), <1>1, <1>2, <1>3, <1>4, <1>5, <1>6 DEF StartStep

LEMMA StartersWait ==
  ASSUME ArgOK, StartersInv, \A x \in SessionIds : SessionInv(x), NEW c \in Callers, WaitStep(c)
  PROVE  StartersInv'
  <1>1. CASE WaitLookup(c)
    BY <1>1 DEF ArgOK, TypeOK, StartersInv, Starting, SessionInv, WaitLookup, Return, Goto, registry, fields, process, locals
  <1>2. CASE WaitDone(c)
    BY <1>2 DEF ArgOK, TypeOK, StartersInv, Starting, SessionInv, WaitDone, Goto, registry, fields, process, locals
  <1>3. CASE WaitTimeout(c)
    BY <1>3 DEF ArgOK, TypeOK, StartersInv, Starting, SessionInv, WaitTimeout, Goto, registry, fields, process, locals
  <1>4. CASE WaitSnap(c)
    BY <1>4 DEF ArgOK, TypeOK, StartersInv, Starting, SessionInv, WaitSnap, Return, Goto, registry, fields, process, locals
  <1> QED
    BY WaitStep(c), <1>1, <1>2, <1>3, <1>4 DEF WaitStep

LEMMA StartersGet ==
  ASSUME ArgOK, StartersInv, \A x \in SessionIds : SessionInv(x), NEW c \in Callers, GetStep(c)
  PROVE  StartersInv'
  <1>1. CASE \E s \in SessionIds : CallGet(c, s)
    BY <1>1 DEF ArgOK, TypeOK, StartersInv, Starting, SessionInv, CallGet, Lookup, fields, process
  <1>2. CASE GetSnap(c)
    BY <1>2 DEF ArgOK, TypeOK, StartersInv, Starting, SessionInv, GetSnap, Return, Goto, registry, fields, process, locals
  <1> QED
    BY GetStep(c), <1>1, <1>2 DEF GetStep

LEMMA StartersSend ==
  ASSUME ArgOK, StartersInv, \A x \in SessionIds : SessionInv(x), NEW c \in Callers, SendStep(c)
  PROVE  StartersInv'
  <1>1. CASE \E s \in SessionIds : CallSend(c, s)
    BY <1>1 DEF ArgOK, TypeOK, StartersInv, Starting, SessionInv, CallSend, Lookup, fields, process
  <1>2. CASE SendCheck(c)
    BY <1>2 DEF ArgOK, TypeOK, StartersInv, Starting, SessionInv, SendCheck, Return, Goto, registry, fields, process, locals
  <1>3. CASE SendWrite(c)
    BY <1>3 DEF ArgOK, TypeOK, StartersInv, Starting, SessionInv, SendWrite, Goto, fields, locals
  <1>4. CASE SendFails(c)
    BY <1>4 DEF ArgOK, TypeOK, StartersInv, Starting, SessionInv, SendFails, Return, Goto, registry, fields, process, locals
  <1>5. CASE SendSnap(c)
    BY <1>5 DEF ArgOK, TypeOK, StartersInv, Starting, SessionInv, SendSnap, Return, Goto, registry, fields, process, locals
  <1> QED
    BY SendStep(c), <1>1, <1>2, <1>3, <1>4, <1>5 DEF SendStep

LEMMA StartersKill ==
  ASSUME ArgOK, StartersInv, \A x \in SessionIds : SessionInv(x), NEW c \in Callers, KillStep(c)
  PROVE  StartersInv'
  <1>1. CASE \E s \in SessionIds : CallKill(c, s)
    BY <1>1 DEF ArgOK, TypeOK, StartersInv, Starting, SessionInv, CallKill, Lookup, fields, process
  <1>2. CASE KillCheck(c)
    BY <1>2 DEF ArgOK, TypeOK, StartersInv, Starting, SessionInv, KillCheck, Return, Goto, registry, fields, process, locals
  <1>3. CASE KillStdin(c)
    BY <1>3 DEF ArgOK, TypeOK, StartersInv, Starting, SessionInv, KillStdin, Goto, process, locals
  <1>4. CASE KillPoll(c)
    BY <1>4 DEF ArgOK, TypeOK, StartersInv, Starting, SessionInv, KillPoll, Goto, registry, fields, process, locals
  <1>5. CASE KillSignal(c)
    BY <1>5 DEF ArgOK, TypeOK, StartersInv, Starting, SessionInv, KillSignal, Signal, Goto, fields, locals
  <1>6. CASE KillSignalFails(c)
    BY <1>6 DEF ArgOK, TypeOK, StartersInv, Starting, SessionInv, KillSignalFails, Return, Goto, registry, fields, process, locals
  <1>7. CASE KillDone(c)
    BY <1>7 DEF ArgOK, TypeOK, StartersInv, Starting, SessionInv, KillDone, Goto, registry, fields, process, locals
  <1>8. CASE KillTimeout(c)
    BY <1>8 DEF ArgOK, TypeOK, StartersInv, Starting, SessionInv, KillTimeout, Return, Goto, registry, fields, process, locals
  <1>9. CASE KillSnap(c)
    BY <1>9 DEF ArgOK, TypeOK, StartersInv, Starting, SessionInv, KillSnap, Return, Goto, registry, fields, process, locals
  <1> QED
    BY KillStep(c), <1>1, <1>2, <1>3, <1>4, <1>5, <1>6, <1>7, <1>8, <1>9 DEF KillStep

LEMMA StartersReset ==
  ASSUME ArgOK, StartersInv, \A x \in SessionIds : SessionInv(x), NEW c \in Callers, ResetStep(c)
  PROVE  StartersInv'
  <1>1. CASE CallReset(c)
    BY <1>1 DEF ArgOK, TypeOK, StartersInv, Starting, SessionInv, CallReset, Goto, fields, process
  <1>2. CASE \E s \in SessionIds : ResetOne(c, s)
    BY <1>2 DEF ArgOK, TypeOK, StartersInv, Starting, SessionInv, ResetOne, Signal
  <1>3. CASE ResetReturns(c)
    BY <1>3 DEF ArgOK, TypeOK, StartersInv, Starting, SessionInv, ResetReturns, Goto, registry, fields, process, locals
  <1> QED
    BY ResetStep(c), <1>1, <1>2, <1>3 DEF ResetStep

LEMMA StartersWaiter ==
  ASSUME ArgOK, StartersInv, \A x \in SessionIds : SessionInv(x), NEW s \in SessionIds, Wait(s)
  PROVE  StartersInv'
  <1>1. CASE WaitProcess(s)
    BY <1>1 DEF ArgOK, TypeOK, StartersInv, Starting, SessionInv, WaitProcess, Exits, fields, locals
  <1>2. CASE WaitCopiers(s)
    BY <1>2 DEF ArgOK, TypeOK, StartersInv, Starting, SessionInv, WaitCopiers, Alive, ShellRuns, process, locals
  <1>3. CASE WaitErrText(s)
    BY <1>3 DEF ArgOK, TypeOK, StartersInv, Starting, SessionInv, WaitErrText, locals
  <1>4. CASE WaitPublish(s)
    BY <1>4 DEF ArgOK, TypeOK, StartersInv, Starting, SessionInv, WaitPublish, Code, Exits, process, locals
  <1>5. CASE WaitClose(s)
    BY <1>5 DEF ArgOK, TypeOK, StartersInv, Starting, SessionInv, WaitClose, process, locals
  <1> QED
    BY Wait(s), <1>1, <1>2, <1>3, <1>4, <1>5 DEF Wait

LEMMA StartersCommand ==
  ASSUME ArgOK, StartersInv, \A x \in SessionIds : SessionInv(x), NEW s \in SessionIds, Command(s)
  PROVE  StartersInv'
  <1>1. CASE Write(s)
    BY <1>1 DEF ArgOK, TypeOK, StartersInv, Starting, SessionInv, Write, Alive, ShellRuns, fields, locals
  <1>2. CASE ReadStdin(s)
    BY <1>2 DEF ArgOK, TypeOK, StartersInv, Starting, SessionInv, ReadStdin, fields, locals
  <1>3. CASE Fork(s)
    BY <1>3 DEF ArgOK, TypeOK, StartersInv, Starting, SessionInv, Fork, ShellRuns, fields, locals
  <1>4. CASE ChildExit(s)
    BY <1>4 DEF ArgOK, TypeOK, StartersInv, Starting, SessionInv, ChildExit, fields, locals
  <1>5. CASE ShellExit(s)
    BY <1>5 DEF ArgOK, TypeOK, StartersInv, Starting, SessionInv, ShellExit, fields, locals
  <1>6. CASE ShellDies(s)
    BY <1>6 DEF ArgOK, TypeOK, StartersInv, Starting, SessionInv, ShellDies, fields, locals
  <1> QED
    BY Command(s), <1>1, <1>2, <1>3, <1>4, <1>5, <1>6 DEF Command

LEMMA SessionStart ==
  ASSUME ArgOK, StartersInv, \A x \in SessionIds : SessionInv(x), NEW c \in Callers, StartStep(c)
  PROVE  \A x \in SessionIds : SessionInv(x)'
  <1>1. CASE \E s \in SessionIds, m \in {"async", "sync", "timed"} : CallStart(c, s, m)
    BY <1>1 DEF ArgOK, TypeOK, StartersInv, Starting, SessionInv, CallStart, Goto, registry
  <1>2. CASE Register(c)
    BY <1>2 DEF ArgOK, TypeOK, StartersInv, Starting, SessionInv, Register, Goto, fields, process, locals
  <1>3. CASE Exec(c)
    BY <1>3 DEF ArgOK, TypeOK, StartersInv, Starting, SessionInv, Exec, Goto, fields, locals
  <1>4. CASE ExecFails(c)
    BY <1>4 DEF ArgOK, TypeOK, StartersInv, Starting, SessionInv, ExecFails, Goto, locals
  <1>5. CASE Unregister(c)
    BY <1>5 DEF ArgOK, TypeOK, StartersInv, Starting, SessionInv, Unregister, Return, Goto, fields, process, locals
  <1>6. CASE StartSnap(c)
    BY <1>6 DEF ArgOK, TypeOK, StartersInv, Starting, SessionInv, StartSnap, Return, Goto, registry, fields, process, locals
  <1> QED
    BY StartStep(c), <1>1, <1>2, <1>3, <1>4, <1>5, <1>6 DEF StartStep

LEMMA SessionWait ==
  ASSUME ArgOK, StartersInv, \A x \in SessionIds : SessionInv(x), NEW c \in Callers, WaitStep(c)
  PROVE  \A x \in SessionIds : SessionInv(x)'
  <1>1. CASE WaitLookup(c)
    BY <1>1 DEF ArgOK, TypeOK, StartersInv, Starting, SessionInv, WaitLookup, Return, Goto, registry, fields, process, locals
  <1>2. CASE WaitDone(c)
    BY <1>2 DEF ArgOK, TypeOK, StartersInv, Starting, SessionInv, WaitDone, Goto, registry, fields, process, locals
  <1>3. CASE WaitTimeout(c)
    BY <1>3 DEF ArgOK, TypeOK, StartersInv, Starting, SessionInv, WaitTimeout, Goto, registry, fields, process, locals
  <1>4. CASE WaitSnap(c)
    BY <1>4 DEF ArgOK, TypeOK, StartersInv, Starting, SessionInv, WaitSnap, Return, Goto, registry, fields, process, locals
  <1> QED
    BY WaitStep(c), <1>1, <1>2, <1>3, <1>4 DEF WaitStep

LEMMA SessionGet ==
  ASSUME ArgOK, StartersInv, \A x \in SessionIds : SessionInv(x), NEW c \in Callers, GetStep(c)
  PROVE  \A x \in SessionIds : SessionInv(x)'
  <1>1. CASE \E s \in SessionIds : CallGet(c, s)
    BY <1>1 DEF ArgOK, TypeOK, StartersInv, Starting, SessionInv, CallGet, Lookup, fields, process
  <1>2. CASE GetSnap(c)
    BY <1>2 DEF ArgOK, TypeOK, StartersInv, Starting, SessionInv, GetSnap, Return, Goto, registry, fields, process, locals
  <1> QED
    BY GetStep(c), <1>1, <1>2 DEF GetStep

LEMMA SessionSend ==
  ASSUME ArgOK, StartersInv, \A x \in SessionIds : SessionInv(x), NEW c \in Callers, SendStep(c)
  PROVE  \A x \in SessionIds : SessionInv(x)'
  <1>1. CASE \E s \in SessionIds : CallSend(c, s)
    BY <1>1 DEF ArgOK, TypeOK, StartersInv, Starting, SessionInv, CallSend, Lookup, fields, process
  <1>2. CASE SendCheck(c)
    BY <1>2 DEF ArgOK, TypeOK, StartersInv, Starting, SessionInv, SendCheck, Return, Goto, registry, fields, process, locals
  <1>3. CASE SendWrite(c)
    BY <1>3 DEF ArgOK, TypeOK, StartersInv, Starting, SessionInv, SendWrite, Goto, fields, locals
  <1>4. CASE SendFails(c)
    BY <1>4 DEF ArgOK, TypeOK, StartersInv, Starting, SessionInv, SendFails, Return, Goto, registry, fields, process, locals
  <1>5. CASE SendSnap(c)
    BY <1>5 DEF ArgOK, TypeOK, StartersInv, Starting, SessionInv, SendSnap, Return, Goto, registry, fields, process, locals
  <1> QED
    BY SendStep(c), <1>1, <1>2, <1>3, <1>4, <1>5 DEF SendStep

LEMMA SessionKill ==
  ASSUME ArgOK, StartersInv, \A x \in SessionIds : SessionInv(x), NEW c \in Callers, KillStep(c)
  PROVE  \A x \in SessionIds : SessionInv(x)'
  <1>1. CASE \E s \in SessionIds : CallKill(c, s)
    BY <1>1 DEF ArgOK, TypeOK, StartersInv, Starting, SessionInv, CallKill, Lookup, fields, process
  <1>2. CASE KillCheck(c)
    BY <1>2 DEF ArgOK, TypeOK, StartersInv, Starting, SessionInv, KillCheck, Return, Goto, registry, fields, process, locals
  <1>3. CASE KillStdin(c)
    BY <1>3 DEF ArgOK, TypeOK, StartersInv, Starting, SessionInv, KillStdin, Goto, process, locals
  <1>4. CASE KillPoll(c)
    BY <1>4 DEF ArgOK, TypeOK, StartersInv, Starting, SessionInv, KillPoll, Goto, registry, fields, process, locals
  <1>5. CASE KillSignal(c)
    BY <1>5 DEF ArgOK, TypeOK, StartersInv, Starting, SessionInv, KillSignal, Signal, Goto, fields, locals
  <1>6. CASE KillSignalFails(c)
    BY <1>6 DEF ArgOK, TypeOK, StartersInv, Starting, SessionInv, KillSignalFails, Return, Goto, registry, fields, process, locals
  <1>7. CASE KillDone(c)
    BY <1>7 DEF ArgOK, TypeOK, StartersInv, Starting, SessionInv, KillDone, Goto, registry, fields, process, locals
  <1>8. CASE KillTimeout(c)
    BY <1>8 DEF ArgOK, TypeOK, StartersInv, Starting, SessionInv, KillTimeout, Return, Goto, registry, fields, process, locals
  <1>9. CASE KillSnap(c)
    BY <1>9 DEF ArgOK, TypeOK, StartersInv, Starting, SessionInv, KillSnap, Return, Goto, registry, fields, process, locals
  <1> QED
    BY KillStep(c), <1>1, <1>2, <1>3, <1>4, <1>5, <1>6, <1>7, <1>8, <1>9 DEF KillStep

LEMMA SessionReset ==
  ASSUME ArgOK, StartersInv, \A x \in SessionIds : SessionInv(x), NEW c \in Callers, ResetStep(c)
  PROVE  \A x \in SessionIds : SessionInv(x)'
  <1>1. CASE CallReset(c)
    BY <1>1 DEF ArgOK, TypeOK, StartersInv, Starting, SessionInv, CallReset, Goto, fields, process
  <1>2. CASE \E s \in SessionIds : ResetOne(c, s)
    BY <1>2 DEF ArgOK, TypeOK, StartersInv, Starting, SessionInv, ResetOne, Signal
  <1>3. CASE ResetReturns(c)
    BY <1>3 DEF ArgOK, TypeOK, StartersInv, Starting, SessionInv, ResetReturns, Goto, registry, fields, process, locals
  <1> QED
    BY ResetStep(c), <1>1, <1>2, <1>3 DEF ResetStep

LEMMA SessionWaiter ==
  ASSUME ArgOK, StartersInv, \A x \in SessionIds : SessionInv(x), NEW s \in SessionIds, Wait(s)
  PROVE  \A x \in SessionIds : SessionInv(x)'
  <1>1. CASE WaitProcess(s)
    BY <1>1 DEF ArgOK, TypeOK, StartersInv, Starting, SessionInv, WaitProcess, Exits, fields, locals
  <1>2. CASE WaitCopiers(s)
    BY <1>2 DEF ArgOK, TypeOK, StartersInv, Starting, SessionInv, WaitCopiers, Alive, ShellRuns, process, locals
  <1>3. CASE WaitErrText(s)
    BY <1>3 DEF ArgOK, TypeOK, StartersInv, Starting, SessionInv, WaitErrText, locals
  <1>4. CASE WaitPublish(s)
    BY <1>4 DEF ArgOK, TypeOK, StartersInv, Starting, SessionInv, WaitPublish, Code, Exits, process, locals
  <1>5. CASE WaitClose(s)
    BY <1>5 DEF ArgOK, TypeOK, StartersInv, Starting, SessionInv, WaitClose, process, locals
  <1> QED
    BY Wait(s), <1>1, <1>2, <1>3, <1>4, <1>5 DEF Wait

LEMMA SessionCommand ==
  ASSUME ArgOK, StartersInv, \A x \in SessionIds : SessionInv(x), NEW s \in SessionIds, Command(s)
  PROVE  \A x \in SessionIds : SessionInv(x)'
  <1>1. CASE Write(s)
    BY <1>1 DEF ArgOK, TypeOK, StartersInv, Starting, SessionInv, Write, Alive, ShellRuns, fields, locals
  <1>2. CASE ReadStdin(s)
    BY <1>2 DEF ArgOK, TypeOK, StartersInv, Starting, SessionInv, ReadStdin, fields, locals
  <1>3. CASE Fork(s)
    BY <1>3 DEF ArgOK, TypeOK, StartersInv, Starting, SessionInv, Fork, ShellRuns, fields, locals
  <1>4. CASE ChildExit(s)
    BY <1>4 DEF ArgOK, TypeOK, StartersInv, Starting, SessionInv, ChildExit, fields, locals
  <1>5. CASE ShellExit(s)
    BY <1>5 DEF ArgOK, TypeOK, StartersInv, Starting, SessionInv, ShellExit, fields, locals
  <1>6. CASE ShellDies(s)
    BY <1>6 DEF ArgOK, TypeOK, StartersInv, Starting, SessionInv, ShellDies, fields, locals
  <1> QED
    BY Command(s), <1>1, <1>2, <1>3, <1>4, <1>5, <1>6 DEF Command

LEMMA IInvInit == Init => IInv
  BY ArgOKInit DEF Init, IInv, StartersInv, Starting, SessionInv

LEMMA IInvStep == IInv /\ [Next]_vars => IInv'
  <1> SUFFICES ASSUME IInv, [Next]_vars PROVE IInv'
    OBVIOUS
  <1> USE DEF IInv
  <1>1. ArgOK'
    BY ArgOKStep
  <1>2. CASE UNCHANGED vars
    BY <1>1, <1>2
    DEF StartersInv, Starting, SessionInv, vars, fields, process, locals
  <1>3. CASE Store
    BY <1>1, <1>3
    DEF Store, StartersInv, Starting, SessionInv, fields, process, locals
  <1>4. ASSUME NEW s \in SessionIds, Copying(s) PROVE IInv'
    BY <1>1, <1>4
    DEF ArgOK, TypeOK, Copying, Copy, StartersInv, Starting, SessionInv, process, locals
  <1>5. StartersInv'
    BY <1>2, <1>3, <1>4, NextSteps, StartersStart, StartersWait, StartersGet,
       StartersSend, StartersKill, StartersReset, StartersWaiter, StartersCommand
  <1>6. \A s \in SessionIds : SessionInv(s)'
    BY <1>2, <1>3, <1>4, NextSteps, SessionStart, SessionWait, SessionGet,
       SessionSend, SessionKill, SessionReset, SessionWaiter, SessionCommand
  <1> QED
    BY <1>1, <1>5, <1>6

THEOREM Inductive == Spec => []IInv
  BY IInvInit, IInvStep, PTL DEF Spec

(* When the exit code of a session can be seen, nothing of its command is  *)
(* left, its output is complete and its stdin closed; and done is closed   *)
(* only then.                                                              *)
THEOREM CompletedCorrect == Spec => []CompletedIsFinal
  <1>1. IInv => CompletedIsFinal
    BY DEF IInv, ArgOK, TypeOK, SessionInv, CompletedIsFinal, Gone
  <1> QED
    BY <1>1, Inductive, PTL

-----------------------------------------------------------------------------
(* The exit code, the output and the end of running, once published, stay. *)

Stable == \A s \in SessionIds : exitCode[s] # "none" =>
            exitCode'[s] = exitCode[s] /\ output'[s] = output[s] /\ ~running'[s]

LEMMA StableStep ==
  ASSUME IInv, [Next]_vars
  PROVE  Stable
  <1> USE DEF IInv
  <1>1. CASE UNCHANGED <<running, exitCode, output>>
    BY <1>1 DEF Stable, SessionInv
  <1>2. ASSUME NEW c \in Callers, StartStep(c) PROVE Stable
    BY <1>1, <1>2
    DEF ArgOK, TypeOK, Stable, SessionInv, StartStep, CallStart, Register, Exec, ExecFails,
        Unregister, StartSnap, fields
  <1>3. ASSUME NEW c \in Callers,
               WaitStep(c) \/ GetStep(c) \/ SendStep(c) \/ KillStep(c) \/ ResetStep(c)
        PROVE  Stable
    BY <1>1, <1>3
    DEF WaitStep, WaitLookup, WaitDone, WaitTimeout, WaitSnap,
        GetStep, CallGet, Lookup, GetSnap,
        SendStep, CallSend, SendCheck, SendWrite, SendFails, SendSnap,
        KillStep, CallKill, KillCheck, KillStdin, KillPoll, KillSignal,
        KillSignalFails, KillDone, KillTimeout, KillSnap,
        ResetStep, CallReset, ResetOne, ResetReturns, fields
  <1>4. ASSUME NEW s \in SessionIds, Wait(s) PROVE Stable
    BY <1>1, <1>4
    DEF ArgOK, TypeOK, Stable, SessionInv, Wait, WaitProcess, WaitCopiers, WaitErrText,
        WaitPublish, WaitClose, fields
  <1>5. ASSUME NEW s \in SessionIds, Copying(s) PROVE Stable
    BY <1>5 DEF ArgOK, TypeOK, Stable, SessionInv, Copying, Copy
  <1>6. ASSUME NEW s \in SessionIds, Command(s) PROVE Stable
    BY <1>1, <1>6
    DEF Command, Write, ReadStdin, Fork, ChildExit, ShellExit, ShellDies, fields
  <1>7. CASE Store \/ UNCHANGED vars
    BY <1>1, <1>7 DEF Store, vars, fields
  <1> QED
    BY NextSteps, <1>2, <1>3, <1>4, <1>5, <1>6, <1>7

(* No step changes the exit code or the output of a session whose exit was *)
(* published, or makes it run again.                                       *)
THEOREM ExitStays == Spec => ExitIsStable
  <1>1. IInv /\ [Next]_vars => [Stable]_vars
    BY StableStep
  <1> QED
    BY <1>1, Inductive, PTL DEF Spec, ExitIsStable, Stable

-----------------------------------------------------------------------------
(* TerminalState implements SessionLifecycle.                              *)

LEMMA LifecycleInit == Init => Promised!Init
  BY DEF Init, Phase, Promised!Init

phases == [s \in SessionIds |-> Phase(s)]

LEMMA PhaseChanges ==
  ASSUME NEW s \in SessionIds, \A x \in SessionIds \ {s} : Phase(x)' = Phase(x)
  PROVE  phases' = [phases EXCEPT ![s] = Phase(s)']
  BY DEF phases

LEMMA PhasesStay ==
  ASSUME \A x \in SessionIds : Phase(x)' = Phase(x)
  PROVE  phases' = phases
  BY DEF phases

LEMMA LifecycleStart ==
  ASSUME IInv, NEW c \in Callers, StartStep(c)
  PROVE  Promised!Next \/ UNCHANGED <<exitCode, output, stdinOpen, done, shell>>
  <1> USE DEF IInv, ArgOK, TypeOK
  <1>1. ASSUME NEW s \in SessionIds, NEW m \in {"async", "sync", "timed"}, CallStart(c, s, m)
        PROVE  Promised!Begin(s)
    <2>1. Phase(s) = "free" /\ Phase(s)' = "starting"
      BY <1>1 DEF CallStart, Phase
    <2>2. phases' = [phases EXCEPT ![s] = "starting"]
      BY <1>1, <2>1, PhaseChanges DEF CallStart, Phase
    <2> QED
      BY <1>1, <2>1, <2>2 DEF CallStart, Promised!Begin, Promised!Enter, phases
  <1>2. ASSUME Exec(c) PROVE Promised!Start(arg[c])
    <2>1. arg[c] \in SessionIds /\ shell[arg[c]] = "unborn" /\ exitCode[arg[c]] = "none"
      BY <1>2 DEF Exec, Goto, StartersInv, SessionInv
    <2>2. Phase(arg[c]) = "starting" /\ Phase(arg[c])' = "running"
      BY <1>2, <2>1 DEF Exec, fields, Phase, locals
    <2>3. phases' = [phases EXCEPT ![arg[c]] = "running"]
      BY <1>2, <2>1, <2>2, PhaseChanges DEF Exec, Phase, fields, locals
    <2> QED
      BY <1>2, <2>1, <2>2, <2>3 DEF Exec, fields, Promised!Start, Promised!Enter, phases
  <1>3. ASSUME ExecFails(c) PROVE Promised!Fail(arg[c])
    <2>1. arg[c] \in SessionIds /\ shell[arg[c]] = "unborn"
      BY <1>3 DEF ExecFails, Goto, StartersInv
    <2>2. Phase(arg[c]) = "starting" /\ Phase(arg[c])' = "failed"
      BY <1>3, <2>1 DEF ExecFails, Phase, locals
    <2>3. phases' = [phases EXCEPT ![arg[c]] = "failed"]
      BY <1>3, <2>1, <2>2, PhaseChanges DEF ExecFails, Phase, locals
    <2> QED
      BY <1>3, <2>1, <2>2, <2>3 DEF ExecFails, Promised!Fail, Promised!Enter, phases
  <1>4. CASE Register(c) \/ Unregister(c) \/ StartSnap(c)
    BY <1>4 DEF Register, Unregister, StartSnap, fields, process
  <1>5. arg[c] \in SessionIds \/ pc[c] \in {"idle", "resetLoop"}
    OBVIOUS
  <1> QED
    BY <1>1, <1>2, <1>3, <1>4, <1>5
    DEF StartStep, Exec, ExecFails, Goto, Promised!Next

(* Stdin is closed by a kill, by Reset and when cmd.Wait ends; a signal    *)
(* and what the command does are no news to a client.                      *)
LEMMA LifecycleCallers ==
  ASSUME IInv, NEW c \in Callers,
         WaitStep(c) \/ GetStep(c) \/ SendStep(c) \/ KillStep(c) \/ ResetStep(c)
  PROVE  [Promised!Next]_Promised!vars
  <1> USE DEF IInv, ArgOK, TypeOK
  <1>1. ASSUME NEW s \in SessionIds, Signal(s), UNCHANGED exitCode
        PROVE  phases' = phases
    BY <1>1, PhasesStay DEF Signal, Phase
  <1>2. ASSUME NEW s \in SessionIds, phases' = phases,
               stdinOpen' = [stdinOpen EXCEPT ![s] = FALSE],
               UNCHANGED <<exitCode, output, done>>
        PROVE  Promised!Next
    BY <1>2 DEF Promised!Next, Promised!CloseInput, phases
  <1>3. CASE KillStdin(c)
    <2>1. phases' = phases
      BY <1>3, PhasesStay DEF KillStdin, process, Phase
    <2> QED
      BY <1>2, <1>3, <2>1 DEF KillStdin, Goto
  <1>4. CASE KillSignal(c)
    <2>1. arg[c] \in SessionIds
      BY <1>4 DEF KillSignal, Goto
    <2>2. phases' = phases
      BY <1>1, <1>4, <2>1 DEF KillSignal, fields
    <2> QED
      BY <1>4, <2>2 DEF KillSignal, fields, phases, Promised!vars
  <1>5. ASSUME NEW s \in SessionIds, ResetOne(c, s) PROVE Promised!Next
    <2>1. phases' = phases
      BY <1>1, <1>5, PhasesStay DEF ResetOne, Phase
    <2> QED
      BY <1>2, <1>5, <2>1 DEF ResetOne
  <1>6. ASSUME UNCHANGED <<exitCode, output, stdinOpen, done, shell>>
        PROVE  UNCHANGED Promised!vars
    BY <1>6 DEF Phase, Promised!vars
  <1>7. CASE WaitStep(c) \/ GetStep(c) \/ SendStep(c)
    BY <1>6, <1>7
    DEF WaitStep, WaitLookup, WaitDone, WaitTimeout, WaitSnap,
        GetStep, CallGet, Lookup, GetSnap,
        SendStep, CallSend, SendCheck, SendWrite, SendFails, SendSnap, fields, process
  <1>8. CASE KillStep(c)
    BY <1>3, <1>4, <1>6, <1>8
    DEF KillStep, CallKill, Lookup, KillCheck, KillPoll, KillSignalFails, KillDone,
        KillTimeout, KillSnap, fields, process
  <1>9. CASE ResetStep(c)
    BY <1>5, <1>6, <1>9 DEF ResetStep, CallReset, ResetReturns, fields, process
  <1> QED
    BY <1>7, <1>8, <1>9

LEMMA LifecycleSession ==
  ASSUME IInv, NEW s \in SessionIds, Wait(s) \/ Copying(s) \/ Command(s)
  PROVE  [Promised!Next]_Promised!vars
  <1> USE DEF IInv, ArgOK, TypeOK
  <1>1. CASE WaitCopiers(s)
    <2>1. phases' = phases
      BY <1>1, PhasesStay DEF WaitCopiers, process, Phase
    <2>2. Promised!CloseInput(s)
      BY <1>1, <2>1 DEF WaitCopiers, Promised!CloseInput, phases
    <2> QED
      BY <2>2 DEF Promised!Next
  <1>2. ASSUME NEW n \in Nat, n > 0, output' = [output EXCEPT ![s] = output[s] + n],
               waiter[s] \notin {"none", "close", "finished"},
               UNCHANGED <<exitCode, stdinOpen, done, shell>>
        PROVE  Promised!Next
    <2>1. phases' = phases
      BY <1>2, PhasesStay DEF Phase
    <2>2. Phase(s) = "running"
      BY <1>2 DEF SessionInv, Phase
    <2>3. output'[s] = output[s] + n
      BY <1>2
    <2>4. Promised!Output(s)
      BY <1>2, <2>1, <2>2, <2>3 DEF Promised!Output, phases
    <2> QED
      BY <2>4 DEF Promised!Next
  <1>3. CASE WaitErrText(s)
    <2>1. output' = [output EXCEPT ![s] = output[s] + 1]
      BY <1>3 DEF WaitErrText
    <2>2. waiter[s] = "errText" /\ UNCHANGED <<exitCode, stdinOpen, done, shell>>
      BY <1>3 DEF WaitErrText
    <2>3. 1 \in Nat /\ 1 > 0
      OBVIOUS
    <2> QED
      BY <1>2, <2>1, <2>2, <2>3
  <1>4. CASE WaitPublish(s)
    <2>1. Phase(s) = "running"
      BY <1>4 DEF WaitPublish, SessionInv, Phase
    <2>2. Code(status[s]) \in {"zero", "nonzero", "minusOne"}
      BY <1>4 DEF WaitPublish, SessionInv, Code, Exits
    <2>3. Phase(s)' = "exited"
      BY <1>4, <2>2 DEF WaitPublish, process, SessionInv, Phase
    <2>4. phases' = [phases EXCEPT ![s] = "exited"]
      BY <1>4, <2>3, PhaseChanges DEF WaitPublish, process, Phase
    <2>5. Promised!Exit(s)
      BY <1>4, <2>1, <2>2, <2>4
      DEF WaitPublish, Promised!Exit, Promised!Enter, Promised!Codes, phases
    <2> QED
      BY <2>5 DEF Promised!Next
  <1>5. CASE WaitClose(s)
    <2>1. phases' = phases
      BY <1>5, PhasesStay DEF WaitClose, process, Phase
    <2>2. Phase(s) = "exited"
      BY <1>5 DEF WaitClose, SessionInv, Phase
    <2>3. Promised!Announce(s)
      BY <1>5, <2>1, <2>2 DEF WaitClose, Promised!Announce, phases
    <2> QED
      BY <2>3 DEF Promised!Next
  <1>6. ASSUME NEW n \in 1..MaxWritten, Copy(s, n) PROVE Promised!Next
    <2>1. n \in Nat /\ n > 0
      BY TerminalAssumption DEF TerminalAssumption
    <2>2. waiter[s] \notin {"none", "close", "finished"}
      BY <1>6, <2>1 DEF Copy, SessionInv
    <2>3. output' = [output EXCEPT ![s] = output[s] + n]
      BY <1>6 DEF Copy
    <2>4. UNCHANGED <<exitCode, stdinOpen, done, shell>>
      BY <1>6 DEF Copy, process
    <2> QED
      BY <1>2, <2>1, <2>2, <2>3, <2>4
  <1>7. CASE WaitProcess(s) \/ Command(s)
    <2>1. phases' = phases
      BY <1>7, PhasesStay
      DEF WaitProcess, Command, Write, ReadStdin, Fork, ChildExit, ShellExit,
          ShellDies, fields, Phase
    <2>2. UNCHANGED <<exitCode, output, stdinOpen, done>>
      BY <1>7
      DEF WaitProcess, Command, Write, ReadStdin, Fork, ChildExit, ShellExit, ShellDies, fields
    <2> QED
      BY <2>1, <2>2 DEF phases, Promised!vars
  <1> QED
    BY <1>1, <1>3, <1>4, <1>5, <1>6, <1>7 DEF Wait, Copying, Promised!Next

LEMMA LifecycleStep ==
  ASSUME IInv, [Next]_vars
  PROVE  [Promised!Next]_Promised!vars
  <1>1. ASSUME UNCHANGED <<exitCode, output, stdinOpen, done, shell>>
        PROVE  UNCHANGED Promised!vars
    BY <1>1 DEF Phase, Promised!vars
  <1>2. CASE Store \/ UNCHANGED vars
    BY <1>1, <1>2 DEF Store, vars, fields, process
  <1> QED
    BY <1>1, <1>2, NextSteps, LifecycleStart, LifecycleCallers, LifecycleSession

(* Every behaviour of the terminal sessions is one of SessionLifecycle:    *)
(* what clients see of a session is a start, growing output, one exit and  *)
(* its announcement, in this order.                                        *)
THEOREM Refinement == Spec => Lifecycle
  <1>1. IInv /\ [Next]_vars => [Promised!Next]_Promised!vars
    BY LifecycleStep
  <1> QED
    BY <1>1, LifecycleInit, Inductive, PTL DEF Spec, Lifecycle, Promised!Spec

-----------------------------------------------------------------------------
(* No process is lost.  Without Reset, a session leaves the registry only  *)
(* by the hand of the caller that failed to start it.                      *)

Tracked ==
  /\ LiveTracked
  /\ \A c \in Callers : pc[c] \in {"exec", "unregister"} => arg[c] \in sessions

LEMMA TrackedStep ==
  ASSUME IInv, Tracked, "reset" \notin Ops, [Next]_vars
  PROVE  Tracked'
  <1> USE DEF IInv, ArgOK, TypeOK, Tracked, LiveTracked
  <1>1. CASE UNCHANGED <<sessions, waiter, pc, arg>>
    BY <1>1
  <1>2. ASSUME NEW c \in Callers, Unregister(c) PROVE Tracked'
    <2>1. waiter[arg[c]] = "none"
      BY <1>2 DEF Unregister, Return, Goto, StartersInv, SessionInv
    <2>2. \A d \in Callers \ {c} : pc[d] \in {"exec", "unregister"} => arg[d] # arg[c]
      BY <1>2 DEF Unregister, Return, Goto, StartersInv, Starting
    <2> QED
      BY <1>2, <2>1, <2>2 DEF Unregister, Return, Goto, locals
  <1>3. ASSUME NEW c \in Callers, StartStep(c) PROVE Tracked'
    BY <1>2, <1>3
    DEF StartStep, CallStart, Register, Exec, ExecFails, StartSnap, Return, Goto,
        registry, locals
  <1>4. ASSUME NEW c \in Callers, ResetStep(c) PROVE Tracked'
    BY <1>4 DEF ResetStep, CallReset, ResetOne, ResetReturns, Goto, registry, locals
  <1>5. ASSUME NEW c \in Callers, WaitStep(c) PROVE Tracked'
    BY <1>5
    DEF WaitStep, WaitLookup, WaitDone, WaitTimeout, WaitSnap, Return, Goto, registry, locals
  <1>6. ASSUME NEW c \in Callers, GetStep(c) \/ SendStep(c) \/ KillStep(c) PROVE Tracked'
    BY <1>6
    DEF GetStep, CallGet, Lookup, GetSnap,
        SendStep, CallSend, SendCheck, SendWrite, SendFails, SendSnap,
        KillStep, CallKill, KillCheck, KillStdin, KillPoll, KillSignal,
        KillSignalFails, KillDone, KillTimeout, KillSnap, Return, Goto, registry, locals
  <1>7. ASSUME NEW s \in SessionIds, Wait(s) PROVE Tracked'
    BY <1>7
    DEF Wait, WaitProcess, WaitCopiers, WaitErrText, WaitPublish, WaitClose, registry, locals
  <1>8. ASSUME NEW s \in SessionIds, Copying(s) \/ Command(s) PROVE Tracked'
    BY <1>1, <1>8
    DEF Copying, Copy, Command, Write, ReadStdin, Fork, ChildExit, ShellExit, ShellDies,
        registry, locals
  <1>9. CASE Store \/ UNCHANGED vars
    BY <1>1, <1>9 DEF Store, vars, registry, locals
  <1> QED
    BY NextSteps, <1>3, <1>4, <1>5, <1>6, <1>7, <1>8, <1>9

(* Every session whose process was started stays in the registry, where    *)
(* Kill and GetOutput find it, as long as no test calls Reset.             *)
THEOREM NoProcessLost ==
  ASSUME "reset" \notin Ops
  PROVE  Spec => []LiveTracked
  <1>1. Init => Tracked
    BY DEF Init, Tracked, LiveTracked
  <1>2. IInv /\ Tracked /\ [Next]_vars => Tracked'
    BY TrackedStep
  <1>3. Tracked => LiveTracked
    BY DEF Tracked
  <1> QED
    BY <1>1, <1>2, <1>3, Inductive, PTL DEF Spec

-----------------------------------------------------------------------------
(* What clients are told.  A caller that saw done closed answers from a    *)
(* session that is over, and stays over while the answer stands.           *)

Answers ==
  /\ \A s \in sessions : shell[s] # "free"
  /\ \A c \in Callers :
       /\ pc[c] = "getSnap" => shell[arg[c]] # "free"
       /\ pc[c] \in {"doneSnap", "killSnap"} => done[arg[c]]
       /\ reply[c].status = "completed" =>
            /\ reply[c].id \in SessionIds
            /\ reply[c].exit # "none"
            /\ reply[c].exit = exitCode[reply[c].id]
            /\ reply[c].out = output[reply[c].id]

LEMMA Monotone ==
  ASSUME IInv, [Next]_vars
  PROVE  \A s \in SessionIds : /\ done[s] => done'[s]
                               /\ shell[s] # "free" => shell'[s] # "free"
  <1> USE DEF IInv, ArgOK, TypeOK
  <1>1. ASSUME NEW c \in Callers,
               \/ StartStep(c) \/ WaitStep(c) \/ GetStep(c)
               \/ SendStep(c) \/ KillStep(c) \/ ResetStep(c),
               NEW s \in SessionIds
        PROVE  (done[s] => done'[s]) /\ (shell[s] # "free" => shell'[s] # "free")
    BY <1>1
    DEF StartStep, CallStart, Register, Exec, ExecFails, Unregister, StartSnap,
        WaitStep, WaitLookup, WaitDone, WaitTimeout, WaitSnap,
        GetStep, CallGet, Lookup, GetSnap,
        SendStep, CallSend, SendCheck, SendWrite, SendFails, SendSnap,
        KillStep, CallKill, KillCheck, KillStdin, KillPoll, KillSignal,
        KillSignalFails, KillDone, KillTimeout, KillSnap,
        ResetStep, CallReset, ResetOne, ResetReturns, Signal, fields, process
  <1>2. ASSUME NEW x \in SessionIds, Wait(x) \/ Copying(x) \/ Command(x), NEW s \in SessionIds
        PROVE  (done[s] => done'[s]) /\ (shell[s] # "free" => shell'[s] # "free")
    BY <1>2
    DEF Wait, WaitProcess, WaitCopiers, WaitErrText, WaitPublish, WaitClose,
        Copying, Copy, Command, Write, ReadStdin, Fork, ChildExit, ShellExit, ShellDies, fields, process
  <1>3. CASE Store \/ UNCHANGED vars
    BY <1>3 DEF Store, vars, fields, process
  <1> QED
    BY NextSteps, <1>1, <1>2, <1>3

(* The answers of callers that do not move stay true.                      *)
LEMMA AnswersFrame ==
  ASSUME IInv, Answers, [Next]_vars, sessions' \subseteq sessions,
         UNCHANGED <<pc, arg, reply>>
  PROVE  Answers'
  BY StableStep, Monotone DEF IInv, ArgOK, TypeOK, Answers, Stable

(* A caller that moves to a place where done is known, or answers.         *)
LEMMA AnswersMove ==
  ASSUME IInv, Answers, [Next]_vars, NEW c \in Callers,
         \A s \in sessions' \ sessions : shell'[s] # "free",
         \A d \in Callers \ {c} : pc'[d] = pc[d] /\ arg'[d] = arg[d] /\ reply'[d] = reply[d],
         pc'[c] = "getSnap" => shell'[arg'[c]] # "free",
         pc'[c] \in {"doneSnap", "killSnap"} => done'[arg'[c]],
         \/ reply'[c] = reply[c]
         \/ reply'[c].status # "completed"
         \/ \E s \in SessionIds : exitCode[s] # "none" /\ reply'[c] = Completed(s)
  PROVE  Answers'
  <1> USE DEF IInv, ArgOK, TypeOK
  <1>1. \A s \in sessions' : shell'[s] # "free"
    BY Monotone DEF Answers
  <1>2. ASSUME NEW d \in Callers
        PROVE  /\ pc'[d] = "getSnap" => shell'[arg'[d]] # "free"
               /\ pc'[d] \in {"doneSnap", "killSnap"} => done'[arg'[d]]
    BY Monotone DEF Answers
  <1>3. ASSUME NEW d \in Callers, reply'[d].status = "completed"
        PROVE  /\ reply'[d].id \in SessionIds
               /\ reply'[d].exit # "none"
               /\ reply'[d].exit = exitCode'[reply'[d].id]
               /\ reply'[d].out = output'[reply'[d].id]
    <2>1. CASE reply'[d] = reply[d]
      BY <1>3, <2>1, StableStep DEF Answers, Stable
    <2>2. CASE \E s \in SessionIds : exitCode[s] # "none" /\ reply'[d] = Completed(s)
      BY <1>3, <2>2, StableStep DEF Completed, Stable
    <2> QED
      BY <1>3, <2>1, <2>2
  <1> QED
    BY <1>1, <1>2, <1>3 DEF Answers

LEMMA AnswersCallers ==
  ASSUME IInv, Answers, [Next]_vars, NEW c \in Callers,
         \/ StartStep(c) \/ WaitStep(c) \/ GetStep(c)
         \/ SendStep(c) \/ KillStep(c) \/ ResetStep(c)
  PROVE  Answers'
  <1> USE DEF IInv, ArgOK, TypeOK, NoReply, Failure, Running, Return, Goto,
              registry, fields, process, locals
  <1>1. CASE StartStep(c)
    <2>1. \A s \in sessions' \ sessions : shell'[s] # "free"
      BY <1>1
      DEF StartStep, CallStart, Register, Exec, ExecFails, Unregister, StartSnap, StartersInv
    <2> QED
      BY <1>1, <2>1, AnswersMove
      DEF StartStep, CallStart, Register, Exec, ExecFails, Unregister, StartSnap
  <1>2. CASE WaitLookup(c) \/ WaitDone(c) \/ WaitTimeout(c)
    BY <1>2, AnswersMove DEF WaitLookup, WaitDone, WaitTimeout
  <1>3. CASE WaitSnap(c)
    <2>1. pc[c] = "doneSnap" => exitCode[arg[c]] # "none"
      BY DEF Answers, SessionInv
    <2> QED
      BY <1>3, <2>1, AnswersMove DEF WaitSnap
  <1>4. CASE \E s \in SessionIds : CallGet(c, s)
    <2>1. pc'[c] = "getSnap" => shell'[arg'[c]] # "free"
      BY <1>4 DEF CallGet, Lookup, Answers
    <2> QED
      BY <1>4, <2>1, AnswersMove DEF CallGet, Lookup
  <1>5. CASE GetSnap(c)
    <2>1. pc[c] = "getSnap" /\ ~running[arg[c]] => exitCode[arg[c]] # "none"
      BY DEF Answers, SessionInv
    <2> QED
      BY <1>5, <2>1, AnswersMove DEF GetSnap
  <1>6. CASE SendStep(c)
    BY <1>6, AnswersMove
    DEF SendStep, CallSend, Lookup, SendCheck, SendWrite, SendFails, SendSnap
  <1>7. CASE KillStep(c)
    BY <1>7, AnswersMove
    DEF KillStep, CallKill, Lookup, KillCheck, KillStdin, KillPoll, KillSignal,
        KillSignalFails, KillDone, KillTimeout, KillSnap
  <1>8. CASE ResetStep(c)
    BY <1>8, AnswersMove, AnswersFrame DEF ResetStep, CallReset, ResetOne, ResetReturns
  <1> QED
    BY <1>1, <1>2, <1>3, <1>4, <1>5, <1>6, <1>7, <1>8 DEF WaitStep, GetStep

LEMMA AnswersStep ==
  ASSUME IInv, Answers, [Next]_vars
  PROVE  Answers'
  <1>1. ASSUME NEW s \in SessionIds, Wait(s) \/ Copying(s) \/ Command(s) PROVE Answers'
    BY <1>1, AnswersFrame
    DEF Wait, WaitProcess, WaitCopiers, WaitErrText, WaitPublish, WaitClose,
        Copying, Copy, Command, Write, ReadStdin, Fork, ChildExit, ShellExit, ShellDies,
        registry, locals
  <1>2. CASE Store \/ UNCHANGED vars
    BY <1>2, AnswersFrame DEF Store, vars, registry, locals
  <1> QED
    BY NextSteps, AnswersCallers, <1>1, <1>2

THEOREM AnswersCorrect == Spec => []Answers
  <1>1. Init => Answers
    BY DEF Init, Answers, NoReply
  <1>2. IInv /\ Answers /\ [Next]_vars => Answers'
    BY AnswersStep
  <1> QED
    BY <1>1, <1>2, Inductive, PTL DEF Spec

(* A "completed" answer has the exit code, and the output to the last byte.*)
THEOREM CompletedReplyCorrect == Spec => []CompletedReplyFinal
  <1>1. IInv /\ Answers => CompletedReplyFinal
    BY DEF IInv, ArgOK, TypeOK, SessionInv, Answers, CompletedReplyFinal
  <1> QED
    BY <1>1, Inductive, AnswersCorrect, PTL

(* A kill that reports success has seen the session's end.                 *)
THEOREM KillCorrect == Spec => []KillSucceedsWhenOver
  <1>1. IInv /\ Answers => KillSucceedsWhenOver
    BY DEF IInv, ArgOK, TypeOK, SessionInv, Answers, KillSucceedsWhenOver
  <1> QED
    BY <1>1, Inductive, AnswersCorrect, PTL
=============================================================================
