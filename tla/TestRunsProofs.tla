--------------------------- MODULE TestRunsProofs ---------------------------
(***************************************************************************)
(* Proofs about TestRuns, for any callers and profiles and any number of   *)
(* runs.                                                                   *)
(***************************************************************************)
EXTENDS TestRuns, TLAPS

USE TestRunsAssumption

Active(c) == pc[c] \in {"running", "ended"}

(* A run under way has a number of its own and is not yet recorded.        *)
RunsApart ==
  /\ \A c \in Callers : pc[c] # "idle" => run[c] \in 1..runs
  /\ \A c \in Callers : Active(c) => run[c] \notin recorded
  /\ \A c, d \in Callers : c # d /\ pc[c] # "idle" /\ pc[d] # "idle" => run[c] # run[d]

(* The histories: what was recorded before a run stays recorded, and how a *)
(* run ended is kept.                                                      *)
HistoryKept ==
  /\ \A r \in Runs : before[r] \subseteq recorded
  /\ \A c \in Callers : pc[c] = "ended" => ends[run[c]] = result[c]

IInv == TypeOK /\ RunsApart /\ HistoryKept /\ FailureIsLatest /\ CoverageIsOwn

LEMMA InvInit == Init => IInv
  BY DEF Init, IInv, TypeOK, RunsApart, HistoryKept, FailureIsLatest, CoverageIsOwn, Active,
         NoRun, NoAnswer, NoResult, Results, Answers, Runs

-----------------------------------------------------------------------------
LEMMA CallRunInv ==
  ASSUME IInv, NEW c \in Callers, NEW language, NEW mode, CallRun(c, language, mode)
  PROVE  IInv'
  <1> USE DEF IInv, CallRun
  <1>1. \/ /\ profile' = [profile EXCEPT ![c] = NoProfile]
           /\ UNCHANGED <<files, wrote>>
        \/ \E f \in Profiles \ files : /\ profile' = [profile EXCEPT ![c] = f]
                                       /\ files' = files \cup {f}
                                       /\ wrote' = [wrote EXCEPT ![f] = 0]
    BY DEF MakeProfile
  <1>2. runs \in Nat /\ runs + 1 \in Runs /\ runs + 1 \notin recorded /\ runs' = runs + 1
    BY DEF TypeOK, Runs
  <1>3. TypeOK'
    <2>1. /\ wrote' \in [Profiles -> 0..runs'] /\ files' \subseteq Profiles
          /\ profile' \in [Callers -> Profiles \cup {NoProfile}]
      <3>1. wrote \in [Profiles -> 0..runs']
        BY <1>2 DEF TypeOK
      <3>2. CASE profile' = [profile EXCEPT ![c] = NoProfile] /\ UNCHANGED <<files, wrote>>
        BY <3>1, <3>2 DEF TypeOK
      <3>3. ASSUME NEW f \in Profiles, profile' = [profile EXCEPT ![c] = f],
                   files' = files \cup {f}, wrote' = [wrote EXCEPT ![f] = 0]
            PROVE  <2>1!1 /\ <2>1!2
        BY <1>2, <3>1, <3>3 DEF TypeOK
      <3> QED
        BY <1>1, <3>2, <3>3
    <2>2. /\ run' \in [Callers -> 0..runs'] /\ pc'[c] = "running"
          /\ \A d \in Callers : d # c => /\ run'[d] = run[d] /\ pc'[d] = pc[d]
                                         /\ profile'[d] = profile[d]
      BY <1>1, <1>2 DEF TypeOK
    <2>3. \A d \in Callers : pc'[d] = "idle" => run'[d] = 0 /\ profile'[d] = NoProfile
      BY <2>2 DEF TypeOK
    <2>4. answer' \in [Callers -> [kind : Answers, of : 0..MaxRuns, coverage : 0..MaxRuns]]
      BY DEF TypeOK, NoAnswer, Answers
    <2>5. before' \in [Runs -> SUBSET Runs] /\ recorded' \in SUBSET (1..runs')
      BY <1>2 DEF TypeOK, Runs
    <2>6. pc' \in [Callers -> {"idle", "running", "ended", "recorded"}] /\ runs' \in 0..MaxRuns
      BY <1>2 DEF TypeOK
    <2> QED
      BY <2>1, <2>2, <2>3, <2>4, <2>5, <2>6 DEF TypeOK
  <1>4. RunsApart'
    BY <1>2 DEF TypeOK, RunsApart, Active
  <1>5. HistoryKept'
    BY <1>2 DEF TypeOK, HistoryKept
  <1>6. FailureIsLatest'
    BY <1>2 DEF TypeOK, FailureIsLatest
  <1>7. CoverageIsOwn'
    <2>1. \A d \in Callers : answer'[d].coverage \in {0, answer'[d].of}
      BY DEF TypeOK, CoverageIsOwn, NoAnswer
    <2>2. \A d \in Callers : d # c => profile'[d] = profile[d] /\ run'[d] = run[d]
      BY <1>1 DEF TypeOK
    <2>3. CASE profile' = [profile EXCEPT ![c] = NoProfile] /\ UNCHANGED <<files, wrote>>
      BY <2>1, <2>2, <2>3 DEF TypeOK, CoverageIsOwn
    <2>4. ASSUME NEW f \in Profiles \ files,
                 profile' = [profile EXCEPT ![c] = f], files' = files \cup {f},
                 wrote' = [wrote EXCEPT ![f] = 0]
          PROVE  CoverageIsOwn'
      <3>1. \A d \in Callers : d # c => profile'[d] # f
        BY <2>2, <2>4 DEF TypeOK, CoverageIsOwn
      <3>2. profile'[c] = f /\ wrote'[f] = 0 /\ \A g \in Profiles : g # f => wrote'[g] = wrote[g]
        BY <2>4 DEF TypeOK
      <3> QED
        BY <2>1, <2>2, <2>4, <3>1, <3>2 DEF TypeOK, CoverageIsOwn
    <2> QED
      BY <1>1, <2>3, <2>4
  <1> QED
    BY <1>3, <1>4, <1>5, <1>6, <1>7

LEMMA RefuseRunInv ==
  ASSUME IInv, NEW c \in Callers, NEW language, NEW mode, RefuseRun(c, language, mode)
  PROVE  IInv'
  <1> USE DEF IInv, RefuseRun
  <1>1. TypeOK'
    BY DEF TypeOK, NoAnswer, Answers
  <1>2. RunsApart' /\ HistoryKept' /\ FailureIsLatest'
    BY DEF RunsApart, Active, HistoryKept, FailureIsLatest
  <1>3. CoverageIsOwn'
    BY DEF TypeOK, CoverageIsOwn, NoAnswer
  <1> QED
    BY <1>1, <1>2, <1>3

LEMMA RunnerInv ==
  ASSUME IInv, NEW c \in Callers, NEW r \in Results, Runner(c, r)
  PROVE  IInv'
  <1> USE DEF IInv, Runner
  <1>0. /\ run[c] \in 1..runs /\ run[c] \in Runs /\ run[c] \notin recorded
        /\ \A d \in Callers : d # c => pc'[d] = pc[d] /\ result'[d] = result[d]
    BY DEF TypeOK, RunsApart, Active, Runs
  <1>1. TypeOK'
    BY <1>0 DEF TypeOK
  <1>2. RunsApart'
    BY DEF TypeOK, RunsApart, Active
  <1>3. HistoryKept'
    BY <1>0 DEF TypeOK, RunsApart, HistoryKept
  <1>4. FailureIsLatest'
    <2>1. \A q \in recorded : ends'[q] = ends[q]
      BY <1>0 DEF TypeOK, Runs
    <2> QED
      BY <2>1 DEF FailureIsLatest
  <1>5. CoverageIsOwn'
    BY DEF TypeOK, CoverageIsOwn
  <1> QED
    BY <1>1, <1>2, <1>3, <1>4, <1>5

LEMMA RunnerNotFoundInv ==
  ASSUME IInv, NEW c \in Callers, RunnerNotFound(c)
  PROVE  IInv'
  <1> USE DEF IInv, RunnerNotFound
  <1>1. TypeOK'
    BY DEF TypeOK, NoAnswer, Answers
  <1>2. RunsApart'
    BY DEF TypeOK, RunsApart, Active
  <1>3. HistoryKept' /\ FailureIsLatest'
    BY DEF TypeOK, HistoryKept, FailureIsLatest
  <1>4. CoverageIsOwn'
    BY DEF TypeOK, CoverageIsOwn, NoAnswer
  <1> QED
    BY <1>1, <1>2, <1>3, <1>4

LEMMA SetLastTestRunInv ==
  ASSUME IInv, NEW c \in Callers, SetLastTestRun(c)
  PROVE  IInv'
  <1> USE DEF IInv, SetLastTestRun
  <1>1. run[c] \in 1..runs /\ run[c] \in Runs /\ run[c] \notin recorded /\ ends[run[c]] = result[c]
    BY DEF TypeOK, RunsApart, HistoryKept, Active, Runs
  <1>2. Coverage(c) \in {0, run[c]}
    BY DEF TypeOK, CoverageIsOwn, Coverage
  <1>3. result[c].failed \in BOOLEAN /\ run[c] \in 0..MaxRuns
    BY <1>1 DEF TypeOK, Results, Runs
  <1>4. TypeOK'
    <2>1. lastRun' \in [ran : BOOLEAN, failed : BOOLEAN, detail : 0..MaxRuns]
      BY <1>3 DEF Record, Detail
    <2>2. answer' \in [Callers -> [kind : Answers, of : 0..MaxRuns, coverage : 0..MaxRuns]]
      BY <1>2, <1>3 DEF TypeOK, Answers
    <2> QED
      BY <1>1, <2>1, <2>2 DEF TypeOK
  <1>5. RunsApart' /\ HistoryKept'
    BY <1>1 DEF TypeOK, RunsApart, HistoryKept, Active
  <1>6. FailureIsLatest'
    <2>1. lastRun' = [ran |-> TRUE, failed |-> ends[run[c]].failed,
                      detail |-> IF ends[run[c]].marked THEN run[c] ELSE 0]
      BY <1>1 DEF Record, Detail
    <2>2. \A q \in recorded' : run[c] \notin before[q]
      BY <1>1 DEF TypeOK, HistoryKept, Runs
    <2> QED
      BY <2>1, <2>2 DEF FailureIsLatest
  <1>7. CoverageIsOwn'
    BY <1>2 DEF TypeOK, CoverageIsOwn
  <1> QED
    BY <1>4, <1>5, <1>6, <1>7

LEMMA ReturnInv ==
  ASSUME IInv, NEW c \in Callers, Return(c)
  PROVE  IInv'
  <1> USE DEF IInv, Return
  <1>1. TypeOK'
    BY DEF TypeOK
  <1>2. RunsApart'
    BY DEF TypeOK, RunsApart, Active
  <1>3. HistoryKept' /\ FailureIsLatest'
    BY DEF TypeOK, HistoryKept, FailureIsLatest
  <1>4. CoverageIsOwn'
    BY DEF TypeOK, CoverageIsOwn
  <1> QED
    BY <1>1, <1>2, <1>3, <1>4

LEMMA CallTestFailureInv ==
  ASSUME IInv, NEW c \in Callers, CallTestFailure(c)
  PROVE  IInv'
  <1> USE DEF IInv, CallTestFailure
  <1>1. /\ Describe(lastRun) \in [kind : Answers, of : 0..MaxRuns, coverage : 0..MaxRuns]
        /\ Describe(lastRun).coverage = 0
    BY DEF TypeOK, Describe, Answers
  <1>2. TypeOK'
    BY <1>1 DEF TypeOK
  <1>3. RunsApart' /\ HistoryKept' /\ FailureIsLatest'
    BY DEF RunsApart, Active, HistoryKept, FailureIsLatest
  <1>4. CoverageIsOwn'
    BY <1>1 DEF TypeOK, CoverageIsOwn
  <1> QED
    BY <1>2, <1>3, <1>4

THEOREM Inductive == Spec => []IInv
  <1>1. IInv /\ [Next]_vars => IInv'
    <2> SUFFICES ASSUME IInv, [Next]_vars PROVE IInv'
      OBVIOUS
    <2>1. CASE UNCHANGED vars
      BY <2>1 DEF vars, IInv, TypeOK, RunsApart, Active, HistoryKept, FailureIsLatest,
                  CoverageIsOwn
    <2> QED
      BY <2>1, CallRunInv, RefuseRunInv, RunnerInv, RunnerNotFoundInv, SetLastTestRunInv,
         ReturnInv, CallTestFailureInv DEF Next
  <1> QED
    BY <1>1, InvInit, PTL DEF Spec

(* Every variable keeps its type, and a profile ends with its call.        *)
THEOREM TypeCorrect == Spec => []TypeOK
  BY Inductive, PTL DEF IInv

(* The record is of one run, and of the last in the order that overlapping *)
(* runs have: what was recorded before a run began is not recorded after.  *)
THEOREM LatestCorrect == Spec => []FailureIsLatest
  BY Inductive, PTL DEF IInv

(* A coverage summary is that of the run that it is answered for.          *)
THEOREM CoverageCorrect == Spec => []CoverageIsOwn
  BY Inductive, PTL DEF IInv
=============================================================================
