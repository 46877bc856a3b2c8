------------------------------ MODULE TestRuns ------------------------------
(***************************************************************************)
(* execute_runTests and execute_testFailure (run_tests.go, test_state.go,  *)
(* test_failure.go of internal/tools/execute): overlapping runs of tests,  *)
(* the record of the last one, and the coverage profiles they leave in the *)
(* directory of temporary files.                                           *)
(*                                                                         *)
(* Runs are numbered in the order in which they begin.  What a runner      *)
(* prints is known by whether it has lines that tell of failures.          *)
(***************************************************************************)
EXTENDS Naturals

CONSTANTS
  Callers,
  Profiles,  \* names of temporary files
  NoProfile,
  MaxRuns    \* bound: runs that begin

ASSUME TestRunsAssumption ==
  /\ NoProfile \notin Profiles
  /\ MaxRuns \in Nat

VARIABLES
  lastRun,  \* the record of the last run
  files,    \* the profiles that exist
  wrote,    \* the run that wrote a profile, or 0
  runs,     \* runs that began so far
  pc,       \* "idle", "running", "ended" or "recorded", for each caller
  run,      \* the number of the caller's run
  profile,  \* its coverage profile
  result,   \* how its runner ended
  answer,   \* the caller's last answer
  recorded, \* history: runs recorded so far
  before,   \* history: those that were recorded when a run began
  ends      \* history: how each run ended

vars == <<lastRun, files, wrote, runs, pc, run, profile, result, answer, recorded, before, ends>>

Runs == 1..MaxRuns

Languages == {"go", "python", "node", "other"}
Modes     == {"run", "coverage", "other"}

(* How a runner ends: its exit, and whether a line of what it prints, which *)
(* a run that passes may print too, begins with FAIL.                      *)
Results  == [failed : BOOLEAN, marked : BOOLEAN]
NoResult == [failed |-> FALSE, marked |-> FALSE]

(* 0 is the number of no run.  detail is the run whose lines it quotes.    *)
NoRun == [ran |-> FALSE, failed |-> FALSE, detail |-> 0]

Answers ==
  {"none", "error", "tests", "noRunYet", "noFailures", "noDetail", "details"}

NoAnswer == [kind |-> "none", of |-> 0, coverage |-> 0]

Init ==
  /\ lastRun = NoRun
  /\ files = {}
  /\ wrote = [f \in Profiles |-> 0]
  /\ runs = 0
  /\ pc = [c \in Callers |-> "idle"]
  /\ run = [c \in Callers |-> 0]
  /\ profile = [c \in Callers |-> NoProfile]
  /\ result = [c \in Callers |-> NoResult]
  /\ answer = [c \in Callers |-> NoAnswer]
  /\ recorded = {}
  /\ before = [r \in Runs |-> {}]
  /\ ends = [r \in Runs |-> NoResult]

-----------------------------------------------------------------------------
(* handleRunTests.                                                         *)

(* Mutant of MakeProfile: a name that is in use may be taken again.        *)
MakeProfileAnyway(c, language, mode) ==
  IF language = "go" /\ mode = "coverage"
  THEN \E f \in Profiles : /\ profile' = [profile EXCEPT ![c] = f]
                           /\ files' = files \cup {f}
                           /\ wrote' = [wrote EXCEPT ![f] = 0]
  ELSE /\ profile' = [profile EXCEPT ![c] = NoProfile]
       /\ UNCHANGED <<files, wrote>>

(* buildTestCommand: a run of Go tests with coverage makes a temporary     *)
(* file, under a name that no file has.                                    *)
MakeProfile(c, language, mode) ==
  IF language = "go" /\ mode = "coverage"
  THEN \E f \in Profiles \ files : /\ profile' = [profile EXCEPT ![c] = f]
                                   /\ files' = files \cup {f}
                                   /\ wrote' = [wrote EXCEPT ![f] = 0]
  ELSE /\ profile' = [profile EXCEPT ![c] = NoProfile]
       /\ UNCHANGED <<files, wrote>>

CallRun(c, language, mode) ==
  /\ pc[c] = "idle"
  /\ language # "other" /\ mode # "other"
  /\ runs < MaxRuns
  /\ MakeProfile(c, language, mode)
  /\ runs' = runs + 1
  /\ pc' = [pc EXCEPT ![c] = "running"]
  /\ run' = [run EXCEPT ![c] = runs + 1]
  /\ answer' = [answer EXCEPT ![c] = NoAnswer]
  /\ before' = [before EXCEPT ![runs + 1] = recorded]
  /\ UNCHANGED <<lastRun, result, recorded, ends>>

(* The mode or the language is not one, or no temporary file can be made.  *)
RefuseRun(c, language, mode) ==
  /\ pc[c] = "idle"
  /\ language = "other" \/ mode = "other" \/ (language = "go" /\ mode = "coverage")
  /\ answer' = [answer EXCEPT ![c] = [NoAnswer EXCEPT !.kind = "error"]]
  /\ UNCHANGED <<lastRun, files, wrote, runs, pc, run, profile, result, recorded, before, ends>>

(* The runner, outside the program: it may write the profile it was given  *)
(* before it ends.                                                         *)
Runner(c, r) ==
  /\ pc[c] = "running"
  /\ pc' = [pc EXCEPT ![c] = "ended"]
  /\ result' = [result EXCEPT ![c] = r]
  /\ ends' = [ends EXCEPT ![run[c]] = r]
  /\ \/ UNCHANGED wrote
     \/ /\ profile[c] # NoProfile
        /\ wrote' = [wrote EXCEPT ![profile[c]] = run[c]]
  /\ UNCHANGED <<lastRun, files, runs, run, profile, answer, recorded, before>>

(* There is no such runner: the call returns without a record of the run,  *)
(* and before the removal of its profile is deferred.                      *)
RunnerNotFound(c) ==
  /\ pc[c] = "running"
  /\ pc' = [pc EXCEPT ![c] = "idle"]
  /\ run' = [run EXCEPT ![c] = 0]
  /\ profile' = [profile EXCEPT ![c] = NoProfile]
  /\ answer' = [answer EXCEPT ![c] = [NoAnswer EXCEPT !.kind = "error"]]
  /\ UNCHANGED <<lastRun, files, wrote, runs, result, recorded, before, ends>>

(* The record of a run, which quotes its lines that tell of failures, and  *)
(* the run whose profile its summary counts.                               *)
Detail(c) == IF result[c].marked THEN run[c] ELSE 0

Record(c) == [ran |-> TRUE, failed |-> result[c].failed, detail |-> Detail(c)]

Coverage(c) == IF profile[c] \in files THEN wrote[profile[c]] ELSE 0

(* Mutant of SetLastTestRun: a run without details leaves those there are. *)
SetLastTestRunDetail(c) ==
  /\ pc[c] = "ended"
  /\ pc' = [pc EXCEPT ![c] = "recorded"]
  /\ lastRun' = [Record(c) EXCEPT !.detail = IF @ = 0 THEN lastRun.detail ELSE @]
  /\ recorded' = recorded \cup {run[c]}
  /\ answer' = [answer EXCEPT ![c] = [kind |-> "tests", of |-> run[c], coverage |-> Coverage(c)]]
  /\ UNCHANGED <<files, wrote, runs, run, profile, result, before, ends>>

(* The summary is read and the run recorded, all its fields under one lock. *)
SetLastTestRun(c) ==
  /\ pc[c] = "ended"
  /\ pc' = [pc EXCEPT ![c] = "recorded"]
  /\ lastRun' = Record(c)
  /\ recorded' = recorded \cup {run[c]}
  /\ answer' = [answer EXCEPT ![c] = [kind |-> "tests", of |-> run[c], coverage |-> Coverage(c)]]
  /\ UNCHANGED <<files, wrote, runs, run, profile, result, before, ends>>

(* Mutant of Return: the caller's profile is kept in mind.                 *)
ReturnKeeps(c) ==
  /\ pc[c] = "recorded"
  /\ pc' = [pc EXCEPT ![c] = "idle"]
  /\ run' = [run EXCEPT ![c] = 0]
  /\ files' = files \ {profile[c]}
  /\ UNCHANGED <<lastRun, wrote, runs, profile, result, answer, recorded, before, ends>>

(* The deferred removal of the profile, and the return.                    *)
Return(c) ==
  /\ pc[c] = "recorded"
  /\ pc' = [pc EXCEPT ![c] = "idle"]
  /\ run' = [run EXCEPT ![c] = 0]
  /\ profile' = [profile EXCEPT ![c] = NoProfile]
  /\ files' = files \ {profile[c]}
  /\ UNCHANGED <<lastRun, wrote, runs, result, answer, recorded, before, ends>>

-----------------------------------------------------------------------------
(* handleTestFailure: the record is read under the lock and described.     *)
Describe(last) ==
  [kind |-> IF ~last.ran THEN "noRunYet"
            ELSE IF ~last.failed THEN "noFailures"
            ELSE IF last.detail = 0 THEN "noDetail" ELSE "details",
   of |-> IF last.failed THEN last.detail ELSE 0,
   coverage |-> 0]

CallTestFailure(c) ==
  /\ pc[c] = "idle"
  /\ answer' = [answer EXCEPT ![c] = Describe(lastRun)]
  /\ UNCHANGED <<lastRun, files, wrote, runs, pc, run, profile, result, recorded, before, ends>>

Next ==
  \E c \in Callers :
    \/ \E language \in Languages, mode \in Modes :
         CallRun(c, language, mode) \/ RefuseRun(c, language, mode)
    \/ \E r \in Results : Runner(c, r)
    \/ RunnerNotFound(c) \/ SetLastTestRun(c) \/ Return(c) \/ CallTestFailure(c)

Spec == Init /\ [][Next]_vars

-----------------------------------------------------------------------------
(* What the callers hold; a profile belongs to a call under way, and is    *)
(* there as long as the call is.                                           *)
TypeOK ==
  /\ lastRun \in [ran : BOOLEAN, failed : BOOLEAN, detail : 0..MaxRuns]
  /\ files \subseteq Profiles
  /\ wrote \in [Profiles -> 0..runs]
  /\ runs \in 0..MaxRuns
  /\ pc \in [Callers -> {"idle", "running", "ended", "recorded"}]
  /\ run \in [Callers -> 0..runs]
  /\ profile \in [Callers -> Profiles \cup {NoProfile}]
  /\ result \in [Callers -> Results]
  /\ answer \in [Callers -> [kind : Answers, of : 0..MaxRuns, coverage : 0..MaxRuns]]
  /\ \A c \in Callers : pc[c] = "idle" => run[c] = 0 /\ profile[c] = NoProfile
  /\ recorded \in SUBSET (1..runs)
  /\ before \in [Runs -> SUBSET Runs]
  /\ ends \in [Runs -> Results]

(* What execute_testFailure answers is about one run: its end and its own  *)
(* lines, or that it has none.  And it is "the most recent" run in the     *)
(* sense that overlapping calls allow: no run that began after this one    *)
(* was recorded has been recorded.  Only a run whose runner was not found  *)
(* leaves the record as it was.                                            *)
FailureIsLatest ==
  IF recorded = {} THEN lastRun = NoRun
  ELSE \E r \in recorded :
         /\ lastRun = [ran |-> TRUE, failed |-> ends[r].failed,
                       detail |-> IF ends[r].marked THEN r ELSE 0]
         /\ \A q \in recorded : r \notin before[q]

(* However calls overlap, and whatever profiles earlier ones have left     *)
(* behind, a coverage summary counts the profile of its own run, and no    *)
(* call removes the profile of another that still needs it.                *)
CoverageIsOwn ==
  /\ \A c \in Callers : answer[c].coverage \in {0, answer[c].of}
  /\ \A c \in Callers : profile[c] # NoProfile =>
       /\ profile[c] \in files
       /\ wrote[profile[c]] \in {0, run[c]}
       /\ \A d \in Callers \ {c} : profile[d] # profile[c]

-----------------------------------------------------------------------------
(* What the tool's description says and the code does not do.              *)

(* "Return failure details from the most recent execute_runTests           *)
(* invocation." (test_failure.go:16): when no run is under way and a run   *)
(* is recorded at all, the last that began is.                             *)
DetailsOfMostRecent ==
  (\A c \in Callers : pc[c] = "idle") /\ lastRun.ran => runs \in recorded
=============================================================================
