------------------------- MODULE PolicyEnforcement --------------------------
(***************************************************************************)
(* Calls of tools checked by the middlewares of internal/policy while the  *)
(* configuration in force is replaced under them (Watcher.reload), and the *)
(* files that the edit tools then write.  Every check of a call, and every *)
(* look-up of a file by a handler, reads the configuration that is in      *)
(* force at that time.                                                     *)
(***************************************************************************)
EXTENDS PolicyMerge

CONSTANTS
  Callers,
  Calls,       \* the calls they make
  ConfigFiles, \* what a policy file may say
  MaxReloads   \* bound

ASSUME EnforcementAssumption ==
  /\ Calls \subseteq CallType
  /\ \A k \in ConfigFiles : IsFile(k)
  /\ MaxReloads \in Nat

VARIABLES
  files,    \* the user's and the project's file, as last loaded
  cfg,      \* the configuration in force
  reloads,  \* reloads so far
  status,   \* "idle", "checking", "running" or "refused", of each caller
  call,     \* the call it makes
  check,    \* the check that is next
  left,     \* files that the handler's walk has still to visit
  ready,    \* files that the handler is to write without another look-up
  written,  \* files that the call wrote
  seen      \* history: configurations in force since the call began

vars == <<files, cfg, reloads, status, call, check, left, ready, written, seen>>

handler == <<left, ready, written>>

Init ==
  /\ files \in [user : ConfigFiles, project : ConfigFiles]
  /\ cfg = Load(files.user, files.project)
  /\ reloads = 0
  /\ status = [c \in Callers |-> "idle"]
  /\ call \in [Callers -> Calls]
  /\ check = [c \in Callers |-> 1]
  /\ left = [c \in Callers |-> {}]
  /\ ready = [c \in Callers |-> {}]
  /\ written = [c \in Callers |-> {}]
  /\ seen = [c \in Callers |-> {}]

(* reload takes the lock and replaces the configuration; other than calls  *)
(* see it.                                                                 *)
Reload ==
  /\ reloads < MaxReloads
  /\ reloads' = reloads + 1
  /\ files' \in [user : ConfigFiles, project : ConfigFiles]
  /\ cfg' = Load(files'.user, files'.project)
  /\ seen' = [c \in Callers |->
                IF status[c] \in {"checking", "running"}
                  THEN seen[c] \cup {cfg'} ELSE seen[c]]
  /\ UNCHANGED <<status, call, check, handler>>

(* Mutant of Begin: it goes on where the last call of the caller stopped.  *)
BeginGoesOn(c, new) ==
  /\ status[c] = "idle"
  /\ status' = [status EXCEPT ![c] = "checking"]
  /\ call' = [call EXCEPT ![c] = new]
  /\ seen' = [seen EXCEPT ![c] = {cfg}]
  /\ UNCHANGED <<files, cfg, reloads, check, handler>>

Begin(c, new) ==
  /\ status[c] = "idle"
  /\ status' = [status EXCEPT ![c] = "checking"]
  /\ call' = [call EXCEPT ![c] = new]
  /\ check' = [check EXCEPT ![c] = 1]
  /\ seen' = [seen EXCEPT ![c] = {cfg}]
  /\ UNCHANGED <<files, cfg, reloads, handler>>

Last(c) == check[c] = NumChecks(call[c])

PassesNow(c) == Passes(Policy(cfg, call[c].tool), call[c], check[c])

(* What the handlers that write files go through: the files they are       *)
(* called with, or those that a walk comes to.                             *)
ToWrite(new) ==
  IF new.tool \in {"createFile", "editFiles"}
    THEN {new.paths[i] : i \in DOMAIN new.paths} ELSE {}

ToVisit(new) == IF new.tool = "renameSymbol" THEN new.walk ELSE {}

(* Mutant of Pass: the inner middleware trusts the outer one.              *)
PassSkips(c) ==
  /\ status[c] = "checking"
  /\ PassesNow(c)
  /\ status' = [status EXCEPT ![c] = IF check[c] > 1 \/ Last(c) THEN "running" ELSE @]
  /\ check' = [check EXCEPT ![c] = @ + 1]
  /\ UNCHANGED <<files, cfg, reloads, call, handler, seen>>

Pass(c) ==
  /\ status[c] = "checking"
  /\ PassesNow(c)
  /\ check' = [check EXCEPT ![c] = @ + 1]
  /\ IF Last(c)
       THEN /\ status' = [status EXCEPT ![c] = "running"]
            /\ left' = [left EXCEPT ![c] = ToVisit(call[c])]
            /\ ready' = [ready EXCEPT ![c] = ToWrite(call[c])]
       ELSE UNCHANGED <<status, left, ready>>
  /\ UNCHANGED <<files, cfg, reloads, call, written, seen>>

Refuse(c) ==
  /\ status[c] = "checking"
  /\ ~PassesNow(c)
  /\ status' = [status EXCEPT ![c] = "refused"]
  /\ UNCHANGED <<files, cfg, reloads, call, check, handler, seen>>

(* Mutant of Visit: the root was checked, its files are not.               *)
VisitUnchecked(c) ==
  /\ \E f \in left[c] :
       /\ left' = [left EXCEPT ![c] = @ \ {f}]
       /\ ready' = [ready EXCEPT ![c] = {f}]
  /\ UNCHANGED <<files, cfg, reloads, status, call, check, written, seen>>

(* The walk comes to its next file and asks pathDenied for it, which knows *)
(* the denied paths and no other guard.  A file in which there is nothing  *)
(* to rename is not written.                                               *)
Visit(c) ==
  /\ \E f \in left[c] :
       /\ left' = [left EXCEPT ![c] = @ \ {f}]
       /\ ready' = [ready EXCEPT ![c] =
                      IF MatchesAny(f, Policy(cfg, call[c].tool).denyPaths)
                        THEN {} ELSE {f}]
  /\ UNCHANGED <<files, cfg, reloads, status, call, check, written, seen>>

Write(c) ==
  /\ \E f \in ready[c] :
       /\ ready' = [ready EXCEPT ![c] = @ \ {f}]
       /\ written' = [written EXCEPT ![c] = @ \cup {f}]
  /\ UNCHANGED <<files, cfg, reloads, status, call, check, left, seen>>

(* The handler, which may stop at any error, or the middleware that        *)
(* refused, returns.                                                       *)
Return(c) ==
  /\ status[c] \in {"running", "refused"}
  /\ status' = [status EXCEPT ![c] = "idle"]
  /\ left' = [left EXCEPT ![c] = {}]
  /\ ready' = [ready EXCEPT ![c] = {}]
  /\ written' = [written EXCEPT ![c] = {}]
  /\ seen' = [seen EXCEPT ![c] = {}]
  /\ UNCHANGED <<files, cfg, reloads, call, check>>

Next ==
  \/ Reload
  \/ \E c \in Callers :
       \/ \E new \in Calls : Begin(c, new)
       \/ Pass(c) \/ Refuse(c) \/ Visit(c) \/ Write(c) \/ Return(c)

Spec == Init /\ [][Next]_vars

-----------------------------------------------------------------------------
TypeOK ==
  /\ files \in [user : ConfigFiles, project : ConfigFiles]
  /\ IsConfig(cfg)
  /\ reloads \in 0..MaxReloads
  /\ status \in [Callers -> {"idle", "checking", "running", "refused"}]
  /\ call \in [Callers -> Calls]
  /\ check \in [Callers -> Nat]
  /\ \A c \in Callers :
       check[c] \in 1..(NumChecks(call[c]) + IF status[c] = "checking" THEN 0 ELSE 1)
  /\ {left, ready, written} \subseteq [Callers -> SUBSET Args]
  /\ DOMAIN seen = Callers /\ \A c \in Callers : \A k \in seen[c] : IsConfig(k)

(* Restrictions only tighten from the user's file to the project's         *)
(* (README.md:478): what the configuration in force admits is what each of *)
(* the two files would admit if it were alone.                             *)
MergedAdmits ==
  \A new \in Calls :
    Admits(cfg, new) <=> Admits(files.user, new) /\ Admits(files.project, new)

(* A tool runs only when each check of its call was passed under a         *)
(* configuration in force during the call, and a call is refused only when *)
(* one of those configurations does not admit it.  With no reload during   *)
(* the call the one configuration decides.                                 *)
AnswersJustified ==
  \A c \in Callers :
    /\ status[c] = "running" =>
         \A i \in 1..NumChecks(call[c]) :
           \E k \in seen[c] : Passes(Policy(k, call[c].tool), call[c], i)
    /\ status[c] = "refused" => \E k \in seen[c] : ~Admits(k, call[c])

(* A handler writes a file only if deny_paths of its tool, in force at     *)
(* some time of the call, does not name it: also a file that no argument   *)
(* of the call names and that a walk comes to after a reload.              *)
WritesJustified ==
  \A c \in Callers : \A f \in written[c] :
    \E k \in seen[c] : ~MatchesAny(f, Policy(k, call[c].tool).denyPaths)

(* What there is of "no edit tool may ever write project policy,           *)
(* regardless of configured deny_paths" (policy.go:150-151): no            *)
(* configuration and no reload lets a tool of EnforceWithPaths run on the  *)
(* policy file as an argument, edit_createFile write it, or                *)
(* execute_runInTerminal run a command that names it or embeds one that    *)
(* does.  The edits of edit_editFiles, and the files that a rename only    *)
(* comes to, are not in it: EditsSparePolicy is about them.                *)
PolicyFileGuarded ==
  \A c \in Callers : status[c] = "running" =>
    /\ call[c].tool \in EditTools \ {"editFiles"} =>
         \A i \in DOMAIN call[c].paths : call[c].paths[i] \notin Protected
    /\ call[c].tool = "createFile" => written[c] \cap Protected = {}
    /\ call[c].tool = "runInTerminal" => Hops(call[c].text) \cap Protected = {}

-----------------------------------------------------------------------------
(* What the comments and the documentation say and the code does not do.   *)

(* "no edit tool may ever write project policy, regardless of configured   *)
(* deny_paths" (policy.go:150-151), "System-level immutable protection for *)
(* `.no-pilot.yaml` across edit and terminal pathways" (README.md:37): of  *)
(* every edit tool.                                                        *)
EditsSparePolicy ==
  \A c \in Callers : written[c] \cap Protected = {}
=============================================================================
