---------------------------- MODULE PolicyProofs ----------------------------
(***************************************************************************)
(* Proofs about PolicyMerge and PolicyEnforcement, for all policies, calls *)
(* and callers and any number of reloads.                                  *)
(***************************************************************************)
EXTENDS PolicyEnforcement, TLAPS

(* m forbids what d or s forbids, and nothing else.                        *)
Joins(m, d, s) ==
  /\ IsAllowed(m) <=> IsAllowed(d) /\ IsAllowed(s)
  /\ m.denyPaths = d.denyPaths \cup s.denyPaths
  /\ m.denyCommands = d.denyCommands \cup s.denyCommands
  /\ m.denyURLs = d.denyURLs \cup s.denyURLs
  /\ m.denyShellEscape <=> d.denyShellEscape \/ s.denyShellEscape
  /\ Layers(m) = Layers(d) \cup Layers(s)

(* What the tools check.                                                   *)
LEMMA ChecksFacts ==
  ASSUME NEW tool \in Tools
  PROVE  /\ Len(Checks[tool]) \in Nat \ {0}
         /\ \A i \in 1..Len(Checks[tool]) :
              Checks[tool][i] \in {"allowed", "paths", "url", "command"}
  <1>1. tool \in {"killTerminal", "readFile", "createFile", "editFiles", "renameSymbol",
                  "fetch", "runInTerminal", "createAndRunTask"}
    BY DEF Tools, Checks
  <1>2. \/ Checks[tool] = <<"allowed">>
        \/ Checks[tool] = <<"allowed", "paths">>
        \/ Checks[tool] = <<"allowed", "url">>
        \/ Checks[tool] = <<"allowed", "paths", "allowed", "command">>
    BY <1>1 DEF Checks
  <1>3. CASE Checks[tool] = <<"allowed">>
    BY <1>3
  <1>4. CASE Checks[tool] = <<"allowed", "paths">>
    BY <1>4
  <1>5. CASE Checks[tool] = <<"allowed", "url">>
    BY <1>5
  <1>6. CASE Checks[tool] = <<"allowed", "paths", "allowed", "command">>
    BY <1>6
  <1> QED
    BY <1>2, <1>3, <1>4, <1>5, <1>6

LEMMA MatchesUnion ==
  ASSUME NEW a, NEW P, NEW Q
  PROVE  MatchesAny(a, P \cup Q) <=> MatchesAny(a, P) \/ MatchesAny(a, Q)
  BY DEF MatchesAny

(* A policy that joins two others passes what both of them pass.           *)
LEMMA JoinsPasses ==
  ASSUME NEW m, NEW d, NEW s, NEW new \in CallType, NEW i \in Nat \ {0}, Joins(m, d, s)
  PROVE  Passes(m, new, i) <=> Passes(d, new, i) /\ Passes(s, new, i)
  <1>1. PathsPass(m, new) <=> PathsPass(d, new) /\ PathsPass(s, new)
    BY MatchesUnion DEF Joins, PathsPass
  <1>2. ASSUME NEW tool, NEW cmd
        PROVE  CommandPasses(m, tool, cmd)
                 <=> CommandPasses(d, tool, cmd) /\ CommandPasses(s, tool, cmd)
    <2>1. (\A layer \in Layers(m) : MatchesAny(cmd, layer))
            <=> /\ \A layer \in Layers(d) : MatchesAny(cmd, layer)
                /\ \A layer \in Layers(s) : MatchesAny(cmd, layer)
      BY DEF Joins
    <2>2. MatchesAny(cmd, m.denyCommands)
            <=> MatchesAny(cmd, d.denyCommands) \/ MatchesAny(cmd, s.denyCommands)
      BY MatchesUnion DEF Joins
    <2>3. m.denyShellEscape <=> d.denyShellEscape \/ s.denyShellEscape
      BY DEF Joins
    <2> QED
      BY <2>1, <2>2, <2>3 DEF CommandPasses
  <1>3. CASE i > Len(Checks[new.tool])
    BY <1>3, MatchesUnion DEF Joins, Passes
  <1>4. CASE ~(i > Len(Checks[new.tool]))
    <2> DEFINE kind == Checks[new.tool][i]
    <2>1. CASE kind = "allowed"
      BY <1>4, <2>1 DEF Passes, Joins
    <2>2. CASE kind = "paths"
      BY <1>1, <1>4, <2>2 DEF Passes
    <2>3. CASE kind = "url"
      BY <1>4, <2>3, MatchesUnion DEF Passes, Joins
    <2>4. CASE kind = "command"
      BY <1>2, <1>4, <2>4 DEF Passes
    <2>5. kind \in {"allowed", "paths", "url", "command"}
      BY <1>4, ChecksFacts DEF CallType
    <2> QED
      BY <2>1, <2>2, <2>3, <2>4, <2>5
  <1> QED
    BY <1>3, <1>4

-----------------------------------------------------------------------------
(* A policy as a file has it.                                              *)
Plain(pol) == pol \in PolicyType /\ pol.allowCommandLayers = {}

LEMMA ZeroPlain == Plain(ZeroPolicy)
  BY DEF Plain, PolicyType, ZeroPolicy

LEMMA FirstLayerJoins ==
  ASSUME NEW pol, Plain(pol)
  PROVE  /\ FirstLayer(pol) \in PolicyType
         /\ Joins(FirstLayer(pol), pol, ZeroPolicy)
         /\ Joins(FirstLayer(pol), ZeroPolicy, pol)
  <1>1. Layers(FirstLayer(pol)) = Layers(pol) /\ Layers(ZeroPolicy) = {}
    BY DEF Plain, PolicyType, FirstLayer, Layers, ZeroPolicy
  <1>2. FirstLayer(pol) \in PolicyType
    BY DEF Plain, PolicyType, FirstLayer
  <1>3. /\ FirstLayer(pol).allowed = pol.allowed
        /\ FirstLayer(pol).denyPaths = pol.denyPaths
        /\ FirstLayer(pol).denyCommands = pol.denyCommands
        /\ FirstLayer(pol).denyURLs = pol.denyURLs
        /\ FirstLayer(pol).denyShellEscape = pol.denyShellEscape
    BY DEF Plain, PolicyType, FirstLayer
  <1> QED
    BY <1>1, <1>2, <1>3 DEF Joins, IsAllowed, ZeroPolicy

LEMMA MergePolicyJoins ==
  ASSUME NEW dst, NEW src, Plain(dst), Plain(src)
  PROVE  /\ MergePolicy(FirstLayer(dst), src) \in PolicyType
         /\ Joins(MergePolicy(FirstLayer(dst), src), dst, src)
  <1> DEFINE first == FirstLayer(dst)
             m == MergePolicy(first, src)
  <1>1. /\ first \in PolicyType
        /\ first.allowed = dst.allowed
        /\ first.denyPaths = dst.denyPaths
        /\ first.allowCommands = dst.allowCommands
        /\ first.denyCommands = dst.denyCommands
        /\ first.denyURLs = dst.denyURLs
        /\ first.denyShellEscape = dst.denyShellEscape
        /\ first.allowCommandLayers = {dst.allowCommands} \ {{}}
    BY DEF Plain, PolicyType, FirstLayer
  <1> HIDE DEF first
  <1>2. /\ m.allowed = IF src.allowed = "no" \/ first.allowed = "unset"
                        THEN src.allowed ELSE first.allowed
        /\ m.denyPaths = first.denyPaths \cup src.denyPaths
        /\ m.allowCommands = first.allowCommands
        /\ m.denyCommands = first.denyCommands \cup src.denyCommands
        /\ m.denyURLs = first.denyURLs \cup src.denyURLs
        /\ m.denyShellEscape = (first.denyShellEscape \/ src.denyShellEscape)
        /\ m.allowCommandLayers =
             first.allowCommandLayers \cup ({src.allowCommands} \ {{}})
    BY <1>1 DEF PolicyType, MergePolicy
  <1>3. m \in PolicyType
    BY <1>1 DEF Plain, PolicyType, MergePolicy
  <1> HIDE DEF m
  <1>4. Layers(m) = Layers(dst) \cup Layers(src)
    BY <1>1, <1>2 DEF Layers, Plain
  <1>5. dst.allowed \in {"unset", "yes", "no"} /\ src.allowed \in {"unset", "yes", "no"}
    BY DEF Plain, PolicyType
  <1>6. Joins(m, dst, src)
    BY <1>1, <1>2, <1>4, <1>5 DEF Joins, IsAllowed
  <1> QED
    BY <1>3, <1>6 DEF m, first

LEMMA LoadJoins ==
  ASSUME NEW u, NEW p, IsFile(u), IsFile(p), NEW tool
  PROVE  Joins(Policy(Load(u, p), tool), Policy(u, tool), Policy(p, tool))
  <1>1. DOMAIN Load(u, p) = DOMAIN u \cup DOMAIN p
    BY DEF Load, Merge, NoConfig
  <1>2. /\ tool \in DOMAIN u => Plain(u[tool])
        /\ tool \in DOMAIN p => Plain(p[tool])
    BY DEF IsFile, IsConfig, Plain
  <1>3. CASE tool \in DOMAIN u /\ tool \in DOMAIN p
    <2>1. Load(u, p)[tool] = MergePolicy(FirstLayer(u[tool]), p[tool])
      BY <1>3 DEF Load, Merge, NoConfig
    <2> QED
      BY <1>1, <1>2, <1>3, <2>1, MergePolicyJoins DEF Policy
  <1>4. CASE tool \in DOMAIN u /\ tool \notin DOMAIN p
    <2>1. Load(u, p)[tool] = FirstLayer(u[tool])
      BY <1>4 DEF Load, Merge, NoConfig
    <2> QED
      BY <1>1, <1>2, <1>4, <2>1, FirstLayerJoins DEF Policy
  <1>5. CASE tool \notin DOMAIN u /\ tool \in DOMAIN p
    <2>1. Load(u, p)[tool] = FirstLayer(p[tool])
      BY <1>5 DEF Load, Merge, NoConfig
    <2> QED
      BY <1>1, <1>2, <1>5, <2>1, FirstLayerJoins DEF Policy
  <1>6. CASE tool \notin DOMAIN u /\ tool \notin DOMAIN p
    BY <1>1, <1>6 DEF Policy, ZeroPolicy, Joins, IsAllowed, Layers
  <1> QED
    BY <1>3, <1>4, <1>5, <1>6

LEMMA LoadIsConfig ==
  ASSUME NEW u, NEW p, IsFile(u), IsFile(p)
  PROVE  IsConfig(Load(u, p))
  <1>1. DOMAIN Load(u, p) = DOMAIN u \cup DOMAIN p
    BY DEF Load, Merge, NoConfig
  <1>2. ASSUME NEW tool \in DOMAIN Load(u, p) PROVE Load(u, p)[tool] \in PolicyType
    <2>1. /\ tool \in DOMAIN u => Plain(u[tool])
          /\ tool \in DOMAIN p => Plain(p[tool])
      BY DEF IsFile, IsConfig, Plain
    <2>2. Load(u, p)[tool] =
            IF tool \notin DOMAIN p THEN FirstLayer(u[tool])
            ELSE IF tool \notin DOMAIN u THEN FirstLayer(p[tool])
            ELSE MergePolicy(FirstLayer(u[tool]), p[tool])
      BY <1>1, <1>2 DEF Load, Merge, NoConfig
    <2> QED
      BY <1>1, <1>2, <2>1, <2>2, FirstLayerJoins, MergePolicyJoins
  <1>3. Load(u, p) = [tool \in DOMAIN Load(u, p) |-> Load(u, p)[tool]]
    BY DEF Load, Merge
  <1> QED
    BY <1>1, <1>2, <1>3 DEF IsConfig, IsFile

LEMMA NumChecksFacts ==
  ASSUME NEW new \in CallType
  PROVE  NumChecks(new) \in Nat \ {0}
  <1> DEFINE own == Len(Checks[new.tool])
             edits == IF new.tool = "editFiles" THEN Len(new.paths) ELSE 0
  <1>1. own \in Nat \ {0}
    BY ChecksFacts DEF CallType
  <1>2. edits \in Nat
    BY DEF CallType
  <1>3. NumChecks(new) = own + edits
    BY DEF NumChecks
  <1> HIDE DEF own, edits
  <1> QED
    BY <1>1, <1>2, <1>3

(* What the merged configuration admits is what both files admit.          *)
THEOREM LoadAdmits ==
  ASSUME NEW u, NEW p, IsFile(u), IsFile(p), NEW new \in CallType
  PROVE  Admits(Load(u, p), new) <=> Admits(u, new) /\ Admits(p, new)
  <1>1. \A i \in 1..NumChecks(new) :
          Passes(Policy(Load(u, p), new.tool), new, i)
            <=> /\ Passes(Policy(u, new.tool), new, i)
                /\ Passes(Policy(p, new.tool), new, i)
    BY LoadJoins, JoinsPasses, NumChecksFacts
  <1> QED
    BY <1>1 DEF Admits

-----------------------------------------------------------------------------
LEMMA TypesInit == Init => TypeOK
  <1> SUFFICES ASSUME Init PROVE TypeOK
    OBVIOUS
  <1>1. IsFile(files.user) /\ IsFile(files.project)
    BY EnforcementAssumption DEF Init
  <1>2. IsConfig(cfg)
    BY <1>1, LoadIsConfig DEF Init
  <1>3. \A c \in Callers : check[c] \in 1..(NumChecks(call[c]) + 1)
    BY EnforcementAssumption, NumChecksFacts DEF Init
  <1> QED
    BY <1>2, <1>3, EnforcementAssumption DEF Init, TypeOK

LEMMA TargetsType ==
  ASSUME NEW new \in CallType
  PROVE  ToWrite(new) \in SUBSET Args /\ ToVisit(new) \in SUBSET Args
  BY DEF CallType, ToWrite, ToVisit

LEMMA TypesStep == TypeOK /\ [Next]_vars => TypeOK'
  <1> SUFFICES ASSUME TypeOK, [Next]_vars PROVE TypeOK'
    OBVIOUS
  <1> USE DEF TypeOK
  <1>0. \A c \in Callers : NumChecks(call[c]) \in Nat \ {0}
    BY EnforcementAssumption, NumChecksFacts
  <1>1. CASE Reload
    <2>1. IsFile(files'.user) /\ IsFile(files'.project)
      BY <1>1, EnforcementAssumption DEF Reload
    <2>2. IsConfig(cfg')
      BY <1>1, <2>1, LoadIsConfig DEF Reload
    <2> QED
      BY <1>1, <2>2, EnforcementAssumption DEF Reload, handler
  <1>2. ASSUME NEW c \in Callers, NEW new \in Calls, Begin(c, new) PROVE TypeOK'
    <2>1. NumChecks(new) \in Nat \ {0}
      BY EnforcementAssumption, NumChecksFacts
    <2> QED
      BY <1>0, <1>2, <2>1 DEF Begin, handler
  <1>3. ASSUME NEW c \in Callers, Pass(c) PROVE TypeOK'
    <2>1. ToWrite(call[c]) \in SUBSET Args /\ ToVisit(call[c]) \in SUBSET Args
      BY EnforcementAssumption, TargetsType
    <2> QED
      BY <1>0, <1>3, <2>1 DEF Pass, Last
  <1>4. ASSUME NEW c \in Callers, Refuse(c) PROVE TypeOK'
    BY <1>0, <1>4 DEF Refuse, handler
  <1>5. ASSUME NEW c \in Callers, Return(c) PROVE TypeOK'
    BY <1>0, <1>5 DEF Return
  <1>6. ASSUME NEW c \in Callers, Visit(c) PROVE TypeOK'
    BY <1>0, <1>6 DEF Visit
  <1>7. ASSUME NEW c \in Callers, Write(c) PROVE TypeOK'
    BY <1>0, <1>7 DEF Write
  <1>8. CASE UNCHANGED vars
    BY <1>8 DEF vars
  <1> QED
    BY <1>1, <1>2, <1>3, <1>4, <1>5, <1>6, <1>7, <1>8 DEF Next

(* Every variable keeps its type.                                          *)
THEOREM TypeCorrect == Spec => []TypeOK
  BY TypesInit, TypesStep, PTL DEF Spec

-----------------------------------------------------------------------------
(* The configuration in force is the one that the files load to.           *)
InForce == cfg = Load(files.user, files.project)

(* The configuration in force admits what each of the two files admits,    *)
(* through any number of reloads.                                          *)
THEOREM MergedCorrect == Spec => []MergedAdmits
  <1>1. Init => InForce
    BY DEF Init, InForce
  <1>2. InForce /\ [Next]_vars => InForce'
    BY DEF InForce, Next, vars, Reload, Begin, Pass, Refuse, Visit, Write, Return
  <1>3. TypeOK /\ InForce => MergedAdmits
    BY EnforcementAssumption, LoadAdmits DEF TypeOK, InForce, MergedAdmits
  <1> QED
    BY <1>1, <1>2, <1>3, TypeCorrect, PTL DEF Spec

(* The checks that a call has passed, and how it ended, each go back to a  *)
(* configuration in force since it began.                                  *)
Passed(c) ==
  \A i \in 1..(check[c] - 1) : \E k \in seen[c] : Passes(Policy(k, call[c].tool), call[c], i)

Justified(c) ==
  /\ status[c] \in {"checking", "running"} => Passed(c)
  /\ status[c] = "running" => check[c] = NumChecks(call[c]) + 1
  /\ status[c] \in {"checking", "running"} => cfg \in seen[c]
  /\ status[c] = "refused" => \E k \in seen[c] : ~Admits(k, call[c])

LEMMA JustifiedStep ==
  ASSUME TypeOK, [Next]_vars, NEW d \in Callers, Justified(d)
  PROVE  Justified(d)'
  <1> USE DEF TypeOK, Justified, Passed
  <1>0. /\ NumChecks(call[d]) \in Nat \ {0} /\ check[d] \in 1..(NumChecks(call[d]) + 1)
        /\ status[d] = "checking" => check[d] \in 1..NumChecks(call[d])
    BY EnforcementAssumption, NumChecksFacts
  <1>1. CASE Reload
    BY <1>1 DEF Reload
  <1>2. ASSUME NEW c \in Callers, NEW new \in Calls, Begin(c, new) PROVE Justified(d)'
    BY <1>2 DEF Begin
  <1>3. ASSUME NEW c \in Callers, Pass(c) PROVE Justified(d)'
    <2>1. CASE c = d
      <3>1. /\ status[d] = "checking" /\ cfg \in seen[d] /\ PassesNow(d)
            /\ check'[d] = check[d] + 1
            /\ status'[d] = IF Last(d) THEN "running" ELSE "checking"
            /\ UNCHANGED <<cfg, call, seen>>
        BY <1>3, <2>1 DEF Pass
      <3>2. Passed(d)'
        BY <1>0, <3>1 DEF PassesNow
      <3> QED
        BY <1>0, <3>1, <3>2 DEF Last
    <2>2. CASE c # d
      BY <1>3, <2>2 DEF Pass
    <2> QED
      BY <2>1, <2>2
  <1>4. ASSUME NEW c \in Callers, Refuse(c) PROVE Justified(d)'
    <2>1. CASE c = d
      <3>1. status[d] = "checking" /\ ~PassesNow(d)
        BY <1>4, <2>1 DEF Refuse
      <3>2. check[d] \in 1..NumChecks(call[d])
        BY <1>0, <3>1
      <3>3. ~Admits(cfg, call[d])
        BY <3>1, <3>2 DEF PassesNow, Admits
      <3> QED
        BY <1>4, <2>1, <3>1, <3>3 DEF Refuse
    <2>2. CASE c # d
      BY <1>4, <2>2 DEF Refuse
    <2> QED
      BY <2>1, <2>2
  <1>5. ASSUME NEW c \in Callers, Return(c) PROVE Justified(d)'
    BY <1>5 DEF Return
  <1>6. ASSUME NEW c \in Callers, Visit(c) \/ Write(c) PROVE Justified(d)'
    BY <1>6 DEF Visit, Write
  <1>7. CASE UNCHANGED vars
    BY <1>7 DEF vars
  <1> QED
    BY <1>1, <1>2, <1>3, <1>4, <1>5, <1>6, <1>7 DEF Next

AllJustified == \A c \in Callers : Justified(c)

LEMMA JustifiedHolds == Spec => []AllJustified
  <1>1. Init => AllJustified
    BY DEF Init, AllJustified, Justified
  <1>2. TypeOK /\ AllJustified /\ [Next]_vars => AllJustified'
    BY JustifiedStep DEF AllJustified
  <1> QED
    BY <1>1, <1>2, TypeCorrect, PTL DEF Spec

(* A tool runs, and a call is refused, only by what configurations in      *)
(* force during the call say.                                              *)
THEOREM AnswersCorrect == Spec => []AnswersJustified
  <1>1. TypeOK /\ AllJustified => AnswersJustified
    <2> SUFFICES ASSUME TypeOK, NEW c \in Callers, Justified(c)
                 PROVE  AnswersJustified!(c)
      BY DEF AnswersJustified, AllJustified
    <2>1. NumChecks(call[c]) \in Nat
      BY EnforcementAssumption, NumChecksFacts DEF TypeOK
    <2> QED
      BY <2>1 DEF Justified, Passed
  <1> QED
    BY <1>1, JustifiedHolds, TypeCorrect, PTL

-----------------------------------------------------------------------------
(* A handler writes only while it runs; what it is about to write, or      *)
(* wrote, was not denied by a configuration in force during the call, and  *)
(* of a call that makes no walk it was among the call's paths.             *)
Permitted(c, f) ==
  \E k \in seen[c] : ~MatchesAny(f, Policy(k, call[c].tool).denyPaths)

Writing(c) ==
  /\ status[c] # "running" => left[c] = {} /\ ready[c] = {} /\ written[c] = {}
  /\ \A f \in ready[c] \cup written[c] : Permitted(c, f)
  /\ call[c].tool # "renameSymbol" =>
       left[c] = {} /\ ready[c] \cup written[c] \subseteq ToWrite(call[c])

(* A tool that writes its paths has had each of them looked up.            *)
LEMMA TargetsPermitted ==
  ASSUME NEW new \in CallType, NEW K,
         \A i \in 1..NumChecks(new) : \E k \in K : Passes(Policy(k, new.tool), new, i),
         NEW f \in ToWrite(new)
  PROVE  \E k \in K : ~MatchesAny(f, Policy(k, new.tool).denyPaths)
  <1>1. PICK i \in DOMAIN new.paths : f = new.paths[i]
    BY DEF ToWrite
  <1>2. i \in 1..Len(new.paths) /\ Len(new.paths) \in Nat
    BY <1>1 DEF CallType
  <1>3. CASE new.tool = "createFile"
    <2>1. Checks[new.tool] = <<"allowed", "paths">>
      BY <1>3 DEF Checks
    <2>2. Len(Checks[new.tool]) = 2 /\ Checks[new.tool][2] = "paths"
      BY <2>1
    <2>3. NumChecks(new) = 2
      BY <1>3, <2>2 DEF NumChecks
    <2>4. PICK k \in K : Passes(Policy(k, new.tool), new, 2)
      BY <2>3
    <2>5. PathsPass(Policy(k, new.tool), new)
      BY <2>2, <2>4 DEF Passes
    <2> QED
      BY <1>1, <2>5 DEF PathsPass
  <1>4. CASE new.tool = "editFiles"
    <2>1. Checks[new.tool] = <<"allowed">>
      BY <1>4 DEF Checks
    <2>2. Len(Checks[new.tool]) = 1
      BY <2>1
    <2>3. NumChecks(new) = 1 + Len(new.paths)
      BY <1>4, <2>2 DEF NumChecks
    <2>4. i + 1 \in 1..NumChecks(new)
      BY <1>2, <2>3
    <2>5. PICK k \in K : Passes(Policy(k, new.tool), new, i + 1)
      BY <2>4
    <2>6. i + 1 > 1 /\ (i + 1) - 1 = i
      BY <1>2
    <2>7. ~MatchesAny(new.paths[i], Policy(k, new.tool).denyPaths)
      BY <2>2, <2>5, <2>6 DEF Passes
    <2> QED
      BY <1>1, <2>7
  <1> QED
    BY <1>3, <1>4 DEF ToWrite

LEMMA WritingStep ==
  ASSUME TypeOK, AllJustified, AllJustified', [Next]_vars, NEW d \in Callers, Writing(d)
  PROVE  Writing(d)'
  <1> USE DEF TypeOK, Writing, Permitted
  <1>0. call[d] \in CallType /\ Justified(d) /\ Justified(d)'
    BY EnforcementAssumption DEF AllJustified
  <1>1. CASE Reload
    BY <1>1 DEF Reload, handler
  <1>2. ASSUME NEW c \in Callers, NEW new \in Calls, Begin(c, new) PROVE Writing(d)'
    BY <1>2 DEF Begin, handler
  <1>3. ASSUME NEW c \in Callers, Pass(c) PROVE Writing(d)'
    <2>1. CASE c = d /\ Last(c)
      <3>1. /\ status'[d] = "running" /\ status[d] = "checking"
            /\ left'[d] = ToVisit(call[d]) /\ ready'[d] = ToWrite(call[d])
            /\ written'[d] = {} /\ call' = call /\ seen' = seen
        BY <1>3, <2>1 DEF Pass
      <3>2. \A i \in 1..NumChecks(call[d]) :
              \E k \in seen[d] : Passes(Policy(k, call[d].tool), call[d], i)
        <4>1. check'[d] - 1 = NumChecks(call[d])
          BY <1>0, <3>1, NumChecksFacts DEF Justified
        <4> QED
          BY <1>0, <3>1, <4>1 DEF Justified, Passed
      <3>3. \A f \in ToWrite(call[d]) :
              \E k \in seen[d] : ~MatchesAny(f, Policy(k, call[d].tool).denyPaths)
        BY <1>0, <3>2, TargetsPermitted
      <3> QED
        BY <3>1, <3>3 DEF ToVisit
    <2>2. CASE c # d \/ ~Last(c)
      BY <1>3, <2>2 DEF Pass
    <2> QED
      BY <2>1, <2>2
  <1>4. ASSUME NEW c \in Callers, Refuse(c) PROVE Writing(d)'
    BY <1>4 DEF Refuse, handler
  <1>5. ASSUME NEW c \in Callers, Return(c) PROVE Writing(d)'
    BY <1>5 DEF Return
  <1>6. ASSUME NEW c \in Callers, Visit(c) PROVE Writing(d)'
    <2>1. CASE c = d
      <3>1. PICK f \in left[d] :
              /\ left' = [left EXCEPT ![d] = @ \ {f}]
              /\ ready' = [ready EXCEPT ![d] =
                             IF MatchesAny(f, Policy(cfg, call[d].tool).denyPaths)
                               THEN {} ELSE {f}]
              /\ UNCHANGED <<cfg, status, call, written, seen>>
        BY <1>6, <2>1 DEF Visit
      <3>2. status[d] = "running" /\ cfg \in seen[d] /\ call[d].tool = "renameSymbol"
        BY <1>0, <3>1 DEF Justified
      <3> QED
        BY <3>1, <3>2
    <2>2. CASE c # d
      BY <1>6, <2>2 DEF Visit
    <2> QED
      BY <2>1, <2>2
  <1>7. ASSUME NEW c \in Callers, Write(c) PROVE Writing(d)'
    BY <1>7 DEF Write
  <1>8. CASE UNCHANGED vars
    BY <1>8 DEF vars
  <1> QED
    BY <1>1, <1>2, <1>3, <1>4, <1>5, <1>6, <1>7, <1>8 DEF Next

AllWriting == \A c \in Callers : Writing(c)

LEMMA WritingHolds == Spec => []AllWriting
  <1>1. Init => AllWriting
    BY DEF Init, AllWriting, Writing
  <1>2. TypeOK /\ AllJustified /\ AllJustified' /\ AllWriting /\ [Next]_vars => AllWriting'
    BY WritingStep DEF AllWriting
  <1> QED
    BY <1>1, <1>2, TypeCorrect, JustifiedHolds, PTL DEF Spec

(* No file is written that deny_paths named all through the call, not even *)
(* one that only a walk comes to, whatever reloads there are meanwhile.    *)
THEOREM WritesCorrect == Spec => []WritesJustified
  <1>1. AllWriting => WritesJustified
    BY DEF AllWriting, Writing, Permitted, WritesJustified
  <1> QED
    BY <1>1, WritingHolds, PTL

-----------------------------------------------------------------------------
(* A check for paths, or for a command, that is passed under any policy    *)
(* leaves out what names a policy file.                                    *)
LEMMA PathsGuard ==
  ASSUME NEW pol, NEW new \in CallType, new.tool \in {"createFile", "renameSymbol"},
         Passes(pol, new, 2)
  PROVE  \A i \in DOMAIN new.paths : new.paths[i] \notin Protected
  <1>1. Checks[new.tool] = <<"allowed", "paths">>
    BY DEF Checks
  <1>2. Len(Checks[new.tool]) = 2 /\ Checks[new.tool][2] = "paths"
    BY <1>1
  <1>3. PathsPass(pol, new)
    BY <1>2 DEF Passes
  <1> QED
    BY <1>3 DEF PathsPass, EditTools

LEMMA CommandGuard ==
  ASSUME NEW pol, NEW new \in CallType, new.tool = "runInTerminal", Passes(pol, new, 4)
  PROVE  Hops(new.text) \cap Protected = {}
  <1>1. Checks[new.tool] = <<"allowed", "paths", "allowed", "command">>
    BY DEF Checks
  <1>2. Len(Checks[new.tool]) = 4 /\ Checks[new.tool][4] = "command"
    BY <1>1
  <1>3. \A cmd \in Hops(new.text) : CommandPasses(pol, new.tool, cmd)
    BY <1>2 DEF Passes
  <1> QED
    BY <1>3 DEF CommandPasses

(* No configuration and no reload lets a tool of EnforceWithPaths that     *)
(* edits run with the policy file as an argument, edit_createFile write    *)
(* it, or a command in a terminal name it: the check was passed under some *)
(* configuration, and passes under none.                                   *)
THEOREM PolicyFileKept == Spec => []PolicyFileGuarded
  <1>1. TypeOK /\ AnswersJustified /\ AllWriting => PolicyFileGuarded
    <2> SUFFICES ASSUME TypeOK, AnswersJustified, NEW c \in Callers,
                        Writing(c), status[c] = "running"
                 PROVE  PolicyFileGuarded!(c)!2
      BY DEF PolicyFileGuarded, AllWriting
    <2>1. /\ call[c] \in CallType
          /\ \A i \in 1..NumChecks(call[c]) :
               \E k \in seen[c] : Passes(Policy(k, call[c].tool), call[c], i)
      BY EnforcementAssumption DEF TypeOK, AnswersJustified
    <2>2. CASE call[c].tool \in {"createFile", "renameSymbol"}
      <3>1. NumChecks(call[c]) = 2
        <4>1. Checks[call[c].tool] = <<"allowed", "paths">>
          BY <2>2 DEF Checks
        <4> QED
          BY <2>2, <4>1 DEF NumChecks
      <3>2. PICK k \in seen[c] : Passes(Policy(k, call[c].tool), call[c], 2)
        BY <2>1, <3>1
      <3>3. \A i \in DOMAIN call[c].paths : call[c].paths[i] \notin Protected
        BY <2>1, <2>2, <3>2, PathsGuard
      <3>4. call[c].tool = "createFile" => written[c] \cap Protected = {}
        BY <3>3 DEF Writing, ToWrite
      <3> QED
        BY <2>2, <3>3, <3>4
    <2>3. CASE call[c].tool = "runInTerminal"
      <3>1. NumChecks(call[c]) = 4
        BY <2>3 DEF NumChecks, Checks
      <3>2. PICK k \in seen[c] : Passes(Policy(k, call[c].tool), call[c], 4)
        BY <2>1, <3>1
      <3> QED
        BY <2>1, <2>3, <3>2, CommandGuard DEF EditTools
    <2> QED
      BY <2>2, <2>3 DEF EditTools
  <1> QED
    BY <1>1, TypeCorrect, AnswersCorrect, WritingHolds, PTL
=============================================================================
