---------------------------- MODULE PolicyMerge -----------------------------
(***************************************************************************)
(* What a policy means (internal/policy/policy.go) and how the policies of *)
(* the user and of the project are merged (internal/config/config.go).     *)
(* Operators only: PolicyEnforcement runs calls against them.              *)
(*                                                                         *)
(* A tool stands for all those registered with the same middlewares.  An   *)
(* argument is what patterns are matched against: a cleaned path, a        *)
(* command, the host of a URL.  A pattern is known by what it matches, and *)
(* a list of patterns is their set, as its order only picks the message.   *)
(***************************************************************************)
EXTENDS Naturals, Sequences

CONSTANTS
  Args,       \* the arguments of calls
  NoArg,      \* an optional argument that is not given
  Patterns,
  Matched,    \* the arguments each pattern matches
  Escapes,    \* commands that match shellEscapePatterns
  Protected,  \* paths to .no-pilot.yaml, and commands that name it
  Embedded    \* the command that a command hands to a shell, or NoArg

ASSUME PolicyAssumption ==
  /\ NoArg \notin Args
  /\ Matched \in [Patterns -> SUBSET Args]
  /\ Escapes \subseteq Args /\ Protected \subseteq Args
  /\ Embedded \in [Args \cup {NoArg} -> Args \cup {NoArg}]
  /\ Embedded[NoArg] = NoArg

-----------------------------------------------------------------------------
(* The tools and the checks that each makes of a call, in order; every one *)
(* looks the policy up again.                                              *)

Checks == [
  killTerminal     |-> <<"allowed">>,
  readFile         |-> <<"allowed", "paths">>,
  createFile       |-> <<"allowed", "paths">>,
  editFiles        |-> <<"allowed">>,
  renameSymbol     |-> <<"allowed", "paths">>,
  fetch            |-> <<"allowed", "url">>,
  runInTerminal    |-> <<"allowed", "paths", "allowed", "command">>,
  createAndRunTask |-> <<"allowed", "paths", "allowed", "command">>]

Tools     == DOMAIN Checks
EditTools == {"createFile", "editFiles", "renameSymbol"}

(* A call: its tool, its paths, its command or URL if it gives one, and    *)
(* the text files that a walk from its paths comes to.                     *)
CallType == [tool : Tools, paths : Seq(Args), text : Args \cup {NoArg},
             walk : SUBSET Args]

(* editFiles checks its edits itself, one after the other.                 *)
NumChecks(call) ==
  Len(Checks[call.tool]) + IF call.tool = "editFiles" THEN Len(call.paths) ELSE 0

-----------------------------------------------------------------------------
(* Policies of a tool: as written in a file, and with the lists that merge *)
(* keeps of each layer.                                                    *)

PolicyType == [
  allowed            : {"unset", "yes", "no"},
  denyPaths          : SUBSET Patterns,
  allowCommands      : SUBSET Patterns,
  denyCommands       : SUBSET Patterns,
  denyURLs           : SUBSET Patterns,
  denyShellEscape    : BOOLEAN,
  allowCommandLayers : SUBSET SUBSET Patterns]

ZeroPolicy == [
  allowed |-> "unset", denyPaths |-> {}, allowCommands |-> {}, denyCommands |-> {},
  denyURLs |-> {}, denyShellEscape |-> FALSE, allowCommandLayers |-> {}]

(* A configuration has policies for some tools.                            *)
IsConfig(k) ==
  /\ DOMAIN k \subseteq Tools
  /\ k \in [DOMAIN k -> PolicyType]

(* A policy file cannot set allowCommandLayers.                            *)
IsFile(k) == IsConfig(k) /\ \A tool \in DOMAIN k : k[tool].allowCommandLayers = {}

Policy(k, tool) == IF tool \in DOMAIN k THEN k[tool] ELSE ZeroPolicy

-----------------------------------------------------------------------------
(* One check of a call against the policy of its tool.                     *)

IsAllowed(pol) == pol.allowed # "no"

MatchesAny(arg, patterns) == \E p \in patterns : arg \in Matched[p]

(* Mutant of PathsPass: the guard is only there with denied paths.         *)
PathsPassUnguarded(pol, call) ==
  \A i \in DOMAIN call.paths :
    pol.denyPaths = {} \/
      /\ ~(call.tool \in EditTools /\ call.paths[i] \in Protected)
      /\ ~MatchesAny(call.paths[i], pol.denyPaths)

PathsPass(pol, call) ==
  \A i \in DOMAIN call.paths :
    /\ ~(call.tool \in EditTools /\ call.paths[i] \in Protected)
    /\ ~MatchesAny(call.paths[i], pol.denyPaths)

Layers(pol) ==
  IF pol.allowCommandLayers = {} /\ pol.allowCommands # {}
    THEN {pol.allowCommands}
    ELSE pol.allowCommandLayers

CommandPasses(pol, tool, cmd) ==
  /\ ~(tool = "runInTerminal" /\ cmd \in Protected)
  /\ \A layer \in Layers(pol) : MatchesAny(cmd, layer)
  /\ ~(pol.denyShellEscape /\ cmd \in Escapes)
  /\ ~MatchesAny(cmd, pol.denyCommands)

(* A command and what it embeds, maxCommandHopDepth = 3 times over.        *)
Hops(cmd) ==
  LET one == Embedded[cmd]  two == Embedded[one]  three == Embedded[two]
  IN  {cmd, one, two, three} \ {NoArg}

Passes(pol, call, i) ==
  IF i > Len(Checks[call.tool])
  THEN ~MatchesAny(call.paths[i - Len(Checks[call.tool])], pol.denyPaths)
  ELSE CASE Checks[call.tool][i] = "allowed" -> IsAllowed(pol)
         [] Checks[call.tool][i] = "paths"   -> PathsPass(pol, call)
         [] Checks[call.tool][i] = "url"     -> ~MatchesAny(call.text, pol.denyURLs)
         [] Checks[call.tool][i] = "command" ->
              \A cmd \in Hops(call.text) : CommandPasses(pol, call.tool, cmd)

(* Does a configuration that stays in force admit the call?                *)
Admits(k, call) ==
  \A i \in 1..NumChecks(call) : Passes(Policy(k, call.tool), call, i)

-----------------------------------------------------------------------------
(* merge                                                                   *)

(* The policy of a tool that no earlier layer names.                       *)
FirstLayer(src) ==
  IF src.allowCommands = {} THEN src
  ELSE [src EXCEPT !.allowCommandLayers = {src.allowCommands}]

(* Mutant of MergePolicy: a later layer can enable a tool again.           *)
MergePolicyLast(dst, src) ==
  [dst EXCEPT
    !.allowed = IF src.allowed = "unset" THEN @ ELSE src.allowed,
    !.denyPaths = @ \cup src.denyPaths,
    !.denyCommands = @ \cup src.denyCommands,
    !.denyURLs = @ \cup src.denyURLs,
    !.denyShellEscape = @ \/ src.denyShellEscape,
    !.allowCommandLayers = @ \cup ({src.allowCommands} \ {{}})]

MergePolicy(dst, src) ==
  [dst EXCEPT
    !.allowed = IF src.allowed = "no" \/ @ = "unset" THEN src.allowed ELSE @,
    !.denyPaths = @ \cup src.denyPaths,
    !.denyCommands = @ \cup src.denyCommands,
    !.denyURLs = @ \cup src.denyURLs,
    !.denyShellEscape = @ \/ src.denyShellEscape,
    !.allowCommandLayers = @ \cup ({src.allowCommands} \ {{}})]

Merge(dst, src) ==
  [tool \in DOMAIN dst \cup DOMAIN src |->
     IF tool \notin DOMAIN src THEN dst[tool]
     ELSE IF tool \notin DOMAIN dst THEN FirstLayer(src[tool])
     ELSE MergePolicy(dst[tool], src[tool])]

NoConfig == [tool \in {} |-> ZeroPolicy]

(* Load: the project's file is laid over the user's.                       *)
Load(user, project) == Merge(Merge(NoConfig, user), project)
=============================================================================
