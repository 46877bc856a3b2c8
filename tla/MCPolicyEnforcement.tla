------------------------ MODULE MCPolicyEnforcement -------------------------
EXTENDS PolicyEnforcement, TLC

(* Three arguments: "sh" embeds "rm", and "env" is the policy file.        *)
MCArgs      == {"sh", "rm", "env"}
MCPatterns  == {"r*", "s*", "*"}
MCMatched   == [p \in MCPatterns |->
                 CASE p = "r*" -> {"rm"} [] p = "s*" -> {"sh"} [] p = "*" -> MCArgs]
MCEscapes   == {"sh"}
MCProtected == {"env"}
MCEmbedded  == [a \in MCArgs \cup {NoArg} |-> IF a = "sh" THEN "rm" ELSE NoArg]

Says(tools, pol) == [t \in tools |-> pol]

(* Files: silent, one that disables, one that allows, and lists of each    *)
(* kind.                                                                   *)
MCFiles == {
  NoConfig,
  Says({"killTerminal", "runInTerminal"}, [ZeroPolicy EXCEPT !.allowed = "no"]),
  Says({"killTerminal", "runInTerminal", "readFile"},
       [ZeroPolicy EXCEPT !.allowed = "yes", !.allowCommands = {"r*", "s*"}]),
  Says({"runInTerminal", "createAndRunTask"},
       [ZeroPolicy EXCEPT !.allowCommands = {"r*"}, !.denyShellEscape = TRUE]),
  Says({"readFile", "createFile", "editFiles", "renameSymbol", "fetch", "runInTerminal",
        "createAndRunTask"},
       [ZeroPolicy EXCEPT !.denyPaths = {"s*"}, !.denyCommands = {"r*"},
                          !.denyURLs = {"r*"}])}

On(t, paths, text) == [tool |-> t, paths |-> paths, text |-> text, walk |-> {}]

EditCalls == {On("editFiles", <<"rm", "sh">>, NoArg), On("editFiles", <<"env">>, NoArg)}

(* Renames below the workspace root, and with the policy file as a hint.   *)
RenameCalls ==
  {[tool |-> "renameSymbol", paths |-> paths, text |-> NoArg, walk |-> MCArgs] :
     paths \in {<<>>, <<"env">>}}

MCCalls == EditCalls \cup RenameCalls \cup
  {On("killTerminal", <<>>, NoArg), On("fetch", <<>>, "rm"),
   On("createAndRunTask", <<"env">>, "env"),
   On("runInTerminal", <<"rm">>, "rm"), On("runInTerminal", <<>>, "sh"),
   On("runInTerminal", <<>>, "env"),
   On("readFile", <<"sh">>, NoArg),
   On("createFile", <<"env">>, NoArg), On("createFile", <<"sh">>, NoArg)}
=============================================================================
