---------------------------- MODULE MCFileTools -----------------------------
EXTENDS FileTools, SequencesExt, TLC

(* Texts: "a" becomes "b" or "c"; "x" is code that fails.                  *)
MCTexts == {"a", "b", "c", "x"}
MCWalk  == <<"one", "secret", "two">>

Line(text)     == [id |-> NoId, text |-> text, code |-> TRUE, out |-> {}]
Named(id, text) == [Line(text) EXCEPT !.id = id]

(* Three texts, one of them denied, a new one, a notebook and tasks.json.  *)
MCDisk(tasks) ==
  "one"      :> <<Line("a"), Line("b"), Line("a")>> @@
  "secret"   :> <<Line("a")>> @@
  "two"      :> <<Line("a")>> @@
  "new"      :> Absent @@
  "notebook" :> <<Named("i", "a"), [Named("j", "a") EXCEPT !.code = FALSE], Named("k", "x")>> @@
  "tasks"    :> tasks

MCDisks == {MCDisk(Absent), MCDisk(<<Named("i", "a")>>)}

Ch(op, id, old, text, lang) ==
  [op |-> op, id |-> id, old |-> old, text |-> text, lang |-> lang]
On(file, change) == [file |-> file, change |-> change]
One(tool, file, change) == [tool |-> tool, edits |-> <<On(file, change)>>]

AtoB  == Ch("replace", NoId, "a", "b", "keep")
BtoC  == Ch("replaceAll", NoId, "b", "c", "keep")

TextCalls == {
  [tool |-> "editFiles", edits |-> <<On("one", AtoB), On("two", AtoB)>>],
  [tool |-> "editFiles", edits |-> <<On("one", BtoC), On("secret", AtoB)>>],
  One("renameSymbol", "one", Ch("replaceAll", NoId, "a", "c", "keep")),
  One("createFile", "new", Ch("create", NoId, "a", "a", "keep"))}

JsonCalls == {
  One("task", "tasks", Ch("upsert", "i", "b", "b", "keep")),
  One("task", "tasks", Ch("upsert", "j", "b", "b", "keep")),
  One("editNotebook", "notebook", Ch("insertAfter", "i", "b", "b", "markdown")),
  One("editNotebook", "notebook", Ch("insertTop", NoId, "c", "c", "code")),
  One("editNotebook", "notebook", Ch("insertBottom", NoId, "c", "c", "keep")),
  One("editNotebook", "notebook", Ch("edit", "i", "x", "x", "keep")),
  One("editNotebook", "notebook", Ch("edit", "j", "x", "b", "code")),
  One("editNotebook", "notebook", Ch("delete", "i", "a", "a", "keep")),
  One("runCell", "notebook", Ch("run", "k", "a", "a", "keep")),
  One("runCell", "notebook", Ch("runOn", "i", "a", "a", "keep"))}

MCCalls == TextCalls \cup JsonCalls

(* A call with two edits of one file, and another call.                    *)
TwiceCalls == {[tool |-> "editFiles",
                edits |-> <<On("one", AtoB), On("one", Ch("replace", NoId, "b", "c", "keep"))>>],
               [tool |-> "editFiles", edits |-> <<On("two", AtoB)>>]}

Symmetric == Permutations(Callers)

(* "applied %d edit(s)" (edit_files.go:94): what a file holds after a call *)
(* of editFiles is what its edits make of it one after the other, unless   *)
(* another call has written the file since the call began.                 *)
AppliedEditsAreThere ==
  \A c \in Callers : reply[c] = "ok" /\ call[c].tool = "editFiles" =>
    \A f \in FilesOf(call[c]) \ disturbed[c] :
      disk[f] = FoldLeft(LAMBDA content, edit :
                           IF edit.file = f THEN Updated(edit.change, content) ELSE content,
                         before[c][f], call[c].edits)
=============================================================================
