------------------------------ MODULE FileTools ------------------------------
(***************************************************************************)
(* The tools that change files: edit_editFiles, edit_renameSymbol,         *)
(* edit_createFile, edit_createNotebook, edit_editNotebook,                *)
(* execute_runNotebookCell and the tasks.json of execute_createAndRunTask. *)
(*                                                                         *)
(* Each reads files, computes what they shall be and writes them, without  *)
(* a lock: calls interleave between a read, the truncation of a file and   *)
(* the write to it, and a write may fail.  The run of a task, after its    *)
(* tasks.json is written, is a session of TerminalState.                   *)
(*                                                                         *)
(* A file is a list of items: the strings of a text, the cells of a        *)
(* notebook, the tasks of a tasks.json.  deny_paths is the set of files it *)
(* denies; that it may be replaced during a call is PolicyEnforcement's.   *)
(***************************************************************************)
EXTENDS Naturals, Sequences

CONSTANTS
  TextFiles,
  JsonFiles,    \* notebooks, and tasks.json
  Walk,         \* text files in the order in which renameSymbol visits them, once each
  Denied,       \* files that the policy denies to the tools
  Ids,          \* ids of cells and labels of tasks
  NoId,         \* an item that has none
  Texts,
  Failing,      \* code that fails when it is run
  Absent,       \* no file
  NoBytes,      \* a file that was truncated, or created, and not written
  Broken,       \* a file with part of a write, or parts of two
  Callers,
  Calls,        \* the calls they make
  Disks,        \* what the files hold at first
  WritesFail,   \* may a write fail (a full disk, a file without permission)?
  MaxCalls      \* bound: calls made

Files == TextFiles \cup JsonFiles

(* The output of a cell is known by the code that ran up to it.            *)
Item == [id : Ids \cup {NoId}, text : Texts, code : BOOLEAN, out : SUBSET Texts]
Doc  == Seq(Item)

(* An edit of a file.  lang is that of a cell, "keep" where none is given. *)
Change == [op : {"replace", "replaceAll", "upsert", "insertTop", "insertBottom",
                 "insertAfter", "edit", "delete", "run", "runOn", "create"},
           id : Ids \cup {NoId}, old : Texts, text : Texts,
           lang : {"keep", "code", "markdown"}]

Tools == {"editFiles", "renameSymbol", "createFile", "editNotebook", "runCell", "task"}

ASSUME FileAssumption ==
  /\ TextFiles \cap JsonFiles = {}
  /\ Walk \in Seq(TextFiles)
  /\ \A i, j \in DOMAIN Walk : Walk[i] = Walk[j] => i = j
  /\ Denied \subseteq Files
  /\ NoId \notin Ids
  /\ Failing \subseteq Texts
  /\ {Absent, NoBytes, Broken} \cap Doc = {}
  /\ Absent # NoBytes /\ Absent # Broken /\ NoBytes # Broken
  /\ Disks \subseteq [Files -> Doc \cup {Absent}]
  /\ Calls # {}
  /\ \A new \in Calls :
       /\ new.tool \in Tools
       /\ new.edits \in Seq([file : Files, change : Change])
       /\ new.edits # <<>>
       /\ new.tool # "editFiles" => Len(new.edits) = 1
       /\ \A i \in DOMAIN new.edits :
            LET ch == new.edits[i].change IN
            /\ ch.op = "insertAfter" => ch.id # NoId
            /\ new.tool = "createFile" => ch.op = "create"
  /\ WritesFail \in BOOLEAN
  /\ MaxCalls \in Nat

VARIABLES
  disk,       \* what each file holds
  pc,         \* where each caller is: "idle", "read", "write" or "open"
  call,       \* its call
  next,       \* the edit, or the file of the walk, that it reads next
  pending,    \* what it has computed and not yet written
  reply,      \* "none", "ok", "refused", "cellFailed" or "writeFailed"
  calls,      \* calls made so far
  before,     \* history: the files when its call began
  wrote,      \* history: the files it has opened for writing since
  disturbed,  \* history: the files others have opened for writing since
  failed      \* history: files to which a write has failed

history == <<before, wrote, disturbed, failed>>
vars == <<disk, pc, call, next, pending, reply, calls, history>>

-----------------------------------------------------------------------------
(* What a change makes of a document.                                      *)

Has(doc, id) == \E i \in DOMAIN doc : doc[i].id = id

(* The first item with the id.                                             *)
At(doc, id) == CHOOSE i \in DOMAIN doc :
                 doc[i].id = id /\ \A j \in 1..i - 1 : doc[j].id # id

Cell(text, lang) == [id |-> NoId, text |-> text, code |-> lang # "markdown", out |-> {}]

Insert(doc, i, item) == SubSeq(doc, 1, i) \o <<item>> \o SubSeq(doc, i + 1, Len(doc))

(* replaceAll, and the first occurrence only.                              *)
ReplaceEvery(doc, old, new) ==
  [i \in DOMAIN doc |-> IF doc[i].text = old THEN [doc[i] EXCEPT !.text = new] ELSE doc[i]]

ReplaceFirst(doc, old, new) ==
  [i \in DOMAIN doc |->
     IF doc[i].text = old /\ \A j \in 1..i - 1 : doc[j].text # old
     THEN [doc[i] EXCEPT !.text = new] ELSE doc[i]]

(* Mutant of Upsert: a task with the label is not looked for.              *)
UpsertAppends(doc, id, text) == Append(doc, [Cell(text, "keep") EXCEPT !.id = id])

(* upsertTask: the task with the label is replaced, or one is added.       *)
Upsert(doc, id, text) ==
  LET task == [Cell(text, "keep") EXCEPT !.id = id] IN
  IF Has(doc, id) THEN [doc EXCEPT ![At(doc, id)] = task] ELSE Append(doc, task)

EditCell(doc, i, text, lang) ==
  [doc EXCEPT ![i].text = text,
              ![i].code = IF lang = "keep" THEN @ ELSE lang # "markdown"]

(* The code of the cells up to i, which the output of cell i comes from.   *)
CodeUpTo(doc, i) == {doc[k].text : k \in {k \in 1..i : doc[k].code}}

(* Cells up to n are run and get their outputs.                            *)
Run(doc, n) ==
  [i \in DOMAIN doc |-> IF i <= n /\ doc[i].code
                        THEN [doc[i] EXCEPT !.out = CodeUpTo(doc, i)] ELSE doc[i]]

(* Without continueOnError nothing is saved when a cell before the target  *)
(* fails: fewer results come back than cells were sent.                    *)
RunsThrough(doc, n) == \A i \in 1..n - 1 : ~(doc[i].code /\ doc[i].text \in Failing)

Applies(ch, doc) ==
  CASE ch.op \in {"replace", "replaceAll"} ->
         ch.old # ch.text /\ \E i \in DOMAIN doc : doc[i].text = ch.old
    [] ch.op = "insertAfter"       -> Has(doc, ch.id)
    [] ch.op \in {"edit", "delete"} -> ch.id # NoId /\ Has(doc, ch.id)
    [] ch.op \in {"run", "runOn"}  ->
         /\ Has(doc, ch.id) /\ doc[At(doc, ch.id)].code
         /\ ch.op = "run" => RunsThrough(doc, At(doc, ch.id))
    [] OTHER -> TRUE

Updated(ch, doc) ==
  CASE ch.op = "replace"      -> ReplaceFirst(doc, ch.old, ch.text)
    [] ch.op = "replaceAll"   -> ReplaceEvery(doc, ch.old, ch.text)
    [] ch.op = "upsert"       -> Upsert(doc, ch.id, ch.text)
    [] ch.op = "insertTop"    -> Insert(doc, 0, Cell(ch.text, ch.lang))
    [] ch.op = "insertBottom" -> Append(doc, Cell(ch.text, ch.lang))
    [] ch.op = "insertAfter"  -> Insert(doc, At(doc, ch.id), Cell(ch.text, ch.lang))
    [] ch.op = "edit"         -> EditCell(doc, At(doc, ch.id), ch.text, ch.lang)
    [] ch.op = "delete"       -> SubSeq(doc, 1, At(doc, ch.id) - 1)
                                 \o SubSeq(doc, At(doc, ch.id) + 1, Len(doc))
    [] ch.op \in {"run", "runOn"} -> Run(doc, At(doc, ch.id))
    [] ch.op = "create"       -> <<Cell(ch.text, ch.lang)>>

-----------------------------------------------------------------------------
(* A call begins, and reads.                                               *)

Init ==
  /\ disk \in Disks
  /\ pc = [c \in Callers |-> "idle"]
  /\ call = [c \in Callers |-> CHOOSE new \in Calls : TRUE]
  /\ next = [c \in Callers |-> 1]
  /\ pending = [c \in Callers |-> <<>>]
  /\ reply = [c \in Callers |-> "none"]
  /\ calls = 0
  /\ before = [c \in Callers |-> disk]
  /\ wrote = [c \in Callers |-> {}]
  /\ disturbed = [c \in Callers |-> {}]
  /\ failed = {}

Goto(c, from, to) == pc[c] = from /\ pc' = [pc EXCEPT ![c] = to]

Return(c, from, r) ==
  /\ Goto(c, from, "idle")
  /\ reply' = [reply EXCEPT ![c] = r]

(* Mutant of Begin: what an earlier call left is not thrown away.          *)
BeginKeeps(c, new) ==
  /\ calls < MaxCalls
  /\ calls' = calls + 1
  /\ Goto(c, "idle", "read")
  /\ call' = [call EXCEPT ![c] = new]
  /\ next' = [next EXCEPT ![c] = 1]
  /\ reply' = [reply EXCEPT ![c] = "none"]
  /\ before' = [before EXCEPT ![c] = disk]
  /\ wrote' = [wrote EXCEPT ![c] = {}]
  /\ disturbed' = [disturbed EXCEPT ![c] = {}]
  /\ UNCHANGED <<disk, pending, failed>>

Begin(c, new) ==
  /\ calls < MaxCalls
  /\ calls' = calls + 1
  /\ Goto(c, "idle", "read")
  /\ call' = [call EXCEPT ![c] = new]
  /\ next' = [next EXCEPT ![c] = 1]
  /\ pending' = [pending EXCEPT ![c] = <<>>]
  /\ reply' = [reply EXCEPT ![c] = "none"]
  /\ before' = [before EXCEPT ![c] = disk]
  /\ wrote' = [wrote EXCEPT ![c] = {}]
  /\ disturbed' = [disturbed EXCEPT ![c] = {}]
  /\ UNCHANGED <<disk, failed>>

(* What a file holds for a reader: a text may have no bytes, a document    *)
(* that has none does not parse, and only tasks.json, or a file that is to *)
(* be created, may be absent.  What a broken text has left in it is not    *)
(* modelled: no edit is made of it.                                        *)
AsRead(content) == IF content \in {Absent, NoBytes} THEN <<>> ELSE content

Readable(f, ch, content) ==
  /\ content # Broken
  /\ content = NoBytes => f \in TextFiles
  /\ content = Absent => ch.op \in {"upsert", "create"}

(* createAndRunTask asks for its folder only, not for the file in it.      *)
Permitted(tool, f) == tool = "task" \/ f \notin Denied

Succeeds(tool, f, ch, content) ==
  /\ Permitted(tool, f)
  /\ Readable(f, ch, content)
  /\ Applies(ch, AsRead(content))

Walking(c) == call[c].tool = "renameSymbol"

(* The edit that is next: renameSymbol makes one change to every file.     *)
Edit(c)   == call[c].edits[IF Walking(c) THEN 1 ELSE next[c]]
Target(c) == IF Walking(c) THEN Walk[next[c]] ELSE Edit(c).file
Rounds(c) == IF Walking(c) THEN Len(Walk) ELSE Len(call[c].edits)

Write(c) == [file |-> Target(c), doc |-> Updated(Edit(c).change, AsRead(disk[Target(c)]))]

(* Mutant of ReadOne: each file is written as soon as its edit is computed.*)
ReadOneWrites(c) ==
  /\ pc[c] = "read" /\ ~Walking(c) /\ call[c].tool # "createFile"
  /\ Succeeds(call[c].tool, Target(c), Edit(c).change, disk[Target(c)])
  /\ disk' = [disk EXCEPT ![Target(c)] = Write(c).doc]
  /\ wrote' = [wrote EXCEPT ![c] = @ \cup {Target(c)}]
  /\ pending' = [pending EXCEPT ![c] = Append(@, Write(c))]
  /\ next' = [next EXCEPT ![c] = @ + 1]
  /\ pc' = [pc EXCEPT ![c] = IF next[c] = Rounds(c) THEN "write" ELSE "read"]
  /\ UNCHANGED <<call, reply, calls, before, disturbed, failed>>

(* One edit is read and computed; no file is written before all are.       *)
ReadOne(c) ==
  /\ pc[c] = "read" /\ ~Walking(c) /\ call[c].tool # "createFile"
  /\ Succeeds(call[c].tool, Target(c), Edit(c).change, disk[Target(c)])
  /\ pending' = [pending EXCEPT ![c] = Append(@, Write(c))]
  /\ next' = [next EXCEPT ![c] = @ + 1]
  /\ pc' = [pc EXCEPT ![c] = IF next[c] = Rounds(c) THEN "write" ELSE "read"]
  /\ UNCHANGED <<disk, call, reply, calls, history>>

RefuseOne(c) ==
  /\ pc[c] = "read" /\ ~Walking(c) /\ call[c].tool # "createFile"
  /\ ~Succeeds(call[c].tool, Target(c), Edit(c).change, disk[Target(c)])
  /\ Return(c, "read", "refused")
  /\ UNCHANGED <<disk, call, next, pending, calls, history>>

-----------------------------------------------------------------------------
(* os.WriteFile opens the file, which truncates it, and writes from its    *)
(* start: over what another call has written since, whose end may remain.  *)

Put(c, f, content) ==
  /\ disk' = [disk EXCEPT ![f] = content]
  /\ disturbed' = [d \in Callers |-> IF d = c THEN disturbed[d] ELSE disturbed[d] \cup {f}]

Opened(c, f) == Put(c, f, NoBytes) /\ wrote' = [wrote EXCEPT ![c] = @ \cup {f}]

Written(doc, content) == {doc} \cup (IF content \in {NoBytes, doc} THEN {} ELSE {Broken})

(* Mutant of OpenWrite: the call returns when the file is open.            *)
OpenWriteOnly(c) ==
  /\ Return(c, "write", "ok")
  /\ Opened(c, Head(pending[c]).file)
  /\ UNCHANGED <<call, next, pending, calls, before, failed>>

OpenWrite(c) ==
  /\ Goto(c, "write", "open")
  /\ Opened(c, Head(pending[c]).file)
  /\ UNCHANGED <<call, next, pending, reply, calls, before, failed>>

(* Mutant of OpenCreate: without O_EXCL.                                   *)
OpenCreateAlways(c) ==
  /\ pc[c] = "read" /\ call[c].tool = "createFile" /\ Target(c) \notin Denied
  /\ Goto(c, "read", "open")
  /\ Opened(c, Target(c))
  /\ pending' = [pending EXCEPT ![c] = <<[file |-> Target(c),
                                         doc |-> Updated(Edit(c).change, <<>>)]>>]
  /\ UNCHANGED <<call, next, reply, calls, before, failed>>

(* createFile and createNotebook open with O_EXCL.                         *)
OpenCreate(c) ==
  /\ pc[c] = "read" /\ call[c].tool = "createFile" /\ Target(c) \notin Denied
  /\ disk[Target(c)] = Absent
  /\ Goto(c, "read", "open")
  /\ Opened(c, Target(c))
  /\ pending' = [pending EXCEPT ![c] = <<[file |-> Target(c),
                                         doc |-> Updated(Edit(c).change, <<>>)]>>]
  /\ UNCHANGED <<call, next, reply, calls, before, failed>>

RefuseCreate(c) ==
  /\ pc[c] = "read" /\ call[c].tool = "createFile"
  /\ Target(c) \in Denied \/ disk[Target(c)] # Absent
  /\ Return(c, "read", "refused")
  /\ UNCHANGED <<disk, call, next, pending, calls, history>>

(* When the last write is done the call returns, or the walk goes on.  A   *)
(* run whose target cell fails is saved, and answered as an error.         *)
LastWrite(c) == Len(pending[c]) = 1

CellFails(c) ==
  LET ch == call[c].edits[1].change  doc == Head(pending[c]).doc
  IN  ch.op \in {"run", "runOn"} /\ doc[At(doc, ch.id)].text \in Failing

FinishWrite(c) ==
  /\ pc[c] = "open"
  /\ LET file == Head(pending[c]).file IN
       \E content \in Written(Head(pending[c]).doc, disk[file]) : Put(c, file, content)
  /\ pending' = [pending EXCEPT ![c] = Tail(@)]
  /\ IF Walking(c)
       THEN /\ Goto(c, "open", "read")
            /\ UNCHANGED reply
       ELSE IF ~LastWrite(c)
       THEN /\ Goto(c, "open", "write")
            /\ UNCHANGED reply
       ELSE Return(c, "open", IF CellFails(c) THEN "cellFailed" ELSE "ok")
  /\ UNCHANGED <<call, next, calls, before, wrote, failed>>

(* The file cannot be opened ...                                           *)
OpenFails(c) ==
  /\ WritesFail
  /\ Return(c, "write", "writeFailed")
  /\ UNCHANGED <<disk, call, next, pending, calls, history>>

(* ... or not, or in part only, be written after it was truncated.         *)
WriteFails(c) ==
  /\ WritesFail
  /\ Return(c, "open", "writeFailed")
  /\ LET file == Head(pending[c]).file IN
       /\ \E content \in {disk[file], Broken} : Put(c, file, content)
       /\ failed' = failed \cup {file}
  /\ UNCHANGED <<call, next, pending, calls, before, wrote>>

-----------------------------------------------------------------------------
(* renameSymbol reads and writes one file of the walk after the other.     *)

(* Mutant of Visit: deny_paths is not asked.                               *)
VisitAnyway(c) ==
  /\ pc[c] = "read" /\ Walking(c) /\ next[c] <= Rounds(c)
  /\ Readable(Target(c), Edit(c).change, disk[Target(c)])
  /\ Applies(Edit(c).change, AsRead(disk[Target(c)]))
  /\ Goto(c, "read", "write")
  /\ pending' = [pending EXCEPT ![c] = <<Write(c)>>]
  /\ next' = [next EXCEPT ![c] = @ + 1]
  /\ UNCHANGED <<disk, call, reply, calls, history>>

Visit(c) ==
  /\ pc[c] = "read" /\ Walking(c) /\ next[c] <= Rounds(c)
  /\ Succeeds(call[c].tool, Target(c), Edit(c).change, disk[Target(c)])
  /\ Goto(c, "read", "write")
  /\ pending' = [pending EXCEPT ![c] = <<Write(c)>>]
  /\ next' = [next EXCEPT ![c] = @ + 1]
  /\ UNCHANGED <<disk, call, reply, calls, history>>

(* Mutant of Skip: the walk ends at a file that is passed over.            *)
SkipEnds(c) ==
  /\ pc[c] = "read" /\ Walking(c) /\ next[c] <= Rounds(c)
  /\ ~Succeeds(call[c].tool, Target(c), Edit(c).change, disk[Target(c)])
  /\ next' = [next EXCEPT ![c] = Rounds(c) + 1]
  /\ UNCHANGED <<disk, pc, call, pending, reply, calls, history>>

Skip(c) ==
  /\ pc[c] = "read" /\ Walking(c) /\ next[c] <= Rounds(c)
  /\ ~Succeeds(call[c].tool, Target(c), Edit(c).change, disk[Target(c)])
  /\ next' = [next EXCEPT ![c] = @ + 1]
  /\ UNCHANGED <<disk, pc, call, pending, reply, calls, history>>

WalkEnds(c) ==
  /\ pc[c] = "read" /\ Walking(c) /\ next[c] > Rounds(c)
  /\ Return(c, "read", IF wrote[c] = {} THEN "refused" ELSE "ok")
  /\ UNCHANGED <<disk, call, next, pending, calls, history>>

-----------------------------------------------------------------------------
Step(c) ==
  \/ ReadOne(c) \/ RefuseOne(c)
  \/ OpenCreate(c) \/ RefuseCreate(c)
  \/ Visit(c) \/ Skip(c) \/ WalkEnds(c)
  \/ OpenWrite(c) \/ FinishWrite(c) \/ OpenFails(c) \/ WriteFails(c)

Next == \E c \in Callers : (\E new \in Calls : Begin(c, new)) \/ Step(c)

Spec == Init /\ [][Next]_vars

-----------------------------------------------------------------------------
(* Properties.                                                             *)

Writes == Seq([file : Files, doc : Doc])

TypeOK ==
  /\ disk \in [Files -> Doc \cup {Absent, NoBytes, Broken}]
  /\ pc \in [Callers -> {"idle", "read", "write", "open"}]
  /\ call \in [Callers -> Calls]
  /\ next \in [Callers -> Nat \ {0}]
  /\ \A c \in Callers : next[c] <= Rounds(c) + 1
  /\ pending \in [Callers -> Writes]
  /\ \A c \in Callers :
       /\ Len(pending[c]) <= Len(call[c].edits)
       /\ pc[c] \in {"write", "open"} => pending[c] # <<>>
  /\ reply \in [Callers -> {"none", "ok", "refused", "cellFailed", "writeFailed"}]
  /\ calls \in 0..MaxCalls
  /\ before \in [Callers -> [Files -> Doc \cup {Absent, NoBytes, Broken}]]
  /\ wrote \in [Callers -> SUBSET Files]
  /\ disturbed \in [Callers -> SUBSET Files]
  /\ failed \subseteq Files

(* A call that is refused has changed nothing: not when the last of its    *)
(* edits is the one that is denied or does not come to anything.           *)
RefusalWritesNothing ==
  \A c \in Callers : reply[c] = "refused" => wrote[c] = {}

(* Edits of a call that name different files.                              *)
Distinct(edits) == \A i, j \in DOMAIN edits : edits[i].file = edits[j].file => i = j

(* The files of a call, and what each shall be when it was content.        *)
FilesOf(new) ==
  IF new.tool = "renameSymbol" THEN {Walk[i] : i \in DOMAIN Walk}
  ELSE {new.edits[i].file : i \in DOMAIN new.edits}

Intended(new, f, content) ==
  LET i == CHOOSE k \in DOMAIN new.edits :
             new.tool = "renameSymbol" \/ new.edits[k].file = f
  IN  IF Succeeds(new.tool, f, new.edits[i].change, content)
      THEN Updated(new.edits[i].change, AsRead(content)) ELSE content

(* A call that succeeds, or saves a cell that fails, has made each of its  *)
(* changes of what the file was when it began, and no other change, unless *)
(* another call has written the file since.                                *)
AnsweredIsDone ==
  \A c \in Callers : reply[c] \in {"ok", "cellFailed"} /\ Distinct(call[c].edits) =>
    \A f \in Files \ disturbed[c] :
      disk[f] = IF f \in FilesOf(call[c]) THEN Intended(call[c], f, before[c][f])
                ELSE before[c][f]

(* A file without its bytes is one that a call is about to write, or that  *)
(* a write to has failed: writers that overlap do not leave it empty.      *)
NoEmptyFile ==
  \A f \in Files \ failed : disk[f] = NoBytes =>
    \E c \in Callers : pc[c] = "open" /\ Head(pending[c]).file = f

(* However calls overlap, no document comes to have two cells with one id, *)
(* or two tasks with one label.                                            *)
IdsUnique ==
  \A f \in JsonFiles : disk[f] \in Doc =>
    \A i, j \in DOMAIN disk[f] :
      disk[f][i].id = disk[f][j].id /\ disk[f][i].id # NoId => i = j

(* Of two calls that create one file, one is refused.                      *)
OneCreates ==
  \A c, d \in Callers :
    (/\ reply[c] = "ok" /\ call[c].tool = "createFile"
     /\ reply[d] = "ok" /\ call[d].tool = "createFile"
     /\ call[c].edits[1].file = call[d].edits[1].file) => c = d

(* No tool changes a file that is denied, except the tasks.json of a       *)
(* folder that is not.                                                     *)
DeniedUntouched ==
  [][\A f \in Denied : disk'[f] # disk[f] =>
       \E c \in Callers : /\ call[c].tool = "task"
                          /\ \E i \in DOMAIN call[c].edits : call[c].edits[i].file = f]_vars
=============================================================================
