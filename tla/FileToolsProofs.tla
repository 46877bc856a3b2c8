-------------------------- MODULE FileToolsProofs ---------------------------
(***************************************************************************)
(* Proofs about FileTools, for any files, calls and number of callers,     *)
(* whether or not writes may fail.                                         *)
(***************************************************************************)
EXTENDS FileTools, SequenceTheorems, WellFoundedInduction, TLAPS

(* A set of numbers that is not empty has a least one.                     *)
LEMMA Least ==
  ASSUME NEW T \in SUBSET Nat, T # {}
  PROVE  \E i \in T : \A j \in T : ~(j < i)
  <1> DEFINE R == {ss \in Nat \X Nat : ss[1] < ss[2]}
  <1>1. IsWellFoundedOn(R, Nat)
    BY NatLessThanWellFounded DEF OpToRel
  <1>2. \A i, j \in Nat : j < i => <<j, i>> \in R
    OBVIOUS
  <1> HIDE DEF R
  <1>3. \E i \in T : \A j \in T : <<j, i>> \notin R
    BY <1>1, WFMin
  <1> QED
    BY <1>2, <1>3

LEMMA AtFirst ==
  ASSUME NEW doc \in Doc, NEW id, Has(doc, id)
  PROVE  At(doc, id) \in DOMAIN doc /\ doc[At(doc, id)].id = id
  <1> DEFINE T == {i \in DOMAIN doc : doc[i].id = id}
  <1>1. DOMAIN doc = 1..Len(doc) /\ Len(doc) \in Nat
    BY DEF Doc
  <1>2. T \in SUBSET Nat /\ T # {}
    BY <1>1 DEF Has
  <1>3. PICK i \in T : \A j \in T : ~(j < i)
    BY <1>2, Least
  <1>4. i \in DOMAIN doc /\ doc[i].id = id /\ \A j \in 1..i - 1 : doc[j].id # id
    BY <1>1, <1>3
  <1> QED
    BY <1>4 DEF At

-----------------------------------------------------------------------------
(* What a change makes of a document is a document.                        *)

LEMMA Constants ==
  ASSUME NEW new \in Calls
  PROVE  /\ new.tool \in Tools
         /\ new.edits \in Seq([file : Files, change : Change])
         /\ new.edits # <<>>
         /\ new.tool # "editFiles" => Len(new.edits) = 1
         /\ \A i \in 1..Len(new.edits) :
              /\ new.edits[i].file \in Files
              /\ new.edits[i].change \in Change
              /\ new.edits[i].change.op = "insertAfter" => new.edits[i].change.id # NoId
              /\ new.tool = "createFile" => new.edits[i].change.op = "create"
  <1>1. /\ new.tool \in Tools
        /\ new.edits \in Seq([file : Files, change : Change])
        /\ new.edits # <<>>
        /\ new.tool # "editFiles" => Len(new.edits) = 1
        /\ \A i \in DOMAIN new.edits :
             /\ new.edits[i].change.op = "insertAfter" => new.edits[i].change.id # NoId
             /\ new.tool = "createFile" => new.edits[i].change.op = "create"
    BY FileAssumption
  <1> DEFINE E == [file : Files, change : Change]  edits == new.edits
  <1>2. /\ DOMAIN edits = 1..Len(edits)
        /\ \A i \in 1..Len(edits) : edits[i] \in E
    <2>1. edits \in Seq(E)
      BY <1>1
    <2> HIDE DEF E, edits
    <2> QED
      BY <2>1, ElementOfSeq, LenProperties
  <1>3. \A e \in E : e.file \in Files /\ e.change \in Change
    OBVIOUS
  <1> HIDE DEF E
  <1> QED
    BY <1>1, <1>2, <1>3 DEF E

LEMMA CellType ==
  ASSUME NEW text \in Texts, NEW lang
  PROVE  Cell(text, lang) \in Item
  BY DEF Cell, Item

LEMMA InsertType ==
  ASSUME NEW doc \in Doc, NEW i \in 0..Len(doc), NEW item \in Item
  PROVE  Insert(doc, i, item) \in Doc
  <1>1. doc \in Seq(Item) /\ Len(doc) \in Nat
    BY DEF Doc
  <1>2. SubSeq(doc, 1, i) \in Seq(Item) /\ SubSeq(doc, i + 1, Len(doc)) \in Seq(Item)
    BY <1>1, SubSeqProperties
  <1>3. <<item>> \in Seq(Item)
    OBVIOUS
  <1>4. SubSeq(doc, 1, i) \o <<item>> \in Seq(Item)
    BY <1>2, <1>3, ConcatProperties
  <1> QED
    BY <1>2, <1>4, ConcatProperties DEF Insert, Doc

LEMMA UpdatedType ==
  ASSUME NEW ch \in Change, NEW doc \in Doc, Applies(ch, doc),
         ch.op = "insertAfter" => ch.id # NoId
  PROVE  Updated(ch, doc) \in Doc
  <1>1. doc \in Seq(Item) /\ Len(doc) \in Nat /\ DOMAIN doc = 1..Len(doc)
    BY DEF Doc
  <1>2. /\ ch.text \in Texts /\ ch.id \in Ids \cup {NoId} /\ Cell(ch.text, ch.lang) \in Item
        /\ ch.op \in {"replace", "replaceAll", "upsert", "insertTop", "insertBottom",
                      "insertAfter", "edit", "delete", "run", "runOn", "create"}
    BY CellType DEF Change
  <1>3. \A i \in 1..Len(doc) : doc[i] \in Item
    BY <1>1
  <1>4. CASE ch.op = "replace"
    <2> DEFINE f == ReplaceFirst(doc, ch.old, ch.text)
    <2>1. f \in [1..Len(doc) -> Item]
      BY <1>1, <1>2, <1>3 DEF ReplaceFirst, Item
    <2> QED
      BY <1>1, <1>4, <2>1 DEF Updated, Doc
  <1>5. CASE ch.op = "replaceAll"
    <2>1. ReplaceEvery(doc, ch.old, ch.text) \in [1..Len(doc) -> Item]
      BY <1>1, <1>2, <1>3 DEF ReplaceEvery, Item
    <2> QED
      BY <1>1, <1>5, <2>1 DEF Updated, Doc
  <1>6. CASE ch.op = "upsert"
    <2> DEFINE task == [Cell(ch.text, "keep") EXCEPT !.id = ch.id]
    <2>1. task \in Item
      BY <1>2, CellType DEF Item
    <2>2. Has(doc, ch.id) => At(doc, ch.id) \in 1..Len(doc)
      BY <1>1, AtFirst
    <2> HIDE DEF task
    <2>3. Has(doc, ch.id) => [doc EXCEPT ![At(doc, ch.id)] = task] \in [1..Len(doc) -> Item]
      BY <1>1, <1>3, <2>1, <2>2
    <2>4. Append(doc, task) \in Seq(Item)
      BY <1>1, <2>1
    <2>5. Updated(ch, doc) = IF Has(doc, ch.id) THEN [doc EXCEPT ![At(doc, ch.id)] = task]
                             ELSE Append(doc, task)
      BY <1>6 DEF Updated, Upsert, task
    <2> QED
      BY <1>1, <2>3, <2>4, <2>5 DEF Doc
  <1>7. CASE ch.op \in {"insertTop", "insertBottom", "create"}
    BY <1>1, <1>2, <1>7, InsertType DEF Updated, Doc
  <1>8. CASE ch.op = "insertAfter"
    <2>1. Has(doc, ch.id)
      BY <1>8 DEF Applies
    <2>2. At(doc, ch.id) \in 0..Len(doc)
      BY <1>1, <2>1, AtFirst
    <2> QED
      BY <1>2, <1>8, <2>2, InsertType DEF Updated
  <1>9. CASE ch.op = "edit"
    <2>1. At(doc, ch.id) \in 1..Len(doc)
      BY <1>1, <1>9, AtFirst DEF Applies
    <2>2. EditCell(doc, At(doc, ch.id), ch.text, ch.lang) \in [1..Len(doc) -> Item]
      BY <1>1, <1>2, <1>3, <2>1 DEF EditCell, Item
    <2> QED
      BY <1>1, <1>9, <2>2 DEF Updated, Doc
  <1>10. CASE ch.op = "delete"
    <2>1. At(doc, ch.id) \in 1..Len(doc)
      BY <1>1, <1>10, AtFirst DEF Applies
    <2>2. /\ SubSeq(doc, 1, At(doc, ch.id) - 1) \in Seq(Item)
          /\ SubSeq(doc, At(doc, ch.id) + 1, Len(doc)) \in Seq(Item)
      BY <1>1, <2>1, SubSeqProperties
    <2> QED
      BY <1>10, <2>2, ConcatProperties DEF Updated, Doc
  <1>11. CASE ch.op \in {"run", "runOn"}
    <2>1. Run(doc, At(doc, ch.id)) \in [1..Len(doc) -> Item]
      <3>1. \A i \in 1..Len(doc) : CodeUpTo(doc, i) \subseteq Texts
        BY <1>1, <1>3 DEF CodeUpTo, Item
      <3> QED
        BY <1>1, <1>3, <3>1 DEF Run, Item
    <2> QED
      BY <1>1, <1>11, <2>1 DEF Updated, Doc
  <1> QED
    BY <1>2, <1>4, <1>5, <1>6, <1>7, <1>8, <1>9, <1>10, <1>11

-----------------------------------------------------------------------------
(* The inductive invariant: what a caller has still to write, at each of   *)
(* its steps, belongs to its call and to files that it may change; a call  *)
(* that has not computed the last of its edits has written nothing.        *)

(* A file that the call may change: for a task, its tasks.json.            *)
Granted(new, f) ==
  /\ Permitted(new.tool, f)
  /\ new.tool = "task" => \E i \in DOMAIN new.edits : new.edits[i].file = f

Bounded(c) ==
  /\ next[c] <= Rounds(c) + 1
  /\ Len(pending[c]) <= Len(call[c].edits)
  /\ pc[c] \in {"write", "open"} => pending[c] # <<>>

CallerInv(c) ==
  /\ Bounded(c)
  /\ pc[c] # "idle" => reply[c] = "none"
  /\ reply[c] = "refused" => wrote[c] = {}
  /\ pc[c] = "read" =>
       IF Walking(c) THEN pending[c] = <<>>
       ELSE /\ wrote[c] = {}
            /\ next[c] = Len(pending[c]) + 1 /\ next[c] <= Len(call[c].edits)
  /\ \A i \in 1..Len(pending[c]) : Granted(call[c], pending[c][i].file)

(* The functions of TypeOK; the rest of it is part of CallerInv.           *)
Ranges ==
  /\ disk \in [Files -> Doc \cup {Absent, NoBytes, Broken}]
  /\ pc \in [Callers -> {"idle", "read", "write", "open"}]
  /\ call \in [Callers -> Calls]
  /\ next \in [Callers -> Nat \ {0}]
  /\ pending \in [Callers -> Writes]
  /\ reply \in [Callers -> {"none", "ok", "refused", "cellFailed", "writeFailed"}]
  /\ calls \in 0..MaxCalls
  /\ before \in [Callers -> [Files -> Doc \cup {Absent, NoBytes, Broken}]]
  /\ wrote \in [Callers -> SUBSET Files]
  /\ disturbed \in [Callers -> SUBSET Files]
  /\ failed \subseteq Files

IInv == Ranges /\ \A c \in Callers : CallerInv(c)

LEMMA TypeOKParts == TypeOK <=> Ranges /\ \A c \in Callers : Bounded(c)
  BY DEF TypeOK, Ranges, Bounded

(* What is known of the sequences of one caller.                           *)
LEMMA Types ==
  ASSUME IInv, NEW c \in Callers
  PROVE  /\ call[c] \in Calls
         /\ next[c] \in Nat /\ next[c] >= 1 /\ next[c] <= Rounds(c) + 1
         /\ pending[c] \in Writes /\ Len(pending[c]) \in Nat
         /\ Len(pending[c]) <= Len(call[c].edits) /\ Len(call[c].edits) \in Nat
         /\ \A i \in 1..Len(pending[c]) : pending[c][i].file \in Files /\ pending[c][i].doc \in Doc
         /\ wrote[c] \in SUBSET Files
  <1> DEFINE E == [file : Files, doc : Doc]  writes == pending[c]
  <1>1. /\ call[c] \in Calls
        /\ next[c] \in Nat /\ next[c] >= 1 /\ next[c] <= Rounds(c) + 1
        /\ pending[c] \in Writes
        /\ Len(pending[c]) <= Len(call[c].edits)
        /\ wrote[c] \in SUBSET Files
    BY DEF IInv, Ranges, CallerInv, Bounded
  <1>2. Len(call[c].edits) \in Nat
    BY <1>1, Constants, LenProperties
  <1>3. Len(writes) \in Nat /\ \A i \in 1..Len(writes) : writes[i] \in E
    <2>1. writes \in Seq(E)
      BY <1>1 DEF Writes
    <2> HIDE DEF E, writes
    <2> QED
      BY <2>1, ElementOfSeq, LenProperties
  <1>4. \A e \in E : e.file \in Files /\ e.doc \in Doc
    OBVIOUS
  <1> HIDE DEF E
  <1> QED
    BY <1>1, <1>2, <1>3, <1>4 DEF E

(* The edit that a caller reads next, and the write that it makes of it.   *)
LEMMA Reading ==
  ASSUME IInv, NEW c \in Callers,
         IF Walking(c) THEN next[c] <= Rounds(c) ELSE next[c] <= Len(call[c].edits)
  PROVE  /\ Target(c) \in Files /\ Edit(c).change \in Change
         /\ Edit(c).change.op = "insertAfter" => Edit(c).change.id # NoId
         /\ Permitted(call[c].tool, Target(c)) => Granted(call[c], Target(c))
  <1>1. /\ call[c] \in Calls /\ next[c] \in Nat /\ next[c] >= 1
        /\ Len(call[c].edits) \in Nat
    BY Types
  <1>2. /\ \A i \in 1..Len(call[c].edits) :
             /\ call[c].edits[i].file \in Files
             /\ call[c].edits[i].change \in Change
             /\ call[c].edits[i].change.op = "insertAfter" => call[c].edits[i].change.id # NoId
        /\ DOMAIN call[c].edits = 1..Len(call[c].edits)
        /\ call[c].tool # "editFiles" => Len(call[c].edits) = 1
    BY <1>1, Constants, LenProperties
  <1>3. CASE Walking(c)
    <2>1. Walk[next[c]] \in TextFiles
      BY <1>1, <1>3, FileAssumption, ElementOfSeq, LenProperties DEF Rounds
    <2> QED
      BY <1>2, <1>3, <2>1 DEF Walking, Edit, Target, Granted, Files
  <1>4. CASE ~Walking(c)
    BY <1>1, <1>2, <1>4 DEF Edit, Target, Granted
  <1> QED
    BY <1>3, <1>4

LEMMA WriteType ==
  ASSUME IInv, NEW c \in Callers,
         IF Walking(c) THEN next[c] <= Rounds(c) ELSE next[c] <= Len(call[c].edits),
         Succeeds(call[c].tool, Target(c), Edit(c).change, disk[Target(c)])
  PROVE  /\ Write(c) \in [file : Files, doc : Doc]
         /\ Write(c).file = Target(c) /\ Granted(call[c], Target(c))
  <1>1. /\ Target(c) \in Files /\ Edit(c).change \in Change
        /\ Edit(c).change.op = "insertAfter" => Edit(c).change.id # NoId
        /\ Granted(call[c], Target(c))
    BY Reading DEF Succeeds
  <1>2. disk[Target(c)] \in Doc \cup {Absent, NoBytes, Broken} /\ disk[Target(c)] # Broken
    BY <1>1 DEF IInv, Ranges, Succeeds, Readable
  <1>3. AsRead(disk[Target(c)]) \in Doc
    BY <1>2 DEF AsRead, Doc
  <1>4. Updated(Edit(c).change, AsRead(disk[Target(c)])) \in Doc
    BY <1>1, <1>3, UpdatedType DEF Succeeds
  <1> QED
    BY <1>1, <1>4 DEF Write

LEMMA IInvInit == Init => IInv
  <1> SUFFICES ASSUME Init PROVE IInv
    OBVIOUS
  <1>1. disk \in [Files -> Doc \cup {Absent, NoBytes, Broken}]
    BY FileAssumption DEF Init
  <1>2. \A c \in Callers : call[c] \in Calls
    BY FileAssumption DEF Init
  <1>3. \A c \in Callers : Rounds(c) \in Nat /\ Len(call[c].edits) \in Nat
    BY <1>2, Constants, FileAssumption, LenProperties DEF Rounds
  <1>4. \A c \in Callers : pending[c] = <<>> /\ pc[c] = "idle" /\ reply[c] = "none" /\ next[c] = 1
    BY DEF Init
  <1>5. pending \in [Callers -> Writes] /\ calls \in 0..MaxCalls /\ call \in [Callers -> Calls]
    BY <1>2, FileAssumption DEF Init, Writes
  <1>6. Ranges
    BY <1>1, <1>5 DEF Init, Ranges
  <1>7. Len(<<>>) = 0
    OBVIOUS
  <1> QED
    BY <1>3, <1>4, <1>6, <1>7 DEF IInv, CallerInv, Bounded

(* A step of one caller keeps what is said of the others.                  *)
LEMMA Others ==
  ASSUME NEW c \in Callers, CallerInv(c),
         UNCHANGED <<pc[c], call[c], next[c], pending[c], reply[c], wrote[c]>>
  PROVE  CallerInv(c)'
  BY DEF CallerInv, Bounded, Rounds, Walking, Granted, Permitted

LEMMA IInvBegin ==
  ASSUME IInv, NEW c \in Callers, NEW new \in Calls, Begin(c, new)
  PROVE  IInv'
  <1>1. /\ pc' = [pc EXCEPT ![c] = "read"] /\ pc[c] = "idle"
        /\ call' = [call EXCEPT ![c] = new] /\ next' = [next EXCEPT ![c] = 1]
        /\ pending' = [pending EXCEPT ![c] = <<>>] /\ reply' = [reply EXCEPT ![c] = "none"]
        /\ wrote' = [wrote EXCEPT ![c] = {}]
    BY DEF Begin, Goto
  <1>2. Ranges /\ \A d \in Callers : CallerInv(d)
    BY DEF IInv
  <1>3. /\ call'[c] = new /\ next'[c] = 1 /\ pending'[c] = <<>> /\ reply'[c] = "none"
        /\ wrote'[c] = {} /\ pc'[c] = "read"
    BY <1>1, <1>2 DEF Ranges
  <1>4. \A d \in Callers \ {c} :
          UNCHANGED <<pc[d], call[d], next[d], pending[d], reply[d], wrote[d]>>
    BY <1>1, <1>2 DEF Ranges
  <1>5. Len(new.edits) \in Nat /\ Len(new.edits) >= 1 /\ Len(Walk) \in Nat
    BY Constants, FileAssumption, LenProperties, EmptySeq
  <1>6. CallerInv(c)'
    BY <1>3, <1>5 DEF CallerInv, Bounded, Rounds, Walking
  <1>7. Ranges'
    <2>1. <<>> \in Writes
      BY DEF Writes
    <2>2. calls' \in 0..MaxCalls
      BY <1>2, FileAssumption DEF Begin, Ranges
    <2>3. /\ UNCHANGED <<disk, failed>>
          /\ before' = [before EXCEPT ![c] = disk]
          /\ disturbed' = [disturbed EXCEPT ![c] = {}]
      BY DEF Begin
    <2> QED
      BY <1>1, <1>2, <2>1, <2>2, <2>3 DEF Ranges
  <1> QED
    BY <1>2, <1>4, <1>6, <1>7, Others DEF IInv

(* A caller that reads goes on, or returns, without writing to a file.     *)
LEMMA IInvReadOne ==
  ASSUME IInv, NEW c \in Callers, ReadOne(c)
  PROVE  IInv'
  <1>1. /\ pc[c] = "read" /\ ~Walking(c)
        /\ Succeeds(call[c].tool, Target(c), Edit(c).change, disk[Target(c)])
        /\ pending' = [pending EXCEPT ![c] = Append(@, Write(c))]
        /\ next' = [next EXCEPT ![c] = @ + 1]
        /\ pc' = [pc EXCEPT ![c] = IF next[c] = Rounds(c) THEN "write" ELSE "read"]
        /\ UNCHANGED <<disk, call, reply, calls, before, wrote, disturbed, failed>>
    BY DEF ReadOne, history
  <1>2. Ranges /\ \A d \in Callers : CallerInv(d)
    BY DEF IInv
  <1>3. /\ wrote[c] = {} /\ reply[c] = "none" /\ next[c] = Len(pending[c]) + 1
        /\ next[c] <= Len(call[c].edits) /\ Rounds(c) = Len(call[c].edits)
        /\ \A i \in 1..Len(pending[c]) : Granted(call[c], pending[c][i].file)
    BY <1>1, <1>2 DEF CallerInv, Rounds
  <1>4. /\ Write(c) \in [file : Files, doc : Doc] /\ Granted(call[c], Write(c).file)
    BY <1>1, <1>3, WriteType
  <1>5. /\ pending[c] \in Writes /\ Len(pending[c]) \in Nat /\ Len(call[c].edits) \in Nat
        /\ next[c] \in Nat
    BY Types
  <1>6. /\ pending'[c] = Append(pending[c], Write(c)) /\ next'[c] = next[c] + 1
        /\ pc'[c] = IF next[c] = Rounds(c) THEN "write" ELSE "read"
        /\ call'[c] = call[c] /\ reply'[c] = "none" /\ wrote'[c] = {}
    BY <1>1, <1>2, <1>3 DEF Ranges
  <1>7. /\ pending'[c] \in Writes /\ Len(pending'[c]) = Len(pending[c]) + 1
        /\ \A i \in 1..Len(pending[c]) : pending'[c][i] = pending[c][i]
        /\ pending'[c][Len(pending[c]) + 1] = Write(c)
    BY <1>4, <1>5, <1>6, AppendProperties DEF Writes
  <1>8. \A i \in 1..Len(pending'[c]) : Granted(call[c], pending'[c][i].file)
    <2> SUFFICES ASSUME NEW i \in 1..Len(pending[c]) + 1
                 PROVE  Granted(call[c], pending'[c][i].file)
      BY <1>7
    <2>1. CASE i = Len(pending[c]) + 1
      BY <1>4, <1>7, <2>1
    <2>2. CASE i \in 1..Len(pending[c])
      BY <1>3, <1>7, <2>2
    <2> QED
      BY <1>5, <2>1, <2>2
  <1>9. CallerInv(c)'
    <2>1. Rounds(c)' = Rounds(c) /\ ~Walking(c)'
      BY <1>1 DEF Rounds, Walking
    <2>2. Bounded(c)'
      BY <1>3, <1>5, <1>6, <1>7, <2>1, EmptySeq DEF Bounded
    <2>3. (\A i \in 1..Len(pending[c]) : Granted(call[c], pending[c][i].file))'
      BY <1>6, <1>8 DEF Granted, Permitted
    <2> QED
      BY <1>3, <1>5, <1>6, <1>7, <2>1, <2>2, <2>3 DEF CallerInv
  <1>10. Ranges'
    BY <1>1, <1>2, <1>5, <1>6, <1>7 DEF Ranges
  <1>11. \A d \in Callers \ {c} :
          UNCHANGED <<pc[d], call[d], next[d], pending[d], reply[d], wrote[d]>>
    BY <1>1, <1>2 DEF Ranges
  <1> QED
    BY <1>2, <1>9, <1>10, <1>11, Others DEF IInv

LEMMA IInvReturn ==
  ASSUME IInv, NEW c \in Callers,
         RefuseOne(c) \/ RefuseCreate(c) \/ WalkEnds(c) \/ OpenFails(c)
  PROVE  IInv'
  <1>1. PICK r \in {"ok", "refused", "writeFailed"} :
          /\ pc[c] # "idle" /\ pc' = [pc EXCEPT ![c] = "idle"]
          /\ reply' = [reply EXCEPT ![c] = r]
          /\ r = "refused" => pc[c] = "read" /\ (~Walking(c) \/ wrote[c] = {})
          /\ UNCHANGED <<disk, call, next, pending, calls, before, wrote, disturbed, failed>>
    BY DEF RefuseOne, RefuseCreate, WalkEnds, OpenFails, Return, Goto, Walking, history
  <1>2. Ranges /\ \A d \in Callers : CallerInv(d)
    BY DEF IInv
  <1>3. r = "refused" => wrote[c] = {}
    BY <1>1, <1>2 DEF CallerInv
  <1>4. /\ pc'[c] = "idle" /\ reply'[c] = r
        /\ UNCHANGED <<call[c], next[c], pending[c], wrote[c]>>
    BY <1>1, <1>2 DEF Ranges
  <1>5. CallerInv(c)'
    BY <1>2, <1>3, <1>4 DEF CallerInv, Bounded, Rounds, Walking, Granted, Permitted
  <1>6. Ranges'
    BY <1>1, <1>2 DEF Ranges
  <1>7. \A d \in Callers \ {c} :
          UNCHANGED <<pc[d], call[d], next[d], pending[d], reply[d], wrote[d]>>
    BY <1>1, <1>2 DEF Ranges
  <1> QED
    BY <1>2, <1>5, <1>6, <1>7, Others DEF IInv

(* The walk of renameSymbol: its call has one edit, its writes are one.    *)
LEMMA IInvWalk ==
  ASSUME IInv, NEW c \in Callers, Visit(c) \/ Skip(c)
  PROVE  IInv'
  <1>1. /\ pc[c] = "read" /\ Walking(c) /\ next[c] <= Rounds(c)
        /\ next' = [next EXCEPT ![c] = @ + 1]
        /\ UNCHANGED <<disk, call, reply, calls, before, wrote, disturbed, failed>>
    BY DEF Visit, Skip, history
  <1>2. Ranges /\ \A d \in Callers : CallerInv(d)
    BY DEF IInv
  <1>3. /\ reply[c] = "none" /\ pending[c] = <<>> /\ next[c] \in Nat /\ call[c] \in Calls
    BY <1>1, <1>2, Types DEF CallerInv
  <1>4. Len(call[c].edits) = 1 /\ Rounds(c) \in Nat
    BY <1>1, <1>3, Constants, FileAssumption, LenProperties DEF Walking, Rounds
  <1>5. /\ next'[c] = next[c] + 1 /\ call'[c] = call[c] /\ reply'[c] = "none"
        /\ Rounds(c)' = Rounds(c) /\ Walking(c)'
    BY <1>1, <1>2, <1>3 DEF Ranges, Rounds, Walking
  <1>6. CASE Visit(c)
    <2>1. /\ pc' = [pc EXCEPT ![c] = "write"]
          /\ pending' = [pending EXCEPT ![c] = <<Write(c)>>]
          /\ Succeeds(call[c].tool, Target(c), Edit(c).change, disk[Target(c)])
      BY <1>6 DEF Visit, Goto
    <2>2. Write(c) \in [file : Files, doc : Doc] /\ Granted(call[c], Write(c).file)
      BY <1>1, <2>1, WriteType
    <2>3. pc'[c] = "write" /\ pending'[c] = <<Write(c)>>
      BY <1>2, <2>1 DEF Ranges
    <2>4. /\ <<Write(c)>> \in Writes /\ Len(<<Write(c)>>) = 1 /\ <<Write(c)>>[1] = Write(c)
          /\ <<Write(c)>> # <<>>
      BY <2>2 DEF Writes
    <2>5. (\A i \in 1..Len(pending[c]) : Granted(call[c], pending[c][i].file))'
      BY <1>5, <2>2, <2>3, <2>4 DEF Granted, Permitted
    <2>6. CallerInv(c)'
      BY <1>1, <1>3, <1>4, <1>5, <2>3, <2>4, <2>5 DEF CallerInv, Bounded
    <2>7. Ranges'
      BY <1>1, <1>2, <1>3, <2>1, <2>4 DEF Ranges
    <2>8. \A d \in Callers \ {c} :
            UNCHANGED <<pc[d], call[d], next[d], pending[d], reply[d], wrote[d]>>
      BY <1>1, <1>2, <2>1 DEF Ranges
    <2> QED
      BY <1>2, <2>6, <2>7, <2>8, Others DEF IInv
  <1>7. CASE Skip(c)
    <2>1. UNCHANGED <<pc, pending>>
      BY <1>7 DEF Skip
    <2>2. pc'[c] = "read" /\ pending'[c] = <<>> /\ Len(<<>>) = 0
      BY <1>1, <1>3, <2>1
    <2>3. CallerInv(c)'
      BY <1>1, <1>3, <1>4, <1>5, <2>2 DEF CallerInv, Bounded
    <2>4. Ranges'
      BY <1>1, <1>2, <1>3, <2>1 DEF Ranges
    <2>5. \A d \in Callers \ {c} :
            UNCHANGED <<pc[d], call[d], next[d], pending[d], reply[d], wrote[d]>>
      BY <1>1, <1>2, <2>1 DEF Ranges
    <2> QED
      BY <1>2, <2>3, <2>4, <2>5, Others DEF IInv
  <1> QED
    BY <1>6, <1>7

(* The first of the writes that are pending is to a file that is granted.  *)
LEMMA First ==
  ASSUME IInv, NEW c \in Callers, pc[c] \in {"write", "open"}
  PROVE  /\ Head(pending[c]).file \in Files /\ Head(pending[c]).doc \in Doc
         /\ Granted(call[c], Head(pending[c]).file)
         /\ Tail(pending[c]) \in Writes /\ Len(pending[c]) >= 1
         /\ Len(Tail(pending[c])) = Len(pending[c]) - 1
         /\ \A i \in 1..Len(pending[c]) - 1 : Tail(pending[c])[i] = pending[c][i + 1]
  <1> DEFINE E == [file : Files, doc : Doc]  writes == pending[c]
  <1>1. writes \in Seq(E) /\ writes # <<>>
    BY Types DEF IInv, CallerInv, Bounded, Writes
  <1> HIDE DEF E
  <1>2. /\ Len(writes) \in Nat /\ Len(writes) >= 1 /\ Head(writes) = writes[1]
        /\ Tail(writes) \in Seq(E) /\ Len(Tail(writes)) = Len(writes) - 1
        /\ \A i \in 1..Len(writes) - 1 : Tail(writes)[i] = writes[i + 1]
    <2> HIDE DEF writes
    <2> QED
      BY <1>1, HeadTailProperties, LenProperties, EmptySeq
  <1>3. \A i \in 1..Len(writes) : /\ writes[i].file \in Files /\ writes[i].doc \in Doc
                                  /\ Granted(call[c], writes[i].file)
    BY Types DEF IInv, CallerInv
  <1> QED
    BY <1>2, <1>3 DEF E, Writes

(* Putting a content into a file, of which the others know.                *)
LEMMA PutType ==
  ASSUME Ranges, NEW c \in Callers, NEW f \in Files,
         NEW content \in Doc \cup {Absent, NoBytes, Broken}, Put(c, f, content)
  PROVE  /\ disk' \in [Files -> Doc \cup {Absent, NoBytes, Broken}]
         /\ disturbed' \in [Callers -> SUBSET Files]
         /\ \A g \in Files : g # f => disk'[g] = disk[g]
  BY DEF Ranges, Put

LEMMA IInvOpenWrite ==
  ASSUME IInv, NEW c \in Callers, OpenWrite(c)
  PROVE  IInv'
  <1> DEFINE f == Head(pending[c]).file
  <1>1. /\ pc[c] = "write" /\ pc' = [pc EXCEPT ![c] = "open"]
        /\ Put(c, f, NoBytes) /\ wrote' = [wrote EXCEPT ![c] = @ \cup {f}]
        /\ UNCHANGED <<call, next, pending, reply, calls, before, failed>>
    BY DEF OpenWrite, Opened, Goto
  <1>2. Ranges /\ \A d \in Callers : CallerInv(d)
    BY DEF IInv
  <1>3. f \in Files
    BY <1>1, First
  <1> HIDE DEF f
  <1>4. Ranges'
    BY <1>1, <1>2, <1>3, PutType DEF Ranges
  <1>5. pc'[c] = "open" /\ reply'[c] = "none"
    BY <1>1, <1>2 DEF Ranges, CallerInv
  <1>6. CallerInv(c)'
    BY <1>1, <1>2, <1>5 DEF CallerInv, Bounded, Rounds, Walking, Granted, Permitted
  <1>7. \A d \in Callers \ {c} :
          UNCHANGED <<pc[d], call[d], next[d], pending[d], reply[d], wrote[d]>>
    BY <1>1, <1>2 DEF Ranges
  <1> QED
    BY <1>2, <1>4, <1>6, <1>7, Others DEF IInv

LEMMA IInvOpenCreate ==
  ASSUME IInv, NEW c \in Callers, OpenCreate(c)
  PROVE  IInv'
  <1> DEFINE f == Target(c)  w == [file |-> f, doc |-> Updated(Edit(c).change, <<>>)]
  <1>1. /\ pc[c] = "read" /\ call[c].tool = "createFile" /\ f \notin Denied
        /\ pc' = [pc EXCEPT ![c] = "open"]
        /\ Put(c, f, NoBytes) /\ wrote' = [wrote EXCEPT ![c] = @ \cup {f}]
        /\ pending' = [pending EXCEPT ![c] = <<w>>]
        /\ UNCHANGED <<call, next, reply, calls, before, failed>>
    BY DEF OpenCreate, Opened, Goto
  <1>2. Ranges /\ \A d \in Callers : CallerInv(d)
    BY DEF IInv
  <1>3. ~Walking(c) /\ next[c] <= Len(call[c].edits) /\ reply[c] = "none"
    BY <1>1, <1>2 DEF CallerInv, Walking
  <1>4. /\ f \in Files /\ Edit(c).change \in Change
        /\ Edit(c).change.op = "insertAfter" => Edit(c).change.id # NoId
        /\ Granted(call[c], f)
    BY <1>1, <1>3, Reading DEF Permitted
  <1>5. Len(call[c].edits) = 1
    BY <1>1, Types, Constants
  <1>6. Updated(Edit(c).change, <<>>) \in Doc
    <2>1. Edit(c) = call[c].edits[1] /\ call[c] \in Calls
      BY <1>3, <1>5, Types DEF Edit
    <2>2. Edit(c).change.op = "create"
      BY <1>1, <1>5, <2>1, Constants
    <2>3. Applies(Edit(c).change, <<>>) /\ <<>> \in Doc
      BY <2>2 DEF Applies, Doc
    <2> QED
      BY <1>4, <2>3, UpdatedType
  <1>7. w \in [file : Files, doc : Doc] /\ w.file = f
    BY <1>4, <1>6
  <1> HIDE DEF f, w
  <1>8. /\ <<w>> \in Writes /\ Len(<<w>>) = 1 /\ <<w>>[1] = w /\ <<w>> # <<>>
    BY <1>7 DEF Writes
  <1>9. Ranges'
    BY <1>1, <1>2, <1>4, <1>8, PutType DEF Ranges
  <1>10. pc'[c] = "open" /\ pending'[c] = <<w>> /\ reply'[c] = "none" /\ call'[c] = call[c]
    BY <1>1, <1>2, <1>3 DEF Ranges
  <1>11. CallerInv(c)'
    <2>1. (\A i \in 1..Len(pending[c]) : Granted(call[c], pending[c][i].file))'
      BY <1>4, <1>7, <1>8, <1>10 DEF Granted, Permitted
    <2>2. Bounded(c)'
      <3>1. next'[c] = next[c] /\ Rounds(c)' = Rounds(c) /\ next[c] <= Rounds(c) + 1
        BY <1>1, Types DEF Rounds, Walking
      <3>2. Len(pending'[c]) = 1 /\ pending'[c] # <<>> /\ Len(call'[c].edits) = 1
        BY <1>5, <1>8, <1>10
      <3> QED
        BY <3>1, <3>2 DEF Bounded
    <2> QED
      BY <1>10, <2>1, <2>2 DEF CallerInv
  <1>12. \A d \in Callers \ {c} :
          UNCHANGED <<pc[d], call[d], next[d], pending[d], reply[d], wrote[d]>>
    BY <1>1, <1>2 DEF Ranges
  <1> QED
    BY <1>2, <1>9, <1>11, <1>12, Others DEF IInv

LEMMA IInvFinishWrite ==
  ASSUME IInv, NEW c \in Callers, FinishWrite(c)
  PROVE  IInv'
  <1> DEFINE f == Head(pending[c]).file
  <1>1. /\ pc[c] = "open" /\ pending' = [pending EXCEPT ![c] = Tail(@)]
        /\ \E content \in Written(Head(pending[c]).doc, disk[f]) : Put(c, f, content)
        /\ UNCHANGED <<call, next, calls, before, wrote, failed>>
    BY DEF FinishWrite
  <1>2. Ranges /\ \A d \in Callers : CallerInv(d)
    BY DEF IInv
  <1>3. /\ f \in Files /\ Head(pending[c]).doc \in Doc
        /\ Tail(pending[c]) \in Writes /\ Len(pending[c]) >= 1
        /\ Len(Tail(pending[c])) = Len(pending[c]) - 1
        /\ \A i \in 1..Len(pending[c]) - 1 : Tail(pending[c])[i] = pending[c][i + 1]
    BY <1>1, First
  <1>4. PICK content \in Doc \cup {Broken} : Put(c, f, content)
    BY <1>1, <1>3 DEF Written
  <1>5. PICK to \in {"read", "write", "idle"}, r \in {"none", "ok", "cellFailed"} :
          /\ pc' = [pc EXCEPT ![c] = to] /\ reply' = [reply EXCEPT ![c] = r]
          /\ to # "idle" => r = "none"
          /\ to = "read" => Walking(c)
          /\ to = "write" => Len(pending[c]) # 1
    <2>1. reply[c] = "none" /\ reply = [reply EXCEPT ![c] = "none"]
      BY <1>1, <1>2 DEF CallerInv, Ranges
    <2> QED
      BY <2>1 DEF FinishWrite, LastWrite, Return, Goto
  <1> HIDE DEF f
  <1>6. Ranges'
    BY <1>1, <1>2, <1>3, <1>4, <1>5, PutType DEF Ranges
  <1>7. /\ pc'[c] = to /\ reply'[c] = r /\ pending'[c] = Tail(pending[c])
        /\ call'[c] = call[c] /\ next'[c] = next[c] /\ wrote'[c] = wrote[c]
        /\ Rounds(c)' = Rounds(c) /\ Walking(c)' = Walking(c)
    BY <1>1, <1>2, <1>5 DEF Ranges, Rounds, Walking
  <1>8. /\ Len(pending[c]) \in Nat /\ Len(pending[c]) <= Len(call[c].edits)
        /\ Len(call[c].edits) \in Nat /\ next[c] <= Rounds(c) + 1
        /\ Walking(c) => Len(call[c].edits) = 1
    BY Types, Constants DEF Walking
  <1>9. Bounded(c)'
    <2>1. to = "write" => Len(Tail(pending[c])) # 0
      BY <1>3, <1>5, <1>8
    <2>2. to = "write" => Tail(pending[c]) # <<>>
      BY <2>1, EmptySeq
    <2> QED
      BY <1>3, <1>5, <1>7, <1>8, <2>2 DEF Bounded
  <1>10. to = "read" => Walking(c) /\ Tail(pending[c]) = <<>>
    <2>1. to = "read" => Walking(c) /\ Len(Tail(pending[c])) = 0
      <3> SUFFICES ASSUME to = "read" PROVE Walking(c) /\ Len(Tail(pending[c])) = 0
        OBVIOUS
      <3>1. Walking(c)
        BY <1>5
      <3>2. Len(call[c].edits) = 1
        BY <1>8, <3>1
      <3>3. Len(pending[c]) >= 1 /\ Len(Tail(pending[c])) = Len(pending[c]) - 1
        BY <1>3
      <3>4. Len(pending[c]) \in Nat /\ Len(pending[c]) <= Len(call[c].edits)
        BY <1>8
      <3> DEFINE n == Len(pending[c])  m == Len(Tail(pending[c]))  e == Len(call[c].edits)
      <3>5. e = 1 /\ n >= 1 /\ m = n - 1 /\ n \in Nat /\ n <= e
        BY <3>2, <3>3, <3>4
      <3> HIDE DEF n, m, e
      <3>6. m = 0
        BY <3>5
      <3> QED
        BY <3>1, <3>6 DEF m
    <2> DEFINE E == [file : Files, doc : Doc]  rest == Tail(pending[c])
    <2>2. rest \in Seq(E)
      BY <1>3 DEF Writes
    <2>3. to = "read" => Len(rest) = 0
      BY <2>1
    <2> HIDE DEF E, rest
    <2>4. to = "read" => rest = <<>>
      BY <2>2, <2>3, EmptySeq
    <2> QED
      BY <2>1, <2>4 DEF rest
  <1>11. \A i \in 1..Len(Tail(pending[c])) : Granted(call[c], Tail(pending[c])[i].file)
    BY <1>2, <1>3, <1>8 DEF CallerInv
  <1>12. (\A i \in 1..Len(pending[c]) : Granted(call[c], pending[c][i].file))'
    BY <1>7, <1>11 DEF Granted, Permitted
  <1>13. CallerInv(c)'
    BY <1>5, <1>7, <1>9, <1>10, <1>12 DEF CallerInv
  <1>14. \A d \in Callers \ {c} :
          UNCHANGED <<pc[d], call[d], next[d], pending[d], reply[d], wrote[d]>>
    BY <1>1, <1>2, <1>5 DEF Ranges
  <1> QED
    BY <1>2, <1>6, <1>13, <1>14, Others DEF IInv

LEMMA IInvWriteFails ==
  ASSUME IInv, NEW c \in Callers, WriteFails(c)
  PROVE  IInv'
  <1> DEFINE f == Head(pending[c]).file
  <1>1. /\ pc[c] = "open" /\ pc' = [pc EXCEPT ![c] = "idle"]
        /\ reply' = [reply EXCEPT ![c] = "writeFailed"]
        /\ \E content \in {disk[f], Broken} : Put(c, f, content)
        /\ failed' = failed \cup {f}
        /\ UNCHANGED <<call, next, pending, calls, before, wrote>>
    BY DEF WriteFails, Return, Goto
  <1>2. Ranges /\ \A d \in Callers : CallerInv(d)
    BY DEF IInv
  <1>3. f \in Files
    BY <1>1, First
  <1> HIDE DEF f
  <1>4. PICK content \in Doc \cup {Absent, NoBytes, Broken} : Put(c, f, content)
    BY <1>1, <1>2, <1>3 DEF Ranges
  <1>5. Ranges'
    BY <1>1, <1>2, <1>3, <1>4, PutType DEF Ranges
  <1>6. pc'[c] = "idle" /\ reply'[c] = "writeFailed"
    BY <1>1, <1>2 DEF Ranges
  <1>7. CallerInv(c)'
    BY <1>1, <1>2, <1>6 DEF CallerInv, Bounded, Rounds, Walking, Granted, Permitted
  <1>8. \A d \in Callers \ {c} :
          UNCHANGED <<pc[d], call[d], next[d], pending[d], reply[d], wrote[d]>>
    BY <1>1, <1>2 DEF Ranges
  <1> QED
    BY <1>2, <1>5, <1>7, <1>8, Others DEF IInv

LEMMA IInvStep == IInv /\ [Next]_vars => IInv'
  <1> SUFFICES ASSUME IInv, [Next]_vars PROVE IInv'
    OBVIOUS
  <1>1. CASE UNCHANGED vars
    BY <1>1 DEF vars, history, IInv, Ranges, CallerInv, Bounded, Rounds, Walking,
                Granted, Permitted
  <1>2. CASE \E c \in Callers : \E new \in Calls : Begin(c, new)
    BY <1>2, IInvBegin
  <1>3. CASE \E c \in Callers : Step(c)
    BY <1>3, IInvReadOne, IInvReturn, IInvWalk, IInvOpenWrite, IInvOpenCreate,
       IInvFinishWrite, IInvWriteFails DEF Step
  <1> QED
    BY <1>1, <1>2, <1>3 DEF Next

LEMMA Inductive == Spec => []IInv
  BY IInvInit, IInvStep, PTL DEF Spec

-----------------------------------------------------------------------------
(* The theorems.                                                           *)

(* However calls overlap and writes fail, the files hold documents, a      *)
(* caller that writes has something to write, and it has computed no more  *)
(* than the edits of its call.                                             *)
THEOREM TypeCorrect == Spec => []TypeOK
  <1>1. IInv => TypeOK
    BY TypeOKParts DEF IInv, CallerInv
  <1> QED
    BY <1>1, Inductive, PTL

(* A call that is refused has opened no file for writing: all edits of     *)
(* edit_editFiles are computed before the first is written, and the walk   *)
(* of edit_renameSymbol is an error only when it has changed nothing.      *)
THEOREM RefusalCorrect == Spec => []RefusalWritesNothing
  <1>1. IInv => RefusalWritesNothing
    BY DEF IInv, CallerInv, RefusalWritesNothing
  <1> QED
    BY <1>1, Inductive, PTL

(* A step puts something into one file at most, one its caller may change. *)
LEMMA PutsGranted ==
  ASSUME IInv, [Next]_vars, NEW f \in Files, disk'[f] # disk[f]
  PROVE  \E c \in Callers : Granted(call[c], f)
  <1>1. PICK c \in Callers : (\E new \in Calls : Begin(c, new)) \/ Step(c)
    BY DEF Next, vars
  <1>2. CASE OpenWrite(c) \/ FinishWrite(c) \/ WriteFails(c)
    <2>1. pc[c] \in {"write", "open"}
      BY <1>2 DEF OpenWrite, FinishWrite, WriteFails, Return, Goto
    <2>2. Head(pending[c]).file \in Files /\ Granted(call[c], Head(pending[c]).file)
      BY <2>1, First
    <2>3. \E content : disk' = [disk EXCEPT ![Head(pending[c]).file] = content]
      BY <1>2 DEF OpenWrite, FinishWrite, WriteFails, Opened, Put
    <2> QED
      BY <2>2, <2>3 DEF IInv, Ranges
  <1>3. CASE OpenCreate(c)
    <2>1. /\ disk' = [disk EXCEPT ![Target(c)] = NoBytes] /\ Target(c) \notin Denied
          /\ pc[c] = "read" /\ call[c].tool = "createFile"
      BY <1>3 DEF OpenCreate, Opened, Put
    <2>2. Granted(call[c], Target(c))
      BY <2>1 DEF Granted, Permitted
    <2>3. f = Target(c)
      BY <2>1 DEF IInv, Ranges
    <2> QED
      BY <2>2, <2>3
  <1>4. disk' = disk \/ OpenWrite(c) \/ FinishWrite(c) \/ WriteFails(c) \/ OpenCreate(c)
    BY <1>1 DEF Begin, Step, ReadOne, RefuseOne, RefuseCreate, Visit, Skip, WalkEnds, OpenFails
  <1> QED
    BY <1>2, <1>3, <1>4

(* No step changes a file that deny_paths denies, except that a call of    *)
(* execute_createAndRunTask changes the tasks.json that it names.          *)
THEOREM DeniedCorrect == Spec => DeniedUntouched
  <1> DEFINE Untouched == \A f \in Denied : disk'[f] # disk[f] =>
               \E c \in Callers : /\ call[c].tool = "task"
                                  /\ \E i \in DOMAIN call[c].edits : call[c].edits[i].file = f
  <1>1. IInv /\ [Next]_vars => Untouched
    BY PutsGranted, FileAssumption DEF Granted, Permitted
  <1>2. IInv /\ [Next]_vars => [Untouched]_vars
    BY <1>1
  <1> QED
    BY <1>2, Inductive, PTL DEF Spec, DeniedUntouched

-----------------------------------------------------------------------------
(* An empty file has a writer: NoEmptyFile is inductive by itself.         *)

Writing(c, f) == pc[c] = "open" /\ Head(pending[c]).file = f

LEMMA WriterStays ==
  ASSUME IInv, [Next]_vars, NEW c \in Callers, NEW f \in Files,
         Writing(c, f), disk'[f] = NoBytes, f \notin failed'
  PROVE  \E d \in Callers : Writing(d, f)'
  <1>1. CASE UNCHANGED vars
    BY <1>1 DEF vars, Writing
  <1>2. CASE \E d \in Callers : (\E new \in Calls : Begin(d, new)) \/ Step(d)
    <2>1. PICK d \in Callers : (\E new \in Calls : Begin(d, new)) \/ Step(d)
      BY <1>2
    <2>2. CASE d # c
      <3>1. UNCHANGED <<pc[c], pending[c]>>
        BY <2>1, <2>2
           DEF Begin, Step, ReadOne, RefuseOne, OpenCreate, RefuseCreate, Visit, Skip, WalkEnds,
               OpenWrite, FinishWrite, OpenFails, WriteFails, Return, Goto, IInv, Ranges
      <3> QED
        BY <3>1 DEF Writing
    <2>3. CASE d = c
      <3>1. FinishWrite(c) \/ WriteFails(c)
        BY <2>1, <2>3
           DEF Begin, Step, ReadOne, RefuseOne, OpenCreate, RefuseCreate, Visit, Skip, WalkEnds,
               OpenWrite, OpenFails, Return, Goto, Writing
      <3>2. f \in failed' \/ \E content \in Written(Head(pending[c]).doc, disk[f]) :
                               Put(c, f, content)
        BY <3>1 DEF FinishWrite, WriteFails, Writing
      <3>3. Head(pending[c]).doc \in Doc
        BY First DEF Writing
      <3>4. \A content \in Written(Head(pending[c]).doc, disk[f]) : content # NoBytes
        BY <3>3, FileAssumption DEF Written
      <3> QED
        BY <3>2, <3>4 DEF Put, IInv, Ranges
    <2> QED
      BY <2>2, <2>3
  <1> QED
    BY <1>1, <1>2 DEF Next

(* Who leaves a file empty has just opened it, or failed to write to it.   *)
LEMMA WriterComes ==
  ASSUME IInv, [Next]_vars, NEW f \in Files,
         disk[f] # NoBytes, disk'[f] = NoBytes, f \notin failed'
  PROVE  \E d \in Callers : Writing(d, f)'
  <1>1. PICK d \in Callers : (\E new \in Calls : Begin(d, new)) \/ Step(d)
    BY DEF Next, vars
  <1>2. CASE OpenWrite(d)
    <2>1. /\ Put(d, Head(pending[d]).file, NoBytes) /\ pc' = [pc EXCEPT ![d] = "open"]
          /\ pending' = pending
      BY <1>2 DEF OpenWrite, Opened, Goto
    <2>2. f = Head(pending[d]).file
      BY <2>1 DEF Put, IInv, Ranges
    <2> QED
      BY <2>1, <2>2 DEF Writing, IInv, Ranges
  <1>3. CASE OpenCreate(d)
    <2> DEFINE w == [file |-> Target(d), doc |-> Updated(Edit(d).change, <<>>)]
    <2>1. /\ Put(d, Target(d), NoBytes) /\ pc' = [pc EXCEPT ![d] = "open"]
          /\ pending' = [pending EXCEPT ![d] = <<w>>]
      BY <1>3 DEF OpenCreate, Opened, Goto
    <2>2. f = Target(d)
      BY <2>1 DEF Put, IInv, Ranges
    <2>3. w.file = f
      BY <2>2
    <2> HIDE DEF w
    <2>4. pc'[d] = "open" /\ pending'[d] = <<w>>
      BY <2>1 DEF IInv, Ranges
    <2> QED
      BY <2>3, <2>4 DEF Writing
  <1>4. ~FinishWrite(d)
    <2> SUFFICES ASSUME FinishWrite(d) PROVE FALSE
      OBVIOUS
    <2>1. pc[d] = "open"
      BY DEF FinishWrite
    <2>2. Head(pending[d]).doc \in Doc /\ Head(pending[d]).file \in Files
      BY <2>1, First
    <2>3. PICK content \in Doc \cup {Broken} : Put(d, Head(pending[d]).file, content)
      BY <2>2 DEF FinishWrite, Written
    <2>4. content # NoBytes
      BY FileAssumption
    <2> QED
      BY <2>2, <2>3, <2>4 DEF Put, IInv, Ranges
  <1>5. ~WriteFails(d)
    <2> SUFFICES ASSUME WriteFails(d) PROVE FALSE
      OBVIOUS
    <2>1. /\ \E content \in {disk[Head(pending[d]).file], Broken} :
               Put(d, Head(pending[d]).file, content)
          /\ failed' = failed \cup {Head(pending[d]).file}
      BY DEF WriteFails
    <2> QED
      BY <2>1 DEF Put, IInv, Ranges
  <1>6. disk' = disk \/ OpenWrite(d) \/ FinishWrite(d) \/ WriteFails(d) \/ OpenCreate(d)
    BY <1>1 DEF Begin, Step, ReadOne, RefuseOne, RefuseCreate, Visit, Skip, WalkEnds, OpenFails
  <1> QED
    BY <1>2, <1>3, <1>4, <1>5, <1>6

(* A file that has lost its bytes is one that a call is about to write, or *)
(* that a write to has failed, however many calls write it at one time:    *)
(* os.WriteFile truncates, and each of its callers goes on to write.       *)
THEOREM EmptyCorrect == Spec => []NoEmptyFile
  <1>1. Init => NoEmptyFile
    BY FileAssumption DEF Init, NoEmptyFile
  <1>2. IInv /\ [Next]_vars /\ NoEmptyFile => NoEmptyFile'
    <2> SUFFICES ASSUME IInv, [Next]_vars, NoEmptyFile, NEW f \in Files,
                        f \notin failed', disk'[f] = NoBytes
                 PROVE  \E d \in Callers : Writing(d, f)'
      BY DEF NoEmptyFile, Writing
    <2>1. f \notin failed
      BY DEF Next, vars, history, Begin, Step, ReadOne, RefuseOne, OpenCreate, RefuseCreate,
             Visit, Skip, WalkEnds, OpenWrite, FinishWrite, OpenFails, WriteFails
    <2>2. CASE disk[f] = NoBytes
      BY <2>1, <2>2, WriterStays DEF NoEmptyFile, Writing
    <2>3. CASE disk[f] # NoBytes
      BY <2>3, WriterComes
    <2> QED
      BY <2>2, <2>3
  <1> QED
    BY <1>1, <1>2, Inductive, PTL DEF Spec

-----------------------------------------------------------------------------
(* O_EXCL: a file that is there stays, so nobody creates it again.         *)

Creates(c, f) ==
  /\ call[c].tool = "createFile" /\ call[c].edits[1].file = f
  /\ pc[c] = "open" \/ reply[c] = "ok"

CreateInv ==
  /\ \A c \in Callers : pc[c] = "write" => call[c].tool # "createFile"
  /\ \A c \in Callers, f \in Files : Creates(c, f) => disk[f] # Absent
  /\ \A c, d \in Callers, f \in Files : Creates(c, f) /\ Creates(d, f) => c = d

(* No step removes a file.                                                 *)
LEMMA NoneRemoved ==
  ASSUME IInv, [Next]_vars, NEW f \in Files, disk'[f] = Absent
  PROVE  disk[f] = Absent
  <1>1. CASE UNCHANGED vars
    BY <1>1 DEF vars
  <1>2. ASSUME NEW c \in Callers, (\E new \in Calls : Begin(c, new)) \/ Step(c)
        PROVE  disk[f] = Absent
    <2>1. CASE OpenWrite(c) \/ OpenCreate(c)
      <3>1. \E g : disk' = [disk EXCEPT ![g] = NoBytes]
        BY <2>1 DEF OpenWrite, OpenCreate, Opened, Put
      <3> QED
        BY <3>1, FileAssumption DEF IInv, Ranges
    <2>2. CASE FinishWrite(c)
      <3>1. pc[c] = "open"
        BY <2>2 DEF FinishWrite
      <3>2. Head(pending[c]).doc \in Doc
        BY <3>1, First
      <3>3. \E content \in Doc \cup {Broken} :
              disk' = [disk EXCEPT ![Head(pending[c]).file] = content]
        BY <2>2, <3>2 DEF FinishWrite, Written, Put
      <3> QED
        BY <3>3, FileAssumption DEF IInv, Ranges
    <2>3. CASE WriteFails(c)
      <3>1. \E content \in {disk[Head(pending[c]).file], Broken} :
              disk' = [disk EXCEPT ![Head(pending[c]).file] = content]
        BY <2>3 DEF WriteFails, Put
      <3> QED
        BY <3>1, FileAssumption DEF IInv, Ranges
    <2>4. \/ disk' = disk \/ OpenWrite(c) \/ OpenCreate(c) \/ FinishWrite(c) \/ WriteFails(c)
      BY <1>2 DEF Begin, Step, ReadOne, RefuseOne, RefuseCreate, Visit, Skip, WalkEnds, OpenFails
    <2> QED
      BY <2>1, <2>2, <2>3, <2>4
  <1> QED
    BY <1>1, <1>2 DEF Next

(* Who creates a file has opened it in this step, or was creating it.      *)
LEMMA CreatorComes ==
  ASSUME IInv, CreateInv, [Next]_vars, NEW c \in Callers, NEW f \in Files, Creates(c, f)'
  PROVE  \/ Creates(c, f)
         \/ disk[f] = Absent /\ disk'[f] = NoBytes
            /\ \A d \in Callers \ {c} : UNCHANGED <<call[d], pc[d], reply[d]>>
  <1>1. CASE UNCHANGED vars
    BY <1>1 DEF vars, Creates
  <1>2. ASSUME NEW d \in Callers, d # c, (\E new \in Calls : Begin(d, new)) \/ Step(d)
        PROVE  Creates(c, f)
    <2>1. UNCHANGED <<call[c], pc[c], reply[c]>>
      BY <1>2 DEF Begin, Step, ReadOne, RefuseOne, OpenCreate, RefuseCreate, Visit, Skip,
         WalkEnds, OpenWrite, FinishWrite, OpenFails, WriteFails, Return, Goto, IInv, Ranges
    <2> QED
      BY <2>1 DEF Creates
  <1>3. ASSUME NEW new \in Calls, Begin(c, new) PROVE FALSE
    BY <1>3 DEF Begin, Goto, Creates, IInv, Ranges
  <1>4. CASE OpenCreate(c)
    <2>1. /\ pc[c] = "read" /\ call[c].tool = "createFile" /\ disk[Target(c)] = Absent
          /\ disk' = [disk EXCEPT ![Target(c)] = NoBytes]
          /\ pc' = [pc EXCEPT ![c] = "open"] /\ UNCHANGED <<call, reply>>
      BY <1>4 DEF OpenCreate, Opened, Put, Goto
    <2>2. ~Walking(c) /\ next[c] = 1
      <3>1. ~Walking(c) /\ Len(call[c].edits) = 1
        BY <2>1, Types, Constants DEF Walking
      <3>2. next[c] <= Len(call[c].edits) /\ next[c] \in Nat /\ next[c] >= 1
        BY <2>1, <3>1, Types DEF IInv, CallerInv
      <3> DEFINE l == Len(call[c].edits)
      <3>3. l = 1 /\ next[c] <= l
        BY <3>1, <3>2
      <3> HIDE DEF l
      <3> QED
        BY <3>1, <3>2, <3>3
    <2>3. Target(c) = f
      BY <2>1, <2>2 DEF Target, Edit, Creates
    <2> QED
      BY <2>1, <2>3 DEF IInv, Ranges
  <1>5. CASE OpenWrite(c) \/ FinishWrite(c) \/ WriteFails(c) \/ OpenFails(c)
    <2>1. pc[c] \in {"write", "open"} /\ call' = call
      BY <1>5 DEF OpenWrite, FinishWrite, WriteFails, OpenFails, Return, Goto
    <2>2. pc[c] = "open"
      BY <2>1 DEF CreateInv, Creates
    <2> QED
      BY <2>1, <2>2 DEF Creates
  <1>6. CASE ReadOne(c) \/ RefuseOne(c) \/ RefuseCreate(c) \/ Visit(c) \/ Skip(c) \/ WalkEnds(c)
    <2>1. /\ pc[c] = "read" /\ reply[c] = "none" /\ call' = call
      BY <1>6 DEF ReadOne, RefuseOne, RefuseCreate, Visit, Skip, WalkEnds, Return, Goto,
                  IInv, CallerInv
    <2>2. pc'[c] # "open"
      BY <1>6 DEF ReadOne, RefuseOne, RefuseCreate, Visit, Skip, WalkEnds, Return, Goto,
                  IInv, Ranges
    <2>3. WalkEnds(c) \/ reply'[c] \in {"none", "refused"}
      BY <1>6, <2>1 DEF ReadOne, RefuseOne, RefuseCreate, Visit, Skip, Return, IInv, Ranges
    <2>4. ~WalkEnds(c)
      BY <2>1 DEF WalkEnds, Walking, Creates
    <2> QED
      BY <2>2, <2>3, <2>4 DEF Creates
  <1> QED
    BY <1>1, <1>2, <1>3, <1>4, <1>5, <1>6 DEF Next, Step

LEMMA CreateStep == IInv /\ CreateInv /\ [Next]_vars => CreateInv'
  <1> SUFFICES ASSUME IInv, CreateInv, [Next]_vars PROVE CreateInv'
    OBVIOUS
  <1>1. ASSUME NEW c \in Callers, pc'[c] = "write" PROVE call'[c].tool # "createFile"
    <2>1. CASE UNCHANGED vars
      BY <1>1, <2>1 DEF vars, CreateInv
    <2>2. ASSUME NEW d \in Callers, NEW new \in Calls, Begin(d, new)
          PROVE  call'[c].tool # "createFile"
      <3>1. /\ pc' = [pc EXCEPT ![d] = "read"] /\ call' = [call EXCEPT ![d] = new]
        BY <2>2 DEF Begin, Goto
      <3> QED
        BY <1>1, <3>1 DEF CreateInv, IInv, Ranges
    <2>3. ASSUME NEW d \in Callers, Step(d) PROVE call'[c].tool # "createFile"
      <3>1. call' = call
        BY <2>3 DEF Step, ReadOne, RefuseOne, OpenCreate, RefuseCreate, Visit, Skip, WalkEnds,
                    OpenWrite, FinishWrite, OpenFails, WriteFails
      <3>2. CASE pc[c] = "write"
        BY <3>1, <3>2 DEF CreateInv
      <3>3. CASE pc[c] # "write"
        <4>1. ReadOne(c) \/ Visit(c) \/ (FinishWrite(c) /\ Len(pending[c]) # 1)
          BY <1>1, <2>3, <3>3
             DEF Step, ReadOne, RefuseOne, OpenCreate, RefuseCreate, Visit, Skip, WalkEnds,
                 OpenWrite, FinishWrite, OpenFails, WriteFails, Return, Goto, LastWrite, IInv, Ranges
        <4>2. ASSUME FinishWrite(c), Len(pending[c]) # 1 PROVE call[c].tool # "createFile"
          <5> DEFINE n == Len(pending[c])  l == Len(call[c].edits)
          <5>1. pc[c] = "open" /\ pending[c] # <<>>
            BY <4>2 DEF FinishWrite, IInv, CallerInv, Bounded
          <5>2. n >= 1 /\ n <= l /\ n # 1 /\ n \in Nat /\ l \in Nat
            BY <4>2, <5>1, First, Types
          <5>3. call[c].tool # "editFiles" => l = 1
            BY Types, Constants
          <5> HIDE DEF n, l
          <5> QED
            BY <5>2, <5>3
        <4> QED
          BY <3>1, <4>1, <4>2 DEF ReadOne, Visit, Walking
      <3> QED
        BY <3>2, <3>3
    <2> QED
      BY <2>1, <2>2, <2>3 DEF Next
  <1>2. ASSUME NEW c \in Callers, NEW f \in Files, Creates(c, f)' PROVE disk'[f] # Absent
    BY <1>2, CreatorComes, NoneRemoved, FileAssumption DEF CreateInv
  <1>3. ASSUME NEW c \in Callers, NEW d \in Callers, NEW f \in Files,
               Creates(c, f)', Creates(d, f)', c # d
        PROVE  FALSE
    <2>1. CASE Creates(c, f) /\ Creates(d, f)
      BY <1>3, <2>1 DEF CreateInv
    <2>2. CASE ~Creates(c, f)
      <3>1. disk[f] = Absent /\ UNCHANGED <<call[d], pc[d], reply[d]>>
        BY <1>3, <2>2, CreatorComes
      <3> QED
        BY <1>3, <3>1 DEF Creates, CreateInv
    <2>3. CASE ~Creates(d, f)
      <3>1. disk[f] = Absent /\ UNCHANGED <<call[c], pc[c], reply[c]>>
        BY <1>3, <2>3, CreatorComes
      <3> QED
        BY <1>3, <3>1 DEF Creates, CreateInv
    <2> QED
      BY <2>1, <2>2, <2>3
  <1> QED
    BY <1>1, <1>2, <1>3 DEF CreateInv

(* Of any number of calls of edit_createFile and edit_createNotebook that  *)
(* name one file, however they overlap, one at most is answered "ok": the  *)
(* file is opened only if it is not there, and never removed.              *)
THEOREM CreateCorrect == Spec => []OneCreates
  <1>1. Init => CreateInv
    BY DEF Init, CreateInv, Creates
  <1>2. IInv /\ CreateInv => OneCreates
    <2> SUFFICES ASSUME IInv, CreateInv, NEW c \in Callers, NEW d \in Callers,
                        reply[c] = "ok", call[c].tool = "createFile",
                        reply[d] = "ok", call[d].tool = "createFile",
                        call[c].edits[1].file = call[d].edits[1].file
                 PROVE  c = d
      BY DEF OneCreates
    <2>1. call[c].edits[1].file \in Files
      <3>1. call[c] \in Calls
        BY Types
      <3>2. Len(call[c].edits) = 1
        BY <3>1, Constants
      <3> QED
        BY <3>1, <3>2, Constants
    <2> QED
      BY <2>1 DEF CreateInv, Creates
  <1> QED
    BY <1>1, <1>2, CreateStep, Inductive, PTL DEF Spec

-----------------------------------------------------------------------------
(* Ids: a change gives no item the id of another.                          *)

Unique(doc) ==
  \A i, j \in DOMAIN doc : doc[i].id = doc[j].id /\ doc[i].id # NoId => i = j

(* Where the items of a document come from that is put together of two.    *)
LEMMA InsertItems ==
  ASSUME NEW doc \in Doc, NEW i \in 0..Len(doc), NEW item \in Item
  PROVE  /\ DOMAIN Insert(doc, i, item) = 1..Len(doc) + 1
         /\ \A k \in 1..Len(doc) + 1 :
              Insert(doc, i, item)[k] =
                IF k <= i THEN doc[k] ELSE IF k = i + 1 THEN item ELSE doc[k - 1]
  <1> DEFINE n == Len(doc)  a == SubSeq(doc, 1, i)  b == SubSeq(doc, i + 1, n)
  <1>1. doc \in Seq(Item) /\ n \in Nat /\ i \in Nat /\ i <= n
    BY DEF Doc
  <1>2. a \in Seq(Item) /\ Len(a) = i /\ \A k \in 1..i : a[k] = doc[k]
    BY <1>1, SubSeqProperties
  <1>3. b \in Seq(Item) /\ Len(b) = n - i /\ \A k \in 1..n - i : b[k] = doc[k + i]
    BY <1>1, SubSeqProperties
  <1>4. <<item>> \in Seq(Item) /\ Len(<<item>>) = 1 /\ <<item>>[1] = item
    OBVIOUS
  <1> HIDE DEF n, a, b
  <1>5. /\ a \o <<item>> \in Seq(Item) /\ Len(a \o <<item>>) = i + 1
        /\ \A k \in 1..i : (a \o <<item>>)[k] = doc[k]
        /\ (a \o <<item>>)[i + 1] = item
    BY <1>1, <1>2, <1>4
  <1> DEFINE h == a \o <<item>>
  <1> HIDE DEF h
  <1>6. /\ h \o b \in Seq(Item) /\ Len(h \o b) = n + 1
        /\ \A k \in 1..n + 1 : (h \o b)[k] = IF k <= i + 1 THEN h[k] ELSE b[k - (i + 1)]
    BY <1>1, <1>3, <1>5 DEF h
  <1>7. ASSUME NEW k \in 1..n + 1
        PROVE  (h \o b)[k] = IF k <= i THEN doc[k] ELSE IF k = i + 1 THEN item ELSE doc[k - 1]
    <2>1. CASE k <= i
      <3>1. h[k] = doc[k]
        BY <1>1, <1>5, <2>1 DEF h
      <3> QED
        BY <1>1, <1>6, <2>1, <3>1
    <2>2. CASE k = i + 1
      <3>1. h[k] = item
        BY <1>5, <2>2 DEF h
      <3> QED
        BY <1>1, <1>6, <2>2, <3>1
    <2>3. CASE k > i + 1
      <3>1. b[k - (i + 1)] = doc[k - 1]
        BY <1>1, <1>3, <2>3
      <3> QED
        BY <1>1, <1>6, <2>3, <3>1
    <2>4. k <= i \/ k = i + 1 \/ k > i + 1
      BY <1>1
    <2> QED
      BY <2>1, <2>2, <2>3, <2>4
  <1>8. DOMAIN (h \o b) = 1..n + 1
    BY <1>6
  <1> QED
    BY <1>7, <1>8 DEF Insert, h, a, b, n

LEMMA InsertUnique ==
  ASSUME NEW doc \in Doc, Unique(doc), NEW i \in 0..Len(doc), NEW item \in Item,
         item.id = NoId \/ ~Has(doc, item.id)
  PROVE  Unique(Insert(doc, i, item))
  <1> DEFINE n == Len(doc)  new == Insert(doc, i, item)
             from(k) == IF k <= i THEN k ELSE k - 1
  <1>1. n \in Nat /\ DOMAIN doc = 1..n /\ i \in Nat /\ i <= n
    BY DEF Doc
  <1>2. /\ DOMAIN new = 1..n + 1
        /\ \A k \in 1..n + 1 :
             new[k] = IF k <= i THEN doc[k] ELSE IF k = i + 1 THEN item ELSE doc[k - 1]
    BY InsertItems
  <1> HIDE DEF n, new
  <1>3. \A k \in 1..n + 1 : k # i + 1 => from(k) \in 1..n /\ new[k] = doc[from(k)]
    BY <1>1, <1>2
  <1>4. new[i + 1] = item
    BY <1>1, <1>2
  <1>5. SUFFICES ASSUME NEW k \in 1..n + 1, NEW l \in 1..n + 1,
                        new[k].id = new[l].id, new[k].id # NoId
                 PROVE  k = l
    BY <1>2 DEF Unique, new
  <1>6. CASE k # i + 1 /\ l # i + 1
    <2>1. from(k) = from(l)
      BY <1>1, <1>3, <1>5, <1>6 DEF Unique
    <2> QED
      BY <1>1, <1>6, <2>1
  <1>7. CASE k # i + 1 /\ l = i + 1
    BY <1>1, <1>3, <1>4, <1>5, <1>7 DEF Has
  <1>8. CASE k = i + 1 /\ l # i + 1
    BY <1>1, <1>3, <1>4, <1>5, <1>8 DEF Has
  <1> QED
    BY <1>6, <1>7, <1>8

LEMMA DeleteUnique ==
  ASSUME NEW doc \in Doc, Unique(doc), NEW i \in 1..Len(doc)
  PROVE  Unique(SubSeq(doc, 1, i - 1) \o SubSeq(doc, i + 1, Len(doc)))
  <1> DEFINE n == Len(doc)  a == SubSeq(doc, 1, i - 1)  b == SubSeq(doc, i + 1, n)
             from(k) == IF k < i THEN k ELSE k + 1
  <1>1. doc \in Seq(Item) /\ n \in Nat /\ DOMAIN doc = 1..n /\ i \in Nat /\ 1 <= i /\ i <= n
    BY DEF Doc
  <1>2. a \in Seq(Item) /\ Len(a) = i - 1 /\ \A k \in 1..i - 1 : a[k] = doc[k]
    BY <1>1, SubSeqProperties
  <1>3. b \in Seq(Item) /\ Len(b) = n - i /\ \A k \in 1..n - i : b[k] = doc[k + i]
    <2>1. \A k \in i + 1..n : doc[k] \in Item
      BY <1>1
    <2>2. /\ b \in Seq(Item)
          /\ Len(b) = IF i + 1 <= n THEN n - (i + 1) + 1 ELSE 0
          /\ \A k \in 1..n - (i + 1) + 1 : b[k] = doc[i + 1 + k - 1]
      BY <1>1, <2>1, SubSeqProperties
    <2> HIDE DEF n, b
    <2>3. /\ (IF i + 1 <= n THEN n - (i + 1) + 1 ELSE 0) = n - i
          /\ \A k \in 1..n - i : k \in 1..n - (i + 1) + 1 /\ i + 1 + k - 1 = k + i
      BY <1>1
    <2>4. \A k \in 1..n - i : b[k] = doc[k + i]
      <3> SUFFICES ASSUME NEW k \in 1..n - i PROVE b[k] = doc[k + i]
        OBVIOUS
      <3>1. b[k] = doc[i + 1 + k - 1]
        BY <2>2, <2>3
      <3>2. i + 1 + k - 1 = k + i
        BY <2>3
      <3> QED
        BY <3>1, <3>2
    <2> QED
      BY <2>2, <2>3, <2>4
  <1> HIDE DEF n, a, b
  <1>4. /\ DOMAIN (a \o b) = 1..n - 1
        /\ \A k \in 1..n - 1 : (a \o b)[k] = IF k <= i - 1 THEN a[k] ELSE b[k - (i - 1)]
    <2>1. /\ a \o b \in Seq(Item) /\ Len(a \o b) = Len(a) + Len(b)
          /\ \A k \in 1..Len(a) + Len(b) :
               (a \o b)[k] = IF k <= Len(a) THEN a[k] ELSE b[k - Len(a)]
      BY <1>2, <1>3, ConcatProperties
    <2>2. Len(a) = i - 1 /\ Len(a) + Len(b) = n - 1
      BY <1>1, <1>2, <1>3
    <2>3. DOMAIN (a \o b) = 1..Len(a \o b)
      BY <2>1, LenProperties
    <2> QED
      BY <2>1, <2>2, <2>3
  <1>5. \A k \in 1..n - 1 : from(k) \in 1..n /\ (a \o b)[k] = doc[from(k)]
    BY <1>1, <1>2, <1>3, <1>4
  <1>6. SUFFICES ASSUME NEW k \in 1..n - 1, NEW l \in 1..n - 1,
                        (a \o b)[k].id = (a \o b)[l].id, (a \o b)[k].id # NoId
                 PROVE  k = l
    BY <1>4 DEF Unique, a, b, n
  <1>7. from(k) = from(l)
    BY <1>1, <1>5, <1>6 DEF Unique
  <1> QED
    BY <1>1, <1>7

LEMMA UpdatedUnique ==
  ASSUME NEW ch \in Change, NEW doc \in Doc, Unique(doc), Applies(ch, doc),
         ch.op = "insertAfter" => ch.id # NoId
  PROVE  Unique(Updated(ch, doc))
  <1>1. doc \in Seq(Item) /\ Len(doc) \in Nat /\ DOMAIN doc = 1..Len(doc)
    BY DEF Doc
  <1>2. /\ ch.text \in Texts /\ ch.id \in Ids \cup {NoId}
        /\ ch.op \in {"replace", "replaceAll", "upsert", "insertTop", "insertBottom",
                      "insertAfter", "edit", "delete", "run", "runOn", "create"}
    BY DEF Change
  <1>3. \A i \in 1..Len(doc) : doc[i] \in Item
    BY <1>1
  <1>4. \A item \in Item : Append(doc, item) = Insert(doc, Len(doc), item)
    <2>1. SubSeq(doc, 1, Len(doc)) = doc /\ SubSeq(doc, Len(doc) + 1, Len(doc)) = <<>>
      BY <1>1
    <2> SUFFICES ASSUME NEW item \in Item PROVE Append(doc, item) = (doc \o <<item>>) \o <<>>
      BY <2>1 DEF Insert
    <2> QED
      BY <1>1
  <1>5. Cell(ch.text, ch.lang) \in Item /\ Cell(ch.text, ch.lang).id = NoId
    BY <1>2, CellType DEF Cell
  <1>6. CASE \E new : /\ Updated(ch, doc) = new /\ DOMAIN new = DOMAIN doc
                      /\ \A i \in DOMAIN doc : new[i].id = doc[i].id
    BY <1>6 DEF Unique
  <1>7. CASE ch.op \in {"replace", "replaceAll"}
    <2>1. /\ DOMAIN ReplaceFirst(doc, ch.old, ch.text) = DOMAIN doc
          /\ \A i \in DOMAIN doc : ReplaceFirst(doc, ch.old, ch.text)[i].id = doc[i].id
      BY <1>1, <1>3 DEF ReplaceFirst, Item
    <2>2. /\ DOMAIN ReplaceEvery(doc, ch.old, ch.text) = DOMAIN doc
          /\ \A i \in DOMAIN doc : ReplaceEvery(doc, ch.old, ch.text)[i].id = doc[i].id
      BY <1>1, <1>3 DEF ReplaceEvery, Item
    <2>3. \/ Updated(ch, doc) = ReplaceFirst(doc, ch.old, ch.text)
          \/ Updated(ch, doc) = ReplaceEvery(doc, ch.old, ch.text)
      BY <1>7 DEF Updated
    <2> QED
      BY <1>6, <2>1, <2>2, <2>3
  <1>8. CASE ch.op = "edit"
    <2>1. At(doc, ch.id) \in 1..Len(doc)
      BY <1>1, <1>8, AtFirst DEF Applies
    <2> DEFINE new == EditCell(doc, At(doc, ch.id), ch.text, ch.lang)
    <2>2. DOMAIN new = DOMAIN doc /\ \A i \in DOMAIN doc : new[i].id = doc[i].id
      BY <1>1, <1>3, <2>1 DEF EditCell, Item
    <2>3. Updated(ch, doc) = new
      BY <1>8 DEF Updated
    <2> HIDE DEF new
    <2> QED
      BY <1>6, <2>2, <2>3
  <1>9. CASE ch.op \in {"run", "runOn"}
    <2> DEFINE new == Run(doc, At(doc, ch.id))
    <2>1. DOMAIN new = DOMAIN doc /\ \A i \in DOMAIN doc : new[i].id = doc[i].id
      BY <1>1, <1>3 DEF Run, Item
    <2>2. Updated(ch, doc) = new
      BY <1>9 DEF Updated
    <2> HIDE DEF new
    <2> QED
      BY <1>6, <2>1, <2>2
  <1>10. CASE ch.op = "upsert"
    <2> DEFINE task == [Cell(ch.text, "keep") EXCEPT !.id = ch.id]
    <2>1. task \in Item /\ task.id = ch.id
      BY <1>2, CellType DEF Item
    <2>2. Updated(ch, doc) = IF Has(doc, ch.id) THEN [doc EXCEPT ![At(doc, ch.id)] = task]
                             ELSE Append(doc, task)
      BY <1>10 DEF Updated, Upsert
    <2> HIDE DEF task
    <2>3. CASE Has(doc, ch.id)
      <3> DEFINE new == [doc EXCEPT ![At(doc, ch.id)] = task]
      <3>1. At(doc, ch.id) \in 1..Len(doc) /\ doc[At(doc, ch.id)].id = ch.id
        BY <1>1, <2>3, AtFirst
      <3>2. DOMAIN new = DOMAIN doc /\ \A i \in DOMAIN doc : new[i].id = doc[i].id
        BY <1>1, <2>1, <3>1
      <3>3. Updated(ch, doc) = new
        BY <2>2, <2>3
      <3> HIDE DEF new
      <3> QED
        BY <1>6, <3>2, <3>3
    <2>4. CASE ~Has(doc, ch.id)
      <3>1. Updated(ch, doc) = Insert(doc, Len(doc), task)
        BY <1>4, <2>1, <2>2, <2>4
      <3>2. Len(doc) \in 0..Len(doc)
        BY <1>1
      <3> QED
        BY <2>1, <2>4, <3>1, <3>2, InsertUnique
    <2> QED
      BY <2>3, <2>4
  <1>11. CASE ch.op \in {"insertTop", "insertBottom", "insertAfter"}
    <2>1. ch.op = "insertAfter" => At(doc, ch.id) \in 0..Len(doc)
      BY <1>1, AtFirst DEF Applies
    <2>2. \E i \in 0..Len(doc) : Updated(ch, doc) = Insert(doc, i, Cell(ch.text, ch.lang))
      <3>1. 0 \in 0..Len(doc) /\ Len(doc) \in 0..Len(doc)
        BY <1>1
      <3> DEFINE cell == Cell(ch.text, ch.lang)
      <3>2. Append(doc, cell) = Insert(doc, Len(doc), cell)
        BY <1>4, <1>5
      <3>3. CASE ch.op = "insertTop"
        BY <3>1, <3>3 DEF Updated
      <3>4. CASE ch.op = "insertBottom"
        BY <3>1, <3>2, <3>4 DEF Updated
      <3>5. CASE ch.op = "insertAfter"
        BY <2>1, <3>5 DEF Updated
      <3> QED
        BY <1>11, <3>3, <3>4, <3>5
    <2> QED
      BY <1>5, <2>2, InsertUnique
  <1>12. CASE ch.op = "delete"
    <2>1. At(doc, ch.id) \in 1..Len(doc)
      BY <1>1, <1>12, AtFirst DEF Applies
    <2> QED
      BY <1>12, <2>1, DeleteUnique DEF Updated
  <1>13. CASE ch.op = "create"
    BY <1>13 DEF Updated, Unique
  <1> QED
    BY <1>2, <1>7, <1>8, <1>9, <1>10, <1>11, <1>12, <1>13

(* What the files hold, and what is going to be written to them.           *)
UniqueInv ==
  /\ \A f \in JsonFiles : disk[f] \in Doc => Unique(disk[f])
  /\ \A c \in Callers : \A i \in 1..Len(pending[c]) :
       pending[c][i].file \in JsonFiles => Unique(pending[c][i].doc)

LEMMA WriteUnique ==
  ASSUME IInv, UniqueInv, NEW c \in Callers,
         IF Walking(c) THEN next[c] <= Rounds(c) ELSE next[c] <= Len(call[c].edits),
         Succeeds(call[c].tool, Target(c), Edit(c).change, disk[Target(c)]),
         Write(c).file \in JsonFiles
  PROVE  Unique(Write(c).doc)
  <1>1. /\ Edit(c).change \in Change /\ Target(c) \in JsonFiles
        /\ Edit(c).change.op = "insertAfter" => Edit(c).change.id # NoId
    BY Reading, WriteType
  <1>2. disk[Target(c)] \in Doc \cup {Absent, NoBytes} /\ Target(c) \in Files
    BY <1>1 DEF IInv, Ranges, Succeeds, Readable, Files
  <1>3. <<>> \in Doc /\ Unique(<<>>)
    BY DEF Doc, Unique
  <1>4. AsRead(disk[Target(c)]) \in Doc /\ Unique(AsRead(disk[Target(c)]))
    BY <1>1, <1>2, <1>3 DEF AsRead, UniqueInv
  <1>5. Unique(Updated(Edit(c).change, AsRead(disk[Target(c)])))
    BY <1>1, <1>4, UpdatedUnique DEF Succeeds
  <1> QED
    BY <1>5 DEF Write

LEMMA DiskUnique ==
  ASSUME IInv, UniqueInv, [Next]_vars, NEW f \in JsonFiles, disk'[f] \in Doc
  PROVE  Unique(disk'[f])
  <1>1. CASE disk' = disk
    BY <1>1 DEF UniqueInv
  <1>2. ASSUME NEW c \in Callers, OpenWrite(c) \/ OpenCreate(c) PROVE Unique(disk'[f])
    <2>1. \E g : disk' = [disk EXCEPT ![g] = NoBytes]
      BY <1>2 DEF OpenWrite, OpenCreate, Opened, Put
    <2>2. disk'[f] = disk[f]
      BY <2>1, FileAssumption DEF IInv, Ranges, Files
    <2> QED
      BY <2>2 DEF UniqueInv
  <1>3. ASSUME NEW c \in Callers, FinishWrite(c) PROVE Unique(disk'[f])
    <2> DEFINE w == Head(pending[c])
    <2>1. PICK content \in {w.doc, Broken} : disk' = [disk EXCEPT ![w.file] = content]
      BY <1>3 DEF FinishWrite, Written, Put
    <2>2. Len(pending[c]) >= 1 /\ Len(pending[c]) \in Nat
      BY <1>3, First, Types DEF FinishWrite
    <2>3. w = pending[c][1]
      OBVIOUS
    <2>4. w.file \in JsonFiles => Unique(w.doc)
      BY <2>2, <2>3 DEF UniqueInv
    <2> HIDE DEF w
    <2>5. disk'[f] = disk[f] \/ (w.file = f /\ disk'[f] = w.doc)
      BY <2>1, FileAssumption DEF IInv, Ranges, Files
    <2> QED
      BY <2>4, <2>5 DEF UniqueInv
  <1>4. ASSUME NEW c \in Callers, WriteFails(c) PROVE Unique(disk'[f])
    <2>1. \E content \in {disk[Head(pending[c]).file], Broken} :
            disk' = [disk EXCEPT ![Head(pending[c]).file] = content]
      BY <1>4 DEF WriteFails, Put
    <2>2. disk'[f] = disk[f]
      BY <2>1, FileAssumption DEF IInv, Ranges, Files
    <2> QED
      BY <2>2 DEF UniqueInv
  <1>5. \/ disk' = disk
        \/ \E c \in Callers : \/ OpenWrite(c) \/ OpenCreate(c)
                               \/ FinishWrite(c) \/ WriteFails(c)
    BY DEF Next, vars, Begin, Step, ReadOne, RefuseOne, RefuseCreate, Visit, Skip, WalkEnds,
           OpenFails
  <1> QED
    BY <1>1, <1>2, <1>3, <1>4, <1>5

LEMMA PendingUnique ==
  ASSUME IInv, UniqueInv, [Next]_vars, NEW c \in Callers, NEW i \in 1..Len(pending'[c]),
         pending'[c][i].file \in JsonFiles
  PROVE  Unique(pending'[c][i].doc)
  <1> DEFINE writes == pending[c]  E == [file : Files, doc : Doc]
  <1>1. writes \in Seq(E) /\ Len(writes) \in Nat
    BY Types DEF Writes
  <1>2. \A k \in 1..Len(writes) : writes[k].file \in JsonFiles => Unique(writes[k].doc)
    BY DEF UniqueInv
  <1>3. CASE pending'[c] = writes
    BY <1>2, <1>3
  <1>4. ASSUME NEW new \in Calls, Begin(c, new) PROVE FALSE
    <2>1. pending'[c] = <<>>
      BY <1>4 DEF Begin, IInv, Ranges
    <2> QED
      BY <2>1
  <1>5. CASE ReadOne(c)
    <2>1. /\ pending'[c] = Append(writes, Write(c))
          /\ Succeeds(call[c].tool, Target(c), Edit(c).change, disk[Target(c)])
          /\ ~Walking(c) /\ pc[c] = "read"
      BY <1>5 DEF ReadOne, IInv, Ranges
    <2>2. next[c] <= Len(call[c].edits)
      BY <2>1 DEF IInv, CallerInv
    <2>3. Write(c) \in E /\ (Write(c).file \in JsonFiles => Unique(Write(c).doc))
      BY <2>1, <2>2, WriteType, WriteUnique
    <2> DEFINE w == Write(c)
    <2> HIDE DEF writes, w, E
    <2>4. /\ Len(Append(writes, w)) = Len(writes) + 1
          /\ Append(writes, w)[Len(writes) + 1] = w
          /\ \A k \in 1..Len(writes) : Append(writes, w)[k] = writes[k]
      BY <1>1, <2>3 DEF w
    <2>5. pending'[c] = Append(writes, w)
      BY <2>1 DEF w
    <2>6. i \in 1..Len(writes) + 1
      BY <2>4, <2>5
    <2>7. CASE i = Len(writes) + 1
      BY <2>3, <2>4, <2>5, <2>7 DEF w
    <2>8. CASE i \in 1..Len(writes)
      BY <1>2, <2>4, <2>5, <2>8
    <2> QED
      BY <1>1, <2>6, <2>7, <2>8
  <1>6. CASE Visit(c)
    <2>1. /\ pending'[c] = <<Write(c)>>
          /\ Succeeds(call[c].tool, Target(c), Edit(c).change, disk[Target(c)])
          /\ Walking(c) /\ next[c] <= Rounds(c)
      BY <1>6 DEF Visit, IInv, Ranges
    <2>2. Write(c).file \in JsonFiles => Unique(Write(c).doc)
      BY <2>1, WriteUnique
    <2>3. pending'[c][i] = Write(c)
      BY <2>1
    <2> QED
      BY <2>2, <2>3
  <1>7. CASE OpenCreate(c)
    <2> DEFINE doc == Updated(Edit(c).change, <<>>)
    <2>1. /\ pending'[c] = <<[file |-> Target(c), doc |-> doc]>>
          /\ pc[c] = "read" /\ call[c].tool = "createFile"
      BY <1>7 DEF OpenCreate, IInv, Ranges
    <2>2. ~Walking(c) /\ call[c] \in Calls
      BY <2>1, Types DEF Walking
    <2>3. next[c] <= Len(call[c].edits) /\ next[c] \in Nat /\ next[c] >= 1
      BY <2>1, <2>2, Types DEF IInv, CallerInv
    <2>4. Edit(c).change \in Change /\ Edit(c).change.op = "create"
      <3>1. Edit(c) = call[c].edits[next[c]] /\ next[c] \in 1..Len(call[c].edits)
        BY <2>2, <2>3, Types DEF Edit
      <3> QED
        BY <2>1, <2>2, <3>1, Constants
    <2>5. <<>> \in Doc /\ Unique(<<>>) /\ Applies(Edit(c).change, <<>>)
      BY <2>4 DEF Doc, Unique, Applies
    <2>6. Unique(doc)
      BY <2>4, <2>5, UpdatedUnique
    <2> HIDE DEF doc
    <2>7. pending'[c][i] = [file |-> Target(c), doc |-> doc]
      BY <2>1
    <2> QED
      BY <2>6, <2>7
  <1>8. CASE FinishWrite(c)
    <2>1. pending'[c] = Tail(writes) /\ pc[c] = "open"
      BY <1>8 DEF FinishWrite, IInv, Ranges
    <2>2. /\ Len(Tail(writes)) = Len(writes) - 1
          /\ \A k \in 1..Len(writes) - 1 : Tail(writes)[k] = writes[k + 1]
      BY <2>1, First
    <2> HIDE DEF writes
    <2>3. i \in 1..Len(writes) - 1 /\ i + 1 \in 1..Len(writes)
      BY <1>1, <2>1, <2>2
    <2>4. pending'[c][i] = writes[i + 1]
      BY <2>1, <2>2, <2>3
    <2> QED
      BY <1>2, <2>3, <2>4
  <1>9. \/ pending'[c] = writes
        \/ (\E new \in Calls : Begin(c, new)) \/ ReadOne(c) \/ Visit(c)
        \/ OpenCreate(c) \/ FinishWrite(c)
    <2>1. CASE UNCHANGED vars
      BY <2>1 DEF vars
    <2>2. ASSUME NEW d \in Callers, d # c, (\E new \in Calls : Begin(d, new)) \/ Step(d)
          PROVE  pending'[c] = writes
      BY <2>2 DEF Begin, Step, ReadOne, RefuseOne, OpenCreate, RefuseCreate, Visit, Skip,
                  WalkEnds, OpenWrite, FinishWrite, OpenFails, WriteFails, IInv, Ranges
    <2>3. ASSUME Step(c)
          PROVE  \/ pending'[c] = writes
                 \/ ReadOne(c) \/ Visit(c) \/ OpenCreate(c) \/ FinishWrite(c)
      BY <2>3 DEF Step, RefuseOne, RefuseCreate, Skip, WalkEnds, OpenWrite, OpenFails, WriteFails
    <2> QED
      BY <2>1, <2>2, <2>3 DEF Next
  <1> QED
    BY <1>3, <1>4, <1>5, <1>6, <1>7, <1>8, <1>9

(* However edits of notebooks and updates of tasks.json overlap, whichever *)
(* of them are lost, and wherever a write fails: if no document has two    *)
(* items of one id at first, none ever has.                                *)
THEOREM IdsCorrect ==
  ASSUME \A d \in Disks, f \in JsonFiles : d[f] \in Doc => Unique(d[f])
  PROVE  Spec => []IdsUnique
  <1>1. Init => UniqueInv
    <2> SUFFICES ASSUME Init PROVE UniqueInv
      OBVIOUS
    <2>1. disk \in Disks /\ \A c \in Callers : pending[c] = <<>>
      BY DEF Init
    <2>2. \A c \in Callers : 1..Len(pending[c]) = {}
      BY <2>1
    <2> QED
      BY <2>1, <2>2 DEF UniqueInv
  <1>2. IInv /\ UniqueInv /\ [Next]_vars => UniqueInv'
    BY DiskUnique, PendingUnique DEF UniqueInv
  <1>3. UniqueInv => IdsUnique
    BY DEF UniqueInv, Unique, IdsUnique
  <1> QED
    BY <1>1, <1>2, <1>3, Inductive, PTL DEF Spec
-----------------------------------------------------------------------------
(* AnsweredIsDone, strengthened: for a call whose edits are of different   *)
(* files, what it has passed over and what it owes, at each of its steps,  *)
(* and what it leaves in each file that no other call has written.         *)

(* The file of the i-th edit, or of the i-th stop of the walk.             *)
FileAt(c, i) == IF Walking(c) THEN Walk[i] ELSE call[c].edits[i].file

(* Those that a caller has computed or passed over, and those of them that *)
(* it has still to write.                                                  *)
Passed(c) ==
  IF call[c].tool = "createFile"
  THEN IF pc[c] = "read" THEN {} ELSE FilesOf(call[c])
  ELSE {FileAt(c, i) : i \in 1..next[c] - 1}

Owed(c) == {pending[c][j].file : j \in 1..Len(pending[c])}

Left(c, f) ==
  IF f \in Owed(c)
  THEN IF pc[c] = "open" /\ f = Head(pending[c]).file THEN NoBytes ELSE before[c][f]
  ELSE IF f \in Passed(c) THEN Intended(call[c], f, before[c][f]) ELSE before[c][f]

Busy(c) ==
  (pc[c] # "idle" \/ reply[c] \in {"ok", "cellFailed"}) /\ Distinct(call[c].edits)

AllRead(c) == call[c].tool = "createFile" \/ next[c] = Rounds(c) + 1

(* Each file is owed once, and with what is intended of it.                *)
OwedInv(c) ==
  /\ Owed(c) \subseteq Passed(c)
  /\ \A i, j \in 1..Len(pending[c]) : pending[c][i].file = pending[c][j].file => i = j
  /\ \A j \in 1..Len(pending[c]) :
       pending[c][j].file \notin disturbed[c] =>
         pending[c][j].doc =
           Intended(call[c], pending[c][j].file, before[c][pending[c][j].file])

WorkInv(c) ==
  /\ pc[c] # "read" /\ ~Walking(c) => AllRead(c)
  /\ pc[c] = "idle" => pending[c] = <<>> /\ AllRead(c)
  /\ OwedInv(c)
  /\ \A f \in Files \ disturbed[c] : disk[f] = Left(c, f)

DoneInv == \A c \in Callers : Busy(c) => WorkInv(c)

(* Intended without its CHOOSE.                                            *)
LEMMA IntendedAt ==
  ASSUME NEW new \in Calls, Distinct(new.edits), NEW i \in 1..Len(new.edits), NEW f, NEW content,
         new.tool = "renameSymbol" \/ new.edits[i].file = f
  PROVE  Intended(new, f, content) =
           IF Succeeds(new.tool, f, new.edits[i].change, content)
           THEN Updated(new.edits[i].change, AsRead(content)) ELSE content
  <1> DEFINE is(k) == new.tool = "renameSymbol" \/ new.edits[k].file = f
             first == CHOOSE k \in DOMAIN new.edits : is(k)
  <1>1. DOMAIN new.edits = 1..Len(new.edits) /\ new.tool # "editFiles" => Len(new.edits) = 1
    BY Constants, LenProperties
  <1>2. \A k \in DOMAIN new.edits : is(k) => k = i
    <2> SUFFICES ASSUME NEW k \in 1..Len(new.edits), is(k) PROVE k = i
      BY <1>1
    <2>1. CASE new.tool = "renameSymbol"
      <3>1. Len(new.edits) = 1
        BY <1>1, <2>1
      <3> QED
        BY <3>1
    <2>2. CASE new.tool # "renameSymbol"
      BY <1>1, <2>2 DEF Distinct
    <2> QED
      BY <2>1, <2>2
  <1>3. first \in DOMAIN new.edits /\ is(first)
    <2>1. i \in DOMAIN new.edits /\ is(i)
      BY <1>1
    <2> HIDE DEF is
    <2> QED
      BY <2>1
  <1>4. first = i
    BY <1>2, <1>3
  <1>5. Intended(new, f, content) =
          IF Succeeds(new.tool, f, new.edits[first].change, content)
          THEN Updated(new.edits[first].change, AsRead(content)) ELSE content
    BY Zenon DEF Intended
  <1> HIDE DEF first
  <1> QED
    BY <1>4, <1>5

(* The file that a caller reads next is none of those it has passed over.  *)
LEMMA Fresh ==
  ASSUME IInv, NEW c \in Callers, pc[c] = "read", Distinct(call[c].edits),
         Walking(c) => next[c] <= Rounds(c)
  PROVE  /\ Target(c) = FileAt(c, next[c]) /\ Target(c) \in Files
         /\ \A i \in 1..next[c] - 1 : FileAt(c, i) # Target(c)
         /\ \A content : Intended(call[c], Target(c), content) =
              IF Succeeds(call[c].tool, Target(c), Edit(c).change, content)
              THEN Updated(Edit(c).change, AsRead(content)) ELSE content
  <1>1. /\ call[c] \in Calls /\ next[c] \in Nat /\ next[c] >= 1
        /\ Len(call[c].edits) \in Nat
    BY Types
  <1>2. ~Walking(c) => next[c] <= Len(call[c].edits)
    BY DEF IInv, CallerInv
  <1>3. Target(c) = FileAt(c, next[c]) /\ Target(c) \in Files
    BY <1>2, Reading DEF Target, Edit, FileAt
  <1>4. DOMAIN call[c].edits = 1..Len(call[c].edits) /\ Len(call[c].edits) >= 1
    BY <1>1, Constants, LenProperties, EmptySeq
  <1>5. ASSUME NEW i \in 1..next[c] - 1 PROVE FileAt(c, i) # Target(c)
    <2>1. CASE Walking(c)
      <3>1. DOMAIN Walk = 1..Len(Walk) /\ Len(Walk) \in Nat /\ next[c] <= Len(Walk)
        BY <2>1, FileAssumption, LenProperties DEF Rounds
      <3>2. i \in DOMAIN Walk /\ next[c] \in DOMAIN Walk /\ i # next[c]
        BY <1>1, <3>1
      <3> QED
        BY <1>3, <2>1, <3>2, FileAssumption DEF FileAt
    <2>2. CASE ~Walking(c)
      <3>1. i \in DOMAIN call[c].edits /\ next[c] \in DOMAIN call[c].edits /\ i # next[c]
        BY <1>1, <1>2, <1>4, <2>2
      <3> QED
        BY <1>3, <2>2, <3>1 DEF FileAt, Distinct
    <2> QED
      BY <2>1, <2>2
  <1>6. ASSUME NEW content
        PROVE  Intended(call[c], Target(c), content) =
                 IF Succeeds(call[c].tool, Target(c), Edit(c).change, content)
                 THEN Updated(Edit(c).change, AsRead(content)) ELSE content
    <2> DEFINE k == IF Walking(c) THEN 1 ELSE next[c]
    <2>1. k \in 1..Len(call[c].edits) /\ Edit(c) = call[c].edits[k]
      BY <1>1, <1>2, <1>4 DEF Edit
    <2>2. call[c].tool = "renameSymbol" \/ call[c].edits[k].file = Target(c)
      BY DEF Target, Edit, Walking
    <2> HIDE DEF k
    <2> QED
      BY <1>1, <2>1, <2>2, IntendedAt
  <1> QED
    BY <1>3, <1>5, <1>6

(* Of a file that it has not passed over, and no other call has written,   *)
(* a caller reads what the file was when its call began.                   *)
LEMMA ReadsBefore ==
  ASSUME NEW c \in Callers, WorkInv(c), NEW f \in Files, f \notin Passed(c),
         f \notin disturbed[c]
  PROVE  disk[f] = before[c][f]
  BY DEF WorkInv, OwedInv, Left

(* A step that another caller makes.                                       *)
LEMMA OthersWork ==
  ASSUME NEW c \in Callers, WorkInv(c),
         UNCHANGED <<pc[c], call[c], next[c], pending[c], before[c]>>,
         disturbed[c] \subseteq disturbed'[c],
         \A f \in Files \ disturbed'[c] : disk'[f] = disk[f]
  PROVE  WorkInv(c)'
  <1>1. /\ Owed(c)' = Owed(c) /\ Passed(c)' = Passed(c) /\ AllRead(c)' = AllRead(c)
        /\ Walking(c)' = Walking(c)
    BY DEF Owed, Passed, AllRead, FileAt, Walking, Rounds, FilesOf
  <1>2. \A f : Left(c, f)' = Left(c, f)
    BY <1>1 DEF Left, Intended, Succeeds, Permitted
  <1>3. OwedInv(c)'
    <2>1. \A f : Intended(call[c], f, before[c][f])' = Intended(call[c], f, before[c][f])
      BY DEF Intended, Succeeds, Permitted
    <2> QED
      BY <1>1, <2>1 DEF WorkInv, OwedInv
  <1>4. \A f \in Files \ disturbed'[c] : disk'[f] = Left(c, f)
    BY DEF WorkInv
  <1> QED
    BY <1>1, <1>2, <1>3, <1>4 DEF WorkInv

LEMMA WorkBegin ==
  ASSUME IInv, NEW c \in Callers, NEW new \in Calls, Begin(c, new)
  PROVE  WorkInv(c)'
  <1>1. /\ pc'[c] = "read" /\ next'[c] = 1 /\ pending'[c] = <<>>
        /\ before'[c] = disk /\ disk' = disk
    BY DEF Begin, Goto, IInv, Ranges
  <1>2. 1..0 = {} /\ 1..1 - 1 = {} /\ 1..Len(<<>>) = {}
    OBVIOUS
  <1>3. Owed(c)' = {} /\ Passed(c)' = {}
    BY <1>1, <1>2 DEF Owed, Passed
  <1>4. OwedInv(c)'
    BY <1>1, <1>2, <1>3 DEF OwedInv
  <1>5. \A f : Left(c, f)' = disk'[f]
    BY <1>1, <1>3 DEF Left
  <1> QED
    BY <1>1, <1>4, <1>5 DEF WorkInv

(* A caller that reads passes over one file more.                          *)
LEMMA PassedNext ==
  ASSUME IInv, NEW c \in Callers, call[c].tool # "createFile",
         call'[c] = call[c], next'[c] = next[c] + 1, Target(c) = FileAt(c, next[c])
  PROVE  Passed(c)' = Passed(c) \cup {Target(c)}
  <1>1. next[c] \in Nat /\ next[c] >= 1
    BY Types
  <1>2. 1..next'[c] - 1 = (1..next[c] - 1) \cup {next[c]}
    BY <1>1
  <1>3. \A i : FileAt(c, i)' = FileAt(c, i)
    BY DEF FileAt, Walking
  <1>4. Passed(c)' = {FileAt(c, i) : i \in 1..next'[c] - 1}
    BY <1>3 DEF Passed
  <1>5. Passed(c) = {FileAt(c, i) : i \in 1..next[c] - 1}
    BY DEF Passed
  <1> QED
    BY <1>2, <1>4, <1>5

(* Neither the call nor the files before it change in the steps of a call. *)
LEMMA SameIntent ==
  ASSUME NEW c \in Callers, call'[c] = call[c], before'[c] = before[c]
  PROVE  \A f : Intended(call[c], f, before[c][f])' = Intended(call[c], f, before[c][f])
  BY DEF Intended, Succeeds, Permitted

LEMMA WorkRead ==
  ASSUME IInv, NEW c \in Callers, ReadOne(c) \/ Visit(c), Busy(c) => WorkInv(c), Busy(c)'
  PROVE  WorkInv(c)'
  <1> DEFINE T == Target(c)  n == Len(pending[c])
  <1>1. /\ pc[c] = "read" /\ call[c].tool # "createFile"
        /\ call'[c] = call[c] /\ before'[c] = before[c] /\ disturbed'[c] = disturbed[c]
        /\ disk' = disk /\ next'[c] = next[c] + 1
        /\ Walking(c) => next[c] <= Rounds(c)
        /\ Succeeds(call[c].tool, T, Edit(c).change, disk[T])
    BY DEF ReadOne, Visit, Walking, history, IInv, Ranges
  <1>2. /\ pc'[c] \in {"read", "write"}
        /\ pc'[c] = "write" /\ ~Walking(c) => next[c] = Rounds(c)
    BY DEF ReadOne, Visit, Goto, IInv, Ranges
  <1>3. pending[c] \in Writes /\ n \in Nat /\ next[c] \in Nat
    BY Types
  <1>4. Write(c) \in [file : Files, doc : Doc] /\ Write(c).file = T
    BY <1>1, WriteType DEF IInv, CallerInv
  <1>5. pending'[c] = Append(pending[c], Write(c))
    <2>1. CASE ReadOne(c)
      BY <2>1 DEF ReadOne, IInv, Ranges
    <2>2. CASE Visit(c)
      <3>1. pending[c] = <<>> /\ pending'[c] = <<Write(c)>>
        BY <2>2 DEF Visit, IInv, CallerInv, Ranges
      <3> QED
        BY <3>1
    <2> QED
      BY <2>1, <2>2
  <1>6. /\ Len(pending'[c]) = n + 1
        /\ \A j \in 1..n : pending'[c][j] = pending[c][j]
        /\ pending'[c][n + 1] = Write(c)
    BY <1>3, <1>4, <1>5, AppendProperties DEF Writes
  <1>7. Distinct(call[c].edits) /\ WorkInv(c)
    BY <1>1 DEF Busy
  <1>8. /\ T = FileAt(c, next[c]) /\ T \in Files
        /\ \A i \in 1..next[c] - 1 : FileAt(c, i) # T
        /\ \A content : Intended(call[c], T, content) =
             IF Succeeds(call[c].tool, T, Edit(c).change, content)
             THEN Updated(Edit(c).change, AsRead(content)) ELSE content
    BY <1>1, <1>7, Fresh
  <1>9. Passed(c)' = Passed(c) \cup {T} /\ T \notin Passed(c)
    BY <1>1, <1>8, PassedNext DEF Passed
  <1>10. Owed(c)' = Owed(c) \cup {T}
    <2>1. 1..n + 1 = (1..n) \cup {n + 1}
      BY <1>3
    <2> QED
      BY <1>4, <1>6, <2>1 DEF Owed
  <1>11. T \notin Owed(c) /\ Owed(c) \subseteq Passed(c)
    BY <1>7, <1>9 DEF WorkInv, OwedInv
  <1>12. T \notin disturbed[c] => /\ disk[T] = before[c][T]
                                  /\ Write(c).doc = Intended(call[c], T, before[c][T])
    BY <1>1, <1>7, <1>8, <1>9, ReadsBefore DEF Write
  <1>13. \A f : Intended(call[c], f, before[c][f])' = Intended(call[c], f, before[c][f])
    BY <1>1, SameIntent
  <1> HIDE DEF T, n
  <1>14. OwedInv(c)'
    <2>1. \A j \in 1..n + 1 : j \in 1..n \/ j = n + 1
      BY <1>3
    <2>2. \A i, j \in 1..n + 1 : pending'[c][i].file = pending'[c][j].file => i = j
      <3>1. \A i, j \in 1..n : pending'[c][i].file = pending'[c][j].file => i = j
        BY <1>6, <1>7 DEF WorkInv, OwedInv, n
      <3>2. \A j \in 1..n : pending'[c][j].file # T
        BY <1>6, <1>11 DEF Owed, n
      <3> QED
        BY <1>4, <1>6, <2>1, <3>1, <3>2
    <2>3. ASSUME NEW j \in 1..n + 1, pending'[c][j].file \notin disturbed[c]
          PROVE  pending'[c][j].doc =
                   Intended(call[c], pending'[c][j].file, before[c][pending'[c][j].file])
      <3>1. CASE j = n + 1
        BY <1>4, <1>6, <1>12, <2>3, <3>1
      <3>2. CASE j \in 1..n
        BY <1>6, <1>7, <2>3, <3>2 DEF WorkInv, OwedInv, n
      <3> QED
        BY <2>1, <3>1, <3>2
    <2> QED
      BY <1>1, <1>6, <1>9, <1>10, <1>11, <1>13, <2>2, <2>3 DEF OwedInv
  <1>15. \A f \in Files \ disturbed[c] : disk'[f] = Left(c, f)'
    <2> SUFFICES ASSUME NEW f \in Files \ disturbed[c] PROVE disk'[f] = Left(c, f)'
      OBVIOUS
    <2>1. disk[f] = IF f \in Owed(c) THEN before[c][f]
                    ELSE IF f \in Passed(c) THEN Intended(call[c], f, before[c][f])
                    ELSE before[c][f]
      BY <1>1, <1>7 DEF WorkInv, Left
    <2>2. Left(c, f)' = IF f \in Owed(c)' THEN before[c][f]
                        ELSE IF f \in Passed(c)' THEN Intended(call[c], f, before[c][f])
                        ELSE before[c][f]
      BY <1>1, <1>2, <1>13 DEF Left
    <2> QED
      BY <1>1, <1>9, <1>10, <1>12, <2>1, <2>2
  <1>16. pc'[c] = "write" /\ ~Walking(c) => AllRead(c)'
    <2>1. Rounds(c)' = Rounds(c)
      BY <1>1 DEF Rounds, Walking
    <2> QED
      BY <1>1, <1>2, <2>1 DEF AllRead
  <1>17. Walking(c)' = Walking(c)
    BY <1>1 DEF Walking
  <1> QED
    BY <1>1, <1>2, <1>14, <1>15, <1>16, <1>17 DEF WorkInv

LEMMA WorkSkip ==
  ASSUME IInv, NEW c \in Callers, Skip(c), Busy(c) => WorkInv(c), Busy(c)'
  PROVE  WorkInv(c)'
  <1> DEFINE T == Target(c)
  <1>1. /\ pc[c] = "read" /\ Walking(c) /\ next[c] <= Rounds(c)
        /\ call'[c] = call[c] /\ before'[c] = before[c] /\ disturbed'[c] = disturbed[c]
        /\ disk' = disk /\ next'[c] = next[c] + 1 /\ pc'[c] = pc[c] /\ pending'[c] = pending[c]
        /\ ~Succeeds(call[c].tool, T, Edit(c).change, disk[T])
    BY DEF Skip, history, IInv, Ranges
  <1>2. call[c].tool # "createFile" /\ pending[c] = <<>>
    BY <1>1 DEF Walking, IInv, CallerInv
  <1>3. Distinct(call[c].edits) /\ WorkInv(c)
    BY <1>1 DEF Busy
  <1>4. /\ T = FileAt(c, next[c]) /\ T \in Files
        /\ \A i \in 1..next[c] - 1 : FileAt(c, i) # T
        /\ \A content : Intended(call[c], T, content) =
             IF Succeeds(call[c].tool, T, Edit(c).change, content)
             THEN Updated(Edit(c).change, AsRead(content)) ELSE content
    BY <1>1, <1>3, Fresh
  <1>5. Passed(c)' = Passed(c) \cup {T} /\ T \notin Passed(c)
    BY <1>1, <1>2, <1>4, PassedNext DEF Passed
  <1>6. Owed(c) = {} /\ Owed(c)' = {} /\ 1..Len(pending'[c]) = {}
    BY <1>1, <1>2 DEF Owed
  <1>7. T \notin disturbed[c] => /\ disk[T] = before[c][T]
                                 /\ disk[T] = Intended(call[c], T, before[c][T])
    BY <1>1, <1>3, <1>4, <1>5, ReadsBefore
  <1>8. \A f : Intended(call[c], f, before[c][f])' = Intended(call[c], f, before[c][f])
    BY <1>1, SameIntent
  <1> HIDE DEF T
  <1>9. OwedInv(c)'
    BY <1>6 DEF OwedInv
  <1>10. \A f \in Files \ disturbed[c] : disk'[f] = Left(c, f)'
    <2> SUFFICES ASSUME NEW f \in Files \ disturbed[c] PROVE disk'[f] = Left(c, f)'
      OBVIOUS
    <2>1. disk[f] = IF f \in Passed(c) THEN Intended(call[c], f, before[c][f])
                    ELSE before[c][f]
      BY <1>3, <1>6 DEF WorkInv, Left
    <2>2. Left(c, f)' = IF f \in Passed(c)' THEN Intended(call[c], f, before[c][f])
                        ELSE before[c][f]
      BY <1>1, <1>6, <1>8 DEF Left
    <2> QED
      BY <1>1, <1>5, <1>7, <2>1, <2>2
  <1> QED
    BY <1>1, <1>9, <1>10 DEF WorkInv

LEMMA WorkCreate ==
  ASSUME IInv, NEW c \in Callers, OpenCreate(c), Busy(c) => WorkInv(c), Busy(c)'
  PROVE  WorkInv(c)'
  <1> DEFINE T == Target(c)  write == [file |-> T, doc |-> Updated(Edit(c).change, <<>>)]
  <1>1. /\ pc[c] = "read" /\ call[c].tool = "createFile" /\ T \notin Denied
        /\ disk[T] = Absent /\ pc'[c] = "open" /\ pending'[c] = <<write>>
        /\ call'[c] = call[c] /\ before'[c] = before[c] /\ disturbed'[c] = disturbed[c]
        /\ disk' = [disk EXCEPT ![T] = NoBytes]
    BY DEF OpenCreate, Opened, Put, Goto, IInv, Ranges
  <1>2. Distinct(call[c].edits) /\ WorkInv(c) /\ ~Walking(c)
    BY <1>1 DEF Busy, Walking
  <1>3. /\ T \in Files
        /\ \A content : Intended(call[c], T, content) =
             IF Succeeds(call[c].tool, T, Edit(c).change, content)
             THEN Updated(Edit(c).change, AsRead(content)) ELSE content
    BY <1>1, <1>2, Fresh
  <1>4. Passed(c)' = {T} /\ Edit(c).change.op = "create"
    <2>1. call[c] \in Calls /\ next[c] \in Nat /\ next[c] >= 1 /\ next[c] <= Len(call[c].edits)
      BY <1>1, <1>2, Types DEF IInv, CallerInv
    <2>2. /\ Len(call[c].edits) = 1 /\ DOMAIN call[c].edits = 1..Len(call[c].edits)
          /\ call[c].edits[1].change.op = "create"
      BY <1>1, <2>1, Constants, LenProperties
    <2>3. next[c] = 1
      <3> DEFINE l == Len(call[c].edits)
      <3>1. l = 1 /\ next[c] <= l
        BY <2>1, <2>2
      <3> HIDE DEF l
      <3> QED
        BY <2>1, <3>1
    <2>4. T = call[c].edits[1].file /\ Edit(c) = call[c].edits[1]
      BY <1>2, <2>3 DEF Target, Edit
    <2>5. FilesOf(call[c]) = {call[c].edits[1].file}
      BY <1>1, <2>2 DEF FilesOf
    <2> QED
      BY <1>1, <2>2, <2>4, <2>5 DEF Passed, FilesOf
  <1>5. Intended(call[c], T, Absent) = write.doc
    BY <1>1, <1>3, <1>4, FileAssumption DEF Succeeds, Permitted, Readable, Applies, AsRead
  <1>6. Owed(c) = {} /\ Passed(c) = {}
    BY <1>1, <1>2 DEF WorkInv, OwedInv, Passed
  <1>7. T \notin disturbed[c] => before[c][T] = Absent
    BY <1>1, <1>2, <1>3, <1>6, ReadsBefore
  <1>8. /\ 1..Len(pending'[c]) = {1} /\ pending'[c][1] = write
        /\ Head(pending'[c]) = write /\ write.file = T
    BY <1>1
  <1> HIDE DEF T, write
  <1>9. Owed(c)' = {T}
    BY <1>8 DEF Owed
  <1>10. \A f : Intended(call[c], f, before[c][f])' = Intended(call[c], f, before[c][f])
    BY <1>1, SameIntent
  <1>11. OwedInv(c)'
    BY <1>1, <1>4, <1>5, <1>7, <1>8, <1>9, <1>10 DEF OwedInv
  <1>12. \A f \in Files \ disturbed[c] : disk'[f] = Left(c, f)'
    <2> SUFFICES ASSUME NEW f \in Files \ disturbed[c] PROVE disk'[f] = Left(c, f)'
      OBVIOUS
    <2>1. f # T => disk[f] = before[c][f]
      BY <1>2, <1>6, ReadsBefore
    <2>2. Left(c, f)' = IF f = T THEN NoBytes ELSE before[c][f]
      BY <1>1, <1>4, <1>8, <1>9 DEF Left
    <2> QED
      BY <1>1, <2>1, <2>2 DEF IInv, Ranges
  <1>13. AllRead(c)'
    BY <1>1 DEF AllRead
  <1> QED
    BY <1>1, <1>11, <1>12, <1>13 DEF WorkInv

LEMMA WorkEnds ==
  ASSUME IInv, NEW c \in Callers, WalkEnds(c), Busy(c) => WorkInv(c), Busy(c)'
  PROVE  WorkInv(c)'
  <1>1. /\ pc[c] = "read" /\ pc'[c] = "idle" /\ Walking(c) /\ next[c] > Rounds(c)
        /\ UNCHANGED <<call[c], before[c], disturbed[c], disk, next[c], pending[c]>>
    BY DEF WalkEnds, Return, Goto, history, IInv, Ranges
  <1>2. Distinct(call[c].edits) /\ WorkInv(c)
    BY <1>1 DEF Busy
  <1>3. call[c].tool # "createFile" /\ pending[c] = <<>>
    BY <1>1 DEF Walking, IInv, CallerInv
  <1>4. next[c] = Rounds(c) + 1
    <2>1. Rounds(c) \in Nat
      BY <1>1, FileAssumption, LenProperties DEF Rounds
    <2> QED
      BY <1>1, <2>1, Types
  <1>5. AllRead(c)'
    BY <1>1, <1>4 DEF AllRead, Rounds, Walking
  <1>6. Passed(c)' = Passed(c) /\ Owed(c) = {} /\ Owed(c)' = {} /\ 1..Len(pending'[c]) = {}
    BY <1>1, <1>3 DEF Passed, Owed, FileAt, Walking
  <1>7. \A f : Intended(call[c], f, before[c][f])' = Intended(call[c], f, before[c][f])
    BY <1>1, SameIntent
  <1>8. OwedInv(c)'
    BY <1>6 DEF OwedInv
  <1>9. \A f : Left(c, f)' = Left(c, f)
    BY <1>1, <1>6, <1>7 DEF Left
  <1> QED
    BY <1>1, <1>2, <1>3, <1>5, <1>8, <1>9 DEF WorkInv

LEMMA WorkOpen ==
  ASSUME IInv, NEW c \in Callers, OpenWrite(c), Busy(c) => WorkInv(c), Busy(c)'
  PROVE  WorkInv(c)'
  <1> DEFINE h == Head(pending[c]).file
  <1>1. /\ pc[c] = "write" /\ pc'[c] = "open"
        /\ UNCHANGED <<call[c], before[c], disturbed[c], next[c], pending[c]>>
        /\ disk' = [disk EXCEPT ![h] = NoBytes]
    BY DEF OpenWrite, Opened, Put, Goto, IInv, Ranges
  <1>2. Distinct(call[c].edits) /\ WorkInv(c)
    BY <1>1 DEF Busy
  <1>3. h \in Files /\ h \in Owed(c)
    <2>1. Len(pending[c]) >= 1 /\ Len(pending[c]) \in Nat /\ h \in Files
      BY <1>1, First, Types
    <2>2. h = pending[c][1].file
      OBVIOUS
    <2> QED
      BY <2>1, <2>2 DEF Owed
  <1>4. /\ Passed(c)' = Passed(c) /\ Owed(c)' = Owed(c) /\ AllRead(c)' = AllRead(c)
        /\ Walking(c)' = Walking(c)
    BY <1>1 DEF Passed, Owed, FileAt, Walking, AllRead, Rounds
  <1>5. \A f : Intended(call[c], f, before[c][f])' = Intended(call[c], f, before[c][f])
    BY <1>1, SameIntent
  <1>6. OwedInv(c)'
    BY <1>1, <1>2, <1>4, <1>5 DEF OwedInv, WorkInv
  <1>7. \A f \in Files \ disturbed[c] : disk'[f] = Left(c, f)'
    <2> SUFFICES ASSUME NEW f \in Files \ disturbed[c] PROVE disk'[f] = Left(c, f)'
      OBVIOUS
    <2>1. f = h => disk'[f] = NoBytes /\ Left(c, f)' = NoBytes
      BY <1>1, <1>3, <1>4 DEF Left, IInv, Ranges
    <2>2. f # h => disk'[f] = disk[f] /\ Left(c, f)' = Left(c, f)
      BY <1>1, <1>4, <1>5 DEF Left, IInv, Ranges
    <2>3. disk[f] = Left(c, f)
      BY <1>2 DEF WorkInv
    <2> QED
      BY <2>1, <2>2, <2>3
  <1> QED
    BY <1>1, <1>2, <1>4, <1>6, <1>7 DEF WorkInv

LEMMA WorkFinish ==
  ASSUME IInv, NEW c \in Callers, FinishWrite(c), Busy(c) => WorkInv(c), Busy(c)'
  PROVE  WorkInv(c)'
  <1> DEFINE h == Head(pending[c]).file  n == Len(pending[c])
             D == Head(pending[c]).doc  rest == Tail(pending[c])
  <1>1. /\ pc[c] = "open" /\ pending'[c] = rest
        /\ UNCHANGED <<call[c], before[c], next[c]>>
    BY DEF FinishWrite, IInv, Ranges
  <1>2. PICK content \in Written(D, disk[h]) : Put(c, h, content)
    BY DEF FinishWrite
  <1>3. disturbed'[c] = disturbed[c] /\ disk' = [disk EXCEPT ![h] = content]
    BY <1>2 DEF Put
  <1>4. /\ pc'[c] \in {"read", "write", "idle"}
        /\ pc'[c] = "read" => Walking(c)
        /\ pc'[c] = "idle" => n = 1 /\ ~Walking(c)
    BY DEF FinishWrite, LastWrite, Return, Goto, IInv, Ranges
  <1>5. Distinct(call[c].edits) /\ WorkInv(c)
    BY <1>1 DEF Busy
  <1>6. /\ h \in Files /\ n >= 1 /\ n \in Nat /\ rest \in Writes /\ Len(rest) = n - 1
        /\ \A i \in 1..n - 1 : rest[i] = pending[c][i + 1]
        /\ h = pending[c][1].file /\ D = pending[c][1].doc
    BY <1>1, First, Types
  <1> HIDE DEF h, n, D, rest
  <1>7. \A i \in 1..n - 1 : i + 1 \in 1..n /\ i + 1 # 1
    BY <1>6
  <1>8. /\ OwedInv(c)
        /\ \A i, j \in 1..n : pending[c][i].file = pending[c][j].file => i = j
    BY <1>5 DEF WorkInv, OwedInv, n
  <1>9. Owed(c)' = Owed(c) \ {h} /\ h \in Owed(c)
    <2>1. Owed(c)' = {rest[i].file : i \in 1..n - 1}
      BY <1>1, <1>6 DEF Owed
    <2>2. Owed(c) = {pending[c][i].file : i \in 1..n}
      BY DEF Owed, n
    <2>3. ASSUME NEW i \in 1..n - 1 PROVE rest[i].file \in Owed(c) \ {h}
      BY <1>6, <1>7, <1>8, <2>2
    <2>4. ASSUME NEW i \in 1..n, pending[c][i].file # h PROVE pending[c][i].file \in Owed(c)'
      <3>1. i - 1 \in 1..n - 1 /\ (i - 1) + 1 = i
        BY <1>6, <2>4
      <3> QED
        BY <1>6, <2>1, <3>1
    <2>5. h \in Owed(c)
      BY <1>6, <2>2
    <2>6. \A f : f \in Owed(c)' => f \in Owed(c) \ {h}
      BY <2>1, <2>3
    <2>7. \A f : f \in Owed(c) \ {h} => f \in Owed(c)'
      BY <2>2, <2>4
    <2> QED
      BY <2>5, <2>6, <2>7
  <1>10. /\ Passed(c)' = Passed(c) /\ AllRead(c)' = AllRead(c) /\ Walking(c)' = Walking(c)
    <2>1. call[c].tool = "createFile" => ~Walking(c)
      BY DEF Walking
    <2> QED
      BY <1>1, <1>4, <2>1 DEF Passed, FileAt, Walking, AllRead, Rounds, FilesOf
  <1>11. \A f : Intended(call[c], f, before[c][f])' = Intended(call[c], f, before[c][f])
    BY <1>1, SameIntent
  <1>12. OwedInv(c)'
    <2>1. \A i, j \in 1..n - 1 : rest[i].file = rest[j].file => i = j
      <3> SUFFICES ASSUME NEW i \in 1..n - 1, NEW j \in 1..n - 1, rest[i].file = rest[j].file
                   PROVE  i = j
        OBVIOUS
      <3>1. i + 1 = j + 1
        BY <1>6, <1>7, <1>8
      <3> QED
        BY <1>6, <3>1
    <2>2. \A i \in 1..n - 1 : rest[i].file \notin disturbed[c] =>
            rest[i].doc = Intended(call[c], rest[i].file, before[c][rest[i].file])
      BY <1>6, <1>7, <1>8 DEF OwedInv, n
    <2>3. Owed(c)' \subseteq Passed(c)'
      BY <1>8, <1>9, <1>10 DEF OwedInv
    <2> QED
      BY <1>1, <1>3, <1>6, <1>11, <2>1, <2>2, <2>3 DEF OwedInv
  <1>13. \A f \in Files \ disturbed[c] : disk'[f] = Left(c, f)'
    <2> SUFFICES ASSUME NEW f \in Files \ disturbed[c] PROVE disk'[f] = Left(c, f)'
      OBVIOUS
    <2>1. disk[f] = Left(c, f)
      BY <1>5 DEF WorkInv
    <2>2. Left(c, f)' = IF f \in Owed(c)' THEN before[c][f]
                        ELSE IF f \in Passed(c) THEN Intended(call[c], f, before[c][f])
                        ELSE before[c][f]
      BY <1>1, <1>4, <1>10, <1>11 DEF Left
    <2>3. CASE f = h
      <3>1. disk[h] = NoBytes
        BY <1>1, <1>9, <2>1, <2>3 DEF Left, h
      <3>2. content = D
        BY <1>2, <3>1 DEF Written
      <3>3. D = Intended(call[c], h, before[c][h]) /\ h \in Passed(c)
        <4>1. 1 \in 1..n
          BY <1>6
        <4> QED
          BY <1>6, <1>8, <1>9, <2>3, <4>1 DEF OwedInv, n
      <3>4. disk'[h] = D
        BY <1>3, <1>6, <3>2 DEF IInv, Ranges
      <3> QED
        BY <1>9, <2>2, <2>3, <3>3, <3>4
    <2>4. CASE f # h
      <3>1. disk'[f] = disk[f]
        BY <1>3, <2>4 DEF IInv, Ranges
      <3>2. Left(c, f) = IF f \in Owed(c) THEN before[c][f]
                         ELSE IF f \in Passed(c) THEN Intended(call[c], f, before[c][f])
                         ELSE before[c][f]
        BY <2>4 DEF Left, h
      <3> QED
        BY <1>9, <2>1, <2>2, <2>4, <3>1, <3>2
    <2> QED
      BY <2>3, <2>4
  <1>14. pc'[c] # "read" /\ ~Walking(c)' => AllRead(c)'
    BY <1>1, <1>5, <1>10 DEF WorkInv
  <1>15. pc'[c] = "idle" => pending'[c] = <<>> /\ AllRead(c)'
    <2>1. pc'[c] = "idle" => Len(rest) = 0
      BY <1>4, <1>6
    <2>2. Len(rest) = 0 => rest = <<>>
      BY <1>6, EmptySeq DEF Writes
    <2> QED
      BY <1>1, <1>4, <1>10, <1>14, <2>1, <2>2
  <1> QED
    BY <1>3, <1>12, <1>13, <1>14, <1>15 DEF WorkInv

(* A step of another caller, of which this one knows when it writes.       *)
LEMMA WorkBeside ==
  ASSUME IInv, NEW c \in Callers, NEW d \in Callers, d # c,
         (\E new \in Calls : Begin(d, new)) \/ Step(d), Busy(c) => WorkInv(c), Busy(c)'
  PROVE  WorkInv(c)'
  <1>1. UNCHANGED <<pc[c], call[c], next[c], pending[c], reply[c], before[c]>>
    BY DEF Begin, Step, ReadOne, RefuseOne, OpenCreate, RefuseCreate, Visit, Skip, WalkEnds,
       OpenWrite, FinishWrite, OpenFails, WriteFails, Return, Goto, history, IInv, Ranges
  <1>2. WorkInv(c)
    BY <1>1 DEF Busy
  <1>3. /\ disturbed[c] \subseteq disturbed'[c]
        /\ \A f \in Files \ disturbed'[c] : disk'[f] = disk[f]
    <2>1. CASE OpenWrite(d) \/ OpenCreate(d) \/ FinishWrite(d) \/ WriteFails(d)
      <3>1. PICK f, content : Put(d, f, content)
        BY <2>1 DEF OpenWrite, OpenCreate, Opened, FinishWrite, WriteFails
      <3>2. disturbed'[c] = disturbed[c] \cup {f}
        BY <3>1 DEF Put
      <3> QED
        BY <3>1, <3>2 DEF Put, IInv, Ranges
    <2>2. CASE ~(OpenWrite(d) \/ OpenCreate(d) \/ FinishWrite(d) \/ WriteFails(d))
      BY <2>2 DEF Begin, Step, ReadOne, RefuseOne, RefuseCreate, Visit, Skip, WalkEnds,
         OpenFails, history, IInv, Ranges
    <2> QED
      BY <2>1, <2>2
  <1> QED
    BY <1>1, <1>2, <1>3, OthersWork

LEMMA DoneStep == IInv /\ DoneInv /\ [Next]_vars => DoneInv'
  <1> SUFFICES ASSUME IInv, DoneInv, [Next]_vars, NEW c \in Callers, Busy(c)'
               PROVE  WorkInv(c)'
    BY DEF DoneInv
  <1>1. Busy(c) => WorkInv(c)
    BY DEF DoneInv
  <1>2. CASE UNCHANGED vars
    <2>1. Busy(c) /\ UNCHANGED <<pc[c], call[c], next[c], pending[c], before[c], disturbed[c], disk>>
      BY <1>2 DEF vars, history, Busy
    <2> QED
      BY <1>1, <2>1, OthersWork
  <1>3. ASSUME NEW d \in Callers, d # c, (\E new \in Calls : Begin(d, new)) \/ Step(d)
        PROVE  WorkInv(c)'
    BY <1>1, <1>3, WorkBeside
  <1>4. ASSUME RefuseOne(c) \/ RefuseCreate(c) \/ OpenFails(c) \/ WriteFails(c) PROVE FALSE
    <2>1. pc'[c] = "idle" /\ reply'[c] \in {"refused", "writeFailed"}
      BY <1>4 DEF RefuseOne, RefuseCreate, OpenFails, WriteFails, Return, Goto, IInv, Ranges
    <2> QED
      BY <2>1 DEF Busy
  <1>5. CASE \E new \in Calls : Begin(c, new)
    BY <1>5, WorkBegin
  <1>6. CASE ReadOne(c) \/ Visit(c)
    BY <1>1, <1>6, WorkRead
  <1>7. CASE Skip(c)
    BY <1>1, <1>7, WorkSkip
  <1>8. CASE OpenCreate(c)
    BY <1>1, <1>8, WorkCreate
  <1>9. CASE WalkEnds(c)
    BY <1>1, <1>9, WorkEnds
  <1>10. CASE OpenWrite(c)
    BY <1>1, <1>10, WorkOpen
  <1>11. CASE FinishWrite(c)
    BY <1>1, <1>11, WorkFinish
  <1> QED
    BY <1>2, <1>3, <1>4, <1>5, <1>6, <1>7, <1>8, <1>9, <1>10, <1>11 DEF Next, Step

(* A call that succeeds, or saves a cell that fails, whose edits are of    *)
(* different files, has made each of its changes of what the file was when *)
(* it began, and no other change, in every file that no other call wrote.  *)
THEOREM DoneCorrect == Spec => []AnsweredIsDone
  <1>1. Init => DoneInv
    BY DEF Init, DoneInv, Busy
  <1>2. IInv /\ DoneInv => AnsweredIsDone
    <2> SUFFICES ASSUME IInv, DoneInv, NEW c \in Callers, reply[c] \in {"ok", "cellFailed"},
                        Distinct(call[c].edits), NEW f \in Files \ disturbed[c]
                 PROVE  disk[f] = IF f \in FilesOf(call[c])
                                  THEN Intended(call[c], f, before[c][f]) ELSE before[c][f]
      BY DEF AnsweredIsDone
    <2>1. pc[c] = "idle" /\ WorkInv(c)
      BY DEF DoneInv, Busy, IInv, CallerInv
    <2>2. pending[c] = <<>> /\ AllRead(c) /\ disk[f] = Left(c, f)
      BY <2>1 DEF WorkInv
    <2>3. Owed(c) = {}
      BY <2>2 DEF Owed
    <2>4. Passed(c) = FilesOf(call[c])
      <3>1. CASE call[c].tool = "createFile"
        BY <2>1, <3>1 DEF Passed
      <3>2. CASE call[c].tool # "createFile"
        <4>1. Rounds(c) \in Nat /\ next[c] = Rounds(c) + 1
          BY <2>2, <3>2, Types, FileAssumption, LenProperties DEF AllRead, Rounds
        <4>2. 1..next[c] - 1 = 1..Rounds(c)
          BY <4>1
        <4>3. /\ DOMAIN Walk = 1..Len(Walk)
              /\ DOMAIN call[c].edits = 1..Len(call[c].edits)
          BY Types, Constants, FileAssumption, LenProperties
        <4>4. Passed(c) = {FileAt(c, i) : i \in 1..Rounds(c)}
          BY <3>2, <4>2 DEF Passed
        <4> QED
          BY <4>3, <4>4 DEF Rounds, FileAt, FilesOf, Walking
      <3> QED
        BY <3>1, <3>2
    <2> QED
      BY <2>2, <2>3, <2>4 DEF Left
  <1> QED
    BY <1>1, <1>2, DoneStep, Inductive, PTL DEF Spec
=============================================================================
