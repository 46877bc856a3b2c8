---------------------------- MODULE OutputWindow ----------------------------
(***************************************************************************)
(* What a session keeps of its output (appendOutput and snapshot of        *)
(* terminalstate/state.go) and what execute_getTerminalOutput returns of   *)
(* it when it is asked for a range of bytes (get_terminal_output.go).      *)
(*                                                                         *)
(* A byte is known by its number in what the command wrote.  One client    *)
(* pages through the output: it asks for what follows what it has got.     *)
(***************************************************************************)
EXTENDS Integers, Sequences

CONSTANTS
  MaxOutputBytes, \* bytes that a session keeps
  MaxChunk,       \* bytes that a copying goroutine appends at once
  MaxAppended     \* bound: bytes that the command writes

ASSUME WindowAssumption ==
  /\ MaxOutputBytes \in Nat \ {0}
  /\ MaxChunk \in Nat
  /\ MaxAppended \in Nat

VARIABLES
  appended,  \* how many bytes were appended so far
  output,    \* session.output
  offset,    \* the client's next startOffset
  got        \* the bytes that the client has got

vars == <<appended, output, offset, got>>

Init ==
  /\ appended = 0
  /\ output = <<>>
  /\ offset = 0
  /\ got = <<>>

-----------------------------------------------------------------------------
LastBytes(bytes) == SubSeq(bytes, Len(bytes) - MaxOutputBytes + 1, Len(bytes))

Chunk(n) == [i \in 1..n |-> appended + i]

(* Mutants of AppendOutput: all that was there is dropped when it is too   *)
(* long; the newest bytes go instead of the oldest.                        *)
AppendDrops(n) ==
  LET bytes == output \o Chunk(n) IN
  /\ appended + n <= MaxAppended
  /\ appended' = appended + n
  /\ output' = IF Len(bytes) > MaxOutputBytes THEN Chunk(n) ELSE bytes
  /\ UNCHANGED <<offset, got>>

AppendCutsHead(n) ==
  LET bytes == output \o Chunk(n) IN
  /\ appended + n <= MaxAppended
  /\ appended' = appended + n
  /\ output' = IF Len(bytes) > MaxOutputBytes THEN SubSeq(bytes, 1, MaxOutputBytes) ELSE bytes
  /\ UNCHANGED <<offset, got>>

(* appendOutput, under the session's lock: the oldest bytes go.            *)
AppendOutput(n) ==
  LET bytes == output \o Chunk(n) IN
  /\ appended + n <= MaxAppended
  /\ appended' = appended + n
  /\ output' = IF Len(bytes) > MaxOutputBytes THEN LastBytes(bytes) ELSE bytes
  /\ UNCHANGED <<offset, got>>

-----------------------------------------------------------------------------
(* sliceOutputBytes: of the bytes from start up to, not including, end;    *)
(* -1 is their end.                                                        *)

IsRange(bytes, start, end) ==
  /\ start >= 0 /\ end >= -1
  /\ start <= Len(bytes)
  /\ end # -1 => end >= start

(* Mutant of Slice: end is taken to be inclusive.                          *)
SliceInclusive(bytes, start, end) ==
  SubSeq(bytes, start + 1, IF end = -1 \/ end >= Len(bytes) THEN Len(bytes) ELSE end + 1)

Slice(bytes, start, end) ==
  SubSeq(bytes, start + 1, IF end = -1 \/ end > Len(bytes) THEN Len(bytes) ELSE end)

(* Mutant of Poll: the client of a slice without a lower bound.            *)
PollAll ==
  /\ IsRange(output, offset, -1)
  /\ got' = got \o Slice(output, 0, -1)
  /\ offset' = offset + Len(Slice(output, offset, -1))
  /\ UNCHANGED <<appended, output>>

(* The client asks for [offset, -1) of a snapshot taken now.               *)
Poll ==
  /\ IsRange(output, offset, -1)
  /\ got' = got \o Slice(output, offset, -1)
  /\ offset' = offset + Len(Slice(output, offset, -1))
  /\ UNCHANGED <<appended, output>>

Next == (\E n \in 1..MaxChunk : AppendOutput(n)) \/ Poll

Spec == Init /\ [][Next]_vars

-----------------------------------------------------------------------------
TypeOK ==
  /\ appended \in 0..MaxAppended
  /\ output \in Seq(1..MaxAppended)
  /\ Len(output) <= MaxOutputBytes
  /\ offset \in 0..MaxOutputBytes
  /\ got \in Seq(1..MaxAppended)

(* The output is the end of what the command wrote, without a gap, and as  *)
(* much of it as is kept: however the chunks fall on the limit.            *)
OutputIsTail ==
  /\ Len(output) = IF appended > MaxOutputBytes THEN MaxOutputBytes ELSE appended
  /\ \A i \in 1..Len(output) : output[i] = appended - Len(output) + i

(* A client that goes on where it stopped is never refused: the output     *)
(* does not become shorter than it was when the client read it.  While no  *)
(* byte was dropped, such a client has got every byte once and in order,   *)
(* up to where it goes on.                                                 *)
NextPollAccepted == IsRange(output, offset, -1)

NoByteMissed ==
  appended <= MaxOutputBytes =>
    /\ Len(got) = offset
    /\ \A i \in 1..Len(got) : got[i] = i

PagesComplete == NextPollAccepted /\ NoByteMissed

(* A range that is accepted returns the bytes at its offsets, and no       *)
(* others.                                                                 *)
SliceExact ==
  \A start \in -1..MaxOutputBytes + 1, end \in -2..MaxOutputBytes + 1 :
    IsRange(output, start, end) =>
      LET b == Slice(output, start, end)
          at == {p \in 0..Len(output) - 1 : start <= p /\ (end = -1 \/ p < end)}
      IN  /\ \A i \in 1..Len(b) : start + i - 1 \in at /\ b[i] = output[start + i]
          /\ \A p \in at : p - start + 1 \in 1..Len(b)
=============================================================================
