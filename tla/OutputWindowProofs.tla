------------------------- MODULE OutputWindowProofs -------------------------
(***************************************************************************)
(* Proofs about OutputWindow, for any limit, chunks and length of output.  *)
(***************************************************************************)
EXTENDS OutputWindow, SequenceTheorems, TLAPS

(* A concatenation, one part after the other.                              *)
LEMMA Joined ==
  ASSUME NEW S, NEW s \in Seq(S), NEW t \in Seq(S)
  PROVE  /\ s \o t \in Seq(S)
         /\ Len(s \o t) = Len(s) + Len(t)
         /\ \A i \in 1..Len(s) : (s \o t)[i] = s[i]
         /\ \A i \in Nat : Len(s) < i /\ i <= Len(s) + Len(t) => (s \o t)[i] = t[i - Len(s)]
  <1> DEFINE m == Len(s)  n == Len(t)  st == s \o t
  <1>1. m \in Nat /\ n \in Nat
    OBVIOUS
  <1>2. /\ st \in Seq(S) /\ Len(st) = m + n
        /\ \A i \in 1..m + n : st[i] = IF i <= m THEN s[i] ELSE t[i - m]
    BY ConcatProperties
  <1> HIDE DEF m, n, st
  <1>3. \A i \in 1..m : st[i] = s[i]
    BY <1>1, <1>2
  <1>4. \A i \in Nat : m < i /\ i <= m + n => st[i] = t[i - m]
    BY <1>1, <1>2
  <1> QED
    BY <1>2, <1>3, <1>4 DEF m, n, st

(* What is left of a sequence without its first k elements.                *)
LEMMA Suffix ==
  ASSUME NEW S, NEW s \in Seq(S), NEW k \in 0..Len(s)
  PROVE  /\ SubSeq(s, k + 1, Len(s)) \in Seq(S)
         /\ Len(SubSeq(s, k + 1, Len(s))) = Len(s) - k
         /\ \A i \in 1..Len(s) - k : SubSeq(s, k + 1, Len(s))[i] = s[k + i]
  <1> DEFINE n == Len(s)  r == SubSeq(s, k + 1, n)
  <1>1. n \in Nat /\ k \in 0..n /\ \A i \in 1..n : s[i] \in S
    OBVIOUS
  <1> SUFFICES r \in Seq(S) /\ Len(r) = n - k /\ \A i \in 1..n - k : r[i] = s[k + i]
    OBVIOUS
  <1> HIDE DEF n
  <1>2. \A i \in k + 1..n : s[i] \in S
    BY <1>1
  <1>3. k + 1 \in Int /\ n \in Int
    BY <1>1
  <1>4. /\ r \in Seq(S)
        /\ Len(r) = IF k + 1 <= n THEN n - (k + 1) + 1 ELSE 0
        /\ \A i \in 1..n - (k + 1) + 1 : r[i] = s[(k + 1) + i - 1]
    BY <1>2, <1>3, SubSeqProperties
  <1> HIDE DEF r
  <1>5. Len(r) = n - k
    BY <1>1, <1>4
  <1>6. ASSUME NEW i \in 1..n - k PROVE r[i] = s[k + i]
    <2>1. i \in 1..n - (k + 1) + 1 /\ (k + 1) + i - 1 = k + i
      BY <1>1
    <2> QED
      BY <1>4, <2>1
  <1> QED
    BY <1>4, <1>5, <1>6

(* What appending a chunk makes of the output.                             *)
LEMMA Appended ==
  ASSUME TypeOK, OutputIsTail, NEW n \in 1..MaxChunk, AppendOutput(n)
  PROVE  /\ TypeOK'
         /\ OutputIsTail'
         /\ Len(output) <= Len(output')
  <1> USE WindowAssumption
  <1> DEFINE old   == Len(output)
             bytes == output \o Chunk(n)
             all   == Len(bytes)
  <1>1. /\ n \in Nat \ {0} /\ appended \in Nat /\ appended' = appended + n
        /\ appended' <= MaxAppended /\ old \in Nat
        /\ output \in Seq(1..MaxAppended)
        /\ UNCHANGED <<offset, got>>
        /\ output' = IF all > MaxOutputBytes THEN LastBytes(bytes) ELSE bytes
    BY DEF AppendOutput, TypeOK
  <1>2. /\ Chunk(n) \in Seq(1..MaxAppended) /\ Len(Chunk(n)) = n
        /\ \A i \in 1..n : Chunk(n)[i] = appended + i
    <2>1. \A i \in 1..n : appended + i \in 1..MaxAppended
      BY <1>1
    <2>2. Chunk(n) \in [1..n -> 1..MaxAppended]
      BY <2>1 DEF Chunk
    <2> QED
      BY <1>1, <2>2 DEF Chunk
  <1>3. /\ bytes \in Seq(1..MaxAppended)
        /\ all = old + n
        /\ \A i \in 1..old : bytes[i] = output[i]
        /\ \A i \in Nat : old < i /\ i <= old + n => bytes[i] = Chunk(n)[i - old]
    <2>1. /\ bytes \in Seq(1..MaxAppended)
          /\ all = old + Len(Chunk(n))
          /\ \A i \in 1..old : bytes[i] = output[i]
          /\ \A i \in Nat : old < i /\ i <= old + Len(Chunk(n)) =>
               bytes[i] = Chunk(n)[i - old]
      BY <1>1, <1>2, Joined
    <2> HIDE DEF old, bytes, all
    <2> QED
      BY <1>2, <2>1
  <1>4. \A i \in 1..old : output[i] = appended - old + i
    BY DEF OutputIsTail
  <1>5. /\ old <= MaxOutputBytes
        /\ old = IF appended > MaxOutputBytes THEN MaxOutputBytes ELSE appended
    BY DEF TypeOK, OutputIsTail
  <1> HIDE DEF old, bytes, all
  <1>6. \A i \in 1..all : bytes[i] = appended' - all + i
    <2> SUFFICES ASSUME NEW i \in 1..all PROVE bytes[i] = appended' - all + i
      OBVIOUS
    <2>1. CASE i <= old
      <3>1. i \in 1..old
        BY <1>1, <1>3, <2>1
      <3> QED
        BY <1>1, <1>3, <1>4, <3>1
    <2>2. CASE i > old
      <3>1. i - old \in 1..n /\ i \in Nat /\ i <= old + n
        BY <1>1, <1>3, <2>2
      <3>2. bytes[i] = appended + (i - old)
        BY <1>2, <1>3, <2>2, <3>1
      <3> QED
        BY <1>1, <1>3, <3>1, <3>2
    <2> QED
      BY <1>1, <2>1, <2>2
  <1> DEFINE new == Len(output')
  <1>7. /\ output' \in Seq(1..MaxAppended)
        /\ new \in Nat /\ old <= new
        /\ new = IF appended' > MaxOutputBytes THEN MaxOutputBytes ELSE appended'
        /\ \A i \in 1..new : output'[i] = appended' - new + i
    <2>1. CASE all > MaxOutputBytes
      <3> DEFINE k == all - MaxOutputBytes
      <3>1. k \in 0..all /\ all - k = MaxOutputBytes
        BY <1>1, <1>3, <2>1
      <3>2. output' = SubSeq(bytes, k + 1, all)
        BY <1>1, <2>1 DEF LastBytes, all
      <3> HIDE DEF k
      <3>3. /\ output' \in Seq(1..MaxAppended) /\ new = MaxOutputBytes
            /\ \A i \in 1..MaxOutputBytes : output'[i] = bytes[k + i]
        BY <1>3, <3>1, <3>2, Suffix DEF all
      <3> HIDE DEF new
      <3>4. \A i \in 1..new : output'[i] = appended' - new + i
        <4> SUFFICES ASSUME NEW i \in 1..new PROVE output'[i] = appended' - new + i
          OBVIOUS
        <4>1. k + i \in 1..all
          BY <1>1, <1>3, <3>1, <3>3
        <4>2. output'[i] = bytes[k + i]
          BY <3>3
        <4>3. bytes[k + i] = appended' - all + (k + i)
          BY <1>6, <4>1
        <4>4. i \in Int /\ new = all - k /\ all \in Int /\ k \in Int /\ appended' \in Int
          BY <1>1, <1>3, <3>1, <3>3
        <4>5. output'[i] = appended' - all + (k + i)
          BY <4>2, <4>3
        <4>6. appended' - all + (k + i) = appended' - new + i
          BY <4>4
        <4> QED
          BY <4>5, <4>6
      <3> QED
        BY <1>1, <1>3, <1>5, <2>1, <3>3, <3>4
    <2>2. CASE ~(all > MaxOutputBytes)
      <3>1. output' = bytes /\ new = all
        BY <1>1, <2>2 DEF all
      <3> HIDE DEF new
      <3> QED
        BY <1>1, <1>3, <1>5, <1>6, <2>2, <3>1
    <2> QED
      BY <2>1, <2>2
  <1>8. TypeOK'
    <2> HIDE DEF new
    <2>1. new <= MaxOutputBytes
      BY <1>1, <1>7
    <2> QED
      BY <1>1, <1>7, <2>1 DEF TypeOK, new
  <1>9. OutputIsTail'
    BY <1>7 DEF OutputIsTail
  <1> QED
    BY <1>7, <1>8, <1>9 DEF old

(* What a poll gets: the bytes after offset.                               *)
LEMMA Polled ==
  ASSUME TypeOK, Poll
  PROVE  /\ TypeOK' /\ offset' = Len(output)
         /\ Len(got') = Len(got) + Len(output) - offset
         /\ \A i \in 1..Len(got) : got'[i] = got[i]
         /\ \A i \in Nat : Len(got) < i /\ i <= Len(got') =>
              got'[i] = output[offset + (i - Len(got))]
  <1> USE WindowAssumption
  <1> DEFINE slice == Slice(output, offset, -1)
             had == Len(got)  len == Len(output)  has == Len(got')
  <1>1. /\ offset \in 0..len /\ len \in Nat /\ had \in Nat /\ len <= MaxOutputBytes
        /\ output \in Seq(1..MaxAppended) /\ got \in Seq(1..MaxAppended)
        /\ got' = got \o slice /\ offset' = offset + Len(slice)
        /\ UNCHANGED <<appended, output>>
    BY DEF Poll, IsRange, TypeOK
  <1>2. slice = SubSeq(output, offset + 1, len)
    BY DEF Slice
  <1>3. /\ slice \in Seq(1..MaxAppended) /\ Len(slice) = len - offset
        /\ \A i \in 1..len - offset : slice[i] = output[offset + i]
    BY <1>1, <1>2, Suffix
  <1> HIDE DEF slice
  <1>4. /\ got' \in Seq(1..MaxAppended) /\ has = had + Len(slice)
        /\ \A i \in 1..had : got'[i] = got[i]
        /\ \A i \in Nat : had < i /\ i <= had + Len(slice) => got'[i] = slice[i - had]
    BY <1>1, <1>3, Joined
  <1> HIDE DEF had, len, has
  <1>5. ASSUME NEW i \in Nat, had < i, i <= has
        PROVE  got'[i] = output[offset + (i - had)]
    <2>1. i - had \in 1..len - offset /\ i <= had + Len(slice)
      BY <1>1, <1>3, <1>4, <1>5
    <2> QED
      BY <1>3, <1>4, <1>5, <2>1
  <1>6. offset' = len /\ has = had + len - offset
    BY <1>1, <1>3, <1>4
  <1>7. TypeOK'
    BY <1>1, <1>4, <1>6 DEF TypeOK, len
  <1> QED
    BY <1>4, <1>5, <1>6, <1>7 DEF had, len, has

-----------------------------------------------------------------------------
IInv ==
  /\ TypeOK
  /\ OutputIsTail
  /\ offset <= Len(output)
  /\ NoByteMissed

THEOREM Inductive == Spec => []IInv
  <1> USE WindowAssumption
  <1>1. Init => IInv
    BY DEF Init, IInv, TypeOK, OutputIsTail, NoByteMissed
  <1>2. IInv /\ [Next]_vars => IInv'
    <2> SUFFICES ASSUME IInv, [Next]_vars PROVE IInv'
      OBVIOUS
    <2> USE DEF IInv
    <2>0. /\ offset \in Nat /\ Len(output) \in Nat /\ appended \in Nat
          /\ Len(got) \in Nat
      BY DEF TypeOK
    <2>1. ASSUME NEW n \in 1..MaxChunk, AppendOutput(n) PROVE IInv'
      <3>1. TypeOK' /\ OutputIsTail' /\ Len(output) <= Len(output')
        BY <2>1, Appended
      <3>2. UNCHANGED <<offset, got>> /\ appended <= appended'
        BY <2>0, <2>1 DEF AppendOutput
      <3>3. Len(output') \in Nat /\ appended' \in Nat
        BY <3>1 DEF TypeOK
      <3> QED
        BY <2>0, <3>1, <3>2, <3>3 DEF NoByteMissed
    <2>2. CASE Poll
      <3>1. UNCHANGED <<appended, output>>
        BY <2>2 DEF Poll
      <3>2. TypeOK' /\ offset' = Len(output)
        BY <2>2, Polled
      <3>3. ASSUME appended <= MaxOutputBytes
            PROVE  Len(got') = offset' /\ \A i \in 1..Len(got') : got'[i] = i
        <4>1. Len(got) = offset /\ \A i \in 1..Len(got) : got[i] = i
          BY <3>3 DEF NoByteMissed
        <4>2. Len(output) = appended
          BY <2>0, <3>3 DEF OutputIsTail
        <4>3. \A i \in 1..Len(output) : output[i] = i
          BY <2>0, <4>2 DEF OutputIsTail
        <4>4. Len(got') = Len(output)
          BY <2>0, <2>2, <4>1, Polled
        <4>5. \A i \in Nat : Len(got) < i /\ i <= Len(got') =>
                got'[i] = output[offset + (i - Len(got))]
          BY <2>2, Polled
        <4>6. \A i \in 1..Len(got) : got'[i] = i
          BY <2>2, <4>1, Polled
        <4>7. ASSUME NEW i \in 1..Len(got'), Len(got) < i PROVE got'[i] = i
          <5>1. offset + (i - Len(got)) = i /\ i \in Nat /\ i <= Len(got')
            BY <2>0, <4>1, <4>4, <4>7
          <5>2. got'[i] = output[i]
            BY <4>5, <4>7, <5>1
          <5> QED
            BY <4>3, <4>4, <5>2
        <4>8. \A i \in 1..Len(got') : i <= Len(got) => i \in 1..Len(got)
          BY <2>0, <4>4
        <4> QED
          BY <2>0, <3>2, <4>4, <4>6, <4>7, <4>8
      <3>4. NoByteMissed'
        BY <3>1, <3>3 DEF NoByteMissed
      <3> QED
        BY <2>0, <3>1, <3>2, <3>4 DEF OutputIsTail
    <2>3. CASE UNCHANGED vars
      BY <2>3 DEF vars, TypeOK, OutputIsTail, NoByteMissed
    <2> QED
      BY <2>1, <2>2, <2>3 DEF Next
  <1> QED
    BY <1>1, <1>2, PTL DEF Spec

(* Every variable keeps its type, and the output its limit.                *)
THEOREM TypeCorrect == Spec => []TypeOK
  BY Inductive, PTL DEF IInv

(* The output is what the command wrote last, however long the chunks.     *)
THEOREM TailCorrect == Spec => []OutputIsTail
  BY Inductive, PTL DEF IInv

(* A client that goes on where it stopped is never refused, and until a    *)
(* byte is dropped it has got every byte once and in order.                *)
THEOREM PagesCorrect == Spec => []PagesComplete
  <1>1. IInv => PagesComplete
    BY DEF IInv, TypeOK, PagesComplete, NextPollAccepted, IsRange
  <1> QED
    BY <1>1, Inductive, PTL

(* A range that is accepted returns the bytes at its offsets.              *)
LEMMA SliceBytes ==
  ASSUME NEW S, NEW bytes \in Seq(S), NEW start \in Int, NEW end \in Int,
         IsRange(bytes, start, end)
  PROVE  LET stop == IF end = -1 \/ end > Len(bytes) THEN Len(bytes) ELSE end
             b == Slice(bytes, start, end)
         IN  /\ start \in 0..stop /\ stop \in 0..Len(bytes)
             /\ Len(b) = stop - start
             /\ \A i \in 1..stop - start : b[i] = bytes[start + i]
  <1> DEFINE n == Len(bytes)
             stop == IF end = -1 \/ end > n THEN n ELSE end
             b == SubSeq(bytes, start + 1, stop)
  <1>1. n \in Nat /\ \A i \in 1..n : bytes[i] \in S
    OBVIOUS
  <1>2. Slice(bytes, start, end) = b
    BY DEF Slice
  <1>3. start >= 0 /\ end >= -1 /\ start <= n /\ (end # -1 => end >= start)
    BY DEF IsRange
  <1> HIDE DEF n
  <1>4. start \in 0..stop /\ stop \in 0..n
    BY <1>1, <1>3
  <1> HIDE DEF stop
  <1>5. start + 1 \in Int /\ stop \in Int /\ \A i \in start + 1..stop : bytes[i] \in S
    BY <1>1, <1>4
  <1>6. /\ Len(b) = IF start + 1 <= stop THEN stop - (start + 1) + 1 ELSE 0
        /\ \A i \in 1..stop - (start + 1) + 1 : b[i] = bytes[(start + 1) + i - 1]
    BY <1>5, SubSeqProperties
  <1> HIDE DEF b
  <1>7. Len(b) = stop - start
    BY <1>4, <1>6
  <1>8. ASSUME NEW i \in 1..stop - start PROVE b[i] = bytes[start + i]
    <2>1. i \in 1..stop - (start + 1) + 1 /\ (start + 1) + i - 1 = start + i
      BY <1>4
    <2> QED
      BY <1>6, <2>1
  <1> QED
    BY <1>2, <1>4, <1>7, <1>8 DEF stop, n

(* So does every range of every output that a session comes to have.       *)
THEOREM SliceCorrect == Spec => []SliceExact
  <1>1. TypeOK => SliceExact
    <2> SUFFICES ASSUME TypeOK,
                        NEW start \in -1..MaxOutputBytes + 1,
                        NEW end \in -2..MaxOutputBytes + 1,
                        IsRange(output, start, end)
                 PROVE  SliceExact!(start, end)!2
      BY DEF SliceExact
    <2> DEFINE n == Len(output)
               b == Slice(output, start, end)
               stop == IF end = -1 \/ end > n THEN n ELSE end
               at == {p \in 0..n - 1 : start <= p /\ (end = -1 \/ p < end)}
    <2>1. n \in Nat /\ start \in Int /\ end \in Int /\ output \in Seq(1..MaxAppended)
      BY WindowAssumption DEF TypeOK
    <2>2. /\ start \in 0..stop /\ stop \in 0..n
          /\ Len(b) = stop - start
          /\ \A i \in 1..stop - start : b[i] = output[start + i]
      BY <2>1, SliceBytes
    <2> HIDE DEF b, n
    <2>3. \A p \in Int : p \in at <=> start <= p /\ p < stop
      BY <2>1, <2>2
    <2> HIDE DEF stop, at
    <2>4. ASSUME NEW i \in 1..Len(b)
          PROVE  start + i - 1 \in at /\ b[i] = output[start + i]
      <3>1. i \in 1..stop - start /\ start + i - 1 \in Int
            /\ start <= start + i - 1 /\ start + i - 1 < stop
        BY <2>1, <2>2
      <3> QED
        BY <2>2, <2>3, <3>1
    <2>5. at \subseteq Int
      BY <2>1 DEF at
    <2>6. ASSUME NEW p \in at PROVE p - start + 1 \in 1..Len(b)
      <3>1. p \in Int /\ start <= p /\ p < stop
        BY <2>3, <2>5
      <3> QED
        BY <2>1, <2>2, <3>1
    <2> QED
      BY <2>4, <2>6 DEF b, at, n
  <1> QED
    BY <1>1, TypeCorrect, PTL
=============================================================================
