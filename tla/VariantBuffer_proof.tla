------------------------ MODULE VariantBuffer_proof ------------------------
(***************************************************************************)
(* Proofs about VariantBuffer, for all sets of writers and reports, all    *)
(* sizes and all payloads the assumptions allow.                           *)
(*                                                                         *)
(* No property is inductive by itself: that the length a seal stores is a  *)
(* natural number needs the place of the open record, and that a report    *)
(* sees no open record needs the holder of the spin lock.  LInv collects   *)
(* all of it, half by half (HalfOK, AllSealed, Open).  On it rest the      *)
(* refinement of RecordLog (with IdInv, what the numbers of the records    *)
(* are), what one report at a time sees (RepInv, FreshInv), and where a    *)
(* record can be cut short (CutInv).                                       *)
(***************************************************************************)
EXTENDS VariantBuffer, TLAPS, SequenceTheorems

USE SizesAssumption, PayloadsAssumption, HoldersAssumption, BoundAssumption

-----------------------------------------------------------------------------
(* Types.                                                                  *)

\* A function on 1..n is a sequence of length n.
LEMMA FunctionIsSeq ==
  ASSUME NEW S, NEW n \in Nat, NEW g \in [1..n -> S]
  PROVE  g \in Seq(S) /\ Len(g) = n /\ DOMAIN g = 1..n
<1>1. g \in Seq(S)
  BY SeqDef
<1> QED BY <1>1, LenProperties

\* Replacing some of the records of a sequence by records keeps its length.
LEMMA MapRecords ==
  ASSUME NEW s \in Seq(Record), NEW g, DOMAIN g = DOMAIN s,
         g = [i \in DOMAIN s |-> g[i]],
         \A i \in 1..Len(s) : g[i] \in Record
  PROVE  g \in Seq(Record) /\ Len(g) = Len(s) /\ DOMAIN g = 1..Len(s)
<1>1. DOMAIN s = 1..Len(s) /\ Len(s) \in Nat
  BY LenProperties
<1>2. g \in [1..Len(s) -> Record]
  BY <1>1
<1> QED BY <1>1, <1>2, FunctionIsSeq

-----------------------------------------------------------------------------
(* One half.                                                               *)

\* Headers lie one behind the other and end at or below the end.
Placed(recs, end) ==
  /\ \A k \in 1..Len(recs) : recs[k].at + HeadSize <= end
  /\ \A j, k \in 1..Len(recs) : j < k => recs[j].at + HeadSize <= recs[k].at

HalfOK(b) == b \in Half /\ Tiles(b.recs, b.pos) /\ Placed(b.recs, b.pos)

AllSealed(recs) == \A k \in 1..Len(recs) : recs[k].sealed

\* The last record, and only it, is open, and head is where it starts.
Open(b) ==
  /\ b.recs # <<>>
  /\ ~b.recs[Len(b.recs)].sealed
  /\ b.head = b.recs[Len(b.recs)].at

\* What a half's type says of its parts.
LEMMA HalfFacts ==
  ASSUME NEW b, b \in Half
  PROVE  /\ b.recs \in Seq(Record) /\ b.pos \in Nat /\ b.head \in Nat \cup {NoHead}
         /\ Len(b.recs) \in Nat /\ DOMAIN b.recs = 1..Len(b.recs)
         /\ \A k \in 1..Len(b.recs) : b.recs[k] \in Record
<1>1. b.recs \in Seq(Record) /\ b.pos \in Nat /\ b.head \in Nat \cup {NoHead}
  BY DEF Half
<1> QED BY <1>1, LenProperties, ElementOfSeq

\* The parts of each record of a sequence of records.
LEMMA RecordFacts ==
  ASSUME NEW s \in Seq(Record)
  PROVE  /\ Len(s) \in Nat /\ DOMAIN s = 1..Len(s)
         /\ \A k \in 1..Len(s) :
              s[k].at \in Nat /\ s[k].len \in Nat /\ s[k].id \in Nat /\ s[k].sealed \in BOOLEAN
<1>1. \A k \in 1..Len(s) : s[k] \in Record
  BY ElementOfSeq
<1>2. \A r \in Record : r.at \in Nat /\ r.len \in Nat /\ r.id \in Nat /\ r.sealed \in BOOLEAN
  BY DEF Record
<1> QED BY <1>1, <1>2, LenProperties

\* A header behind sealed records.
LEMMA AppendTiled ==
  ASSUME NEW s \in Seq(Record), NEW p \in Nat, NEW r \in Record,
         Tiles(s, p), Placed(s, p), AllSealed(s), r.at = p, ~r.sealed
  PROVE  Tiles(Append(s, r), p + HeadSize) /\ Placed(Append(s, r), p + HeadSize)
<1>1. PICK t : t = Append(s, r)
  OBVIOUS
<1>2. PICK n : n = Len(s)
  OBVIOUS
<1>3. n \in Nat /\ \A k \in 1..n : s[k].at \in Nat /\ s[k].len \in Nat /\ s[k].sealed
  BY <1>2, RecordFacts DEF AllSealed
<1>4. /\ Len(t) = n + 1 /\ t # <<>> /\ t[n + 1] = r
      /\ \A k \in 1..n : t[k] = s[k]
  BY <1>1, <1>2, AppendProperties
<1>5. Placed(t, p + HeadSize)
  <2>1. \A k \in 1..n : s[k].at + HeadSize <= p
    BY <1>2 DEF Placed
  <2>2. \A j, k \in 1..n : j < k => s[j].at + HeadSize <= s[k].at
    BY <1>2 DEF Placed
  <2>3. ASSUME NEW k \in 1..(n + 1) PROVE t[k].at + HeadSize <= p + HeadSize
    BY <1>3, <1>4, <2>1, <2>3
  <2>4. ASSUME NEW j \in 1..(n + 1), NEW k \in 1..(n + 1), j < k
        PROVE  t[j].at + HeadSize <= t[k].at
    <3>1. j \in 1..n /\ t[j] = s[j]
      BY <1>3, <1>4, <2>4
    <3>2. CASE k = n + 1
      BY <1>4, <2>1, <3>1, <3>2
    <3>3. CASE k # n + 1
      BY <1>3, <1>4, <2>2, <2>4, <3>1, <3>3
    <3> QED BY <3>2, <3>3
  <2> QED BY <1>4, <2>3, <2>4 DEF Placed
<1>6. Tiles(t, p + HeadSize)
  <2>1. ASSUME NEW k \in 1..n
        PROVE  /\ s[k].at = IF k = 1 THEN 0 ELSE s[k - 1].at + s[k - 1].len
               /\ s[k].len >= HeadSize
    BY <1>2, <1>3 DEF Tiles
  <2>2. ASSUME NEW k \in 1..n
        PROVE  /\ t[k].at = IF k = 1 THEN 0 ELSE t[k - 1].at + t[k - 1].len
               /\ t[k].len >= HeadSize /\ t[k].sealed
    <3>1. k = 1 \/ k - 1 \in 1..n
      BY <1>3
    <3> QED BY <1>3, <1>4, <2>1, <3>1
  <2>3. r.at = IF n + 1 = 1 THEN 0 ELSE t[n].at + t[n].len
    <3>1. CASE n = 0
      <4>1. s = <<>>
        BY <1>2, <3>1, EmptySeq
      <4> QED BY <3>1, <4>1 DEF Tiles
    <3>2. CASE n # 0
      <4>1. n \in 1..n
        BY <1>3, <3>2
      <4>2. s[n].at + s[n].len = p
        BY <1>2, <1>3, <4>1 DEF Tiles
      <4> QED BY <1>3, <1>4, <3>2, <4>1, <4>2
    <3> QED BY <3>1, <3>2
  <2>4. ASSUME NEW k \in 1..Len(t)
        PROVE  /\ t[k].at = IF k = 1 THEN 0 ELSE t[k - 1].at + t[k - 1].len
               /\ t[k].sealed => t[k].len >= HeadSize
               /\ k < Len(t) => t[k].sealed
               /\ k = Len(t) => IF t[k].sealed THEN t[k].at + t[k].len = p + HeadSize
                                               ELSE t[k].at + HeadSize <= p + HeadSize
    <3>1. CASE k \in 1..n
      BY <1>3, <1>4, <2>2, <3>1
    <3>2. CASE k = n + 1
      BY <1>3, <1>4, <2>3, <3>2
    <3> QED BY <1>3, <1>4, <3>1, <3>2
  <2> QED BY <1>4, <2>4 DEF Tiles
<1> QED BY <1>1, <1>5, <1>6

\* Records that keep their places, with a last one that is open, or is sealed
\* with the length up to the new end.
LEMMA LastChanged ==
  ASSUME NEW s \in Seq(Record), NEW t \in Seq(Record), NEW p \in Nat, NEW q \in Nat,
         NEW n \in Nat \ {0}, Len(s) = n, Len(t) = n, p <= q,
         Tiles(s, p), Placed(s, p), ~s[n].sealed,
         \A k \in 1..n : t[k].at = s[k].at,
         \A k \in 1..n : k < n => t[k].len = s[k].len /\ t[k].sealed = s[k].sealed,
         t[n].sealed => t[n].at + t[n].len = q
  PROVE  Tiles(t, q) /\ Placed(t, q)
<1>1. \A k \in 1..n : s[k].at \in Nat /\ s[k].len \in Nat /\ t[k].at \in Nat /\ t[k].len \in Nat
  BY RecordFacts
<1>2. /\ \A k \in 1..n : s[k].at + HeadSize <= p
      /\ \A j, k \in 1..n : j < k => s[j].at + HeadSize <= s[k].at
  BY DEF Placed
<1>3. ASSUME NEW k \in 1..n PROVE t[k].at + HeadSize <= q
  <2>1. t[k].at = s[k].at /\ s[k].at \in Nat /\ s[k].at + HeadSize <= p
    BY <1>1, <1>2
  <2> QED BY <2>1
<1>4. Placed(t, q)
  BY <1>2, <1>3 DEF Placed
<1>5. ASSUME NEW k \in 1..n
      PROVE  /\ s[k].at = IF k = 1 THEN 0 ELSE s[k - 1].at + s[k - 1].len
             /\ k < n => s[k].sealed /\ s[k].len >= HeadSize
  BY <1>1 DEF Tiles
<1>6. ASSUME NEW k \in 1..n
      PROVE  t[k].at = IF k = 1 THEN 0 ELSE t[k - 1].at + t[k - 1].len
  <2>1. CASE k = 1
    BY <1>5, <2>1
  <2>2. CASE k # 1
    <3>1. k - 1 \in 1..n /\ k - 1 < n
      BY <2>2
    <3> QED BY <1>5, <2>2, <3>1
  <2> QED BY <2>1, <2>2
<1>7. n \in 1..n /\ (t[n].sealed => t[n].len >= HeadSize)
  <2>1. n \in 1..n /\ t[n].at + HeadSize <= q
    BY <1>3
  <2> QED BY <1>1, <2>1
<1>8. ASSUME NEW k \in 1..Len(t)
      PROVE  /\ t[k].sealed => t[k].len >= HeadSize
             /\ k < Len(t) => t[k].sealed
             /\ k = Len(t) => IF t[k].sealed THEN t[k].at + t[k].len = q
                                             ELSE t[k].at + HeadSize <= q
  <2>1. CASE k = n
    BY <1>3, <1>7, <2>1
  <2>2. CASE k # n
    <3>1. k \in 1..n /\ k < n
      BY <2>2
    <3> QED BY <1>5, <3>1
  <2> QED BY <2>1, <2>2
<1>9. t # <<>>
  BY EmptySeq
<1> QED BY <1>4, <1>6, <1>8, <1>9 DEF Tiles

\* A half as alloc, destroy, discard and backup leave it: tiled, nothing open.
LEMMA EmptyOK == HalfOK(EmptyHalf) /\ AllSealed(EmptyHalf.recs)
<1>1. EmptyHalf \in Half
  BY DEF EmptyHalf, Half, NoHead
<1>2. EmptyHalf.recs = <<>> /\ Len(EmptyHalf.recs) = 0 /\ EmptyHalf.pos = 0
  BY DEF EmptyHalf
<1>3. /\ Tiles(EmptyHalf.recs, EmptyHalf.pos)
      /\ Placed(EmptyHalf.recs, EmptyHalf.pos) /\ AllSealed(EmptyHalf.recs)
  BY <1>2 DEF Tiles, Placed, AllSealed
<1> QED BY <1>1, <1>3 DEF HalfOK

\* reserve, when the active half has room.
LEMMA ReserveHereOK ==
  ASSUME NEW b, HalfOK(b), AllSealed(b.recs), seq \in Nat
  PROVE  HalfOK(ReserveHere(b)) /\ Open(ReserveHere(b))
<1>1. PICK r : r = NewRecord(b.pos)
  OBVIOUS
<1>2. b.recs \in Seq(Record) /\ b.pos \in Nat
  BY HalfFacts DEF HalfOK
<1>3. r \in Record /\ r.at = b.pos /\ r.sealed = FALSE
  BY <1>1, <1>2 DEF NewRecord, Record
<1>4. PICK t : t = Append(b.recs, r)
  OBVIOUS
<1>5. ReserveHere(b) = [pos |-> b.pos + HeadSize, head |-> b.pos, recs |-> t]
  BY <1>1, <1>4 DEF ReserveHere
<1>6. t \in Seq(Record) /\ t # <<>> /\ Len(t) = Len(b.recs) + 1 /\ t[Len(t)] = r
  BY <1>2, <1>3, <1>4, AppendProperties
<1>7. Tiles(t, b.pos + HeadSize) /\ Placed(t, b.pos + HeadSize)
  BY <1>2, <1>3, <1>4, AppendTiled DEF HalfOK
<1>8. ReserveHere(b) \in Half
  BY <1>2, <1>5, <1>6 DEF Half
<1> QED BY <1>3, <1>5, <1>6, <1>7, <1>8 DEF HalfOK, Open

\* reserve, when the other half is started over.
LEMMA ReserveAnewOK ==
  ASSUME seq \in Nat
  PROVE  HalfOK(ReserveAnew) /\ Open(ReserveAnew)
<1>1. PICK r : r = NewRecord(0)
  OBVIOUS
<1>2. r \in Record /\ r.at = 0 /\ r.sealed = FALSE
  BY <1>1 DEF NewRecord, Record
<1>3. PICK t : t = <<r>>
  OBVIOUS
<1>4. ReserveAnew = [pos |-> HeadSize, head |-> 0, recs |-> t]
  BY <1>1, <1>3 DEF ReserveAnew
<1>5. t \in Seq(Record) /\ Len(t) = 1 /\ t[1] = r /\ t # <<>>
  BY <1>2, <1>3
<1>6. Tiles(t, HeadSize) /\ Placed(t, HeadSize)
  BY <1>2, <1>5 DEF Tiles, Placed
<1>7. ReserveAnew \in Half
  BY <1>4, <1>5 DEF Half
<1> QED BY <1>2, <1>4, <1>5, <1>6, <1>7 DEF HalfOK, Open

\* The open record is the last one of its half and ends at most at its tail.
LEMMA OpenFacts ==
  ASSUME NEW b, HalfOK(b), Open(b)
  PROVE  /\ Len(b.recs) \in Nat \ {0} /\ b.recs[Len(b.recs)] \in Record
         /\ b.head \in Nat /\ b.head + HeadSize <= b.pos
<1>1. b.recs \in Seq(Record) /\ b.pos \in Nat
  BY HalfFacts DEF HalfOK
<1>2. PICK n : n = Len(b.recs)
  OBVIOUS
<1>3. n \in Nat \ {0}
  BY <1>1, <1>2, EmptySeq DEF Open
<1>4. n \in 1..n /\ b.recs[n] \in Record
  BY <1>1, <1>2, <1>3, ElementOfSeq
<1>5. b.recs[n].at + HeadSize <= b.pos
  BY <1>2, <1>4 DEF HalfOK, Placed
<1> QED BY <1>2, <1>3, <1>4, <1>5 DEF Open, Record

\* A write leaves the half tiled and its last record open, whether the bytes
\* fit or are left out, and never fills it to its last byte.
LEMMA WriteOK ==
  ASSUME NEW b, HalfOK(b), Open(b), NEW len \in Nat, size \in Nat, b.pos < size
  PROVE  /\ HalfOK(WriteInto(b, len)) /\ Open(WriteInto(b, len))
         /\ WriteInto(b, len).pos < size /\ b.pos <= WriteInto(b, len).pos
<1>1. PICK n : n = Len(b.recs)
  OBVIOUS
<1>2. /\ b \in Half /\ b.recs \in Seq(Record) /\ b.pos \in Nat /\ n \in Nat \ {0}
      /\ DOMAIN b.recs = 1..n
  BY <1>1, HalfFacts, OpenFacts DEF HalfOK
<1>3. Tiles(b.recs, b.pos) /\ Placed(b.recs, b.pos) /\ ~b.recs[n].sealed
  BY <1>1 DEF HalfOK, Open
<1>4. CASE len < size - b.pos
  <2>1. PICK c : c = Stored(b, len)
    OBVIOUS
  <2>2. c \in Half /\ c.recs = b.recs /\ c.pos = b.pos + len /\ c.head = b.head
    BY <1>2, <2>1 DEF Stored, Half
  <2>3. Tiles(c.recs, c.pos) /\ Placed(c.recs, c.pos)
    BY <1>1, <1>2, <1>3, <2>2, LastChanged
  <2>4. c.pos < size /\ b.pos <= c.pos
    BY <1>2, <1>4, <2>2
  <2>5. WriteInto(b, len) = c
    BY <1>4, <2>1 DEF WriteInto
  <2> QED BY <2>2, <2>3, <2>4, <2>5 DEF HalfOK, Open
<1>5. CASE ~(len < size - b.pos)
  <2> DEFINE g == [i \in DOMAIN b.recs |->
        IF b.recs[i].sealed THEN b.recs[i] ELSE [b.recs[i] EXCEPT !.whole = FALSE]]
  <2>1. PICK t : t = g
    OBVIOUS
  <2>2. ASSUME NEW i \in 1..n
        PROVE  /\ t[i] \in Record /\ t[i].at = b.recs[i].at /\ t[i].len = b.recs[i].len
               /\ t[i].sealed = b.recs[i].sealed
    <3>1. b.recs[i] \in Record /\ i \in DOMAIN b.recs
      BY <1>1, <1>2, ElementOfSeq
    <3>2. \A r \in Record : /\ [r EXCEPT !.whole = FALSE] \in Record
                             /\ [r EXCEPT !.whole = FALSE].at = r.at
                             /\ [r EXCEPT !.whole = FALSE].len = r.len
                             /\ [r EXCEPT !.whole = FALSE].sealed = r.sealed
      BY DEF Record
    <3> QED BY <2>1, <3>1, <3>2
  <2>3. DOMAIN t = DOMAIN b.recs /\ t = [i \in DOMAIN b.recs |-> t[i]]
    BY <2>1
  <2>4. t \in Seq(Record) /\ Len(t) = n
    BY <1>1, <1>2, <2>2, <2>3, MapRecords
  <2>5. PICK c : c = LeftOut(b)
    OBVIOUS
  <2>6. c = [b EXCEPT !.recs = t]
    BY <2>1, <2>5 DEF LeftOut
  <2>7. c \in Half /\ c.recs = t /\ c.pos = b.pos /\ c.head = b.head
    BY <1>2, <2>4, <2>6 DEF Half
  <2>8. n \in 1..n
    BY <1>2
  <2>9. Tiles(t, b.pos) /\ Placed(t, b.pos)
    <3>1. /\ \A k \in 1..n : t[k].at = b.recs[k].at
          /\ \A k \in 1..n : k < n => t[k].len = b.recs[k].len /\ t[k].sealed = b.recs[k].sealed
          /\ ~t[n].sealed
      BY <1>3, <2>2, <2>8
    <3>2. b.pos <= b.pos
      BY <1>2
    <3> HIDE DEF g
    <3> QED BY <1>1, <1>2, <1>3, <2>4, <3>1, <3>2, LastChanged
  <2>10. Open(c)
    BY <1>1, <2>2, <2>4, <2>7, <2>8, <1>2, EmptySeq DEF Open
  <2>11. WriteInto(b, len) = c
    BY <1>5, <2>5 DEF WriteInto
  <2> QED BY <1>2, <2>7, <2>9, <2>10, <2>11 DEF HalfOK
<1> QED BY <1>4, <1>5

\* seal closes the open record, and no other.
LEMMA ClosedOK ==
  ASSUME NEW b, HalfOK(b), Open(b)
  PROVE  HalfOK(Closed(b)) /\ AllSealed(Closed(b).recs) /\ Closed(b).pos = b.pos
<1> DEFINE g == [i \in DOMAIN b.recs |->
      IF b.recs[i].at = b.head
        THEN [b.recs[i] EXCEPT !.sealed = TRUE, !.len = b.pos - b.head]
        ELSE b.recs[i]]
<1>1. PICK n : n = Len(b.recs)
  OBVIOUS
<1>2. PICK t : t = g
  OBVIOUS
<1>3. t = [i \in DOMAIN b.recs |-> t[i]] /\ DOMAIN t = DOMAIN b.recs
  BY <1>2
<1>4. /\ b \in Half /\ b.recs \in Seq(Record) /\ b.pos \in Nat /\ n \in Nat \ {0}
      /\ DOMAIN b.recs = 1..n /\ b.head \in Nat /\ b.head + HeadSize <= b.pos /\ n \in 1..n
  BY <1>1, HalfFacts, OpenFacts DEF HalfOK
<1>5. Tiles(b.recs, b.pos) /\ Placed(b.recs, b.pos) /\ ~b.recs[n].sealed /\ b.head = b.recs[n].at
  BY <1>1 DEF HalfOK, Open
<1>6. \A k \in 1..n : b.recs[k] \in Record /\ b.recs[k].at \in Nat
  BY <1>1, <1>4, ElementOfSeq, RecordFacts
<1>7. ASSUME NEW k \in 1..n, k < n
      PROVE  t[k] = b.recs[k] /\ b.recs[k].sealed
  <2>1. b.recs[k].at + HeadSize <= b.recs[n].at
    BY <1>1, <1>4, <1>5, <1>7 DEF Placed
  <2>2. b.recs[k].at # b.head
    BY <1>4, <1>5, <1>6, <2>1
  <2>3. b.recs[k].sealed
    BY <1>1, <1>5, <1>7 DEF Tiles
  <2> QED BY <1>2, <1>4, <2>2, <2>3
<1>8. /\ t[n] \in Record /\ t[n].at = b.recs[n].at /\ t[n].sealed
      /\ t[n].len = b.pos - b.head
  <2>1. PICK m : m = b.pos - b.head
    OBVIOUS
  <2>2. m \in Nat
    BY <1>4, <2>1
  <2>3. t[n] = [b.recs[n] EXCEPT !.sealed = TRUE, !.len = m]
    BY <1>2, <1>4, <1>5, <2>1
  <2>4. b.recs[n] \in Record
    BY <1>4, <1>6
  <2> QED BY <2>1, <2>2, <2>3, <2>4 DEF Record
<1>9. ASSUME NEW k \in 1..n PROVE t[k] \in Record /\ t[k].at = b.recs[k].at /\ t[k].sealed
  <2>1. CASE k = n
    BY <1>8, <2>1
  <2>2. CASE k # n
    <3>1. k < n
      BY <1>4, <2>2
    <3> QED BY <1>6, <1>7, <3>1
  <2> QED BY <2>1, <2>2
<1> HIDE DEF g
<1>10. t \in Seq(Record) /\ Len(t) = n
  BY <1>1, <1>3, <1>4, <1>9, MapRecords
<1>11. Tiles(t, b.pos) /\ Placed(t, b.pos)
  <2>1. /\ \A k \in 1..n : t[k].at = b.recs[k].at
        /\ \A k \in 1..n : k < n => t[k].len = b.recs[k].len /\ t[k].sealed = b.recs[k].sealed
    BY <1>7, <1>9
  <2>2. t[n].at + t[n].len = b.pos
    BY <1>4, <1>5, <1>8
  <2>3. b.pos <= b.pos
    BY <1>4
  <2> QED BY <1>1, <1>4, <1>5, <1>10, <2>1, <2>2, <2>3, LastChanged
<1>12. Closed(b) = [b EXCEPT !.recs = t]
  BY <1>2 DEF Closed, g
<1>13. Closed(b) \in Half /\ Closed(b).recs = t /\ Closed(b).pos = b.pos
  BY <1>4, <1>10, <1>12 DEF Half
<1> QED BY <1>9, <1>10, <1>11, <1>13 DEF HalfOK, AllSealed

\* Two halves without an open record, one behind the other, tile the product.
LEMMA CollectOK ==
  ASSUME NEW a, NEW b, HalfOK(a), HalfOK(b), AllSealed(a.recs), AllSealed(b.recs)
  PROVE  LET c == Collect(a, b)
         IN /\ c.len = a.pos + b.pos /\ c.recs \in Seq(Record)
            /\ Tiles(c.recs, c.len) /\ AllSealed(c.recs)
            /\ c = [len |-> c.len, recs |-> c.recs]
<1>1. PICK x, y, p, q, m, n :
        /\ x = a.recs /\ y = b.recs /\ p = a.pos /\ q = b.pos /\ m = Len(x) /\ n = Len(y)
  OBVIOUS
<1>2. /\ x \in Seq(Record) /\ y \in Seq(Record) /\ p \in Nat /\ q \in Nat
      /\ m \in Nat /\ n \in Nat /\ DOMAIN y = 1..n
  BY <1>1, HalfFacts DEF HalfOK
<1>3. Tiles(x, p) /\ Tiles(y, q) /\ AllSealed(x) /\ AllSealed(y)
  BY <1>1 DEF HalfOK
<1>4. PICK z : z = Shift(y, p)
  OBVIOUS
<1>5. z = [i \in DOMAIN y |-> z[i]] /\ DOMAIN z = DOMAIN y
  BY <1>4 DEF Shift
<1>6. ASSUME NEW k \in 1..n
      PROVE  /\ z[k] \in Record /\ z[k].at = y[k].at + p /\ z[k].len = y[k].len
             /\ z[k].sealed = y[k].sealed
  <2>1. y[k] \in Record /\ k \in DOMAIN y
    BY <1>1, <1>2, ElementOfSeq
  <2>2. PICK v : v = y[k].at + p
    OBVIOUS
  <2>3. z[k] = [y[k] EXCEPT !.at = v]
    BY <1>4, <2>1, <2>2 DEF Shift
  <2>4. v \in Nat
    BY <1>2, <2>1, <2>2 DEF Record
  <2> QED BY <2>1, <2>2, <2>3, <2>4 DEF Record
<1>7. z \in Seq(Record) /\ Len(z) = n
  BY <1>1, <1>2, <1>5, <1>6, MapRecords
<1>8. PICK r : r = x \o z
  OBVIOUS
<1>9. /\ r \in Seq(Record) /\ Len(r) = m + n
      /\ \A k \in 1..(m + n) : r[k] = IF k <= m THEN x[k] ELSE z[k - m]
  <2>1. /\ x \o z \in Seq(Record) /\ Len(x \o z) = Len(x) + Len(z)
        /\ \A k \in 1..(Len(x) + Len(z)) :
             (x \o z)[k] = IF k <= Len(x) THEN x[k] ELSE z[k - Len(x)]
    BY <1>2, <1>7, ConcatProperties, Zenon
  <2> QED BY <1>1, <1>7, <1>8, <2>1
<1>10. ASSUME NEW k \in 1..m
       PROVE  /\ x[k].at = IF k = 1 THEN 0 ELSE x[k - 1].at + x[k - 1].len
              /\ x[k].sealed /\ x[k].len >= HeadSize /\ x[k].at \in Nat /\ x[k].len \in Nat
              /\ k = m => x[k].at + x[k].len = p
  BY <1>1, <1>2, <1>3, RecordFacts DEF Tiles, AllSealed
<1>11. ASSUME NEW k \in 1..n
       PROVE  /\ y[k].at = IF k = 1 THEN 0 ELSE y[k - 1].at + y[k - 1].len
              /\ y[k].sealed /\ y[k].len >= HeadSize /\ y[k].at \in Nat /\ y[k].len \in Nat
              /\ k = n => y[k].at + y[k].len = q
  BY <1>1, <1>2, <1>3, RecordFacts DEF Tiles, AllSealed
<1>12. (m = 0 => p = 0) /\ (n = 0 => q = 0)
  <2>1. (m = 0 => x = <<>>) /\ (n = 0 => y = <<>>)
    BY <1>1, <1>2, EmptySeq
  <2> QED BY <1>3, <2>1 DEF Tiles
<1>13. ASSUME NEW k \in 1..(m + n)
       PROVE  r[k].sealed /\ r[k].len >= HeadSize
  <2>1. CASE k <= m
    <3>1. k \in 1..m /\ r[k] = x[k]
      BY <1>2, <1>9, <2>1
    <3> QED BY <1>10, <3>1
  <2>2. CASE k > m
    <3>1. k - m \in 1..n /\ r[k] = z[k - m]
      BY <1>2, <1>9, <2>2
    <3> QED BY <1>6, <1>11, <3>1
  <2> QED BY <1>2, <2>1, <2>2
<1>14. ASSUME NEW k \in 1..(m + n)
       PROVE  r[k].at = IF k = 1 THEN 0 ELSE r[k - 1].at + r[k - 1].len
  <2>1. CASE k <= m
    <3>1. k \in 1..m /\ r[k] = x[k]
      BY <1>2, <1>9, <2>1
    <3>2. CASE k = 1
      BY <1>10, <3>1, <3>2
    <3>3. CASE k # 1
      <4>1. r[k - 1] = x[k - 1]
        BY <1>2, <1>9, <2>1, <3>3
      <4> QED BY <1>10, <3>1, <3>3, <4>1
    <3> QED BY <3>2, <3>3
  <2>2. CASE k > m
    <3>1. k - m \in 1..n /\ r[k] = z[k - m]
      BY <1>2, <1>9, <2>2
    <3>2. r[k].at = y[k - m].at + p
      BY <1>6, <3>1
    <3>3. CASE k - m = 1 /\ m = 0
      BY <1>11, <1>12, <3>1, <3>2, <3>3
    <3>4. CASE k - m = 1 /\ m # 0
      <4>1. m \in 1..m /\ k - 1 = m /\ k # 1
        BY <1>2, <3>4
      <4>2. r[k - 1] = x[m]
        BY SMTT(40), <1>2, <1>9, <4>1
      <4>3. x[m].at + x[m].len = p
        BY <1>10, <4>1
      <4>4. y[k - m].at = 0
        BY <1>11, <3>1, <3>4
      <4> QED BY <1>2, <3>2, <4>1, <4>2, <4>3, <4>4
    <3>5. CASE k - m # 1
      <4>1. /\ k - 1 \in 1..(m + n) /\ ~(k - 1 <= m) /\ k # 1
            /\ k - m - 1 \in 1..n /\ (k - 1) - m = k - m - 1
        BY <1>2, <2>2, <3>1, <3>5
      <4>2. r[k - 1] = z[k - m - 1]
        BY <1>9, <4>1
      <4>3. r[k - 1].at = y[k - m - 1].at + p /\ r[k - 1].len = y[k - m - 1].len
        BY <1>6, <4>1, <4>2
      <4>4. y[k - m].at = y[k - m - 1].at + y[k - m - 1].len
        BY <1>11, <3>1, <3>5
      <4>5. y[k - m - 1].at \in Nat /\ y[k - m - 1].len \in Nat
        BY <1>11, <4>1
      <4> QED BY <1>2, <3>2, <4>1, <4>3, <4>4, <4>5
    <3> QED BY <3>3, <3>4, <3>5
  <2> QED BY <1>2, <2>1, <2>2
<1>15. m + n # 0 => r[m + n].at + r[m + n].len = p + q
  <2>1. CASE n = 0 /\ m # 0
    BY <1>2, <1>9, <1>10, <1>12, <2>1
  <2>2. CASE n # 0
    <3>1. n \in 1..n /\ r[m + n] = z[n]
      <4>1. m + n \in 1..(m + n) /\ ~(m + n <= m) /\ (m + n) - m = n
        BY <1>2, <2>2
      <4> QED BY <1>2, <1>9, <2>2, <4>1
    <3>2. y[n].at + y[n].len = q /\ y[n].at \in Nat /\ y[n].len \in Nat
      BY <1>11, <3>1
    <3>3. r[m + n].at = y[n].at + p /\ r[m + n].len = y[n].len
      BY <1>6, <3>1, Zenon
    <3> QED BY <1>2, <3>2, <3>3
  <2> QED BY <1>2, <2>1, <2>2
<1>16. Tiles(r, p + q)
  <2>1. r = <<>> => p + q = 0
    <3>1. r = <<>> => m + n = 0
      BY <1>9, EmptySeq
    <3> QED BY <1>2, <1>12, <3>1
  <2> QED BY <1>2, <1>9, <1>13, <1>14, <1>15, <2>1 DEF Tiles
<1>17. Collect(a, b) = [len |-> p + q, recs |-> r]
  BY <1>1, <1>4, <1>8 DEF Collect
<1>18. AllSealed(r)
  BY <1>9, <1>13 DEF AllSealed
<1>19. a.pos + b.pos = p + q
  BY <1>1
<1> QED BY <1>9, <1>16, <1>17, <1>18, <1>19

-----------------------------------------------------------------------------
(* The invariant.                                                          *)

\* Every step depends on these facts about the bounds of reserve.
LEMMA RealLenBounds ==
  ASSUME NEW len \in Nat
  PROVE  RealLen(len) \in Nat /\ HeadSize <= RealLen(len) /\ RealLen(len) < HeadSize + Word
<1>1. len + Word \in Int /\ Word \in Nat \ {0}
  OBVIOUS
<1>2. (len + Word) % Word \in 0..(Word - 1)
  BY <1>1
<1> QED BY <1>2 DEF RealLen

\* Of two halves one is the active one and the other is not.
LEMMA HalvesFacts ==
  /\ 0 \in Halves /\ 1 \in Halves
  /\ \A i \in Halves : Other(i) \in Halves /\ Other(i) # i /\ Other(Other(i)) = i
  /\ \A i, j \in Halves : j # i => j = Other(i)
BY DEF Halves, Other

\* Who may have an open record: the writer between reserve and seal.
OpenInv ==
  /\ \A i \in Halves :
       \/ AllSealed(buffers[i].recs)
       \/ i = toggle /\ alloced /\ Open(buffers[i])
          /\ \E w \in Writers : spin = w /\ wpc[w] = "write"
  /\ \A w \in Writers : wpc[w] = "write" /\ alloced => Open(buffers[toggle])

LockInv == \A w \in Writers : wpc[w] # "idle" <=> spin = w

SizeInv ==
  /\ alloced => size = BufSize /\ \A i \in Halves : buffers[i].pos < size
  /\ ~alloced => \A i \in Halves : buffers[i].pos = 0 /\ AllSealed(buffers[i].recs)
  /\ product.len <= 2 * BufSize

LInv ==
  /\ TypeOK
  /\ \A i \in Halves : HalfOK(buffers[i])
  /\ OpenInv /\ LockInv /\ SizeInv
  /\ ProductTiled
  /\ HistoryKept

\* The buffers as the module's initialisation leaves them satisfy the invariant.
THEOREM LInvInit == Init => LInv
<1> SUFFICES ASSUME Init PROVE LInv
  OBVIOUS
<1>1. TypeOK
  <2>1. EmptyHalf \in Half /\ EmptyProduct \in [len : Nat, recs : Seq(Record)]
    BY EmptyOK DEF EmptyProduct, HalfOK
  <2>2. MemoryTyped
    BY <2>1 DEF MemoryTyped, Init, Halves
  <2>3. WritersTyped
    BY DEF WritersTyped, Init, NoPayload
  <2>4. DumpersTyped
    BY DEF DumpersTyped, Init
  <2> QED BY <2>2, <2>3, <2>4 DEF TypeOK
<1>2. \A i \in Halves : buffers[i] = EmptyHalf /\ HalfOK(buffers[i]) /\ AllSealed(buffers[i].recs)
  BY EmptyOK DEF Init
<1>3. EmptyHalf.pos = 0 /\ alloced = FALSE /\ toggle = 0 /\ product = EmptyProduct
  BY DEF EmptyHalf, Init
<1>4. OpenInv /\ LockInv
  BY <1>2 DEF OpenInv, LockInv, Init
<1>5. SizeInv /\ HistoryKept
  BY <1>2, <1>3, HalvesFacts DEF SizeInv, HistoryKept, EmptyProduct, Older
<1>6. ProductTiled
  <2>1. product.recs = <<>> /\ Len(product.recs) = 0 /\ product.len = 0 /\ DOMAIN product.recs = {}
    BY <1>3 DEF EmptyProduct
  <2> QED BY <2>1 DEF ProductTiled, Tiles
<1> QED BY <1>1, <1>2, <1>4, <1>5, <1>6 DEF LInv

\* The steps that touch neither the memory nor the writers' places.
LEMMA Frame ==
  ASSUME LInv, TypeOK', UNCHANGED <<memory, spin, wpc>>
  PROVE  LInv'
BY DEF LInv, memory, OpenInv, LockInv, SizeInv, ProductTiled, HistoryKept, Older

\* alloc empties both halves, unless it found them allocated.
LEMMA AllocStep == ASSUME LInv, Alloc PROVE LInv'
<1>1. TypeOK'
  BY DEF LInv, TypeOK, MemoryTyped, WritersTyped, DumpersTyped, Alloc, writerVars, dumperVars
<1>2. /\ buffers' = buffers /\ toggle' = toggle /\ product' = product /\ size' = size
      /\ wpc' = wpc /\ spin' = spin /\ ~alloced /\ alloced' = TRUE
  BY DEF Alloc, writerVars
<1>3. size = BufSize /\ BufSize > 0
  BY DEF Alloc, LInv, TypeOK, MemoryTyped
<1>4. SizeInv'
  BY <1>2, <1>3 DEF LInv, SizeInv
<1>5. \A w \in Writers : wpc[w] # "write"
  BY DEF Alloc, LInv, LockInv, HoldersAssumption
<1>6. OpenInv'
  BY <1>2, <1>5 DEF LInv, OpenInv
<1>7. LockInv' /\ ProductTiled' /\ HistoryKept'
  BY <1>2 DEF LInv, LockInv, ProductTiled, HistoryKept, Older
<1>8. \A i \in Halves : HalfOK(buffers'[i])
  BY <1>2 DEF LInv
<1> QED BY <1>1, <1>4, <1>6, <1>7, <1>8 DEF LInv

\* Both halves empty: no record, nothing older.
LEMMA EmptiedHalves ==
  ASSUME buffers' = [i \in Halves |-> EmptyHalf], toggle' = 0
  PROVE  /\ \A i \in Halves : /\ HalfOK(buffers'[i]) /\ AllSealed(buffers'[i].recs)
                             /\ buffers'[i].pos = 0
         /\ HistoryKept'
         /\ buffers' \in [Halves -> Half] /\ toggle' \in Halves
<1>1. \A i \in Halves : buffers'[i] = EmptyHalf
  OBVIOUS
<1>2. EmptyHalf.pos = 0 /\ EmptyHalf \in Half
  BY EmptyOK DEF EmptyHalf, HalfOK
<1>3. HistoryKept'
  BY <1>1, <1>2, HalvesFacts DEF HistoryKept, Older
<1> QED BY <1>1, <1>2, <1>3, EmptyOK, HalvesFacts

\* destroy empties both halves.
LEMMA DestroyStep == ASSUME LInv, Destroy PROVE LInv'
<1>1. /\ buffers' = [i \in Halves |-> EmptyHalf] /\ toggle' = 0 /\ product' = EmptyProduct
      /\ alloced' = FALSE /\ size' = 0 /\ wpc' = wpc /\ spin' = spin
      /\ \A w \in Writers : wpc[w] = "idle"
  BY DEF Destroy, writerVars
<1>2. /\ product'.recs = <<>> /\ product'.len = 0 /\ Len(product'.recs) = 0
      /\ DOMAIN product'.recs = {} /\ product' \in [len : Nat, recs : Seq(Record)]
  BY <1>1 DEF EmptyProduct
<1>3. TypeOK'
  <2>1. MemoryTyped'
    BY <1>1, <1>2, EmptiedHalves DEF MemoryTyped
  <2>2. WritersTyped' /\ DumpersTyped'
    BY DEF LInv, TypeOK, WritersTyped, DumpersTyped, Destroy, writerVars, dumperVars
  <2> QED BY <2>1, <2>2 DEF TypeOK
<1>4. SizeInv' /\ ProductTiled'
  BY <1>1, <1>2, EmptiedHalves DEF SizeInv, ProductTiled, Tiles
<1>5. OpenInv' /\ LockInv'
  BY <1>1, EmptiedHalves DEF LInv, OpenInv, LockInv
<1> QED BY <1>1, <1>3, <1>4, <1>5, EmptiedHalves DEF LInv

\* Initialising the buffer again touches neither halves nor locks in use.
LEMMA InitBufferStep == ASSUME LInv, InitBuffer PROVE LInv'
<1>1. TypeOK'
  BY DEF LInv, TypeOK, MemoryTyped, WritersTyped, DumpersTyped, InitBuffer, writerVars, dumperVars
<1>2. /\ buffers' = buffers /\ toggle' = toggle /\ product' = product /\ size = 0
      /\ size' = BufSize /\ wpc' = wpc /\ spin' = spin /\ alloced' = alloced
  BY DEF InitBuffer, writerVars
<1>3. ~alloced
  BY <1>2 DEF LInv, SizeInv
<1>4. SizeInv'
  BY <1>2, <1>3 DEF LInv, SizeInv
<1>5. OpenInv' /\ LockInv' /\ ProductTiled' /\ HistoryKept'
  BY <1>2 DEF LInv, OpenInv, LockInv, ProductTiled, HistoryKept, Older
<1> QED BY <1>1, <1>2, <1>4, <1>5 DEF LInv

\* Taking the spin lock.
LEMMA LockStep == ASSUME LInv, NEW w \in Writers, Lock(w) PROVE LInv'
<1>1. /\ UNCHANGED <<size, alloced, buffers, toggle, product, seq>>
      /\ spin = Nobody /\ spin' = w /\ wpc' = [wpc EXCEPT ![w] = "reserve"]
      /\ wpc[w] = "idle"
  BY DEF Lock, memory
<1>2. wpc \in [Writers -> {"idle", "reserve", "write", "unlock"}]
  BY DEF LInv, TypeOK, WritersTyped
<1>3. TypeOK'
  <2>1. \A p \in Payloads : p \in [len : Nat, parts : Seq(Nat)]
    OBVIOUS
  <2>2. todo' \in [Writers -> [len : Nat, parts : Seq(Nat)]]
    BY <2>1 DEF LInv, TypeOK, WritersTyped, Lock
  <2>3. WritersTyped'
    BY <1>1, <1>2, <2>2 DEF LInv, TypeOK, WritersTyped
  <2>4. MemoryTyped' /\ DumpersTyped'
    BY <1>1 DEF LInv, TypeOK, MemoryTyped, DumpersTyped, Lock, dumperVars
  <2> QED BY <2>3, <2>4 DEF TypeOK
<1>4. \A v \in Writers : wpc[v] = "idle"
  BY <1>1 DEF LInv, LockInv
<1>5. LockInv'
  BY <1>1, <1>2, <1>4 DEF LockInv
<1>6. OpenInv'
  <2>1. \A i \in Halves : AllSealed(buffers[i].recs)
    BY <1>4 DEF LInv, OpenInv
  <2>2. \A v \in Writers : wpc'[v] # "write"
    BY <1>1, <1>2, <1>4
  <2> QED BY <1>1, <2>1, <2>2 DEF OpenInv
<1>7. SizeInv' /\ ProductTiled' /\ HistoryKept'
  BY <1>1 DEF LInv, SizeInv, ProductTiled, HistoryKept, Older
<1> QED BY <1>1, <1>3, <1>5, <1>6, <1>7 DEF LInv

\* What holds for the writer that is in its critical section.
LEMMA HolderFacts ==
  ASSUME LInv, NEW w \in Writers, wpc[w] # "idle"
  PROVE  /\ spin = w /\ \A v \in Writers \ {w} : wpc[v] = "idle"
         /\ wpc \in [Writers -> {"idle", "reserve", "write", "unlock"}]
         /\ seq \in Nat /\ size \in Nat /\ size \in {0, BufSize} /\ toggle \in Halves
         /\ buffers \in [Halves -> Half] /\ alloced \in BOOLEAN
         /\ todo[w] \in [len : Nat, parts : Seq(Nat)]
         /\ (wpc[w] # "write" => \A i \in Halves : AllSealed(buffers[i].recs))
         /\ \A i \in Halves : i # toggle => AllSealed(buffers[i].recs)
<1>1. spin = w /\ \A v \in Writers \ {w} : wpc[v] = "idle"
  BY DEF LInv, LockInv
<1>2. /\ wpc \in [Writers -> {"idle", "reserve", "write", "unlock"}]
      /\ seq \in Nat /\ size \in {0, BufSize} /\ toggle \in Halves
      /\ buffers \in [Halves -> Half] /\ alloced \in BOOLEAN
      /\ todo[w] \in [len : Nat, parts : Seq(Nat)]
  BY DEF LInv, TypeOK, MemoryTyped, WritersTyped
<1>3. /\ wpc[w] # "write" => \A i \in Halves : AllSealed(buffers[i].recs)
      /\ \A i \in Halves : i # toggle => AllSealed(buffers[i].recs)
  BY <1>1 DEF LInv, OpenInv
<1> QED BY <1>1, <1>2, <1>3

\* Releasing the spin lock: the record of the writer is sealed by then.
LEMMA UnlockStep == ASSUME LInv, NEW w \in Writers, Unlock(w) PROVE LInv'
<1>1. /\ UNCHANGED <<size, alloced, buffers, toggle, product, seq>>
      /\ spin' = Nobody /\ wpc' = [wpc EXCEPT ![w] = "idle"] /\ wpc[w] = "unlock"
      /\ todo' = [todo EXCEPT ![w] = NoPayload]
  BY DEF Unlock, memory
<1>2. TypeOK'
  <2>1. NoPayload \in [len : Nat, parts : Seq(Nat)]
    BY DEF NoPayload
  <2>2. WritersTyped'
    BY <1>1, <2>1 DEF LInv, TypeOK, WritersTyped
  <2>3. MemoryTyped' /\ DumpersTyped'
    BY <1>1 DEF LInv, TypeOK, MemoryTyped, DumpersTyped, Unlock, dumperVars
  <2> QED BY <2>2, <2>3 DEF TypeOK
<1>3. \A v \in Writers : wpc'[v] = "idle"
  BY <1>1, HolderFacts
<1>4. LockInv' /\ OpenInv'
  BY <1>1, <1>3, HolderFacts DEF LockInv, OpenInv
<1>5. SizeInv' /\ ProductTiled' /\ HistoryKept'
  BY <1>1 DEF LInv, SizeInv, ProductTiled, HistoryKept, Older
<1> QED BY <1>1, <1>2, <1>4, <1>5 DEF LInv

\* reserve leaves the record of w open in the half that is now active.
LEMMA ReserveStep == ASSUME LInv, NEW w \in Writers, Reserve(w) PROVE LInv'
<1>1. /\ UNCHANGED <<size, alloced, product, seq, spin, todo>>
      /\ wpc' = [wpc EXCEPT ![w] = "write"] /\ wpc[w] = "reserve"
  BY DEF Reserve
<1>2. PICK len \in Nat : ReserveNothing \/ ReserveFits(len) \/ ReserveToggles(len)
  BY <1>1, HolderFacts DEF Reserve
<1>3. /\ spin = w /\ \A v \in Writers \ {w} : wpc[v] = "idle"
      /\ seq \in Nat /\ size \in Nat /\ toggle \in Halves /\ buffers \in [Halves -> Half]
      /\ \A i \in Halves : HalfOK(buffers[i]) /\ AllSealed(buffers[i].recs) /\ buffers[i].pos \in Nat
  BY <1>1, HolderFacts, HalfFacts DEF LInv, HalfOK
<1>4. WritersTyped' /\ DumpersTyped'
  BY <1>1 DEF LInv, TypeOK, WritersTyped, DumpersTyped, Reserve, dumperVars
<1>5. LockInv' /\ ProductTiled' /\ wpc'[w] = "write" /\ \A v \in Writers \ {w} : wpc'[v] = "idle"
  <2>1. wpc \in [Writers -> {"idle", "reserve", "write", "unlock"}]
    BY DEF LInv, TypeOK, WritersTyped
  <2>2. ProductTiled'
    BY <1>1 DEF LInv, ProductTiled
  <2> QED BY <1>1, <1>3, <2>1, <2>2 DEF LInv, LockInv
\* What each outcome gives suffices.
<1>6. SUFFICES /\ toggle' \in Halves /\ buffers' \in [Halves -> Half]
               /\ \A i \in Halves : HalfOK(buffers'[i])
               /\ \A i \in Halves : i # toggle' => AllSealed(buffers'[i].recs)
               /\ IF alloced THEN Open(buffers'[toggle']) ELSE AllSealed(buffers'[toggle'].recs)
               /\ SizeInv' /\ HistoryKept'
  <2>1. MemoryTyped'
    BY <1>1, <1>6 DEF LInv, TypeOK, MemoryTyped
  <2>2. OpenInv'
    BY <1>1, <1>3, <1>5, <1>6 DEF OpenInv
  <2> QED BY <1>4, <1>5, <1>6, <2>1, <2>2 DEF LInv, TypeOK
<1>7. CASE ReserveNothing
  BY <1>1, <1>3, <1>7 DEF ReserveNothing, LInv, SizeInv, HistoryKept, Older
<1>8. CASE ReserveFits(len)
  <2>1. PICK c : c = ReserveHere(buffers[toggle])
    OBVIOUS
  <2>2. /\ alloced /\ toggle' = toggle /\ buffers' = [buffers EXCEPT ![toggle] = c]
        /\ buffers[toggle].pos + RealLen(len) < size
    BY <1>8, <2>1 DEF ReserveFits, Active
  <2>3. HalfOK(c) /\ Open(c) /\ c \in Half
    BY <1>3, <2>1, ReserveHereOK DEF HalfOK
  <2>4. c.pos = buffers[toggle].pos + HeadSize
    BY <2>1 DEF ReserveHere
  <2>5. c.pos < size
    BY <1>3, <2>2, <2>4, RealLenBounds
  <2>6. buffers'[toggle] = c /\ \A i \in Halves : i # toggle => buffers'[i] = buffers[i]
    BY <1>3, <2>2
  <2>7. SizeInv'
    BY <1>1, <2>2, <2>5, <2>6 DEF LInv, SizeInv
  <2>8. HistoryKept'
    BY <1>3, <2>2, <2>6, HalvesFacts DEF LInv, HistoryKept, Older
  <2> QED BY <1>3, <2>2, <2>3, <2>6, <2>7, <2>8
<1>9. CASE ReserveToggles(len)
  <2>1. PICK c, j : c = ReserveAnew /\ j = Other(toggle)
    OBVIOUS
  <2>2. /\ alloced /\ toggle' = j /\ buffers' = [buffers EXCEPT ![j] = c]
        /\ buffers[toggle].pos + RealLen(len) >= size
    BY <1>9, <2>1 DEF ReserveToggles, Active
  <2>3. HalfOK(c) /\ Open(c) /\ c \in Half
    BY <1>3, <2>1, ReserveAnewOK DEF HalfOK
  <2>4. j \in Halves /\ j # toggle /\ Other(j) = toggle
    BY <1>3, <2>1, HalvesFacts
  <2>5. buffers'[j] = c /\ \A i \in Halves : i # j => buffers'[i] = buffers[i]
    BY <1>3, <2>2, <2>4
  <2>6. size = BufSize
    BY <2>2 DEF LInv, SizeInv
  <2>7. SizeInv'
    <3>1. c.pos < size
      BY <2>1, <2>6 DEF ReserveAnew
    <3> QED BY <1>1, <2>2, <2>5, <3>1 DEF LInv, SizeInv
  <2>8. HistoryKept'
    <3>1. Older' = buffers[toggle]
      BY <1>3, <2>2, <2>4, <2>5 DEF Older
    <3>2. buffers[toggle].pos + HeadSize + Word > BufSize
      BY SMTT(40), <1>3, <2>2, <2>6, RealLenBounds
    <3> QED BY <3>1, <3>2 DEF HistoryKept
  <2> QED BY <1>3, <2>2, <2>3, <2>4, <2>5, <2>7, <2>8
<1> QED BY <1>2, <1>7, <1>8, <1>9

\* write leaves the record of w open, in the same half.
LEMMA WriteStep == ASSUME LInv, NEW w \in Writers, Write(w) PROVE LInv'
<1>1. /\ UNCHANGED <<size, alloced, toggle, product, seq, spin, wpc>>
      /\ todo' = [todo EXCEPT ![w].parts = Tail(@)]
      /\ wpc[w] = "write" /\ todo[w].parts # <<>>
  BY DEF Write
<1>2. /\ spin = w /\ size \in Nat /\ toggle \in Halves /\ buffers \in [Halves -> Half]
      /\ todo[w] \in [len : Nat, parts : Seq(Nat)]
  BY <1>1, HolderFacts
<1>3. Head(todo[w].parts) \in Nat /\ Tail(todo[w].parts) \in Seq(Nat)
  BY <1>1, <1>2, HeadTailProperties
<1>4. WritersTyped' /\ DumpersTyped'
  <2>1. todo' \in [Writers -> [len : Nat, parts : Seq(Nat)]]
    BY <1>1, <1>3 DEF LInv, TypeOK, WritersTyped
  <2> QED BY <1>1, <2>1 DEF LInv, TypeOK, WritersTyped, DumpersTyped, Write, dumperVars
<1>5. LockInv' /\ ProductTiled'
  BY <1>1 DEF LInv, LockInv, ProductTiled
<1>6. CASE ~alloced
  <2>1. buffers' = buffers
    BY <1>6 DEF Write
  <2>2. MemoryTyped' /\ OpenInv' /\ SizeInv' /\ HistoryKept'
    BY <1>1, <2>1 DEF LInv, TypeOK, MemoryTyped, OpenInv, SizeInv, HistoryKept, Older
  <2> QED BY <1>4, <1>5, <2>1, <2>2 DEF LInv, TypeOK
<1>7. CASE alloced
  <2>1. PICK b, c : b = buffers[toggle] /\ c = WriteInto(b, Head(todo[w].parts))
    OBVIOUS
  <2>2. buffers' = [buffers EXCEPT ![toggle] = c]
    BY <1>7, <2>1 DEF Write
  <2>3. HalfOK(b) /\ Open(b) /\ b.pos < size /\ b.pos \in Nat
    <3>1. HalfOK(b) /\ Open(b) /\ b.pos < size
      BY <1>1, <1>2, <1>7, <2>1 DEF LInv, OpenInv, SizeInv
    <3> QED BY <3>1, HalfFacts DEF HalfOK
  <2>4. HalfOK(c) /\ Open(c) /\ c.pos < size /\ b.pos <= c.pos /\ c \in Half
    BY <1>2, <1>3, <2>1, <2>3, WriteOK DEF HalfOK
  <2>5. buffers'[toggle] = c /\ \A i \in Halves : i # toggle => buffers'[i] = buffers[i]
    BY <1>2, <2>2
  <2>6. MemoryTyped'
    BY <1>1, <1>2, <2>2, <2>4 DEF LInv, TypeOK, MemoryTyped
  <2>7. OpenInv'
    BY <1>1, <1>2, <1>7, <2>4, <2>5, HolderFacts DEF OpenInv
  <2>8. SizeInv'
    BY <1>1, <1>7, <2>4, <2>5 DEF LInv, SizeInv
  <2>9. HistoryKept'
    BY <1>1, <1>2, <2>5, HalvesFacts DEF LInv, HistoryKept, Older
  <2>10. \A i \in Halves : HalfOK(buffers'[i])
    BY <2>4, <2>5 DEF LInv
  <2> QED BY <1>4, <1>5, <2>6, <2>7, <2>8, <2>9, <2>10 DEF LInv, TypeOK
<1>8. alloced \in BOOLEAN
  BY <1>1, HolderFacts
<1> QED BY <1>6, <1>7, <1>8

\* seal always succeeds on an allocated buffer, and leaves no open record.
LEMMA SealStep == ASSUME LInv, NEW w \in Writers, Seal(w) PROVE LInv'
<1>1. /\ UNCHANGED <<size, alloced, toggle, product, spin, todo>>
      /\ wpc' = [wpc EXCEPT ![w] = "unlock"] /\ wpc[w] = "write"
  BY DEF Seal
<1>2. /\ spin = w /\ \A v \in Writers \ {w} : wpc[v] = "idle"
      /\ size \in Nat /\ seq \in Nat /\ toggle \in Halves /\ buffers \in [Halves -> Half]
      /\ wpc \in [Writers -> {"idle", "reserve", "write", "unlock"}]
  BY <1>1, HolderFacts
<1>3. wpc'[w] = "unlock" /\ \A v \in Writers : wpc'[v] # "write"
  BY <1>1, <1>2
<1>4. LockInv' /\ ProductTiled' /\ DumpersTyped'
  BY <1>1, <1>2, <1>3 DEF LInv, LockInv, ProductTiled, TypeOK, DumpersTyped, Seal, dumperVars
<1>5. WritersTyped'
  <2>1. seq' \in Nat
    BY <1>2 DEF Seal
  <2> QED BY <1>1, <2>1 DEF LInv, TypeOK, WritersTyped
<1>6. CASE ~alloced
  <2>1. buffers' = buffers
    BY <1>6 DEF Seal, CanSeal
  <2>2. \A i \in Halves : AllSealed(buffers'[i].recs)
    BY <1>6, <2>1 DEF LInv, SizeInv
  <2>3. MemoryTyped' /\ OpenInv' /\ SizeInv' /\ HistoryKept'
    BY <1>1, <1>3, <2>1, <2>2 DEF LInv, TypeOK, MemoryTyped, OpenInv, SizeInv, HistoryKept, Older
  <2> QED BY <1>4, <1>5, <2>1, <2>3 DEF LInv, TypeOK
<1>7. CASE alloced
  <2>1. PICK b, c : b = buffers[toggle] /\ c = Closed(b)
    OBVIOUS
  <2>2. HalfOK(b) /\ Open(b) /\ b.pos < size
    BY <1>1, <1>2, <1>7, <2>1 DEF LInv, OpenInv, SizeInv
  <2>3. CanSeal
    <3>1. b.head \in Nat /\ b.head + HeadSize <= b.pos /\ b.pos \in Nat
      BY <2>2, OpenFacts, HalfFacts DEF HalfOK
    <3> QED BY <1>2, <1>7, <2>1, <2>2, <3>1 DEF CanSeal, Active
  <2>4. buffers' = [buffers EXCEPT ![toggle] = c]
    BY <2>1, <2>3 DEF Seal
  <2>5. HalfOK(c) /\ AllSealed(c.recs) /\ c.pos = b.pos /\ c \in Half
    BY <2>1, <2>2, ClosedOK DEF HalfOK
  <2>6. buffers'[toggle] = c /\ \A i \in Halves : i # toggle => buffers'[i] = buffers[i]
    BY <1>2, <2>4
  <2>7. MemoryTyped'
    BY <1>1, <1>2, <2>4, <2>5 DEF LInv, TypeOK, MemoryTyped
  <2>8. \A i \in Halves : HalfOK(buffers'[i]) /\ AllSealed(buffers'[i].recs)
    BY <1>1, <2>5, <2>6, HolderFacts DEF LInv
  <2>9. OpenInv'
    BY <1>3, <2>8 DEF OpenInv
  <2>10. SizeInv'
    BY <1>1, <1>7, <2>1, <2>2, <2>5, <2>6 DEF LInv, SizeInv
  <2>11. HistoryKept'
    BY <1>1, <1>2, <2>6, HalvesFacts DEF LInv, HistoryKept, Older
  <2> QED BY <1>4, <1>5, <2>7, <2>8, <2>9, <2>10, <2>11 DEF LInv, TypeOK
<1>8. alloced \in BOOLEAN
  BY <1>1, HolderFacts
<1> QED BY <1>6, <1>7, <1>8

\* A free spin lock: no context is in its critical section.
LEMMA FreeFacts ==
  ASSUME LInv, spin = Nobody
  PROVE  /\ \A w \in Writers : wpc[w] = "idle"
         /\ \A i \in Halves : AllSealed(buffers[i].recs)
<1>1. \A w \in Writers : wpc[w] = "idle"
  BY DEF LInv, LockInv
<1> QED BY <1>1 DEF LInv, OpenInv

\* discard empties both halves under the spin lock.
LEMMA DiscardStep == ASSUME LInv, Discard PROVE LInv'
<1>1. /\ UNCHANGED <<size, alloced, product, spin, wpc>> /\ toggle' = 0 /\ alloced
      /\ buffers' = [i \in Halves |-> [pos |-> 0, head |-> buffers[i].head, recs |-> <<>>]]
  BY DEF Discard, writerVars
<1>2. \A w \in Writers : wpc[w] = "idle"
  BY FreeFacts DEF Discard
<1>3. ASSUME NEW i \in Halves
      PROVE  /\ buffers'[i] \in Half /\ buffers'[i].pos = 0 /\ buffers'[i].recs = <<>>
             /\ HalfOK(buffers'[i]) /\ AllSealed(buffers'[i].recs)
  <2>1. buffers[i] \in Half
    BY DEF LInv, HalfOK
  <2>2. buffers'[i] \in Half /\ buffers'[i].pos = 0 /\ buffers'[i].recs = <<>>
    <3>1. buffers'[i] = [pos |-> 0, head |-> buffers[i].head, recs |-> <<>>]
      BY <1>1
    <3>2. <<>> \in Seq(Record) /\ buffers[i].head \in Nat \cup {NoHead}
      BY <2>1 DEF Half
    <3> QED BY <3>1, <3>2 DEF Half
  <2>3. Len(buffers'[i].recs) = 0
    BY <2>2
  <2> QED BY <2>2, <2>3 DEF HalfOK, Tiles, Placed, AllSealed
<1>4. buffers' \in [Halves -> Half] /\ toggle' \in Halves
  BY <1>1, <1>3, HalvesFacts
<1>5. TypeOK'
  <2>1. MemoryTyped'
    BY <1>1, <1>4 DEF LInv, TypeOK, MemoryTyped
  <2>2. WritersTyped' /\ DumpersTyped'
    BY DEF LInv, TypeOK, WritersTyped, DumpersTyped, Discard, writerVars, dumperVars
  <2> QED BY <2>1, <2>2 DEF TypeOK
<1>6. SizeInv'
  <2>1. alloced => size = BufSize /\ BufSize > 0
    BY DEF LInv, SizeInv
  <2> QED BY <1>1, <1>3, <2>1 DEF LInv, SizeInv
<1>7. OpenInv' /\ LockInv' /\ ProductTiled'
  BY <1>1, <1>2, <1>3 DEF LInv, OpenInv, LockInv, ProductTiled
<1>8. HistoryKept'
  BY <1>3, <1>4, HalvesFacts DEF HistoryKept, Older
<1> QED BY <1>3, <1>5, <1>6, <1>7, <1>8 DEF LInv

\* backup moves two tiled halves without an open record to the product.
LEMMA BackupStep == ASSUME LInv, NEW d \in Dumpers, Backup(d) PROVE LInv'
<1>1. /\ UNCHANGED <<size, alloced, spin, wpc, todo, seq>> /\ toggle' = 0
      /\ buffers' = [i \in Halves |-> EmptyHalf]
      /\ product' = Collect(Older, Active) /\ snap' = [snap EXCEPT ![d] = product'.recs]
  BY DEF Backup, writerVars, Emptied
<1>2. spin = Nobody
  BY DEF Backup, MayBackup
<1>3. /\ HalfOK(Older) /\ HalfOK(Active) /\ AllSealed(Older.recs) /\ AllSealed(Active.recs)
      /\ Older.pos \in Nat /\ Active.pos \in Nat /\ Older.pos <= BufSize /\ Active.pos <= BufSize
  <2>1. toggle \in Halves /\ Other(toggle) \in Halves
    BY HalvesFacts DEF LInv, TypeOK, MemoryTyped
  <2>2. \A i \in Halves : HalfOK(buffers[i]) /\ AllSealed(buffers[i].recs) /\ buffers[i].pos \in Nat
    BY <1>2, FreeFacts, HalfFacts DEF LInv, HalfOK
  <2>3. \A i \in Halves : buffers[i].pos <= BufSize
    <3>1. CASE alloced
      BY <2>2, <3>1 DEF LInv, SizeInv
    <3>2. CASE ~alloced
      BY <2>2, <3>2 DEF LInv, SizeInv
    <3> QED BY <3>1, <3>2
  <2> QED BY <2>1, <2>2, <2>3 DEF Older, Active
<1>4. /\ product'.len = Older.pos + Active.pos /\ product'.recs \in Seq(Record)
      /\ Tiles(product'.recs, product'.len) /\ AllSealed(product'.recs)
      /\ product' = [len |-> product'.len, recs |-> product'.recs]
  BY <1>1, <1>3, CollectOK
<1>5. ProductTiled'
  BY <1>4, LenProperties DEF ProductTiled, AllSealed
<1>6. TypeOK'
  <2>1. product'.len \in Nat
    BY <1>3, <1>4
  <2>2. MemoryTyped'
    <3>1. product' \in [len : Nat, recs : Seq(Record)]
      BY <1>4, <2>1
    <3> QED BY <1>1, <3>1, EmptiedHalves DEF LInv, TypeOK, MemoryTyped
  <2>3. DumpersTyped'
    <3>1. snap' \in [Dumpers -> Seq(Record)]
      BY <1>1, <1>4 DEF LInv, TypeOK, DumpersTyped
    <3> QED BY <3>1 DEF LInv, TypeOK, DumpersTyped, Backup
  <2>4. WritersTyped'
    BY <1>1 DEF LInv, TypeOK, WritersTyped
  <2> QED BY <2>2, <2>3, <2>4 DEF TypeOK
<1>7. SizeInv'
  <2>1. product'.len <= 2 * BufSize
    BY <1>3, <1>4
  <2>2. alloced => size = BufSize /\ BufSize > 0
    BY DEF LInv, SizeInv
  <2> QED BY <1>1, <2>1, <2>2, EmptiedHalves DEF LInv, SizeInv
<1>8. OpenInv' /\ LockInv'
  BY <1>1, <1>2, FreeFacts, EmptiedHalves DEF LInv, OpenInv, LockInv
<1> QED BY <1>1, <1>5, <1>6, <1>7, <1>8, EmptiedHalves DEF LInv

\* The steps of a report outside backup change only its own variables.
LEMMA DumpStep ==
  ASSUME LInv, NEW d \in Dumpers,
         \/ DumpStart(d) \/ DumpLock(d) \/ DumpUnlock(d)
         \/ DumpLength(d) \/ DumpCopy(d) \/ Walk(d)
  PROVE  LInv'
<1>1. UNCHANGED <<memory, spin, wpc, todo, seq>>
  BY DEF DumpStart, DumpLock, DumpUnlock, DumpLength, DumpCopy, Walk, writerVars
<1>2. MemoryTyped' /\ WritersTyped'
  BY <1>1 DEF LInv, TypeOK, MemoryTyped, WritersTyped, memory
<1>3. DumpersTyped
  BY DEF LInv, TypeOK
<1>4. product.len \in Nat /\ product.recs \in Seq(Record)
  BY DEF LInv, TypeOK, MemoryTyped
<1>5. DumpersTyped'
  <2>1. CASE DumpStart(d)
    <3>1. <<>> \in Seq(Record) /\ (IF alloced THEN "mutex" ELSE "length") \in {"mutex", "length"}
      OBVIOUS
    <3>2. dpc' \in [Dumpers -> {"idle", "mutex", "backup", "release", "length", "copy", "walk"}]
      BY <1>3, <2>1, <3>1 DEF DumpersTyped, DumpStart
    <3>3. snap' \in [Dumpers -> Seq(Record)] /\ out' \in [Dumpers -> Seq(Record)]
      BY <1>3, <2>1, <3>1 DEF DumpersTyped, DumpStart
    <3> QED BY <1>3, <2>1, <3>2, <3>3 DEF DumpersTyped, DumpStart
  <2>5. CASE DumpLock(d) \/ DumpUnlock(d)
    BY <1>3, <2>5 DEF DumpersTyped, DumpLock, DumpUnlock, AfterBackup
  <2>2. CASE DumpLength(d)
    BY <1>3, <1>4, <2>2 DEF DumpersTyped, DumpLength
  <2>3. CASE DumpCopy(d)
    BY <1>3, <1>4, <2>3 DEF DumpersTyped, DumpCopy
  <2>4. CASE Walk(d)
    <3>1. out[d] \in Seq(Record)
      BY <1>3 DEF DumpersTyped
    <3>2. \A i \in Walked(out[d], dlen[d]) : out[d][i].id \in Nat
      BY <3>1, RecordFacts DEF Walked
    <3>3. delivered' \subseteq Nat
      BY ZenonT(40), <1>3, <2>4, <3>2 DEF DumpersTyped, Walk
    <3> QED BY <1>3, <2>4, <3>3 DEF DumpersTyped, Walk
  <2> QED BY <2>1, <2>2, <2>3, <2>4, <2>5
<1> QED BY <1>1, <1>2, <1>5, Frame DEF TypeOK

\* Every step of every context keeps the invariant.
THEOREM LInvStep == LInv /\ [Next]_vars => LInv'
<1> SUFFICES ASSUME LInv, [Next]_vars PROVE LInv'
  OBVIOUS
<1>1. CASE Alloc \/ Destroy \/ InitBuffer \/ Discard
  BY <1>1, AllocStep, DestroyStep, InitBufferStep, DiscardStep
<1>2. ASSUME NEW w \in Writers, Writer(w) PROVE LInv'
  BY <1>2, LockStep, ReserveStep, WriteStep, SealStep, UnlockStep DEF Writer
<1>3. ASSUME NEW d \in Dumpers, Dump(d) PROVE LInv'
  BY <1>3, BackupStep, DumpStep DEF Dump
<1>4. CASE UNCHANGED vars
  <2>1. UNCHANGED <<memory, spin, wpc>>
    BY <1>4 DEF vars, memory
  <2>2. TypeOK'
    BY <1>4 DEF LInv, TypeOK, MemoryTyped, WritersTyped, DumpersTyped, vars
  <2> QED BY <2>1, <2>2, Frame
<1> QED BY <1>1, <1>2, <1>3, <1>4 DEF Next

\* The invariant holds in every state of every behaviour.
THEOREM Inductive == Spec => []LInv
BY LInvInit, LInvStep, PTL DEF Spec

-----------------------------------------------------------------------------
(* What the invariant gives.                                               *)

\* Every variable stays in its type; no length a seal stores is negative.
THEOREM TypeCorrect == Spec => []TypeOK
<1>1. LInv => TypeOK
  BY DEF LInv
<1> QED BY <1>1, Inductive, PTL

\* Each half is at all times a chain of headers that a reader can follow.
THEOREM HalvesAlwaysTiled == Spec => []HalvesTiled
<1>1. LInv => HalvesTiled
  BY DEF LInv, HalfOK, HalvesTiled
<1> QED BY <1>1, Inductive, PTL

\* Open records only under the spin lock, between reserve and seal.
THEOREM OpenUnderLock == Spec => []OpenOnlyUnderLock
<1>1. ASSUME LInv PROVE OpenOnlyUnderLock
  <2>1. \A i \in Halves : DOMAIN buffers[i].recs = 1..Len(buffers[i].recs)
    BY <1>1, HalfFacts DEF LInv, HalfOK
  <2> QED BY <1>1, <2>1 DEF LInv, OpenInv, AllSealed, OpenOnlyUnderLock
<1> QED BY <1>1, Inductive, PTL

\* What a report copies is a chain of sealed records from 0 to product.len.
THEOREM ProductAlwaysTiled == Spec => []ProductTiled
<1>1. LInv => ProductTiled
  BY DEF LInv
<1> QED BY <1>1, Inductive, PTL

\* Nothing is copied or written beyond the end of its area.
THEOREM AlwaysFits == Spec => []Fits
<1>1. LInv => Fits
  BY DEF LInv, SizeInv, Fits
<1> QED BY <1>1, Inductive, PTL

\* Old records are dropped only when a nearly full half of newer data is kept.
THEOREM HistoryAlwaysKept == Spec => []HistoryKept
<1>1. LInv => HistoryKept
  BY DEF LInv
<1> QED BY <1>1, Inductive, PTL

-----------------------------------------------------------------------------
(* What a step does to the records' ids.  The refinement and the reports    *)
(* look at a record's id and at whether it is sealed, at nothing else.      *)

SameIds(s, t) ==
  /\ Len(s) = Len(t)
  /\ \A k \in 1..Len(s) : s[k].id = t[k].id /\ s[k].sealed = t[k].sealed

\* Most steps keep ids, seals and numbering as they are.
IdsKept ==
  /\ toggle' = toggle /\ seq' = seq
  /\ \A i \in Halves : SameIds(buffers[i].recs, buffers'[i].recs)

\* reserve puts an open header behind the sealed records of the active half, ...
HeaderAdded ==
  /\ toggle' = toggle /\ seq' = seq
  /\ \A i \in Halves : AllSealed(buffers[i].recs)
  /\ \E r \in Record : /\ r.id = seq + 1 /\ ~r.sealed
                       /\ buffers'[toggle].recs = Append(buffers[toggle].recs, r)
  /\ \A i \in Halves : i # toggle => buffers'[i].recs = buffers[i].recs

\* ... or is the first of the other half, whose records are forgotten.
HalfReused ==
  /\ toggle' = Other(toggle) /\ seq' = seq
  /\ \A i \in Halves : AllSealed(buffers[i].recs)
  /\ \E r \in Record : r.id = seq + 1 /\ ~r.sealed /\ buffers'[toggle'].recs = <<r>>
  /\ buffers'[toggle].recs = buffers[toggle].recs

\* seal closes the open record.
RecordSealed ==
  /\ toggle' = toggle /\ seq' = seq + 1
  /\ buffers[toggle].recs # <<>> /\ ~buffers[toggle].recs[Len(buffers[toggle].recs)].sealed
  /\ \A k \in 1..(Len(buffers[toggle].recs) - 1) : buffers[toggle].recs[k].sealed
  /\ Len(buffers'[toggle].recs) = Len(buffers[toggle].recs)
  /\ \A k \in 1..Len(buffers[toggle].recs) :
       buffers'[toggle].recs[k].id = buffers[toggle].recs[k].id
  /\ AllSealed(buffers'[toggle].recs)
  /\ \A i \in Halves : i # toggle => buffers'[i].recs = buffers[i].recs /\ AllSealed(buffers[i].recs)

\* discard, backup and destroy leave no record.
RecordsGone ==
  /\ seq' = seq
  /\ \A i \in Halves : AllSealed(buffers[i].recs) /\ buffers'[i].recs = <<>>

\* A write changes neither ids nor seals.
LEMMA WriteIds ==
  ASSUME NEW b, b \in Half, NEW len \in Nat
  PROVE  SameIds(b.recs, WriteInto(b, len).recs)
<1>1. b.recs \in Seq(Record) /\ DOMAIN b.recs = 1..Len(b.recs) /\ Len(b.recs) \in Nat
  BY HalfFacts
<1>2. CASE len < size - b.pos
  <2>1. WriteInto(b, len).recs = b.recs
    BY <1>2 DEF WriteInto, Stored, Half
  <2> QED BY <2>1 DEF SameIds
<1>3. CASE ~(len < size - b.pos)
  <2> DEFINE g == [i \in DOMAIN b.recs |->
        IF b.recs[i].sealed THEN b.recs[i] ELSE [b.recs[i] EXCEPT !.whole = FALSE]]
  <2>1. PICK t : t = g
    OBVIOUS
  <2>2. ASSUME NEW i \in 1..Len(b.recs)
        PROVE  t[i] \in Record /\ t[i].id = b.recs[i].id /\ t[i].sealed = b.recs[i].sealed
    <3>1. b.recs[i] \in Record /\ i \in DOMAIN b.recs
      BY <1>1, ElementOfSeq
    <3>2. \A r \in Record : /\ [r EXCEPT !.whole = FALSE] \in Record
                             /\ [r EXCEPT !.whole = FALSE].id = r.id
                             /\ [r EXCEPT !.whole = FALSE].sealed = r.sealed
      BY DEF Record
    <3> QED BY <2>1, <3>1, <3>2
  <2>3. DOMAIN t = DOMAIN b.recs /\ t = [i \in DOMAIN b.recs |-> t[i]]
    BY <2>1
  <2>4. t \in Seq(Record) /\ Len(t) = Len(b.recs)
    BY <1>1, <2>2, <2>3, MapRecords
  <2>5. WriteInto(b, len) = [b EXCEPT !.recs = t]
    BY <1>3, <2>1 DEF WriteInto, LeftOut
  <2>6. WriteInto(b, len).recs = t
    BY <2>5 DEF Half
  <2> QED BY <2>2, <2>4, <2>6 DEF SameIds
<1> QED BY <1>2, <1>3

\* A seal changes no id.
LEMMA ClosedIds ==
  ASSUME NEW b, HalfOK(b), Open(b)
  PROVE  /\ Len(Closed(b).recs) = Len(b.recs)
         /\ \A k \in 1..Len(b.recs) : Closed(b).recs[k].id = b.recs[k].id
<1> DEFINE g == [i \in DOMAIN b.recs |->
      IF b.recs[i].at = b.head
        THEN [b.recs[i] EXCEPT !.sealed = TRUE, !.len = b.pos - b.head]
        ELSE b.recs[i]]
<1>1. PICK t : t = g
  OBVIOUS
<1>2. t = [i \in DOMAIN b.recs |-> t[i]] /\ DOMAIN t = DOMAIN b.recs
  BY <1>1
<1>3. Closed(b) = [b EXCEPT !.recs = t]
  BY <1>1 DEF Closed
<1>4. /\ b \in Half /\ b.recs \in Seq(Record) /\ DOMAIN b.recs = 1..Len(b.recs)
      /\ b.pos \in Nat /\ b.head \in Nat /\ b.head + HeadSize <= b.pos
  BY HalfFacts, OpenFacts DEF HalfOK
<1>5. ASSUME NEW k \in 1..Len(b.recs) PROVE t[k] \in Record /\ t[k].id = b.recs[k].id
  <2>1. PICK m : m = b.pos - b.head
    OBVIOUS
  <2>2. m \in Nat
    BY <1>4, <2>1
  <2>3. t[k] = b.recs[k] \/ t[k] = [b.recs[k] EXCEPT !.sealed = TRUE, !.len = m]
    BY <1>1, <1>4, <2>1
  <2>4. b.recs[k] \in Record
    BY <1>4, ElementOfSeq
  <2>5. \A r \in Record : /\ [r EXCEPT !.sealed = TRUE, !.len = m] \in Record
                           /\ [r EXCEPT !.sealed = TRUE, !.len = m].id = r.id
    BY <2>2 DEF Record
  <2> QED BY <2>3, <2>4, <2>5
<1> HIDE DEF g
<1>6. t \in Seq(Record) /\ Len(t) = Len(b.recs)
  BY <1>2, <1>4, <1>5, MapRecords
<1>7. Closed(b).recs = t
  BY <1>3, <1>4 DEF Half
<1> QED BY <1>5, <1>6, <1>7

\* The steps that touch no half.
LEMMA UntouchedIds ==
  ASSUME UNCHANGED <<buffers, toggle, seq>>
  PROVE  IdsKept
BY DEF IdsKept, SameIds

\* What reserve does to the ids.
LEMMA ReserveIds ==
  ASSUME LInv, NEW w \in Writers, Reserve(w)
  PROVE  IdsKept \/ HeaderAdded \/ HalfReused
<1>1. /\ seq' = seq /\ wpc[w] = "reserve"
      /\ ReserveNothing \/ ReserveFits(todo[w].len) \/ ReserveToggles(todo[w].len)
  BY DEF Reserve
<1>2. /\ seq \in Nat /\ toggle \in Halves /\ buffers \in [Halves -> Half]
      /\ \A i \in Halves : AllSealed(buffers[i].recs)
  BY <1>1, HolderFacts
<1>3. ASSUME NEW at \in Nat
      PROVE  NewRecord(at) \in Record /\ NewRecord(at).id = seq + 1 /\ ~NewRecord(at).sealed
  BY <1>2 DEF NewRecord, Record
<1>4. CASE ReserveNothing
  BY <1>1, <1>4, UntouchedIds DEF ReserveNothing
<1>5. CASE ReserveFits(todo[w].len)
  <2>1. PICK b : b = buffers[toggle]
    OBVIOUS
  <2>2. /\ toggle' = toggle /\ buffers'[toggle] = ReserveHere(b)
        /\ \A i \in Halves : i # toggle => buffers'[i] = buffers[i]
    BY <1>2, <1>5, <2>1 DEF ReserveFits
  <2>3. b.pos \in Nat
    BY <1>2, <2>1, HalfFacts
  <2>4. buffers'[toggle].recs = Append(b.recs, NewRecord(b.pos))
    BY <2>2 DEF ReserveHere
  <2> QED BY <1>1, <1>2, <1>3, <2>1, <2>2, <2>3, <2>4 DEF HeaderAdded
<1>6. CASE ReserveToggles(todo[w].len)
  <2>1. PICK j : j = Other(toggle)
    OBVIOUS
  <2>2. j \in Halves /\ j # toggle
    BY <1>2, <2>1, HalvesFacts
  <2>3. toggle' = j /\ buffers'[j] = ReserveAnew /\ buffers'[toggle] = buffers[toggle]
    BY <1>2, <1>6, <2>1, <2>2 DEF ReserveToggles
  <2>4. buffers'[toggle'].recs = <<NewRecord(0)>>
    BY <2>3 DEF ReserveAnew
  <2> QED BY <1>1, <1>2, <1>3, <2>1, <2>3, <2>4 DEF HalfReused
<1> QED BY <1>1, <1>4, <1>5, <1>6

\* What seal does to the ids.
LEMMA SealIds ==
  ASSUME LInv, NEW w \in Writers, Seal(w)
  PROVE  IdsKept \/ RecordSealed
<1>1. toggle' = toggle /\ wpc[w] = "write"
  BY DEF Seal
<1>2. /\ toggle \in Halves /\ buffers \in [Halves -> Half]
      /\ \A i \in Halves : i # toggle => AllSealed(buffers[i].recs)
  BY <1>1, HolderFacts
<1>3. CASE ~CanSeal
  BY <1>1, <1>3, UntouchedIds DEF Seal
<1>4. CASE CanSeal
  <2>1. PICK b : b = buffers[toggle]
    OBVIOUS
  <2>2. /\ seq' = seq + 1 /\ buffers'[toggle] = Closed(b)
        /\ \A i \in Halves : i # toggle => buffers'[i] = buffers[i]
    BY <1>2, <1>4, <2>1 DEF Seal
  <2>3. HalfOK(b) /\ Open(b)
    BY <1>1, <1>2, <1>4, <2>1 DEF LInv, OpenInv, CanSeal
  <2>4. /\ Len(Closed(b).recs) = Len(b.recs) /\ AllSealed(Closed(b).recs)
        /\ \A k \in 1..Len(b.recs) : Closed(b).recs[k].id = b.recs[k].id
    BY <2>3, ClosedIds, ClosedOK
  <2>5. \A k \in 1..(Len(b.recs) - 1) : b.recs[k].sealed
    <3>1. Len(b.recs) \in Nat \ {0} /\ Tiles(b.recs, b.pos)
      BY <2>3, OpenFacts DEF HalfOK
    <3> QED BY <3>1 DEF Tiles
  <2> QED BY <1>1, <1>2, <2>1, <2>2, <2>3, <2>4, <2>5 DEF RecordSealed, Open
<1> QED BY <1>3, <1>4

\* Each step does one of these five things.
LEMMA StepIds ==
  ASSUME LInv, [Next]_vars
  PROVE  IdsKept \/ HeaderAdded \/ HalfReused \/ RecordSealed \/ RecordsGone
<1>1. CASE Alloc \/ InitBuffer \/ UNCHANGED vars
  BY <1>1, UntouchedIds DEF Alloc, InitBuffer, vars, writerVars
<1>2. CASE Destroy
  <2>1. \A i \in Halves : AllSealed(buffers[i].recs)
    BY <1>2 DEF Destroy, LInv, OpenInv
  <2> QED BY <1>2, <2>1 DEF Destroy, RecordsGone, writerVars, EmptyHalf
<1>3. CASE Discard
  BY <1>3, FreeFacts DEF Discard, RecordsGone, writerVars
<1>4. ASSUME NEW w \in Writers, Writer(w)
      PROVE  IdsKept \/ HeaderAdded \/ HalfReused \/ RecordSealed
  <2>1. CASE Lock(w) \/ Unlock(w)
    BY <2>1, UntouchedIds DEF Lock, Unlock, memory
  <2>2. CASE Reserve(w)
    BY <2>2, ReserveIds
  <2>3. CASE Write(w)
    <3>1. /\ toggle' = toggle /\ seq' = seq /\ wpc[w] = "write" /\ todo[w].parts # <<>>
          /\ buffers' = IF alloced
                          THEN [buffers EXCEPT ![toggle] = WriteInto(@, Head(todo[w].parts))]
                          ELSE buffers
      BY <2>3 DEF Write
    <3>2. toggle \in Halves /\ buffers \in [Halves -> Half] /\ todo[w].parts \in Seq(Nat)
      BY <3>1, HolderFacts
    <3>3. Head(todo[w].parts) \in Nat
      BY <3>1, <3>2, HeadTailProperties
    <3>4. SameIds(buffers[toggle].recs, WriteInto(buffers[toggle], Head(todo[w].parts)).recs)
      BY <3>2, <3>3, WriteIds
    <3>5. \A i \in Halves : \/ buffers'[i] = buffers[i]
                            \/ i = toggle /\ buffers'[i] = WriteInto(buffers[toggle], Head(todo[w].parts))
      BY <3>1, <3>2
    <3> QED BY <3>1, <3>4, <3>5 DEF IdsKept, SameIds
  <2>4. CASE Seal(w)
    BY <2>4, SealIds
  <2> QED BY <1>4, <2>1, <2>2, <2>3, <2>4 DEF Writer
<1>5. ASSUME NEW d \in Dumpers, Dump(d)
      PROVE  IdsKept \/ RecordsGone
  <2>1. CASE Backup(d)
    BY <2>1, FreeFacts DEF Backup, MayBackup, RecordsGone, writerVars, Emptied, EmptyHalf
  <2>2. CASE ~Backup(d)
    <3>1. UNCHANGED <<buffers, toggle, seq>>
      BY <1>5, <2>2 DEF Dump, DumpStart, DumpLock, DumpUnlock, DumpLength, DumpCopy, Walk,
                        memory, writerVars
    <3> QED BY <3>1, UntouchedIds
  <2> QED BY <2>1, <2>2
<1> QED BY <1>1, <1>2, <1>3, <1>4, <1>5 DEF Next

-----------------------------------------------------------------------------
(* The buffer implements the record log.                                   *)

\* Sealed records have been numbered; the open one gets the next number.
Numbered(recs) ==
  \A k \in 1..Len(recs) :
    IF recs[k].sealed THEN recs[k].id <= seq ELSE recs[k].id = seq + 1
IdInv == \A i \in Halves : Numbered(buffers[i].recs)

\* What the type invariant says of the records of both halves.
LEMMA RecsFacts ==
  ASSUME LInv
  PROVE  /\ \A i \in Halves :
              /\ buffers[i].recs \in Seq(Record) /\ Len(buffers[i].recs) \in Nat
              /\ \A k \in 1..Len(buffers[i].recs) :
                   buffers[i].recs[k].id \in Nat /\ buffers[i].recs[k].sealed \in BOOLEAN
         /\ toggle \in Halves /\ seq \in Nat
<1>1. \A i \in Halves : buffers[i].recs \in Seq(Record)
  BY HalfFacts DEF LInv, HalfOK
<1>2. toggle \in Halves /\ seq \in Nat
  BY DEF LInv, TypeOK, MemoryTyped, WritersTyped
<1> QED BY <1>1, <1>2, RecordFacts

\* No step gives a record a number out of turn.
LEMMA IdStep == ASSUME LInv, LInv', IdInv, [Next]_vars PROVE IdInv'
<1>1. /\ toggle \in Halves /\ seq \in Nat /\ toggle' \in Halves
      /\ \A i \in Halves :
           /\ buffers[i].recs \in Seq(Record) /\ Len(buffers[i].recs) \in Nat
           /\ \A k \in 1..Len(buffers[i].recs) :
                buffers[i].recs[k].id \in Nat /\ buffers[i].recs[k].sealed \in BOOLEAN
  BY RecsFacts DEF LInv, TypeOK, MemoryTyped
<1>2. CASE IdsKept
  BY <1>2 DEF IdsKept, SameIds, IdInv, Numbered
<1>3. CASE HeaderAdded
  <2>1. PICK r \in Record : /\ r.id = seq + 1 /\ ~r.sealed
                            /\ buffers'[toggle].recs = Append(buffers[toggle].recs, r)
    BY <1>3 DEF HeaderAdded
  <2>2. PICK s : s = buffers[toggle].recs
    OBVIOUS
  <2>3. /\ Len(Append(s, r)) = Len(s) + 1 /\ Append(s, r)[Len(s) + 1] = r
        /\ \A k \in 1..Len(s) : Append(s, r)[k] = s[k]
    BY <1>1, <2>2, AppendProperties
  <2>4. \A k \in 1..Len(s) : IF s[k].sealed THEN s[k].id <= seq ELSE s[k].id = seq + 1
    BY <1>1, <2>2 DEF IdInv, Numbered
  <2>5. \A k \in 1..Len(Append(s, r)) :
          IF Append(s, r)[k].sealed THEN Append(s, r)[k].id <= seq
                                    ELSE Append(s, r)[k].id = seq + 1
    <3>1. ASSUME NEW k \in 1..Len(Append(s, r)) PROVE k \in 1..Len(s) \/ k = Len(s) + 1
      BY <1>1, <2>2, <2>3
    <3> QED BY <2>1, <2>3, <2>4, <3>1
  <2> QED BY <1>3, <2>1, <2>2, <2>5 DEF HeaderAdded, IdInv, Numbered
<1>4. CASE HalfReused
  <2>1. PICK r \in Record : r.id = seq + 1 /\ ~r.sealed /\ buffers'[toggle'].recs = <<r>>
    BY <1>4 DEF HalfReused
  <2>2. ASSUME NEW i \in Halves PROVE i = toggle \/ i = toggle'
    BY <1>1, <1>4, HalvesFacts DEF HalfReused
  <2>3. \A k \in 1..Len(buffers'[toggle].recs) :
          IF buffers'[toggle].recs[k].sealed THEN buffers'[toggle].recs[k].id <= seq
                                             ELSE buffers'[toggle].recs[k].id = seq + 1
    BY <1>1, <1>4 DEF HalfReused, IdInv, Numbered
  <2>4. Len(<<r>>) = 1 /\ <<r>>[1] = r
    OBVIOUS
  <2>5. \A k \in 1..Len(buffers'[toggle'].recs) :
          IF buffers'[toggle'].recs[k].sealed THEN buffers'[toggle'].recs[k].id <= seq
                                              ELSE buffers'[toggle'].recs[k].id = seq + 1
    BY <2>1, <2>4
  <2> QED BY <1>4, <2>2, <2>3, <2>5 DEF HalfReused, IdInv, Numbered
<1>5. CASE RecordSealed
  <2>1. PICK n : n = Len(buffers[toggle].recs)
    OBVIOUS
  <2>2. ASSUME NEW k \in 1..n
        PROVE  /\ buffers'[toggle].recs[k].id = buffers[toggle].recs[k].id
               /\ buffers[toggle].recs[k].id <= seq + 1
    <3>1. buffers'[toggle].recs[k].id = buffers[toggle].recs[k].id
      BY <1>5, <2>1 DEF RecordSealed
    <3>2. /\ buffers[toggle].recs[k].id \in Nat
          /\ IF buffers[toggle].recs[k].sealed THEN buffers[toggle].recs[k].id <= seq
                                               ELSE buffers[toggle].recs[k].id = seq + 1
      BY <1>1, <2>1 DEF IdInv, Numbered
    <3>3. buffers[toggle].recs[k].id <= seq + 1
      BY <1>1, <3>2
    <3> QED BY <3>1, <3>3
  <2>3. Len(buffers'[toggle].recs) = n
    BY <1>5, <2>1 DEF RecordSealed
  <2>4. ASSUME NEW i \in Halves, NEW k \in 1..Len(buffers'[i].recs)
        PROVE  buffers'[i].recs[k].id <= seq' /\ buffers'[i].recs[k].sealed
    <3>1. CASE i = toggle
      BY <1>5, <2>1, <2>2, <2>3, <2>4, <3>1 DEF RecordSealed, AllSealed
    <3>2. CASE i # toggle
      <4>1. buffers'[i].recs = buffers[i].recs /\ AllSealed(buffers[i].recs) /\ seq' = seq + 1
        BY <1>5, <3>2 DEF RecordSealed
      <4>2. buffers[i].recs[k].sealed /\ buffers[i].recs[k].id <= seq /\ buffers[i].recs[k].id \in Nat
        BY <1>1, <2>4, <4>1 DEF AllSealed, IdInv, Numbered
      <4> QED BY <1>1, <4>1, <4>2
    <3> QED BY <3>1, <3>2
  <2> QED BY <2>4 DEF IdInv, Numbered
<1>6. CASE RecordsGone
  <2>1. Len(<<>>) = 0
    OBVIOUS
  <2> QED BY <1>6, <2>1 DEF RecordsGone, IdInv, Numbered
<1> QED BY <1>2, <1>3, <1>4, <1>5, <1>6, StepIds

\* At all times the sealed records bear numbers up to seq, an open one the next.
THEOREM IdsInTurn == Spec => []IdInv
<1>1. Init => IdInv
  BY DEF Init, IdInv, Numbered, EmptyHalf
<1>2. LInv /\ LInv' /\ IdInv /\ [Next]_vars => IdInv'
  BY IdStep
<1> QED BY <1>1, <1>2, Inductive, PTL DEF Spec

\* The ids of a sequence of records.
LEMMA IdsFacts ==
  ASSUME NEW s \in Seq(Record)
  PROVE  /\ Ids(s) \in Seq(Nat) /\ Len(Ids(s)) = Len(s)
         /\ \A k \in 1..Len(s) : Ids(s)[k] = s[k].id
<1>1. DOMAIN s = 1..Len(s) /\ Len(s) \in Nat /\ \A k \in 1..Len(s) : s[k].id \in Nat
  BY RecordFacts
<1>2. Ids(s) \in [1..Len(s) -> Nat] /\ \A k \in 1..Len(s) : Ids(s)[k] = s[k].id
  BY <1>1 DEF Ids
<1> QED BY <1>1, <1>2, FunctionIsSeq

\* All records of a sequence but a last one that is open.
LEMMA SealedOfFacts ==
  ASSUME NEW a \in Seq(Record)
  PROVE  /\ SealedOf(a) \in Seq(Record) /\ Len(SealedOf(a)) \in Nat
         /\ Len(SealedOf(a)) = IF a # <<>> /\ ~a[Len(a)].sealed THEN Len(a) - 1 ELSE Len(a)
         /\ \A k \in 1..Len(SealedOf(a)) : SealedOf(a)[k] = a[k]
<1>1. Len(a) \in Nat /\ \A k \in 1..Len(a) : a[k] \in Record
  BY LenProperties, ElementOfSeq
<1>2. CASE a # <<>> /\ ~a[Len(a)].sealed
  <2>1. PICK n : n = Len(a) - 1
    OBVIOUS
  <2>2. n \in Nat /\ n < Len(a)
    BY <1>2, <2>1, EmptySeq
  <2>3. SealedOf(a) = SubSeq(a, 1, n)
    BY <1>2, <2>1 DEF SealedOf
  <2>4. /\ SubSeq(a, 1, n) \in Seq(Record)
        /\ Len(SubSeq(a, 1, n)) = IF 1 <= n THEN n - 1 + 1 ELSE 0
        /\ \A i \in 1..(n - 1 + 1) : SubSeq(a, 1, n)[i] = a[1 + i - 1]
    <3>1. \A i \in 1..n : a[i] \in Record
      BY <1>1, <2>2
    <3>2. 1 \in Int /\ n \in Int
      BY <2>2
    <3> QED BY <3>1, <3>2, SubSeqProperties
  <2>5. Len(SealedOf(a)) = n /\ \A k \in 1..n : SubSeq(a, 1, n)[k] = a[k]
    BY <2>2, <2>3, <2>4
  <2> QED BY <1>2, <2>1, <2>2, <2>3, <2>4, <2>5
<1>3. CASE ~(a # <<>> /\ ~a[Len(a)].sealed)
  BY <1>1, <1>3 DEF SealedOf
<1> QED BY <1>2, <1>3

\* What a report would return now: the ids of o, then those of a's sealed part.
LEMMA WindowFacts ==
  ASSUME NEW o \in Seq(Record), NEW a \in Seq(Record)
  PROVE  LET w == Ids(o \o SealedOf(a))
         IN /\ w \in Seq(Nat) /\ Len(o) \in Nat /\ Len(SealedOf(a)) \in Nat
            /\ Len(w) = Len(o) + Len(SealedOf(a))
            /\ \A k \in 1..Len(w) : w[k] = IF k <= Len(o) THEN o[k].id ELSE a[k - Len(o)].id
<1>1. PICK s, t, m, n : s = SealedOf(a) /\ t = o \o s /\ m = Len(o) /\ n = Len(s)
  OBVIOUS
<1>2. s \in Seq(Record) /\ n \in Nat /\ m \in Nat /\ \A k \in 1..n : s[k] = a[k]
  BY <1>1, SealedOfFacts, LenProperties
<1>3. /\ t \in Seq(Record) /\ Len(t) = m + n
      /\ \A k \in 1..(m + n) : t[k] = IF k <= m THEN o[k] ELSE s[k - m]
  BY <1>1, <1>2, ConcatProperties
<1>4. /\ Ids(t) \in Seq(Nat) /\ Len(Ids(t)) = m + n
      /\ \A k \in 1..(m + n) : Ids(t)[k] = t[k].id
  BY <1>3, IdsFacts
<1>5. ASSUME NEW k \in 1..(m + n)
      PROVE  Ids(t)[k] = IF k <= m THEN o[k].id ELSE a[k - m].id
  <2>1. CASE k <= m
    BY <1>3, <1>4, <2>1
  <2>2. CASE ~(k <= m)
    <3>1. k - m \in 1..n
      BY <1>2, <2>2
    <3> QED BY <1>2, <1>3, <1>4, <2>2, <3>1
  <2> QED BY <2>1, <2>2
<1> QED BY <1>1, <1>2, <1>4, <1>5

\* Ids and seals are all the window depends on.
LEMMA SameWindow ==
  ASSUME NEW o \in Seq(Record), NEW a \in Seq(Record),
         NEW p \in Seq(Record), NEW b \in Seq(Record), SameIds(o, p), SameIds(a, b)
  PROVE  Ids(p \o SealedOf(b)) = Ids(o \o SealedOf(a))
<1>1. PICK v, w : v = Ids(o \o SealedOf(a)) /\ w = Ids(p \o SealedOf(b))
  OBVIOUS
<1>2. Len(o) = Len(p) /\ Len(a) = Len(b) /\ Len(a) \in Nat /\ (a # <<>> <=> b # <<>>)
  <2>1. Len(a) = Len(b) /\ Len(a) \in Nat
    BY LenProperties DEF SameIds
  <2>2. (a # <<>> => Len(a) # 0) /\ (b # <<>> => Len(b) # 0) /\ Len(<<>>) = 0
    BY EmptySeq
  <2> QED BY <2>1, <2>2 DEF SameIds
<1>3. Len(SealedOf(a)) = Len(SealedOf(b))
  <2>1. CASE a = <<>>
    BY <1>2, <2>1, SealedOfFacts
  <2>2. CASE a # <<>>
    <3>1. Len(a) \in 1..Len(a)
      BY <1>2, <2>2, EmptySeq
    <3>2. a[Len(a)].sealed = b[Len(b)].sealed
      BY <1>2, <3>1 DEF SameIds
    <3> QED BY <1>2, <2>2, <3>2, SealedOfFacts
  <2> QED BY <2>1, <2>2
<1>4. /\ v \in Seq(Nat) /\ Len(v) = Len(o) + Len(SealedOf(a)) /\ Len(o) \in Nat
      /\ Len(SealedOf(a)) \in Nat
      /\ \A k \in 1..Len(v) : v[k] = IF k <= Len(o) THEN o[k].id ELSE a[k - Len(o)].id
  BY <1>1, WindowFacts
<1>5. /\ w \in Seq(Nat) /\ Len(w) = Len(p) + Len(SealedOf(b))
      /\ \A k \in 1..Len(w) : w[k] = IF k <= Len(p) THEN p[k].id ELSE b[k - Len(p)].id
  BY <1>1, WindowFacts
<1>6. Len(SealedOf(a)) <= Len(a)
  BY <1>2, SealedOfFacts
<1>7. ASSUME NEW k \in 1..Len(v) PROVE v[k] = w[k]
  <2>3. /\ k \in 1..Len(w) /\ Len(p) = Len(o)
        /\ v[k] = IF k <= Len(o) THEN o[k].id ELSE a[k - Len(o)].id
        /\ w[k] = IF k <= Len(p) THEN p[k].id ELSE b[k - Len(p)].id
    BY <1>2, <1>3, <1>4, <1>5, <1>7
  <2>1. CASE k <= Len(o)
    <3>1. k \in 1..Len(o)
      BY <1>4, <2>1
    <3> QED BY <2>1, <2>3, <3>1 DEF SameIds
  <2>2. CASE ~(k <= Len(o))
    <3>1. k - Len(o) \in 1..Len(a)
      BY <1>2, <1>4, <1>6, <2>2
    <3> QED BY <2>2, <2>3, <3>1 DEF SameIds
  <2> QED BY <2>1, <2>2
<1>8. v = w
  BY <1>2, <1>3, <1>4, <1>5, <1>7, SeqEqual
<1> QED BY <1>1, <1>8

\* Of sealed records SealedOf drops none, of sealed ones and an open one the last.
LEMMA AllSealedOf ==
  ASSUME NEW a \in Seq(Record), AllSealed(a)
  PROVE  /\ SealedOf(a) = a
         /\ \A r \in Record : ~r.sealed => SealedOf(Append(a, r)) = a
<1>1. SealedOf(a) = a
  <2>1. a # <<>> => Len(a) \in 1..Len(a)
    BY EmptySeq
  <2> QED BY <2>1 DEF SealedOf, AllSealed
<1>2. ASSUME NEW r \in Record, ~r.sealed PROVE SealedOf(Append(a, r)) = a
  <2>1. PICK b : b = Append(a, r)
    OBVIOUS
  <2>2. /\ b \in Seq(Record) /\ Len(b) = Len(a) + 1 /\ b[Len(a) + 1] = r /\ Len(a) \in Nat
        /\ \A k \in 1..Len(a) : b[k] = a[k]
    BY <2>1, AppendProperties, LenProperties
  <2>3. b # <<>> /\ ~b[Len(b)].sealed
    BY <1>2, <2>2, EmptySeq
  <2>4. /\ SealedOf(b) \in Seq(Record) /\ Len(SealedOf(b)) = Len(a)
        /\ \A k \in 1..Len(a) : SealedOf(b)[k] = a[k]
    BY SMTT(40), <2>2, <2>3, SealedOfFacts
  <2>5. SealedOf(b) = a
    BY <2>4, SeqEqual
  <2> QED BY <2>1, <2>5
<1> QED BY <1>1, <1>2

\* The records of o are forgotten when those of a sealed half become the older ones.
LEMMA WindowForgets ==
  ASSUME NEW o \in Seq(Record), NEW a \in Seq(Record), AllSealed(a),
         NEW r \in Record, ~r.sealed
  PROVE  LET w == Ids(o \o SealedOf(a))
             x == Ids(a \o SealedOf(<<r>>))
         IN /\ Len(o) = 0 => x = w
            /\ Len(o) # 0 => Len(o) \in 1..Len(w) /\ x = SubSeq(w, Len(o) + 1, Len(w))
<1>1. PICK w, x, m, n : /\ w = Ids(o \o SealedOf(a)) /\ x = Ids(a \o SealedOf(<<r>>))
                        /\ m = Len(o) /\ n = Len(a)
  OBVIOUS
<1>2. SealedOf(<<r>>) = <<>> /\ SealedOf(a) = a
  <2>1. <<>> \in Seq(Record) /\ AllSealed(<<>>) /\ Append(<<>>, r) = <<r>>
    BY DEF AllSealed
  <2>2. SealedOf(Append(<<>>, r)) = <<>>
    BY <2>1, AllSealedOf
  <2> QED BY <2>1, <2>2, AllSealedOf
<1>3. /\ m \in Nat /\ n \in Nat /\ w \in Seq(Nat) /\ Len(w) = m + n
      /\ \A k \in 1..(m + n) : w[k] = IF k <= m THEN o[k].id ELSE a[k - m].id
  <2>1. LET z == Ids(o \o SealedOf(a))
        IN /\ z \in Seq(Nat) /\ Len(o) \in Nat /\ Len(SealedOf(a)) \in Nat
           /\ Len(z) = Len(o) + Len(SealedOf(a))
           /\ \A k \in 1..Len(z) : z[k] = IF k <= Len(o) THEN o[k].id ELSE a[k - Len(o)].id
    BY WindowFacts
  <2> QED BY <1>1, <1>2, <2>1
<1>4. x \in Seq(Nat) /\ Len(x) = n /\ \A k \in 1..n : x[k] = a[k].id
  <2>1. a \o <<>> = a
    BY ConcatEmptySeq
  <2> QED BY ZenonT(40), <1>1, <1>2, <2>1, IdsFacts
<1>5. ASSUME NEW k \in 1..n PROVE w[m + k] = x[k]
  <2>1. m + k \in 1..(m + n) /\ ~(m + k <= m) /\ (m + k) - m = k
    BY <1>3
  <2> QED BY <1>3, <1>4, <2>1
<1>6. CASE m = 0
  <2>1. Len(x) = Len(w) /\ \A k \in 1..Len(x) : x[k] = w[k]
    BY <1>3, <1>4, <1>5, <1>6
  <2>2. x = w
    BY <1>3, <1>4, <2>1, SeqEqual
  <2> QED BY <1>1, <1>6, <2>2
<1>7. CASE m # 0
  <2>1. PICK y : y = SubSeq(w, m + 1, m + n)
    OBVIOUS
  <2>2. /\ y \in Seq(Nat) /\ Len(y) = IF m + 1 <= m + n THEN (m + n) - (m + 1) + 1 ELSE 0
        /\ \A k \in 1..((m + n) - (m + 1) + 1) : y[k] = w[m + 1 + k - 1]
    <3>1. \A k \in (m + 1)..(m + n) : w[k] \in Nat
      BY <1>3, ElementOfSeq
    <3>2. m + 1 \in Int /\ m + n \in Int
      BY <1>3
    <3> QED BY <2>1, <3>1, <3>2, SubSeqProperties
  <2>3. Len(y) = n /\ \A k \in 1..n : y[k] = w[m + k]
    BY <1>3, <2>2
  <2>4. y = x
    BY <1>4, <1>5, <2>2, <2>3, SeqEqual
  <2>5. m \in 1..Len(w)
    BY <1>3, <1>7
  <2> QED BY <1>1, <1>3, <1>7, <2>1, <2>4, <2>5
<1> QED BY <1>1, <1>6, <1>7

\* Sealing the open record appends its id.
LEMMA WindowGrows ==
  ASSUME NEW o \in Seq(Record), NEW a \in Seq(Record), NEW b \in Seq(Record),
         a # <<>>, ~a[Len(a)].sealed, Len(b) = Len(a),
         \A k \in 1..Len(a) : b[k].id = a[k].id, AllSealed(b)
  PROVE  Ids(o \o SealedOf(b)) = Append(Ids(o \o SealedOf(a)), a[Len(a)].id)
<1>1. PICK v, w, m, n : /\ v = Ids(o \o SealedOf(a)) /\ w = Ids(o \o SealedOf(b))
                        /\ m = Len(o) /\ n = Len(a)
  OBVIOUS
<1>2. n \in Nat \ {0} /\ a[n].id \in Nat
  <2>1. n \in Nat \ {0}
    BY <1>1, EmptySeq
  <2> QED BY <1>1, <2>1, RecordFacts
<1>3. Len(SealedOf(a)) = n - 1 /\ Len(SealedOf(b)) = n
  BY <1>1, SealedOfFacts, AllSealedOf
<1>4. /\ m \in Nat /\ v \in Seq(Nat) /\ Len(v) = m + (n - 1)
      /\ \A k \in 1..(m + (n - 1)) : v[k] = IF k <= m THEN o[k].id ELSE a[k - m].id
  <2>1. LET z == Ids(o \o SealedOf(a))
        IN /\ z \in Seq(Nat) /\ Len(o) \in Nat /\ Len(SealedOf(a)) \in Nat
           /\ Len(z) = Len(o) + Len(SealedOf(a))
           /\ \A k \in 1..Len(z) : z[k] = IF k <= Len(o) THEN o[k].id ELSE a[k - Len(o)].id
    BY WindowFacts
  <2> QED BY <1>1, <1>3, <2>1
<1>5. /\ w \in Seq(Nat) /\ Len(w) = m + n
      /\ \A k \in 1..(m + n) : w[k] = IF k <= m THEN o[k].id ELSE b[k - m].id
  <2>1. LET z == Ids(o \o SealedOf(b))
        IN /\ z \in Seq(Nat) /\ Len(o) \in Nat /\ Len(SealedOf(b)) \in Nat
           /\ Len(z) = Len(o) + Len(SealedOf(b))
           /\ \A k \in 1..Len(z) : z[k] = IF k <= Len(o) THEN o[k].id ELSE b[k - Len(o)].id
    BY WindowFacts
  <2> QED BY <1>1, <1>3, <2>1
<1>6. PICK x : x = Append(v, a[n].id)
  OBVIOUS
<1>7. /\ x \in Seq(Nat) /\ Len(x) = m + n /\ x[m + n] = a[n].id
      /\ \A k \in 1..(m + n - 1) : x[k] = v[k]
  <2>1. /\ x \in Seq(Nat) /\ Len(x) = Len(v) + 1 /\ x[Len(v) + 1] = a[n].id
        /\ \A k \in 1..Len(v) : x[k] = v[k]
    BY <1>2, <1>4, <1>6, AppendProperties
  <2>2. Len(v) + 1 = m + n /\ Len(v) = m + n - 1
    BY <1>2, <1>4
  <2> QED BY <2>1, <2>2
<1>8. ASSUME NEW k \in 1..(m + n) PROVE w[k] = x[k]
  <2>1. CASE k = m + n
    <3>1. ~(m + n <= m) /\ (m + n) - m = n /\ n \in 1..n
      BY <1>2, <1>4
    <3>2. w[m + n] = b[n].id
      BY <1>2, <1>4, <1>5, <3>1
    <3> QED BY <1>1, <1>7, <2>1, <3>1, <3>2
  <2>2. CASE k # m + n /\ k <= m
    <3>1. k \in 1..(m + n - 1) /\ k \in 1..(m + (n - 1))
      BY <1>2, <1>4, <2>2
    <3> QED BY <1>4, <1>5, <1>7, <2>2, <3>1
  <2>3. CASE k # m + n /\ ~(k <= m)
    <3>1. k \in 1..(m + n - 1) /\ k \in 1..(m + (n - 1)) /\ k - m \in 1..n
      BY <1>2, <1>4, <2>3
    <3> QED BY ZenonT(40), <1>1, <1>4, <1>5, <1>7, <2>3, <3>1
  <2> QED BY <2>1, <2>2, <2>3
<1>9. w = x
  BY <1>5, <1>7, <1>8, SeqEqual
<1> QED BY <1>1, <1>6, <1>9

\* backup takes what is pending: a copy that is moved keeps its id.
LEMMA CollectIds ==
  ASSUME NEW a, NEW b, HalfOK(a), HalfOK(b), AllSealed(b.recs)
  PROVE  Ids(Collect(a, b).recs) = Ids(a.recs \o SealedOf(b.recs))
<1>1. PICK x, y, p : x = a.recs /\ y = b.recs /\ p = a.pos
  OBVIOUS
<1>2. x \in Seq(Record) /\ y \in Seq(Record) /\ p \in Nat /\ DOMAIN y = 1..Len(y) /\ Len(y) \in Nat
  BY <1>1, HalfFacts DEF HalfOK
<1>3. PICK z : z = Shift(y, p)
  OBVIOUS
<1>4. z = [i \in DOMAIN y |-> z[i]] /\ DOMAIN z = DOMAIN y
  BY <1>3 DEF Shift
<1>5. ASSUME NEW k \in 1..Len(y)
      PROVE  z[k] \in Record /\ z[k].id = y[k].id /\ z[k].sealed = y[k].sealed
  <2>1. y[k] \in Record /\ k \in DOMAIN y
    BY <1>2, ElementOfSeq
  <2>2. PICK v : v = y[k].at + p
    OBVIOUS
  <2>3. z[k] = [y[k] EXCEPT !.at = v]
    BY <1>3, <2>1, <2>2 DEF Shift
  <2>4. v \in Nat
    BY <1>2, <2>1, <2>2 DEF Record
  <2> QED BY <2>1, <2>3, <2>4 DEF Record
<1>6. z \in Seq(Record) /\ Len(z) = Len(y)
  BY <1>2, <1>4, <1>5, MapRecords
<1>7. AllSealed(z) /\ SameIds(y, z) /\ SameIds(x, x)
  BY <1>1, <1>5, <1>6 DEF AllSealed, SameIds
<1>8. Ids(x \o SealedOf(z)) = Ids(x \o SealedOf(y))
  BY <1>2, <1>6, <1>7, SameWindow
<1>9. SealedOf(z) = z
  BY <1>6, <1>7, AllSealedOf
<1>10. Collect(a, b).recs = x \o z
  BY <1>1, <1>3 DEF Collect
<1> QED BY <1>1, <1>8, <1>9, <1>10

\* Each step is a step of the record log, or leaves the log as it is.
LEMMA LogStep ==
  ASSUME LInv, LInv', IdInv, [Next]_vars
  PROVE  [Log!Next]_(Log!vars)
<1>1. PICK o, a, w : o = Older.recs /\ a = Active.recs /\ w = Ids(Pending)
  OBVIOUS
<1>2. w = Ids(o \o SealedOf(a))
  BY <1>1 DEF Pending
<1>3. /\ toggle \in Halves /\ Other(toggle) \in Halves /\ Other(toggle) # toggle
      /\ o = buffers[Other(toggle)].recs /\ a = buffers[toggle].recs
      /\ o \in Seq(Record) /\ a \in Seq(Record) /\ Len(o) \in Nat
      /\ HalfOK(Older) /\ HalfOK(Active)
  BY <1>1, RecsFacts, HalvesFacts DEF Older, Active, LInv
<1>4. Ids(Pending)' = Ids(Older'.recs \o SealedOf(Active'.recs))
  BY DEF Pending, Ids
<1>5. /\ toggle' \in Halves /\ Other(toggle') \in Halves
      /\ Older'.recs = buffers'[Other(toggle')].recs /\ Active'.recs = buffers'[toggle'].recs
      /\ Older'.recs \in Seq(Record) /\ Active'.recs \in Seq(Record)
  <2>1. toggle' \in Halves /\ \A i \in Halves : HalfOK(buffers'[i])
    BY DEF LInv, TypeOK, MemoryTyped
  <2>2. \A i \in Halves : buffers'[i].recs \in Seq(Record)
    BY <2>1, HalfFacts DEF HalfOK
  <2> QED BY <2>1, <2>2, HalvesFacts DEF Older, Active
<1>6. w \in Seq(Nat) /\ Len(w) \in Nat
  BY <1>2, <1>3, WindowFacts, LenProperties
<1>7. RecordsGone => Ids(Pending)' = <<>> /\ seq' = seq
  <2>1. <<>> \in Seq(Record) /\ AllSealed(<<>>) /\ Len(<<>>) = 0
    BY DEF AllSealed
  <2>2. <<>> \o SealedOf(<<>>) = <<>>
    BY <2>1, AllSealedOf, ConcatEmptySeq
  <2>3. Ids(<<>>) = <<>>
    BY <2>1, IdsFacts, EmptySeq
  <2> QED BY <1>4, <1>5, <2>2, <2>3 DEF RecordsGone
<1>8. CASE \E d \in Dumpers : Backup(d)
  <2>1. PICK d \in Dumpers : Backup(d)
    BY <1>8
  <2>2. AllSealed(Active.recs) /\ RecordsGone
    BY <1>3, <2>1, FreeFacts
       DEF Backup, MayBackup, RecordsGone, writerVars, Emptied, EmptyHalf, Active
  <2>3. Ids(product'.recs) = w
    BY <1>1, <1>2, <1>3, <2>1, <2>2, CollectIds DEF Backup
  <2>4. Ids(product.recs)' = w
    BY <2>3 DEF Ids
  <2>5. Log!Drain
    BY <1>1, <1>7, <2>2, <2>4 DEF Log!Drain
  <2> QED BY <2>5 DEF Log!Next
<1>9. CASE Destroy
  <2>1. RecordsGone
    BY <1>9 DEF Destroy, RecordsGone, writerVars, EmptyHalf, LInv, OpenInv
  <2>2. product'.recs = <<>>
    BY <1>9 DEF Destroy, EmptyProduct
  <2>3. Ids(product.recs)' = <<>>
    <3>1. <<>> \in Seq(Record) /\ Len(<<>>) = 0
      OBVIOUS
    <3>2. Ids(<<>>) = <<>>
      BY <3>1, IdsFacts, EmptySeq
    <3> QED BY <2>2, <3>2 DEF Ids
  <2>4. Log!Reset
    BY <1>7, <2>1, <2>3 DEF Log!Reset
  <2> QED BY <2>4 DEF Log!Next
<1>10. CASE ~Destroy /\ \A d \in Dumpers : ~Backup(d)
  <2>1. product' = product
    BY <1>10 DEF Next, Alloc, InitBuffer, Discard, Writer, Lock, Reserve, Write, Seal, Unlock,
         Dump, DumpStart, DumpLock, DumpUnlock, DumpLength, DumpCopy, Walk, memory, vars
  <2>2. Ids(product.recs)' = Ids(product.recs)
    BY <2>1 DEF Ids
  <2>3. CASE IdsKept
    <3>1. SameIds(o, Older'.recs) /\ SameIds(a, Active'.recs) /\ seq' = seq
      BY <1>3, <1>5, <2>3 DEF IdsKept
    <3>2. Ids(Pending)' = w
      BY <1>2, <1>3, <1>4, <1>5, <3>1, SameWindow
    <3> QED BY <1>1, <2>2, <3>1, <3>2 DEF Log!vars
  <2>4. CASE HeaderAdded
    <3>1. PICK r \in Record : ~r.sealed /\ buffers'[toggle].recs = Append(a, r)
      BY <1>3, <2>4 DEF HeaderAdded
    <3>2. Older'.recs = o /\ Active'.recs = Append(a, r) /\ seq' = seq /\ AllSealed(a)
      BY <1>3, <1>5, <2>4, <3>1 DEF HeaderAdded
    <3>3. SealedOf(Append(a, r)) = SealedOf(a)
      BY <1>3, <3>1, <3>2, AllSealedOf
    <3>4. Ids(Pending)' = w
      BY <1>2, <1>4, <3>2, <3>3
    <3> QED BY <1>1, <2>2, <3>2, <3>4 DEF Log!vars
  <2>5. CASE HalfReused
    <3>1. PICK r \in Record : ~r.sealed /\ buffers'[toggle'].recs = <<r>>
      BY <2>5 DEF HalfReused
    <3>2. Older'.recs = a /\ Active'.recs = <<r>> /\ seq' = seq /\ AllSealed(a)
      BY <1>3, <1>5, <2>5, <3>1, HalvesFacts DEF HalfReused
    <3>3. /\ Len(o) = 0 => Ids(Pending)' = w
          /\ Len(o) # 0 => Len(o) \in 1..Len(w) /\ Ids(Pending)' = SubSeq(w, Len(o) + 1, Len(w))
      <4>1. LET v == Ids(o \o SealedOf(a))
                x == Ids(a \o SealedOf(<<r>>))
            IN /\ Len(o) = 0 => x = v
               /\ Len(o) # 0 => Len(o) \in 1..Len(v) /\ x = SubSeq(v, Len(o) + 1, Len(v))
        BY ZenonT(40), <1>3, <3>1, <3>2, WindowForgets
      <4>2. Ids(Pending)' = Ids(a \o SealedOf(<<r>>))
        BY <1>4, <3>2
      <4> QED BY <1>2, <4>1, <4>2
    <3>4. CASE Len(o) = 0
      BY <1>1, <2>2, <3>2, <3>3, <3>4 DEF Log!vars
    <3>5. CASE Len(o) # 0
      <4>1. Log!Forget
        BY <1>1, <2>2, <3>2, <3>3, <3>5 DEF Log!Forget
      <4> QED BY <4>1 DEF Log!Next
    <3> QED BY <3>4, <3>5
  <2>6. CASE RecordSealed
    <3>1. /\ Older'.recs = o /\ seq' = seq + 1
          /\ a # <<>> /\ ~a[Len(a)].sealed /\ Len(Active'.recs) = Len(a)
          /\ \A k \in 1..Len(a) : Active'.recs[k].id = a[k].id
          /\ AllSealed(Active'.recs)
      BY <1>3, <1>5, <2>6 DEF RecordSealed
    <3>2. Ids(Pending)' = Append(w, a[Len(a)].id)
      <4>1. PICK b : b = Active'.recs
        OBVIOUS
      <4>2. /\ b \in Seq(Record) /\ Len(b) = Len(a) /\ AllSealed(b)
            /\ \A k \in 1..Len(a) : b[k].id = a[k].id
        BY <1>5, <3>1, <4>1
      <4>3. Ids(o \o SealedOf(b)) = Append(Ids(o \o SealedOf(a)), a[Len(a)].id)
        BY <1>3, <3>1, <4>2, WindowGrows
      <4> QED BY <1>2, <1>4, <3>1, <4>1, <4>3
    <3>3. a[Len(a)].id = seq + 1
      <4>1. Len(a) \in 1..Len(a)
        BY <1>3, <3>1, EmptySeq
      <4> QED BY <1>3, <3>1, <4>1 DEF IdInv, Numbered
    <3>4. Log!Append1
      BY <1>1, <2>2, <3>1, <3>2, <3>3 DEF Log!Append1
    <3> QED BY <3>4 DEF Log!Next
  <2>7. CASE RecordsGone
    <3>1. CASE Len(w) = 0
      <4>1. w = <<>>
        BY <1>6, <3>1, EmptySeq
      <4> QED BY <1>1, <1>7, <2>2, <2>7, <4>1 DEF Log!vars
    <3>2. CASE Len(w) # 0
      <4>1. SubSeq(w, Len(w) + 1, Len(w)) = <<>>
        BY <1>6, SubSeqEmpty
      <4>2. Len(w) \in 1..Len(w)
        BY <1>6, <3>2
      <4>3. Log!Forget
        BY <1>1, <1>7, <2>2, <2>7, <4>1, <4>2 DEF Log!Forget
      <4> QED BY <4>3 DEF Log!Next
    <3> QED BY <3>1, <3>2
  <2> QED BY <2>3, <2>4, <2>5, <2>6, <2>7, StepIds
<1> QED BY <1>8, <1>9, <1>10

\* The buffer starts as the empty log.
LEMMA LogInit == Init => Log!Init
<1> SUFFICES ASSUME Init PROVE Log!Init
  OBVIOUS
<1>1. <<>> \in Seq(Record) /\ Len(<<>>) = 0 /\ AllSealed(<<>>)
  BY DEF AllSealed
<1>2. Ids(<<>>) = <<>> /\ <<>> \o SealedOf(<<>>) = <<>>
  BY <1>1, IdsFacts, EmptySeq, AllSealedOf, ConcatEmptySeq
<1>3. Older.recs = <<>> /\ Active.recs = <<>> /\ product.recs = <<>> /\ seq = 0
  BY HalvesFacts DEF Init, Older, Active, EmptyHalf, EmptyProduct
<1> QED BY <1>2, <1>3 DEF Log!Init, Pending

\* The two halves, their exchange and their emptying are a log: records come out
\* in the order of their seals, a report takes all that is pending, and what is
\* forgotten in between is always the oldest.
THEOREM RefinesRecordLog == Spec => ImplementsRecordLog
<1>1. LInv /\ LInv' /\ IdInv /\ [Next]_vars => [Log!Next]_(Log!vars)
  BY LogStep
<1> QED BY <1>1, LogInit, Inductive, IdsInTurn, PTL DEF Spec, ImplementsRecordLog, Log!Spec

-----------------------------------------------------------------------------
(* One report at a time.                                                   *)
(*                                                                         *)
(* backup lets both locks go before the product is copied out, so a second *)
(* report may overwrite it: what follows needs that there is no second one. *)

OneReport == \A d, e \in Dumpers : d = e

\* Where a report is after its backup and before it is done.
AfterBackupPlaces == {"release", "length", "copy", "walk"}

\* The product is what the report took, until it has walked through it.
RepInv ==
  /\ Placed(product.recs, product.len)
  /\ ~alloced => product = EmptyProduct
  /\ \A d \in Dumpers :
       /\ dpc[d] \in AfterBackupPlaces => snap[d] = product.recs
       /\ dpc[d] = "walk" => out[d] = product.recs

\* Headers stay apart when two halves are put one behind the other.
LEMMA CollectPlaced ==
  ASSUME NEW a, NEW b, HalfOK(a), HalfOK(b)
  PROVE  Placed(Collect(a, b).recs, Collect(a, b).len)
<1>1. PICK x, y, p, q, m, n :
        /\ x = a.recs /\ y = b.recs /\ p = a.pos /\ q = b.pos /\ m = Len(x) /\ n = Len(y)
  OBVIOUS
<1>2. /\ x \in Seq(Record) /\ y \in Seq(Record) /\ p \in Nat /\ q \in Nat
      /\ m \in Nat /\ n \in Nat /\ DOMAIN y = 1..n
  BY <1>1, HalfFacts DEF HalfOK
<1>3. PICK z : z = Shift(y, p)
  OBVIOUS
<1>4. z = [i \in DOMAIN y |-> z[i]] /\ DOMAIN z = DOMAIN y
  BY <1>3 DEF Shift
<1>5. ASSUME NEW k \in 1..n PROVE z[k] \in Record /\ z[k].at = y[k].at + p /\ y[k].at \in Nat
  <2>1. y[k] \in Record /\ k \in DOMAIN y
    BY <1>1, <1>2, ElementOfSeq
  <2>2. PICK v : v = y[k].at + p
    OBVIOUS
  <2>3. z[k] = [y[k] EXCEPT !.at = v]
    BY <1>3, <2>1, <2>2 DEF Shift
  <2>5. y[k].at \in Nat
    BY <2>1 DEF Record
  <2>4. v \in Nat
    BY <1>2, <2>2, <2>5
  <2> QED BY <2>1, <2>2, <2>3, <2>4 DEF Record
<1>6. z \in Seq(Record) /\ Len(z) = n
  BY <1>1, <1>2, <1>4, <1>5, MapRecords
<1>7. PICK r : r = x \o z
  OBVIOUS
<1>8. Len(r) = m + n /\ \A k \in 1..(m + n) : r[k] = IF k <= m THEN x[k] ELSE z[k - m]
  <2>1. /\ Len(x \o z) = Len(x) + Len(z)
        /\ \A k \in 1..(Len(x) + Len(z)) :
             (x \o z)[k] = IF k <= Len(x) THEN x[k] ELSE z[k - Len(x)]
    BY <1>2, <1>6, ConcatProperties, Zenon
  <2> QED BY <1>1, <1>6, <1>7, <2>1
<1>9. /\ \A k \in 1..m : x[k].at \in Nat /\ x[k].at + HeadSize <= p
      /\ \A j, k \in 1..m : j < k => x[j].at + HeadSize <= x[k].at
      /\ \A k \in 1..n : y[k].at \in Nat /\ y[k].at + HeadSize <= q
      /\ \A j, k \in 1..n : j < k => y[j].at + HeadSize <= y[k].at
  BY <1>1, <1>2, RecordFacts DEF HalfOK, Placed
<1>10. ASSUME NEW k \in 1..(m + n)
       PROVE  \/ k \in 1..m /\ r[k].at = x[k].at
              \/ k > m /\ k - m \in 1..n /\ r[k].at = y[k - m].at + p
  <2>1. CASE k <= m
    BY <1>2, <1>8, <2>1
  <2>2. CASE ~(k <= m)
    <3>1. k - m \in 1..n /\ k > m
      BY <1>2, <2>2
    <3> QED BY <1>5, <1>8, <2>2, <3>1
  <2> QED BY <2>1, <2>2
<1>14. ASSUME NEW k \in 1..(m + n) PROVE r[k].at \in Nat
  <2>1. CASE k \in 1..m /\ r[k].at = x[k].at
    BY <1>9, <2>1
  <2>2. CASE k > m /\ k - m \in 1..n /\ r[k].at = y[k - m].at + p
    <3>1. y[k - m].at \in Nat
      BY <1>9, <2>2
    <3> QED BY <1>2, <2>2, <3>1
  <2> QED BY <1>10, <2>1, <2>2
<1>11. ASSUME NEW k \in 1..(m + n) PROVE r[k].at + HeadSize <= p + q
  <2>1. CASE k \in 1..m /\ r[k].at = x[k].at
    BY <1>2, <1>9, <2>1
  <2>2. CASE k > m /\ k - m \in 1..n /\ r[k].at = y[k - m].at + p
    <3>1. y[k - m].at \in Nat /\ y[k - m].at + HeadSize <= q
      BY <1>9, <2>2
    <3>2. PICK u, v : u = r[k].at /\ v = y[k - m].at
      OBVIOUS
    <3>3. u = v + p /\ v \in Nat /\ v + HeadSize <= q
      BY <2>2, <3>1, <3>2
    <3>4. u + HeadSize <= p + q
      BY <1>2, <3>3
    <3> QED BY <3>2, <3>4
  <2> QED BY <1>10, <2>1, <2>2
<1>12. ASSUME NEW j \in 1..(m + n), NEW k \in 1..(m + n), j < k
       PROVE  r[j].at + HeadSize <= r[k].at
  <2>1. CASE k \in 1..m /\ r[k].at = x[k].at
    <3>1. j \in 1..m /\ r[j].at = x[j].at
      BY <1>2, <1>10, <1>12, <2>1
    <3> QED BY <1>9, <1>12, <2>1, <3>1
  <2>2. CASE k > m /\ k - m \in 1..n /\ r[k].at = y[k - m].at + p
    <3>1. CASE j \in 1..m /\ r[j].at = x[j].at
      <4>1. y[k - m].at \in Nat /\ x[j].at \in Nat /\ x[j].at + HeadSize <= p
        BY <1>9, <2>2, <3>1
      <4>2. PICK u, v, t : u = x[j].at /\ v = y[k - m].at /\ t = r[k].at
        OBVIOUS
      <4>5. u \in Nat /\ v \in Nat /\ u + HeadSize <= p /\ t = v + p
        BY <2>2, <4>1, <4>2, Zenon
      <4>3. u + HeadSize <= t
        BY <1>2, <4>5
      <4>4. r[j].at = u /\ r[k].at = t
        BY <3>1, <4>2
      <4> QED BY <4>3, <4>4, Zenon
    <3>2. CASE j > m /\ j - m \in 1..n /\ r[j].at = y[j - m].at + p
      <4>1. j - m < k - m
        BY <1>2, <1>12
      <4>2. y[j - m].at + HeadSize <= y[k - m].at /\ y[j - m].at \in Nat /\ y[k - m].at \in Nat
        BY <1>9, <2>2, <3>2, <4>1
      <4>3. PICK u, v : u = y[j - m].at /\ v = y[k - m].at
        OBVIOUS
      <4>6. u \in Nat /\ v \in Nat /\ u + HeadSize <= v
        BY <4>2, <4>3, Zenon
      <4>4. (u + p) + HeadSize <= v + p
        BY <1>2, <4>6
      <4>5. r[j].at = u + p /\ r[k].at = v + p
        BY <2>2, <3>2, <4>3
      <4> QED BY <4>4, <4>5, Zenon
    <3> QED BY <1>10, <3>1, <3>2
  <2> QED BY <1>10, <2>1, <2>2
<1>13. Collect(a, b).recs = r /\ Collect(a, b).len = p + q
  BY <1>1, <1>3, <1>7 DEF Collect
<1> QED BY <1>8, <1>11, <1>12, <1>13 DEF Placed

\* Only backup and destroy change the product.
LEMMA ProductKept ==
  ASSUME [Next]_vars, ~Destroy, \A d \in Dumpers : ~Backup(d)
  PROVE  product' = product
BY DEF Next, Alloc, InitBuffer, Discard, Writer, Lock, Reserve, Write, Seal, Unlock,
       Dump, DumpStart, DumpLock, DumpUnlock, DumpLength, DumpCopy, Walk, memory, vars

\* With one report at a time no step comes between a report and its product.
LEMMA RepStep == ASSUME OneReport, LInv, LInv', RepInv, [Next]_vars PROVE RepInv'
<1>1. dpc \in [Dumpers -> {"idle", "mutex", "backup", "release", "length", "copy", "walk"}]
  BY DEF LInv, TypeOK, DumpersTyped
<1>2. snap \in [Dumpers -> Seq(Record)] /\ out \in [Dumpers -> Seq(Record)]
  BY DEF LInv, TypeOK, DumpersTyped
<1>3. ASSUME NEW d \in Dumpers, Backup(d) PROVE RepInv'
  <2>1. /\ product' = Collect(Older, Active) /\ snap' = [snap EXCEPT ![d] = product'.recs]
        /\ dpc' = [dpc EXCEPT ![d] = "release"] /\ alloced' = alloced
    BY <1>3 DEF Backup
  <2>2. HalfOK(Older) /\ HalfOK(Active)
    BY HalvesFacts DEF LInv, TypeOK, MemoryTyped, Older, Active
  <2>3. Placed(product'.recs, product'.len)
    BY <2>1, <2>2, CollectPlaced
  <2>4. ~alloced => product' = EmptyProduct
    <3>1. SUFFICES ASSUME ~alloced PROVE product' = EmptyProduct
      OBVIOUS
    <3>2. Older.pos = 0 /\ Active.pos = 0
      BY <3>1, HalvesFacts DEF LInv, SizeInv, TypeOK, MemoryTyped, Older, Active
    <3>3. product'.len = 0 /\ product' = [len |-> product'.len, recs |-> product'.recs]
      BY <2>1, <3>2 DEF Collect
    <3>4. product'.recs \in Seq(Record)
      BY DEF LInv, TypeOK, MemoryTyped
    <3>5. product'.recs = <<>>
      <4>1. SUFFICES ASSUME product'.recs # <<>> PROVE FALSE
        OBVIOUS
      <4>2. Len(product'.recs) \in 1..Len(product'.recs)
        BY <3>4, <4>1, EmptySeq
      <4>3. product'.recs[Len(product'.recs)].at \in Nat
        BY <3>4, <4>2, RecordFacts
      <4> QED BY <2>3, <3>3, <4>2, <4>3 DEF Placed
    <3> QED BY <3>3, <3>5 DEF EmptyProduct
  <2>5. \A e \in Dumpers : e = d
    BY DEF OneReport
  <2>6. dpc'[d] = "release" /\ snap'[d] = product'.recs
    BY <1>1, <1>2, <2>1
  <2> QED BY <2>1, <2>3, <2>4, <2>5, <2>6 DEF RepInv
<1>4. CASE Destroy
  <2>1. product' = EmptyProduct /\ dpc' = dpc /\ \A d \in Dumpers : dpc[d] = "idle"
    BY <1>4 DEF Destroy, dumperVars
  <2>2. Placed(EmptyProduct.recs, EmptyProduct.len)
    <3>1. EmptyProduct.recs = <<>> /\ Len(<<>>) = 0
      BY DEF EmptyProduct
    <3> QED BY <3>1 DEF Placed
  <2> QED BY <2>1, <2>2 DEF RepInv, AfterBackupPlaces
<1>5. CASE ~Destroy /\ \A d \in Dumpers : ~Backup(d)
  <2>1. product' = product
    BY <1>5, ProductKept
  <2>2. (~alloced)' => ~alloced
    BY <1>5 DEF Next, Alloc, InitBuffer, Discard, Writer, Lock, Reserve, Write, Seal, Unlock,
         Dump, DumpStart, DumpLock, DumpUnlock, DumpLength, DumpCopy, Walk, memory, vars
  <2>3. ASSUME NEW d \in Dumpers, DumpStart(d) PROVE RepInv'
    <3>1. dpc'[d] = (IF alloced THEN "mutex" ELSE "length") /\ snap'[d] = <<>>
      BY <1>1, <1>2, <2>3 DEF DumpStart
    <3>2. \A e \in Dumpers : e = d
      BY DEF OneReport
    <3>3. ~alloced => product.recs = <<>>
      BY DEF RepInv, EmptyProduct
    <3> QED BY <2>1, <2>2, <3>1, <3>2, <3>3 DEF RepInv, AfterBackupPlaces
  <2>4. ASSUME NEW d \in Dumpers, DumpLock(d) \/ DumpUnlock(d) \/ DumpLength(d) \/ Walk(d)
        PROVE  RepInv'
    <3>1. /\ snap' = snap /\ out' = out
          /\ dpc'[d] \in AfterBackupPlaces => dpc[d] \in AfterBackupPlaces
          /\ dpc'[d] # "walk"
      BY <1>1, <2>4 DEF DumpLock, DumpUnlock, DumpLength, Walk, AfterBackup, AfterBackupPlaces
    <3>2. \A e \in Dumpers : e = d
      BY DEF OneReport
    <3> QED BY <2>1, <2>2, <3>1, <3>2 DEF RepInv
  <2>5. ASSUME NEW d \in Dumpers, DumpCopy(d) PROVE RepInv'
    <3>1. snap' = snap /\ out'[d] = product.recs /\ dpc[d] = "copy"
      BY <1>2, <2>5 DEF DumpCopy
    <3>2. \A e \in Dumpers : e = d
      BY DEF OneReport
    <3> QED BY <2>1, <2>2, <3>1, <3>2 DEF RepInv, AfterBackupPlaces
  <2>6. CASE \A d \in Dumpers : ~Dump(d)
    <3>1. UNCHANGED <<dpc, snap, out>>
      BY <1>5, <2>6 DEF Next, Alloc, InitBuffer, Discard, Writer, Lock, Reserve, Write, Seal, Unlock,
           dumperVars, vars
    <3> QED BY <2>1, <2>2, <3>1 DEF RepInv
  <2> QED BY <1>5, <2>3, <2>4, <2>5, <2>6 DEF Dump
<1> QED BY <1>3, <1>4, <1>5

\* Reports one at a time always see what their own backup took.
LEMMA RepAlways == ASSUME OneReport PROVE Spec => []RepInv
<1>1. Init => RepInv
  <2>1. EmptyProduct.recs = <<>> /\ Len(<<>>) = 0
    BY DEF EmptyProduct
  <2> QED BY <2>1 DEF Init, RepInv, Placed, AfterBackupPlaces
<1>2. LInv /\ LInv' /\ RepInv /\ [Next]_vars => RepInv'
  BY RepStep
<1> QED BY <1>1, <1>2, Inductive, PTL DEF Spec

\* One report at a time walks through the beginning of what its own backup took,
\* and through all of it that was copied entirely.
THEOREM OwnBackupReported == ASSUME OneReport PROVE Spec => []ReportIsOwnBackup
<1>1. ASSUME LInv, RepInv PROVE ReportIsOwnBackup
  <2>1. SUFFICES ASSUME NEW d \in Dumpers, dpc[d] = "walk"
                 PROVE  LET seen == Walked(out[d], dlen[d])
                            end(r) == r.at + r.len
                        IN /\ \A i \in seen : i \in DOMAIN snap[d] /\ out[d][i] = snap[d][i]
                           /\ \A i \in DOMAIN snap[d] :
                                LET r == snap[d][i]
                                IN end(r) <= dlen[d] => i \in seen \/ (r.len = HeadSize /\ end(r) = dlen[d])
    BY DEF ReportIsOwnBackup
  <2>2. PICK s, n : s = product.recs /\ n = dlen[d]
    OBVIOUS
  <2>3. out[d] = s /\ snap[d] = s
    BY <1>1, <2>1, <2>2 DEF RepInv, AfterBackupPlaces
  <2>4. s \in Seq(Record) /\ n \in Nat /\ DOMAIN s = 1..Len(s) /\ Len(s) \in Nat
    BY <1>1, <2>2, LenProperties DEF LInv, TypeOK, MemoryTyped, DumpersTyped
  <2>5. /\ \A k \in 1..Len(s) : /\ s[k].at \in Nat /\ s[k].len \in Nat
                                /\ s[k].sealed /\ s[k].len >= HeadSize
        /\ \A j, k \in 1..Len(s) : j < k => s[j].at + HeadSize <= s[k].at
    <3>1. \A k \in 1..Len(s) : s[k].at \in Nat /\ s[k].len \in Nat
      BY <2>4, RecordFacts
    <3>2. \A k \in 1..Len(s) : s[k].sealed /\ s[k].len >= HeadSize
      BY <1>1, <2>2, <2>4 DEF LInv, ProductTiled, Tiles
    <3> QED BY <1>1, <2>2, <3>1, <3>2 DEF RepInv, Placed
  <2>6. \A i \in Walked(s, n) : i \in DOMAIN s
    BY DEF Walked
  <2>7. ASSUME NEW i \in 1..Len(s), s[i].at + s[i].len <= n,
               ~(s[i].len = HeadSize /\ s[i].at + s[i].len = n)
        PROVE  i \in Walked(s, n)
    <3>1. s[i].at + HeadSize < n
      <4>1. PICK u, v : u = s[i].at /\ v = s[i].len
        OBVIOUS
      <4>2. /\ u \in Nat /\ v \in Nat /\ v >= HeadSize /\ u + v <= n
            /\ ~(v = HeadSize /\ u + v = n)
        BY <2>5, <2>7, <4>1
      <4>3. u + HeadSize < n
        BY <2>4, <4>2
      <4> QED BY <4>1, <4>3
    <3>2. ASSUME NEW j \in 1..i PROVE Readable(s[j], n)
      <4>1. j \in 1..Len(s)
        BY <2>4
      <4>2. s[j].at + HeadSize < n
        <5>1. CASE j = i
          BY <3>1, <5>1
        <5>2. CASE j < i
          BY <2>4, <2>5, <3>1, <4>1, <5>2
        <5> QED BY <5>1, <5>2
      <4> QED BY <2>5, <4>1, <4>2 DEF Readable
    <3> QED BY <2>4, <3>2 DEF Walked
  <2> QED BY <2>2, <2>3, <2>4, <2>6, <2>7
<1> QED BY <1>1, RepAlways, Inductive, PTL

\* The numbers of the records in the halves, and of those in the product.
Held(n) == \E i \in Halves : \E k \in 1..Len(buffers[i].recs) : buffers[i].recs[k].id = n
InProduct(n) == \E k \in 1..Len(product.recs) : product.recs[k].id = n

\* A number is in one place: in the halves, in the product, or delivered; a report
\* that is under way has a product of which nothing has been delivered.
FreshInv ==
  /\ \A n \in Nat : Held(n) => n \notin delivered /\ ~InProduct(n)
  /\ \A n \in Nat : InProduct(n) \/ n \in delivered => n <= seq
  /\ \A d \in Dumpers : dpc[d] \in AfterBackupPlaces =>
       \A n \in Nat : InProduct(n) => n \notin delivered

\* The halves gain at most the next number, and lose all at a backup.
LEMMA HeldStep ==
  ASSUME LInv, LInv', IdInv, [Next]_vars, NEW n \in Nat
  PROVE  /\ seq' >= seq /\ seq \in Nat /\ seq' \in Nat
         /\ Held(n)' => Held(n) \/ n = seq + 1
         /\ RecordsGone => ~Held(n)'
<1>1. /\ toggle \in Halves /\ seq \in Nat /\ toggle' \in Halves
      /\ \A i \in Halves :
           /\ buffers[i].recs \in Seq(Record) /\ Len(buffers[i].recs) \in Nat
           /\ \A k \in 1..Len(buffers[i].recs) :
                buffers[i].recs[k].id \in Nat /\ buffers[i].recs[k].sealed \in BOOLEAN
  BY RecsFacts DEF LInv, TypeOK, MemoryTyped
<1>2. RecordsGone => ~Held(n)'
  <2>1. Len(<<>>) = 0
    OBVIOUS
  <2> QED BY <2>1 DEF RecordsGone, Held
<1>3. CASE IdsKept
  <2>1. ASSUME NEW i \in Halves, NEW k \in 1..Len(buffers'[i].recs), buffers'[i].recs[k].id = n
        PROVE  Held(n)
    <3>1. /\ Len(buffers[i].recs) = Len(buffers'[i].recs)
          /\ \A j \in 1..Len(buffers[i].recs) : buffers[i].recs[j].id = buffers'[i].recs[j].id
      BY <1>3 DEF IdsKept, SameIds
    <3> QED BY <2>1, <3>1 DEF Held
  <2> QED BY <1>1, <1>2, <1>3, <2>1 DEF IdsKept, Held
<1>4. CASE HeaderAdded
  <2>1. PICK r \in Record : /\ r.id = seq + 1
                            /\ buffers'[toggle].recs = Append(buffers[toggle].recs, r)
    BY <1>4 DEF HeaderAdded
  <2>2. PICK s : s = buffers[toggle].recs
    OBVIOUS
  <2>3. /\ Len(Append(s, r)) = Len(s) + 1 /\ Append(s, r)[Len(s) + 1] = r
        /\ \A k \in 1..Len(s) : Append(s, r)[k] = s[k]
    BY <1>1, <2>2, AppendProperties
  <2>4. ASSUME NEW i \in Halves, NEW k \in 1..Len(buffers'[i].recs), buffers'[i].recs[k].id = n
        PROVE  Held(n) \/ n = seq + 1
    <3>1. CASE i # toggle
      BY <1>4, <2>4, <3>1 DEF HeaderAdded, Held
    <3>2. CASE i = toggle
      <4>1. k \in 1..Len(s) \/ k = Len(s) + 1
        BY SMTT(40), <1>1, <2>1, <2>2, <2>3, <2>4, <3>2
      <4> QED BY <1>1, <2>1, <2>2, <2>3, <2>4, <3>2, <4>1 DEF Held
    <3> QED BY <3>1, <3>2
  <2> QED BY SMTT(40), <1>1, <1>2, <1>4, <2>4 DEF HeaderAdded, Held
<1>5. CASE HalfReused
  <2>1. PICK r \in Record : r.id = seq + 1 /\ buffers'[toggle'].recs = <<r>>
    BY <1>5 DEF HalfReused
  <2>2. ASSUME NEW i \in Halves PROVE i = toggle \/ i = toggle'
    BY <1>1, <1>5, HalvesFacts DEF HalfReused
  <2>3. ASSUME NEW i \in Halves, NEW k \in 1..Len(buffers'[i].recs), buffers'[i].recs[k].id = n
        PROVE  Held(n) \/ n = seq + 1
    <3>1. CASE i = toggle'
      <4>1. Len(<<r>>) = 1 /\ <<r>>[1] = r
        OBVIOUS
      <4>2. k \in 1..1
        BY <2>1, <2>3, <3>1, <4>1
      <4> QED BY <2>1, <2>3, <3>1, <4>1, <4>2
    <3>2. CASE i = toggle
      BY <1>5, <2>3, <3>2 DEF HalfReused, Held
    <3> QED BY <2>2, <3>1, <3>2
  <2> QED BY <1>1, <1>2, <1>5, <2>3 DEF HalfReused, Held
<1>6. CASE RecordSealed
  <2>1. ASSUME NEW i \in Halves, NEW k \in 1..Len(buffers'[i].recs), buffers'[i].recs[k].id = n
        PROVE  Held(n)
    BY <1>1, <1>6, <2>1 DEF RecordSealed, Held
  <2> QED BY <1>1, <1>2, <1>6, <2>1 DEF RecordSealed, Held
<1>7. CASE RecordsGone
  BY <1>1, <1>2, <1>7 DEF RecordsGone
<1> QED BY <1>3, <1>4, <1>5, <1>6, <1>7, StepIds

\* backup moves numbers from the halves to the product.
LEMMA BackupMoves ==
  ASSUME LInv, LInv', IdInv, NEW d \in Dumpers, Backup(d), NEW n \in Nat, InProduct(n)'
  PROVE  Held(n) /\ n <= seq
<1>1. /\ HalfOK(Older) /\ HalfOK(Active) /\ AllSealed(Older.recs) /\ AllSealed(Active.recs)
      /\ toggle \in Halves /\ Other(toggle) \in Halves
  <2>1. toggle \in Halves /\ Other(toggle) \in Halves
    BY HalvesFacts DEF LInv, TypeOK, MemoryTyped
  <2> QED BY <2>1, FreeFacts DEF LInv, Older, Active, Backup, MayBackup
<1>2. PICK o, a, p : o = Older.recs /\ a = Active.recs /\ p = product'.recs
  OBVIOUS
<1>3. o \in Seq(Record) /\ a \in Seq(Record) /\ p \in Seq(Record)
  BY <1>1, <1>2, HalfFacts DEF HalfOK, LInv, TypeOK, MemoryTyped
<1>4. Ids(p) = Ids(o \o SealedOf(a))
  BY <1>1, <1>2, CollectIds DEF Backup
<1>5. SealedOf(a) = a
  BY <1>1, <1>2, <1>3, AllSealedOf
<1>6. PICK k \in 1..Len(p) : p[k].id = n
  BY <1>2 DEF InProduct
<1>7. Len(Ids(p)) = Len(p) /\ Ids(p)[k] = n
  BY <1>3, <1>6, IdsFacts
<1>8. /\ Len(o) \in Nat /\ Len(a) \in Nat /\ Len(Ids(p)) = Len(o) + Len(a)
      /\ \A j \in 1..Len(Ids(p)) : Ids(p)[j] = IF j <= Len(o) THEN o[j].id ELSE a[j - Len(o)].id
  <2>1. LET w == Ids(o \o SealedOf(a))
        IN /\ Len(o) \in Nat /\ Len(SealedOf(a)) \in Nat
           /\ Len(w) = Len(o) + Len(SealedOf(a))
           /\ \A j \in 1..Len(w) : w[j] = IF j <= Len(o) THEN o[j].id ELSE a[j - Len(o)].id
    BY <1>3, WindowFacts
  <2> QED BY <1>4, <1>5, <2>1
<1>9. CASE k <= Len(o)
  <2>1. k \in 1..Len(o) /\ o[k].id = n
    BY <1>6, <1>7, <1>8, <1>9
  <2> QED BY <1>1, <1>2, <2>1 DEF Held, Older, IdInv, Numbered, AllSealed
<1>10. CASE ~(k <= Len(o))
  <2>1. k - Len(o) \in 1..Len(a)
    BY <1>6, <1>7, <1>8, <1>10
  <2>2. a[k - Len(o)].id = n
    BY <1>6, <1>7, <1>8, <1>10
  <2> QED BY <1>1, <1>2, <2>1, <2>2 DEF Held, Active, IdInv, Numbered, AllSealed
<1> QED BY <1>9, <1>10

\* What a report walks through is in its product.
LEMMA WalkedInProduct ==
  ASSUME LInv, RepInv, NEW d \in Dumpers, dpc[d] = "walk",
         NEW i \in Walked(out[d], dlen[d])
  PROVE  out[d][i].id \in Nat /\ InProduct(out[d][i].id)
<1>1. out[d] = product.recs /\ product.recs \in Seq(Record)
  BY DEF RepInv, LInv, TypeOK, MemoryTyped
<1>2. i \in 1..Len(product.recs)
  BY <1>1, LenProperties DEF Walked
<1> QED BY <1>1, <1>2, RecordFacts DEF InProduct

\* No step brings a number back to where a second report would find it.
LEMMA FreshStep ==
  ASSUME OneReport, LInv, LInv', IdInv, RepInv, FreshInv, [Next]_vars
  PROVE  FreshInv'
<1>1. dpc \in [Dumpers -> {"idle", "mutex", "backup", "release", "length", "copy", "walk"}]
  BY DEF LInv, TypeOK, DumpersTyped
<1>2. ASSUME NEW n \in Nat
      PROVE  /\ seq' >= seq /\ seq \in Nat /\ seq' \in Nat
             /\ Held(n)' => Held(n) \/ n = seq + 1
             /\ RecordsGone => ~Held(n)'
  BY HeldStep
<1>3. ASSUME NEW d \in Dumpers, Backup(d) PROVE FreshInv'
  <2>1. RecordsGone /\ delivered' = delivered /\ seq' = seq
    BY <1>3, FreeFacts DEF Backup, MayBackup, RecordsGone, writerVars, Emptied, EmptyHalf
  <2>2. \A n \in Nat : ~Held(n)'
    BY <1>2, <2>1
  <2>3. \A n \in Nat : InProduct(n)' => Held(n) /\ n <= seq
    BY <1>3, BackupMoves
  <2>4. \A n \in Nat : InProduct(n)' => n \notin delivered'
    BY <2>1, <2>3 DEF FreshInv
  <2> QED BY <2>1, <2>2, <2>3, <2>4 DEF FreshInv
<1>4. CASE Destroy
  <2>1. /\ \A n \in Nat : ~InProduct(n)'
        /\ delivered' = delivered /\ seq' = seq /\ dpc' = dpc
        /\ \A n \in Nat : ~Held(n)'
    BY <1>4 DEF Destroy, writerVars, dumperVars, EmptyProduct, EmptyHalf, InProduct, Held
  <2> QED BY <2>1 DEF FreshInv
<1>5. ASSUME NEW d \in Dumpers, Walk(d) PROVE FreshInv'
  <2>1. /\ delivered' = delivered \cup {out[d][i].id : i \in Walked(out[d], dlen[d])}
        /\ dpc[d] = "walk" /\ dpc'[d] = "idle" /\ product' = product
        /\ buffers' = buffers /\ seq' = seq
    BY <1>1, <1>5 DEF Walk, memory, writerVars
  <2>2. \A n \in Nat : n \in delivered' => n \in delivered \/ InProduct(n)
    BY <2>1, WalkedInProduct
  <2>3. \A n \in Nat : (Held(n)' <=> Held(n)) /\ (InProduct(n)' <=> InProduct(n))
    BY <2>1 DEF Held, InProduct
  <2>4. \A e \in Dumpers : e = d
    BY DEF OneReport
  <2> QED BY <2>1, <2>2, <2>3, <2>4 DEF FreshInv, AfterBackupPlaces
<1>6. CASE ~Destroy /\ (\A d \in Dumpers : ~Backup(d)) /\ (\A d \in Dumpers : ~Walk(d))
  <2>1. product' = product
    BY <1>6, ProductKept
  <2>2. delivered' = delivered
    BY <1>6 DEF Next, Alloc, InitBuffer, Discard, Writer, Lock, Reserve, Write, Seal, Unlock,
         Dump, DumpStart, DumpLock, DumpUnlock, DumpLength, DumpCopy, dumperVars, vars
  <2>3. \A n \in Nat : InProduct(n)' <=> InProduct(n)
    BY <2>1 DEF InProduct
  <2>4. ASSUME NEW d \in Dumpers, dpc'[d] \in AfterBackupPlaces
        PROVE  dpc[d] \in AfterBackupPlaces \/ \A n \in Nat : ~InProduct(n)
    <3>1. CASE DumpStart(d)
      <4>1. ~alloced
        BY <1>1, <2>4, <3>1 DEF DumpStart, AfterBackupPlaces
      <4>2. product.recs = <<>> /\ Len(<<>>) = 0
        BY <4>1 DEF RepInv, EmptyProduct
      <4> QED BY <4>2 DEF InProduct
    <3>2. CASE ~DumpStart(d)
      <4>1. \A e \in Dumpers : e = d
        BY DEF OneReport
      <4> QED BY <1>1, <1>6, <2>4, <3>2, <4>1
           DEF Next, Alloc, InitBuffer, Discard, Writer, Lock, Reserve, Write, Seal, Unlock,
               Dump, DumpLock, DumpUnlock, DumpLength, DumpCopy, AfterBackup,
               AfterBackupPlaces, dumperVars, vars
    <3> QED BY <3>1, <3>2
  <2>5. ASSUME NEW n \in Nat, Held(n)' PROVE n \notin delivered' /\ ~InProduct(n)'
    <3>1. CASE Held(n)
      BY <2>2, <2>3, <3>1 DEF FreshInv
    <3>2. CASE n = seq + 1
      <4>1. ~(n <= seq)
        BY <1>2, <3>2
      <4> QED BY <2>2, <2>3, <4>1 DEF FreshInv
    <3> QED BY <1>2, <2>5, <3>1, <3>2
  <2>6. ASSUME NEW n \in Nat, InProduct(n)' \/ n \in delivered' PROVE n <= seq'
    BY <1>2, <2>2, <2>3, <2>6 DEF FreshInv
  <2> QED BY <2>2, <2>3, <2>4, <2>5, <2>6 DEF FreshInv
<1> QED BY <1>3, <1>4, <1>5, <1>6

\* "History is cleared each time results are output": with one report at a time no
\* record is delivered twice.
THEOREM NothingRepeated == ASSUME OneReport PROVE Spec => NoRepeat
<1>1. Init => FreshInv
  <2>1. EmptyProduct.recs = <<>> /\ Len(<<>>) = 0 /\ EmptyHalf.recs = <<>>
    BY DEF EmptyProduct, EmptyHalf
  <2> QED BY <2>1 DEF Init, FreshInv, AfterBackupPlaces, Held, InProduct
<1>2. LInv /\ LInv' /\ IdInv /\ RepInv /\ FreshInv /\ [Next]_vars => FreshInv'
  BY FreshStep
<1>3. LInv /\ RepInv /\ FreshInv /\ [Next]_vars =>
        [\A d \in Dumpers : Walk(d) =>
           {out[d][i].id : i \in Walked(out[d], dlen[d])} \cap delivered = {}]_vars
  <2>1. SUFFICES ASSUME LInv, RepInv, FreshInv, NEW d \in Dumpers, Walk(d),
                        NEW i \in Walked(out[d], dlen[d]), out[d][i].id \in delivered
                 PROVE  FALSE
    OBVIOUS
  <2>2. dpc[d] = "walk"
    BY <2>1 DEF Walk
  <2>3. out[d][i].id \in Nat /\ InProduct(out[d][i].id)
    BY <2>1, <2>2, WalkedInProduct
  <2> QED BY <2>1, <2>2, <2>3 DEF FreshInv, AfterBackupPlaces
<1> QED BY <1>1, <1>2, <1>3, RepAlways, Inductive, IdsInTurn, PTL DEF Spec, NoRepeat

-----------------------------------------------------------------------------
(* Where a record can be cut short.                                        *)

\* A cut record starts where the longest one would not end inside the half.
CutInHalf(recs) ==
  \A k \in 1..Len(recs) : ~recs[k].whole => recs[k].at + HeadSize + LongestPayload >= BufSize

\* The write calls of parts store at most n.
Within(parts, n) ==
  \E rest \in [1..(Len(parts) + 1) -> Nat] :
    /\ rest[Len(parts) + 1] = 0 /\ rest[1] <= n
    /\ \A i \in 1..Len(parts) : rest[i] = parts[i] + rest[i + 1]

\* What a writer has still to store ends where its record was to end, at most.
CutInv ==
  /\ \A i \in Halves : CutInHalf(buffers[i].recs)
  /\ \A w \in Writers : wpc[w] \in {"reserve", "write"} => todo[w].len <= LongestPayload
  /\ \A w \in Writers : wpc[w] = "reserve" => Within(todo[w].parts, todo[w].len)
  /\ \A w \in Writers : wpc[w] = "write" /\ alloced =>
       Within(todo[w].parts, Active.head + HeadSize + todo[w].len - Active.pos)

\* The longest payload is one.
LEMMA LongestFacts ==
  /\ LongestPayload \in Nat
  /\ \A p \in Payloads : p.len \in Nat /\ p.len <= LongestPayload /\ Within(p.parts, p.len)
<1>1. PICK p \in Payloads : \A q \in Payloads : q.len <= p.len
  BY CallersAssumption
<1>2. \A q \in Payloads : q.len \in Nat /\ q.parts \in Seq(Nat)
  OBVIOUS
<1>3. LongestPayload \in {r.len : r \in Payloads} /\ \A q \in Payloads : q.len <= LongestPayload
  <2>1. \E n \in {r.len : r \in Payloads} : \A q \in Payloads : q.len <= n
    BY <1>1
  <2> QED BY <2>1 DEF LongestPayload
<1>4. ASSUME NEW q \in Payloads PROVE Within(q.parts, q.len)
  <2>1. PICK rest \in [1..(Len(q.parts) + 1) -> 0..q.len] :
          /\ rest[Len(q.parts) + 1] = 0
          /\ \A i \in 1..Len(q.parts) : rest[i] = q.parts[i] + rest[i + 1]
    BY CallersAssumption DEF AddUpWithin
  <2>2. Len(q.parts) \in Nat
    BY <1>2, LenProperties
  <2>3. rest \in [1..(Len(q.parts) + 1) -> Nat]
    BY <1>2, <2>1
  <2>4. rest[1] <= q.len
    <3>1. 1 \in 1..(Len(q.parts) + 1)
      BY <2>2
    <3>2. rest[1] \in 0..q.len
      BY <2>1, <3>1
    <3> QED BY <1>2, <3>2
  <2> QED BY <2>1, <2>3, <2>4 DEF Within
<1> QED BY <1>2, <1>3, <1>4

\* What is left after the first write call, whether its bytes were stored or not.
LEMMA RestWithin ==
  ASSUME NEW s \in Seq(Nat), s # <<>>, NEW n \in Int, Within(s, n)
  PROVE  Head(s) \in Nat /\ Head(s) <= n /\ Within(Tail(s), n - Head(s)) /\ Within(Tail(s), n)
<1>1. PICK m, h, t : m = Len(s) /\ h = Head(s) /\ t = Tail(s)
  OBVIOUS
<1>2. /\ m \in Nat \ {0} /\ h = s[1] /\ h \in Nat /\ t \in Seq(Nat) /\ Len(t) = m - 1
      /\ \A i \in 1..(m - 1) : t[i] = s[i + 1]
  BY <1>1, EmptySeq, HeadTailProperties, ElementOfSeq
<1>3. PICK rest \in [1..(m + 1) -> Nat] :
        /\ rest[m + 1] = 0 /\ rest[1] <= n /\ \A i \in 1..m : rest[i] = s[i] + rest[i + 1]
  BY <1>1 DEF Within
<1>4. rest[1] = h + rest[2] /\ rest[1] \in Nat /\ rest[2] \in Nat
  <2>1. 1 \in 1..m /\ 1 \in 1..(m + 1) /\ 2 \in 1..(m + 1) /\ 1 + 1 = 2
    BY <1>2
  <2> QED BY <1>2, <1>3, <2>1
<1>5. PICK f : f = [i \in 1..((m - 1) + 1) |-> rest[i + 1]]
  OBVIOUS
<1>6. /\ f \in [1..((m - 1) + 1) -> Nat] /\ f[(m - 1) + 1] = 0 /\ f[1] = rest[2]
      /\ \A i \in 1..(m - 1) : f[i] = t[i] + f[i + 1]
  <2>1. \A i \in 1..((m - 1) + 1) : f[i] = rest[i + 1] /\ rest[i + 1] \in Nat
    BY SMTT(40), <1>2, <1>3, <1>5
  <2>2. f \in [1..((m - 1) + 1) -> Nat]
    BY <1>5, <2>1
  <2>3. ASSUME NEW i \in 1..(m - 1) PROVE f[i] = t[i] + f[i + 1]
    <3>1. i \in 1..((m - 1) + 1) /\ i + 1 \in 1..((m - 1) + 1) /\ i + 1 \in 1..m
      BY <1>2
    <3> QED BY <1>2, <1>3, <2>1, <3>1
  <2>4. (m - 1) + 1 \in 1..((m - 1) + 1) /\ 1 \in 1..((m - 1) + 1) /\ (m - 1) + 1 + 1 = m + 1
    BY <1>2
  <2> QED BY <1>3, <2>1, <2>2, <2>3, <2>4
<1>7. h <= n /\ f[1] <= n - h /\ f[1] <= n
  <2>1. PICK u, v : u = rest[1] /\ v = rest[2]
    OBVIOUS
  <2>2. u = h + v /\ v \in Nat /\ u <= n /\ f[1] = v
    BY <1>3, <1>4, <1>6, <2>1
  <2>3. h \in Nat
    BY <1>2
  <2>4. h <= n /\ v <= n - h /\ v <= n
    BY <2>2, <2>3
  <2> QED BY <2>2, <2>4
<1>8. Within(t, n - h) /\ Within(t, n)
  BY <1>2, <1>6, <1>7 DEF Within
<1> QED BY <1>1, <1>2, <1>7, <1>8

\* A write cuts a record short only if the longest one does not end in the half.
LEMMA WriteCut ==
  ASSUME NEW b, HalfOK(b), Open(b), CutInHalf(b.recs), size = BufSize,
         NEW q \in Nat, NEW len \in Nat, len <= LongestPayload,
         q <= b.head + HeadSize + len - b.pos
  PROVE  LET c == WriteInto(b, q)
         IN /\ CutInHalf(c.recs) /\ c.head = b.head
            /\ c.pos = b.pos + q \/ c.pos = b.pos
<1>1. /\ b \in Half /\ b.recs \in Seq(Record) /\ DOMAIN b.recs = 1..Len(b.recs)
      /\ Len(b.recs) \in Nat \ {0} /\ b.pos \in Nat /\ b.head \in Nat
  BY HalfFacts, OpenFacts DEF HalfOK
<1>2. CASE q < size - b.pos
  <2>1. WriteInto(b, q) = Stored(b, q)
    BY <1>2 DEF WriteInto
  <2>2. Stored(b, q).recs = b.recs /\ Stored(b, q).head = b.head /\ Stored(b, q).pos = b.pos + q
    BY <1>1 DEF Stored, Half
  <2> QED BY <2>1, <2>2
<1>3. CASE ~(q < size - b.pos)
  <2> DEFINE g == [i \in DOMAIN b.recs |->
        IF b.recs[i].sealed THEN b.recs[i] ELSE [b.recs[i] EXCEPT !.whole = FALSE]]
  <2>1. PICK t : t = g
    OBVIOUS
  <2>2. ASSUME NEW i \in 1..Len(b.recs)
        PROVE  /\ t[i] \in Record /\ t[i].at = b.recs[i].at
               /\ b.recs[i].sealed => t[i].whole = b.recs[i].whole
    <3>1. b.recs[i] \in Record /\ i \in DOMAIN b.recs
      BY <1>1, ElementOfSeq
    <3>2. \A r \in Record : [r EXCEPT !.whole = FALSE] \in Record /\ [r EXCEPT !.whole = FALSE].at = r.at
      BY DEF Record
    <3> QED BY <2>1, <3>1, <3>2
  <2>3. DOMAIN t = DOMAIN b.recs /\ t = [i \in DOMAIN b.recs |-> t[i]]
    BY <2>1
  <2>4. t \in Seq(Record) /\ Len(t) = Len(b.recs)
    BY <1>1, <2>2, <2>3, MapRecords
  <2>5. WriteInto(b, q) = [b EXCEPT !.recs = t]
    BY <1>3, <2>1 DEF WriteInto, LeftOut
  <2>6. WriteInto(b, q).recs = t /\ WriteInto(b, q).head = b.head /\ WriteInto(b, q).pos = b.pos
    BY <1>1, <2>5 DEF Half
  <2>7. b.head + HeadSize + LongestPayload >= BufSize
    <3>1. PICK p, h, m : p = b.pos /\ h = b.head /\ m = LongestPayload
      OBVIOUS
    <3>2. p \in Nat /\ h \in Nat /\ m \in Nat /\ len <= m /\ q <= h + HeadSize + len - p
          /\ ~(q < BufSize - p)
      BY <1>1, <1>3, <3>1, LongestFacts
    <3>3. h + HeadSize + m >= BufSize
      BY <3>2
    <3> QED BY <3>1, <3>3
  <2>8. ASSUME NEW i \in 1..Len(b.recs), ~t[i].whole
        PROVE  t[i].at + HeadSize + LongestPayload >= BufSize
    <3>1. CASE b.recs[i].sealed
      BY <2>2, <2>8, <3>1 DEF CutInHalf
    <3>2. CASE ~b.recs[i].sealed
      <4>1. i = Len(b.recs)
        BY <1>1, <3>2 DEF HalfOK, Tiles
      <4> QED BY <2>2, <2>7, <4>1 DEF Open
    <3> QED BY <3>1, <3>2
  <2> QED BY <2>4, <2>6, <2>8 DEF CutInHalf
<1> QED BY <1>2, <1>3

\* A seal moves no record and makes none shorter.
LEMMA ClosedCut ==
  ASSUME NEW b, HalfOK(b), Open(b), CutInHalf(b.recs)
  PROVE  CutInHalf(Closed(b).recs)
<1> DEFINE g == [i \in DOMAIN b.recs |->
      IF b.recs[i].at = b.head
        THEN [b.recs[i] EXCEPT !.sealed = TRUE, !.len = b.pos - b.head]
        ELSE b.recs[i]]
<1>1. PICK t : t = g
  OBVIOUS
<1>2. t = [i \in DOMAIN b.recs |-> t[i]] /\ DOMAIN t = DOMAIN b.recs
  BY <1>1
<1>3. Closed(b) = [b EXCEPT !.recs = t]
  BY <1>1 DEF Closed
<1>4. /\ b \in Half /\ b.recs \in Seq(Record) /\ DOMAIN b.recs = 1..Len(b.recs)
      /\ b.pos \in Nat /\ b.head \in Nat /\ b.head + HeadSize <= b.pos
  BY HalfFacts, OpenFacts DEF HalfOK
<1>5. ASSUME NEW k \in 1..Len(b.recs)
      PROVE  t[k] \in Record /\ t[k].at = b.recs[k].at /\ t[k].whole = b.recs[k].whole
  <2>1. PICK m : m = b.pos - b.head
    OBVIOUS
  <2>2. m \in Nat
    BY <1>4, <2>1
  <2>3. t[k] = b.recs[k] \/ t[k] = [b.recs[k] EXCEPT !.sealed = TRUE, !.len = m]
    BY <1>1, <1>4, <2>1
  <2>4. b.recs[k] \in Record
    BY <1>4, ElementOfSeq
  <2>5. \A r \in Record : /\ [r EXCEPT !.sealed = TRUE, !.len = m] \in Record
                           /\ [r EXCEPT !.sealed = TRUE, !.len = m].at = r.at
                           /\ [r EXCEPT !.sealed = TRUE, !.len = m].whole = r.whole
    BY <2>2 DEF Record
  <2> QED BY <2>3, <2>4, <2>5
<1> HIDE DEF g
<1>6. t \in Seq(Record) /\ Len(t) = Len(b.recs)
  BY <1>2, <1>4, <1>5, MapRecords
<1>7. Closed(b).recs = t
  BY <1>3, <1>4 DEF Half
<1> QED BY <1>5, <1>6, <1>7 DEF CutInHalf

\* The steps of one writer.
LEMMA WriterCut ==
  ASSUME LInv, LInv', CutInv, NEW w \in Writers, Writer(w)
  PROVE  CutInv'
<1>1. /\ wpc \in [Writers -> {"idle", "reserve", "write", "unlock"}]
      /\ todo \in [Writers -> [len : Nat, parts : Seq(Nat)]]
      /\ toggle \in Halves /\ buffers \in [Halves -> Half] /\ seq \in Nat
  BY DEF LInv, TypeOK, MemoryTyped, WritersTyped
<1>2. CASE Lock(w)
  <2>1. /\ UNCHANGED <<alloced, buffers, toggle>>
        /\ wpc' = [wpc EXCEPT ![w] = "reserve"]
        /\ \A v \in Writers : wpc[v] = "idle"
    BY <1>2 DEF Lock, memory, LInv, LockInv
  <2>2. PICK p \in Payloads : todo' = [todo EXCEPT ![w] = p]
    BY <1>2 DEF Lock
  <2>3. wpc'[w] = "reserve" /\ \A v \in Writers : v # w => wpc'[v] = "idle"
    BY <1>1, <2>1
  <2>4. todo'[w] = p
    BY <1>1, <2>2
  <2> QED BY <2>1, <2>3, <2>4, LongestFacts DEF CutInv
<1>3. CASE Unlock(w)
  <2>1. /\ UNCHANGED <<buffers, alloced, toggle>> /\ wpc' = [wpc EXCEPT ![w] = "idle"]
        /\ wpc[w] = "unlock"
    BY <1>3 DEF Unlock, memory
  <2>2. \A v \in Writers : wpc'[v] = "idle"
    BY <1>1, <2>1, HolderFacts
  <2> QED BY <2>1, <2>2 DEF CutInv
<1>4. CASE Reserve(w)
  <2>1. /\ UNCHANGED <<size, alloced, todo>> /\ wpc' = [wpc EXCEPT ![w] = "write"]
        /\ wpc[w] = "reserve"
    BY <1>4 DEF Reserve
  <2>2. wpc'[w] = "write" /\ \A v \in Writers : v # w => wpc'[v] = "idle"
    BY <1>1, <2>1, HolderFacts
  <2>3. todo[w].len <= LongestPayload /\ Within(todo[w].parts, todo[w].len) /\ todo[w].len \in Nat
    BY <1>1, <2>1 DEF CutInv
  <2>4. SUFFICES /\ \A i \in Halves : CutInHalf(buffers'[i].recs)
                 /\ alloced => Active'.pos = Active'.head + HeadSize /\ Active'.head \in Nat
    <3>1. alloced => Active'.head + HeadSize + todo[w].len - Active'.pos = todo[w].len
      BY <2>3, <2>4
    <3> QED BY <2>1, <2>2, <2>3, <2>4, <3>1 DEF CutInv
  <2>5. CASE ReserveNothing
    BY <2>5 DEF ReserveNothing, CutInv
  <2>6. CASE ReserveFits(todo[w].len)
    <3>1. PICK b : b = buffers[toggle]
      OBVIOUS
    <3>2. /\ toggle' = toggle /\ buffers'[toggle] = ReserveHere(b)
          /\ \A i \in Halves : i # toggle => buffers'[i] = buffers[i]
      BY <1>1, <2>6, <3>1 DEF ReserveFits
    <3>3. b.pos \in Nat /\ b.recs \in Seq(Record)
      BY <1>1, <3>1, HalfFacts
    <3>4. PICK r : r = NewRecord(b.pos)
      OBVIOUS
    <3>5. r \in Record /\ r.whole
      BY <1>1, <3>3, <3>4 DEF NewRecord, Record
    <3>6. ReserveHere(b).recs = Append(b.recs, r) /\ ReserveHere(b).pos = b.pos + HeadSize
          /\ ReserveHere(b).head = b.pos
      BY <3>4 DEF ReserveHere
    <3>7. CutInHalf(Append(b.recs, r))
      <4>1. /\ Len(Append(b.recs, r)) = Len(b.recs) + 1 /\ Append(b.recs, r)[Len(b.recs) + 1] = r
            /\ \A k \in 1..Len(b.recs) : Append(b.recs, r)[k] = b.recs[k]
            /\ Len(b.recs) \in Nat
        BY <3>3, <3>5, AppendProperties, LenProperties
      <4>2. CutInHalf(b.recs)
        BY <1>1, <3>1 DEF CutInv
      <4>3. ASSUME NEW k \in 1..Len(Append(b.recs, r)) PROVE k \in 1..Len(b.recs) \/ k = Len(b.recs) + 1
        BY <4>1
      <4> QED BY <3>5, <4>1, <4>2, <4>3 DEF CutInHalf
    <3> QED BY <1>1, <3>2, <3>3, <3>6, <3>7 DEF CutInv, Active
  <2>7. CASE ReserveToggles(todo[w].len)
    <3>1. PICK j : j = Other(toggle)
      OBVIOUS
    <3>2. j \in Halves /\ j # toggle
      BY <1>1, <3>1, HalvesFacts
    <3>3. /\ toggle' = j /\ buffers'[j] = ReserveAnew
          /\ \A i \in Halves : i # j => buffers'[i] = buffers[i]
      BY <1>1, <2>7, <3>1, <3>2 DEF ReserveToggles
    <3>4. PICK r : r = NewRecord(0)
      OBVIOUS
    <3>5. r.whole
      BY <3>4 DEF NewRecord
    <3>6. ReserveAnew.recs = <<r>> /\ ReserveAnew.pos = HeadSize /\ ReserveAnew.head = 0
      BY <3>4 DEF ReserveAnew
    <3>7. CutInHalf(<<r>>)
      <4>1. Len(<<r>>) = 1 /\ <<r>>[1] = r
        OBVIOUS
      <4> QED BY <3>5, <4>1 DEF CutInHalf
    <3> QED BY <3>3, <3>6, <3>7 DEF CutInv, Active
  <2> QED BY <1>4, <2>5, <2>6, <2>7 DEF Reserve
<1>5. CASE Write(w)
  <2>1. /\ UNCHANGED <<size, alloced, toggle, wpc>> /\ wpc[w] = "write" /\ todo[w].parts # <<>>
        /\ todo' = [todo EXCEPT ![w].parts = Tail(@)]
        /\ buffers' = IF alloced
                        THEN [buffers EXCEPT ![toggle] = WriteInto(@, Head(todo[w].parts))]
                        ELSE buffers
    BY <1>5 DEF Write
  <2>2. \A v \in Writers : v # w => wpc[v] = "idle"
    BY <2>1, HolderFacts
  <2>3. todo'[w].parts = Tail(todo[w].parts) /\ todo'[w].len = todo[w].len
        /\ todo[w].parts \in Seq(Nat) /\ todo[w].len \in Nat /\ todo[w].len <= LongestPayload
    BY <1>1, <2>1 DEF CutInv
  <2>4. CASE ~alloced
    BY <2>1, <2>2, <2>3, <2>4 DEF CutInv
  <2>5. CASE alloced
    <3>1. PICK b, q, c, n : /\ b = buffers[toggle] /\ q = Head(todo[w].parts) /\ c = WriteInto(b, q)
                            /\ n = b.head + HeadSize + todo[w].len - b.pos
      OBVIOUS
    <3>2. /\ buffers'[toggle] = c /\ Active' = c
          /\ \A i \in Halves : i # toggle => buffers'[i] = buffers[i]
      BY <1>1, <2>1, <2>5, <3>1 DEF Active
    <3>3. HalfOK(b) /\ Open(b) /\ CutInHalf(b.recs) /\ size = BufSize
      BY <1>1, <2>1, <2>5, <3>1 DEF LInv, OpenInv, SizeInv, CutInv
    <3>4. b.head \in Nat /\ b.pos \in Nat
      BY <3>3, OpenFacts, HalfFacts DEF HalfOK
    <3>5. n \in Int
      BY <2>3, <3>1, <3>4
    <3>6. Within(todo[w].parts, n)
      BY <2>1, <2>5, <3>1 DEF CutInv, Active
    <3>7. /\ q \in Nat /\ q <= n /\ Within(Tail(todo[w].parts), n - q)
          /\ Within(Tail(todo[w].parts), n)
      BY <2>1, <2>3, <3>1, <3>5, <3>6, RestWithin
    <3>8. CutInHalf(c.recs) /\ c.head = b.head /\ (c.pos = b.pos + q \/ c.pos = b.pos)
      BY <2>3, <3>1, <3>3, <3>7, WriteCut
    <3>9. Within(Tail(todo[w].parts), c.head + HeadSize + todo[w].len - c.pos)
      <4>1. \/ c.head + HeadSize + todo[w].len - c.pos = n - q
            \/ c.head + HeadSize + todo[w].len - c.pos = n
        <5>1. PICK p, h, l, e : p = b.pos /\ h = b.head /\ l = todo[w].len /\ e = c.pos
          OBVIOUS
        <5>2. /\ p \in Nat /\ h \in Nat /\ l \in Nat /\ n = h + HeadSize + l - p /\ c.head = h
              /\ e = p + q \/ e = p
          BY <2>3, <3>1, <3>4, <3>8, <5>1
        <5>3. h + HeadSize + l - e = n - q \/ h + HeadSize + l - e = n
          BY <3>7, <5>2
        <5> QED BY <5>1, <5>2, <5>3
      <4> QED BY <3>7, <4>1
    <3>10. \A i \in Halves : CutInHalf(buffers'[i].recs)
      BY <3>2, <3>8 DEF CutInv
    <3> QED BY <2>1, <2>2, <2>3, <3>2, <3>9, <3>10 DEF CutInv
  <2> QED BY <1>1, <2>4, <2>5 DEF LInv, TypeOK, MemoryTyped
<1>6. CASE Seal(w)
  <2>1. wpc' = [wpc EXCEPT ![w] = "unlock"] /\ wpc[w] = "write" /\ toggle' = toggle
    BY <1>6 DEF Seal
  <2>2. \A v \in Writers : wpc'[v] \in {"idle", "unlock"}
    BY <1>1, <2>1, HolderFacts
  <2>3. \A i \in Halves : CutInHalf(buffers'[i].recs)
    <3>1. CASE ~CanSeal
      BY <1>6, <3>1 DEF Seal, CutInv
    <3>2. CASE CanSeal
      <4>1. HalfOK(buffers[toggle]) /\ Open(buffers[toggle]) /\ CutInHalf(buffers[toggle].recs)
        BY <1>1, <2>1, <3>2 DEF LInv, OpenInv, CanSeal, CutInv
      <4>2. /\ buffers'[toggle] = Closed(buffers[toggle])
            /\ \A i \in Halves : i # toggle => buffers'[i] = buffers[i]
        BY <1>1, <1>6, <3>2 DEF Seal
      <4> QED BY <4>1, <4>2, ClosedCut DEF CutInv
    <3> QED BY <3>1, <3>2
  <2> QED BY <2>2, <2>3 DEF CutInv
<1> QED BY <1>2, <1>3, <1>4, <1>5, <1>6 DEF Writer

\* The other steps write no payload.
LEMMA CutStep == ASSUME LInv, LInv', CutInv, [Next]_vars PROVE CutInv'
<1>1. CASE RecordsGone /\ \A w \in Writers : wpc'[w] = "idle"
  <2>1. Len(<<>>) = 0
    OBVIOUS
  <2> QED BY <1>1, <2>1 DEF RecordsGone, CutInv, CutInHalf
<1>2. CASE Destroy
  <2>1. RecordsGone /\ \A w \in Writers : wpc'[w] = "idle"
    BY <1>2 DEF Destroy, RecordsGone, writerVars, EmptyHalf, LInv, OpenInv
  <2> QED BY <1>1, <2>1
<1>3. CASE Discard
  BY <1>1, <1>3, FreeFacts DEF Discard, RecordsGone, writerVars
<1>4. CASE \E d \in Dumpers : Backup(d)
  BY <1>1, <1>4, FreeFacts DEF Backup, MayBackup, RecordsGone, writerVars, Emptied, EmptyHalf
<1>5. CASE \E w \in Writers : Writer(w)
  BY <1>5, WriterCut
<1>6. CASE Alloc
  <2>1. /\ UNCHANGED <<buffers, toggle, wpc, todo>> /\ \A w \in Writers : wpc[w] = "idle"
    BY <1>6, FreeFacts DEF Alloc, writerVars
  <2> QED BY <2>1 DEF CutInv
<1>7. CASE UNCHANGED <<alloced, buffers, toggle, wpc, todo>>
  BY <1>7 DEF CutInv, Active
<1> QED BY <1>2, <1>3, <1>4, <1>5, <1>6, <1>7
     DEF Next, InitBuffer, Dump, DumpStart, DumpLock, DumpUnlock, DumpLength, DumpCopy, Walk,
         memory, writerVars, vars

\* Whatever other contexts write, a record is cut short only where a record of the
\* longest kind would run over the end of the half.
THEOREM OnlyCutAtTheEnd == Spec => []CutOnlyAtTheEnd
<1>1. Init => CutInv
  <2>1. EmptyHalf.recs = <<>> /\ Len(<<>>) = 0
    BY DEF EmptyHalf
  <2> QED BY <2>1 DEF Init, CutInv, CutInHalf
<1>2. LInv /\ LInv' /\ CutInv /\ [Next]_vars => CutInv'
  BY CutStep
<1>3. ASSUME LInv, CutInv PROVE CutOnlyAtTheEnd
  <2>1. \A i \in Halves : DOMAIN buffers[i].recs = 1..Len(buffers[i].recs)
    BY <1>3, HalfFacts DEF LInv, HalfOK
  <2> QED BY <1>3, <2>1 DEF CutInv, CutInHalf, CutOnlyAtTheEnd
<1> QED BY <1>1, <1>2, <1>3, Inductive, PTL DEF Spec
=============================================================================
