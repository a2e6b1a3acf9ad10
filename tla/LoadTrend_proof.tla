--------------------------- MODULE LoadTrend_proof ---------------------------
(***************************************************************************)
(* Proofs about LoadTrend, for a ring of any size and any readers.         *)
(*                                                                         *)
(* That the ring keeps the newest samples is not inductive by itself: the  *)
(* timer's callback works in three steps, and between the first and the    *)
(* last the ring holds one sample less (RingInv); and the ring is only     *)
(* initialised when no callback runs, which needs that an activation finds *)
(* the sampling timer cancelled (StoppedInv).                              *)
(*                                                                         *)
(* What a reader prints is in a row because dropped samples stay in their  *)
(* slots until they are overwritten (WindowInv), and the reader is never   *)
(* so far behind (RowInv).                                                 *)
(***************************************************************************)
EXTENDS LoadTrend, TLAPS

USE SlotsAssumption, ReadersAssumption, BoundsAssumption

-----------------------------------------------------------------------------
(* Arithmetic of the ring.                                                 *)

LEMMA Modulo ==
  ASSUME NEW n \in Int
  PROVE  /\ 0 <= n /\ n < Cap => n % Cap = n
         /\ Cap <= n /\ n < 2 * Cap => n % Cap = n - Cap
         /\ -Cap <= n /\ n < 0 => n % Cap = n + Cap
OBVIOUS

LEMMA NextSlotIs ==
  ASSUME NEW i \in Slots
  PROVE  /\ NextSlot(i) = IF i + 1 = Cap THEN 0 ELSE i + 1
         /\ NextSlot(i) \in Slots
<1>1. i \in Int /\ i + 1 \in Int /\ 0 <= i /\ i < Cap
  BY DEF Slots
<1>2. NextSlot(i) = IF i + 1 = Cap THEN 0 ELSE i + 1
  BY <1>1, Modulo DEF NextSlot
<1> QED BY <1>1, <1>2 DEF Slots

\* How far slot i is behind slot j.
Ahead(j, i) == (i - j) % Cap

LEMMA AheadIs ==
  ASSUME NEW i \in Slots, NEW j \in Slots
  PROVE  /\ Ahead(j, i) = IF i >= j THEN i - j ELSE i - j + Cap
         /\ Ahead(j, i) \in Slots
<1>1. i \in Int /\ j \in Int /\ i - j \in Int /\ -Cap <= i - j /\ i - j < Cap
  BY DEF Slots
<1>2. Ahead(j, i) = IF i >= j THEN i - j ELSE i - j + Cap
  BY <1>1, Modulo DEF Ahead
<1> QED BY <1>1, <1>2 DEF Slots

-----------------------------------------------------------------------------
(* Types.                                                                  *)

LEMMA TypeInit == Init => TypeOK
<1>1. 0 \in Slots /\ Nobody \in Readers \cup {Nobody}
  BY DEF Slots
<1> QED BY <1>1 DEF Init, TypeOK

LEMMA TypeNext == TypeOK /\ [Next]_vars => TypeOK'
<1> SUFFICES ASSUME TypeOK, [Next]_vars PROVE TypeOK'
  OBVIOUS
<1> USE DEF TypeOK, ring, timers, control, readers
<1>1. CASE Expire
  <2>1. front' \in Slots
    BY <1>1, NextSlotIs DEF Expire
  <2>2. budget' \in [Readers -> Nat]
    BY <1>1 DEF Expire
  <2> QED BY <1>1, <2>1, <2>2 DEF Expire
<1>2. CASE Store
  BY <1>2 DEF Store
<1>3. CASE Advance
  <2>1. rear' \in Slots
    BY <1>3, NextSlotIs DEF Advance, Advanced
  <2> QED BY <1>3, <2>1 DEF Advance
<1>4. CASE Ending
  <2>1. CASE DurationFires
    BY <2>1 DEF DurationFires
  <2>2. CASE DurationCancels
    BY <2>2 DEF DurationCancels, Cancelled
  <2> QED BY <1>4, <2>1, <2>2 DEF Ending
<1>5. CASE Controller
  <2>1. 0 \in Slots
    BY DEF Slots
  <2>2. CASE Activate
    BY <1>5, <2>2 DEF Activate
  <2>3. CASE InitRing
    BY <1>5, <2>1, <2>3 DEF InitRing
  <2>4. CASE Arm
    BY <2>4 DEF Arm
  <2>5. CASE Alloc
    BY <2>5 DEF Alloc
  <2>6. CASE Deactivate \/ CancelSampling \/ DeleteDuration
    BY <2>6 DEF Deactivate, CancelSampling, DeleteDuration, Deleted
  <2> QED BY <1>5, <2>2, <2>3, <2>4, <2>5, <2>6 DEF Controller
<1>6. ASSUME NEW r \in Readers, Reader(r) PROVE TypeOK'
  <2>1. CASE Open(r)
    BY <2>1 DEF Open
  <2>2. CASE ReadFront(r)
    BY <2>2 DEF ReadFront
  <2>3. CASE LockRing(r)
    BY <2>3 DEF LockRing
  <2>4. CASE PrintRow(r)
    <3>1. pos[r] \in Slots /\ datas[pos[r]] \in Nat /\ Following(pos[r]) \in Slots
      BY NextSlotIs DEF Following
    <3>2. rows' \in [Readers -> Seq(Nat)]
      BY <2>4, <3>1 DEF PrintRow
    <3>3. pos' \in [Readers -> Slots]
      BY <2>4, <3>1 DEF PrintRow
    <3> QED BY <2>4, <3>2, <3>3 DEF PrintRow
  <2>5. CASE Close(r)
    BY <2>5 DEF Close
  <2> QED BY <1>6, <2>1, <2>2, <2>3, <2>4, <2>5 DEF Reader
<1>7. CASE UNCHANGED vars
  BY <1>7 DEF vars
<1> QED BY <1>1, <1>2, <1>3, <1>4, <1>5, <1>6, <1>7 DEF Next, Sampler

\* Every variable has its type: front, rear and the readers' indices stay inside the
\* ring, whatever its size.
THEOREM TypeCorrect == Spec => []TypeOK
BY TypeInit, TypeNext, PTL DEF Spec

-----------------------------------------------------------------------------
(* An activation finds the sampling stopped.                               *)

\* Between a deactivation and the arming of the timers nothing samples, provided that
\* the allocation, which comes after the arming, does not fail.
StoppedInv ==
  cpc \in {"init", "arm", "delete"} \/ (cpc = "off" /\ ~activated) => ~sampling /\ apc = "idle"

LEMMA StoppedNext ==
  ASSUME ~AllocFails
  PROVE  TypeOK /\ StoppedInv /\ [Next]_vars => StoppedInv'
<1> SUFFICES ASSUME TypeOK, StoppedInv, [Next]_vars PROVE StoppedInv'
  OBVIOUS
<1> USE DEF StoppedInv, ring, timers, control, readers
<1>1. CASE Sampler
  BY <1>1 DEF Sampler, Expire, Store, Advance
<1>2. CASE Ending
  BY <1>2 DEF Ending, DurationFires, DurationCancels, Cancelled
<1>3. CASE Controller
  <2>1. CASE Alloc
    <3>1. activated' = TRUE /\ cpc' = "off"
      BY <2>1 DEF Alloc
    <3> QED BY <3>1
  <2>2. CASE Activate \/ InitRing \/ Arm
    BY <2>2 DEF Activate, InitRing, Arm
  <2>3. CASE Deactivate \/ CancelSampling \/ DeleteDuration
    BY <2>3 DEF Deactivate, CancelSampling, DeleteDuration
  <2> QED BY <1>3, <2>1, <2>2, <2>3 DEF Controller
<1>4. ASSUME NEW r \in Readers, Reader(r) PROVE StoppedInv'
  BY <1>4 DEF Reader, Open, ReadFront, LockRing, PrintRow, Close
<1>5. CASE UNCHANGED vars
  BY <1>5 DEF vars
<1> QED BY <1>1, <1>2, <1>3, <1>4, <1>5 DEF Next

-----------------------------------------------------------------------------
(* The samples in the ring.                                                *)

Least(m, n) == IF m < n THEN m ELSE n
Filled == Ahead(front, rear)

\* The ring's filled part holds the last samples; while one is being added there is
\* room for it, and it is not part of them before add_data moves rear.
RingInv ==
  /\ base <= taken
  /\ Filled = Least(taken - base, IF apc = "idle" THEN Cap - 1 ELSE Cap - 2)
  /\ apc = "advance" => datas[rear] = taken + 1
  /\ \A i \in Slots : Ahead(front, i) < Filled => datas[i] = taken - Filled + 1 + Ahead(front, i)

LEMMA SlotsNat == Slots \subseteq Int /\ \A i \in Slots : 0 <= i /\ i < Cap
BY DEF Slots

LEMMA ExpireRing ==
  ASSUME TypeOK, RingInv, Expire
  PROVE  RingInv'
<1>1. apc = "idle" /\ apc' = "store" /\ UNCHANGED <<rear, datas, taken, base>>
  BY DEF Expire
<1>2. front \in Slots /\ rear \in Slots /\ taken \in Nat /\ base \in Nat
  BY DEF TypeOK
<1>3. CASE Full
  <2>1. front' = NextSlot(front) /\ NextSlot(rear) = front
    BY <1>3 DEF Expire, Full
  <2>2. front' \in Slots /\ front' = IF front + 1 = Cap THEN 0 ELSE front + 1
    BY <1>2, <2>1, NextSlotIs
  <2>3. front = IF rear + 1 = Cap THEN 0 ELSE rear + 1
    BY <1>2, <2>1, NextSlotIs
  <2>4. Filled = Cap - 1 /\ Ahead(front', rear) = Cap - 2
    <3>1. /\ front \in Int /\ 0 <= front /\ front < Cap
          /\ rear \in Int /\ 0 <= rear /\ rear < Cap
      BY <1>2, SlotsNat
    <3>2. Filled = IF rear >= front THEN rear - front ELSE rear - front + Cap
      BY <1>2, AheadIs DEF Filled
    <3>3. Ahead(front', rear) = IF rear >= front' THEN rear - front' ELSE rear - front' + Cap
      BY <1>2, <2>2, AheadIs
    <3> QED BY <2>2, <2>3, <3>1, <3>2, <3>3
  <2>5. ASSUME NEW i \in Slots, Ahead(front', i) < Cap - 2
        PROVE  Ahead(front, i) = Ahead(front', i) + 1 /\ Ahead(front, i) < Filled
    <3>1. /\ front \in Int /\ 0 <= front /\ front < Cap
          /\ i \in Int /\ 0 <= i /\ i < Cap
      BY <1>2, SlotsNat
    <3>2. Ahead(front, i) = IF i >= front THEN i - front ELSE i - front + Cap
      BY <1>2, AheadIs
    <3>3. Ahead(front', i) = IF i >= front' THEN i - front' ELSE i - front' + Cap
      BY <1>2, <2>2, AheadIs
    <3> QED BY <2>2, <2>4, <2>5, <3>1, <3>2, <3>3
  <2>6. \A i \in Slots : Ahead(front, i) \in Int /\ Ahead(front', i) \in Int
    BY <1>2, <2>2, AheadIs, SlotsNat
  <2>7. Filled' = Cap - 2
    BY <1>1, <2>4 DEF Filled
  <2> QED BY <1>1, <1>2, <2>4, <2>5, <2>6, <2>7 DEF RingInv, Least, Ahead
<1>4. CASE ~Full
  <2>1. front' = front
    BY <1>4 DEF Expire
  <2>2. Filled # Cap - 1 /\ Filled' = Filled /\ Filled \in Int
    <3>1. /\ front \in Int /\ 0 <= front /\ front < Cap
          /\ rear \in Int /\ 0 <= rear /\ rear < Cap
      BY <1>2, SlotsNat
    <3>2. Filled = IF rear >= front THEN rear - front ELSE rear - front + Cap
      BY <1>2, AheadIs DEF Filled
    <3>3. (IF rear + 1 = Cap THEN 0 ELSE rear + 1) # front
      BY <1>2, <1>4, NextSlotIs DEF Full
    <3>4. Filled' = Filled
      BY <1>1, <2>1 DEF Filled
    <3> QED BY <3>1, <3>2, <3>3, <3>4
  <2> QED BY <1>1, <1>2, <2>1, <2>2 DEF RingInv, Least, Ahead
<1> QED BY <1>3, <1>4

LEMMA StoreRing ==
  ASSUME TypeOK, RingInv, Store
  PROVE  RingInv'
<1>1. /\ apc = "store" /\ apc' = "advance" /\ UNCHANGED <<front, rear, taken, base>>
      /\ datas' = [datas EXCEPT ![rear] = taken + 1]
  BY DEF Store
<1>2. front \in Slots /\ rear \in Slots /\ datas \in [Slots -> Nat]
  BY DEF TypeOK
<1>3. Filled' = Filled /\ Filled \in Int
  BY <1>1, <1>2, AheadIs, SlotsNat DEF Filled
<1>4. datas'[rear] = taken + 1 /\ \A i \in Slots : i # rear => datas'[i] = datas[i]
  BY <1>1, <1>2
<1>5. \A i \in Slots : Ahead(front, i) < Filled => i # rear
  BY <1>2, <1>3 DEF Filled
<1> QED BY <1>1, <1>2, <1>3, <1>4, <1>5 DEF RingInv, Ahead

LEMMA AdvanceRing ==
  ASSUME TypeOK, RingInv, Advance
  PROVE  RingInv'
<1>1. /\ apc = "advance" /\ apc' = "idle" /\ UNCHANGED <<front, datas, base>>
      /\ rear' = NextSlot(rear) /\ taken' = taken + 1
  BY DEF Advance, Advanced
<1>2. front \in Slots /\ rear \in Slots /\ taken \in Nat /\ base \in Nat
  BY DEF TypeOK
<1>3. rear' = IF rear + 1 = Cap THEN 0 ELSE rear + 1
  BY <1>1, <1>2, NextSlotIs
<1>4. Filled <= Cap - 2 /\ Filled = Least(taken - base, Cap - 2) /\ Filled \in Int
  BY <1>1, <1>2 DEF RingInv, Least
<1>5. Filled' = Filled + 1
  <2>1. rear' \in Slots
    BY <1>1, <1>2, NextSlotIs
  <2> QED BY <1>1, <1>2, <1>3, <1>4, <2>1, AheadIs, SlotsNat DEF Filled
<1>6. ASSUME NEW i \in Slots, Ahead(front, i) < Filled + 1, ~(Ahead(front, i) < Filled)
      PROVE  i = rear
  <2>1. /\ front \in Int /\ 0 <= front /\ front < Cap
        /\ rear \in Int /\ 0 <= rear /\ rear < Cap
        /\ i \in Int /\ 0 <= i /\ i < Cap
    BY <1>2, SlotsNat
  <2>2. Filled = IF rear >= front THEN rear - front ELSE rear - front + Cap
    BY <1>2, AheadIs DEF Filled
  <2>3. Ahead(front, i) = IF i >= front THEN i - front ELSE i - front + Cap
    BY <1>2, AheadIs
  <2>4. Ahead(front, i) = Filled
    BY <1>4, <1>6, <2>1, <2>3
  <2> QED BY <2>1, <2>2, <2>3, <2>4
<1>7. \A i \in Slots : Ahead(front, i) \in Int
  BY <1>2, AheadIs, SlotsNat
<1>8. ASSUME NEW i \in Slots, Ahead(front, i) < Filled + 1
      PROVE  datas[i] = taken - Filled + 1 + Ahead(front, i)
  <2>1. CASE Ahead(front, i) < Filled
    BY <2>1 DEF RingInv
  <2>2. CASE ~(Ahead(front, i) < Filled)
    <3>1. i = rear /\ Ahead(front, i) = Filled
      BY <1>6, <1>8, <2>2 DEF Filled
    <3> QED BY <1>1, <1>2, <1>4, <3>1 DEF RingInv
  <2> QED BY <2>1, <2>2
<1>9. \A i \in Slots : Ahead(front, i) < Filled' =>
        datas[i] = taken' - Filled' + 1 + Ahead(front, i)
  BY <1>1, <1>2, <1>4, <1>5, <1>7, <1>8
<1>10. Filled' = Least(taken' - base, Cap - 1)
  BY <1>1, <1>2, <1>4, <1>5 DEF Least
<1> QED BY <1>1, <1>2, <1>9, <1>10 DEF RingInv, Ahead

LEMMA RingSame ==
  ASSUME RingInv, UNCHANGED <<front, rear, datas, apc, taken, base>>
  PROVE  RingInv'
BY DEF RingInv, Filled, Ahead

LEMMA RingEmpty ==
  ASSUME base = taken, taken \in Nat, front = 0, rear = 0, apc = "idle"
  PROVE  RingInv
<1>1. 0 \in Slots
  BY DEF Slots
<1>2. Filled = 0
  BY <1>1, AheadIs DEF Filled
<1>3. \A i \in Slots : Ahead(front, i) \in Int /\ 0 <= Ahead(front, i)
  BY <1>1, AheadIs, SlotsNat
<1> QED BY <1>2, <1>3 DEF RingInv, Least

LEMMA RingNext == TypeOK /\ StoppedInv /\ RingInv /\ [Next]_vars => RingInv'
<1> SUFFICES ASSUME TypeOK, StoppedInv, RingInv, [Next]_vars PROVE RingInv'
  OBVIOUS
<1> USE DEF ring, timers, control, readers
<1>1. CASE Sampler
  BY <1>1, ExpireRing, StoreRing, AdvanceRing DEF Sampler
<1>2. CASE InitRing
  <2>1. (base = taken /\ taken \in Nat /\ front = 0 /\ rear = 0 /\ apc = "idle")'
    BY <1>2 DEF InitRing, StoppedInv, TypeOK
  <2> QED BY <2>1, RingEmpty, PTL
<1>3. ASSUME Controller, ~InitRing PROVE RingInv'
  BY <1>3, RingSame DEF Controller, Activate, Arm, Alloc, Deactivate, CancelSampling, DeleteDuration
<1>4. CASE Ending
  BY <1>4, RingSame DEF Ending, DurationFires, DurationCancels
<1>5. ASSUME NEW r \in Readers, Reader(r) PROVE RingInv'
  BY <1>5, RingSame DEF Reader, Open, ReadFront, LockRing, PrintRow, Close
<1>6. CASE UNCHANGED vars
  BY <1>6, RingSame DEF vars
<1> QED BY <1>1, <1>2, <1>3, <1>4, <1>5, <1>6 DEF Next

\* Between two samples the ring holds the newest samples of the session, for a ring of
\* any size, provided that the record buffer can be allocated.
THEOREM NewestAlwaysKept ==
  ASSUME ~AllocFails
  PROVE  Spec => []KeepsNewest
<1>1. Init => StoppedInv /\ RingInv
  <2> SUFFICES ASSUME Init PROVE StoppedInv /\ RingInv
    OBVIOUS
  <2> QED BY RingEmpty DEF Init, StoppedInv
<1>2. TypeOK /\ RingInv => KeepsNewest
  <2> SUFFICES ASSUME TypeOK, RingInv, apc = "idle"
               PROVE  Contents = [k \in 1..Kept |-> taken - Kept + k]
    BY DEF KeepsNewest
  <2>1. front \in Slots /\ rear \in Slots /\ taken \in Nat /\ base \in Nat
    BY DEF TypeOK
  <2>2. Used = Filled /\ Filled = Kept /\ Kept \in Int /\ Kept < Cap
    BY <2>1 DEF RingInv, Used, Filled, Ahead, Least, Kept
  <2>3. ASSUME NEW k \in 1..Kept
        PROVE  datas[(front + k - 1) % Cap] = taken - Kept + k
    <3> DEFINE i == (front + k - 1) % Cap
    <3>1. i = IF front + k - 1 < Cap THEN front + k - 1 ELSE front + k - 1 - Cap
      BY <2>1, <2>2, Modulo, SlotsNat
    <3>2. i \in Slots
      BY <2>1, <2>2, <3>1, SlotsNat DEF Slots
    <3>3. Ahead(front, i) = k - 1
      <4>1. Ahead(front, i) = IF i >= front THEN i - front ELSE i - front + Cap
        BY <2>1, <3>2, AheadIs
      <4>2. front \in Int /\ 0 <= front /\ front < Cap /\ k \in Int /\ 1 <= k /\ k < Cap
        BY <2>1, <2>2, SlotsNat
      <4> HIDE DEF i
      <4> QED BY <3>1, <4>1, <4>2
    <3> QED BY <2>1, <2>2, <3>2, <3>3 DEF RingInv
  <2> QED BY <2>2, <2>3 DEF Contents
<1> QED BY TypeInit, TypeNext, StoppedNext, <1>1, RingNext, <1>2, PTL DEF Spec

-----------------------------------------------------------------------------
(* What readers print.                                                     *)

\* The distance to rear, when rear or the other slot moves on.
LEMMA AheadMoves ==
  ASSUME NEW i \in Slots, NEW j \in Slots
  PROVE  /\ Ahead(i, NextSlot(j)) = IF Ahead(i, j) = Cap - 1 THEN 0 ELSE Ahead(i, j) + 1
         /\ Ahead(i, j) # 0 => Ahead(NextSlot(i), j) = Ahead(i, j) - 1
         /\ Ahead(i, j) = 0 <=> i = j
<1>1. i \in Int /\ 0 <= i /\ i < Cap /\ j \in Int /\ 0 <= j /\ j < Cap
  BY SlotsNat
<1>2. PICK m, n : m = NextSlot(i) /\ n = NextSlot(j)
  OBVIOUS
<1>3. /\ m \in Slots /\ m = IF i + 1 = Cap THEN 0 ELSE i + 1
      /\ n \in Slots /\ n = IF j + 1 = Cap THEN 0 ELSE j + 1
  BY <1>2, NextSlotIs
<1>4. Ahead(i, j) = IF j >= i THEN j - i ELSE j - i + Cap
  BY AheadIs
<1>5. Ahead(i, n) = IF n >= i THEN n - i ELSE n - i + Cap
  BY <1>3, AheadIs
<1>6. Ahead(m, j) = IF j >= m THEN j - m ELSE j - m + Cap
  BY <1>3, AheadIs
<1>7. Ahead(i, n) = IF Ahead(i, j) = Cap - 1 THEN 0 ELSE Ahead(i, j) + 1
  BY <1>1, <1>3, <1>4, <1>5
<1>8. Ahead(i, j) # 0 => Ahead(m, j) = Ahead(i, j) - 1
  BY <1>1, <1>3, <1>4, <1>6
<1>9. Ahead(i, j) = 0 <=> i = j
  BY <1>1, <1>4
<1> QED BY <1>2, <1>7, <1>8, <1>9

\* Behind rear, all slots but one hold the samples before the next one, dropped or not,
\* back to the first of the session.
WindowInv ==
  \A i \in Slots : 0 < Ahead(i, rear) /\ Ahead(i, rear) <= taken - base
    => datas[i] = taken + 1 - Ahead(i, rear)

LEMMA WindowNext == TypeOK /\ RingInv /\ WindowInv /\ [Next]_vars => WindowInv'
<1> SUFFICES ASSUME TypeOK, RingInv, WindowInv, [Next]_vars PROVE WindowInv'
  OBVIOUS
<1> USE DEF ring, timers, control, readers
<1>0. /\ rear \in Slots /\ taken \in Nat /\ base \in Nat /\ base <= taken
      /\ datas \in [Slots -> Nat]
      /\ \A i, j \in Slots : Ahead(i, j) \in Int /\ 0 <= Ahead(i, j) /\ Ahead(i, j) < Cap
  BY AheadIs, SlotsNat DEF TypeOK, RingInv
<1>1. CASE Store
  <2>1. datas' = [datas EXCEPT ![rear] = taken + 1] /\ UNCHANGED <<rear, taken, base>>
    BY <1>1 DEF Store
  <2>2. \A i \in Slots : 0 < Ahead(i, rear) => i # rear
    BY <1>0, AheadMoves
  <2>3. \A i \in Slots : 0 < Ahead(i, rear) => datas'[i] = datas[i]
    BY <1>0, <2>1, <2>2
  <2> QED BY <2>1, <2>3 DEF WindowInv, Ahead
<1>2. CASE Advance
  <2>1. /\ rear' = NextSlot(rear) /\ taken' = taken + 1 /\ UNCHANGED <<datas, base>>
        /\ datas[rear] = taken + 1
    BY <1>2 DEF Advance, Advanced, RingInv
  <2>2. ASSUME NEW i \in Slots, 0 < Ahead(i, rear'), Ahead(i, rear') <= taken + 1 - base
        PROVE  datas[i] = taken + 2 - Ahead(i, rear')
    <3>1. PICK d, e : d = Ahead(i, rear) /\ e = Ahead(i, rear')
      OBVIOUS
    <3>2. e = IF d = Cap - 1 THEN 0 ELSE d + 1
      BY <1>0, <2>1, <3>1, AheadMoves
    <3>3. d \in Int /\ 0 <= d /\ d <= taken - base /\ e = d + 1
      BY <1>0, <2>2, <3>1, <3>2
    <3>4. CASE d = 0
      <4>1. i = rear
        BY <1>0, <3>1, <3>4, AheadMoves
      <4>2. datas[i] = taken + 1 /\ e = 1
        BY <2>1, <3>3, <3>4, <4>1
      <4>3. taken + 2 - 1 = taken + 1
        BY <1>0
      <4> QED BY <3>1, <4>2, <4>3
    <3>5. CASE d # 0
      <4>1. datas[i] = taken + 1 - d
        BY <3>1, <3>3, <3>5 DEF WindowInv
      <4> QED BY <1>0, <3>1, <3>3, <4>1
    <3> QED BY <3>4, <3>5
  <2>3. /\ taken' - base' = taken + 1 - base /\ taken' + 1 = taken + 2
    BY <1>0, <2>1
  <2>4. \A i \in Slots : Ahead(i, rear)' = Ahead(i, rear') /\ datas'[i] = datas[i]
    BY <2>1 DEF Ahead
  <2>5. ASSUME NEW i \in Slots, (0 < Ahead(i, rear) /\ Ahead(i, rear) <= taken - base)'
        PROVE  (datas[i] = taken + 1 - Ahead(i, rear))'
    <3>1. PICK e : e = Ahead(i, rear')
      OBVIOUS
    <3>2. e \in Int
      BY <1>0, <2>1, <3>1, NextSlotIs
    <3>3. 0 < e /\ e <= taken + 1 - base
      BY <2>3, <2>4, <2>5, <3>1
    <3>4. datas[i] = taken + 2 - e
      BY <2>2, <3>1, <3>3
    <3> QED BY <1>0, <2>1, <2>4, <3>1, <3>2, <3>4
  <2> QED BY <2>5 DEF WindowInv
<1>3. CASE InitRing
  <2>1. taken' - base' = 0
    BY <1>0, <1>3 DEF InitRing
  <2>2. rear' \in Slots /\ \A i \in Slots : Ahead(i, rear') \in Int
    <3>1. rear' \in Slots
      BY <1>3 DEF InitRing, Slots
    <3> QED BY <1>0, <3>1
  <2>3. ASSUME NEW i \in Slots PROVE ~(0 < Ahead(i, rear') /\ Ahead(i, rear') <= taken' - base')
    BY <2>1, <2>2
  <2> QED BY <2>3 DEF WindowInv, Ahead
<1>4. ASSUME UNCHANGED <<rear, datas, taken, base>> PROVE WindowInv'
  BY <1>4 DEF WindowInv, Ahead
<1>5. CASE Expire
  BY <1>4, <1>5 DEF Expire
<1>6. ASSUME Controller, ~InitRing PROVE WindowInv'
  BY <1>4, <1>6 DEF Controller, Activate, Arm, Alloc, Deactivate, CancelSampling, DeleteDuration
<1>7. CASE Ending
  BY <1>4, <1>7 DEF Ending, DurationFires, DurationCancels
<1>8. ASSUME NEW r \in Readers, Reader(r) PROVE WindowInv'
  BY <1>4, <1>8 DEF Reader, Open, ReadFront, LockRing, PrintRow, Close
<1>9. CASE UNCHANGED vars
  BY <1>4, <1>9 DEF vars
<1> QED BY <1>1, <1>2, <1>3, <1>5, <1>6, <1>7, <1>8, <1>9 DEF Next, Sampler

\* The file exists while the monitor is active or on its way to it, and only then has
\* readers; those that came before the ring was initialised are known.
FileInv ==
  /\ file = 1 <=> cpc \in {"init", "arm", "alloc"} \/ (cpc = "off" /\ activated)
  /\ file = 1 => entry
  /\ \A r \in Readers : rpc[r] # "idle" => file = 1 /\ (cpc = "init" => r \in early)

LEMMA FileNext ==
  ASSUME ~AllocFails
  PROVE  TypeOK /\ FileInv /\ [Next]_vars => FileInv'
<1> SUFFICES ASSUME TypeOK, FileInv, [Next]_vars PROVE FileInv'
  OBVIOUS
<1> USE DEF FileInv, ring, timers, control, readers
<1>1. CASE Sampler
  BY <1>1 DEF Sampler, Expire, Store, Advance
<1>2. CASE Ending
  BY <1>2 DEF Ending, DurationFires, DurationCancels
<1>3. CASE Controller
  <2>1. CASE Alloc
    <3>1. activated' = TRUE /\ cpc' = "off" /\ cpc = "alloc" /\ UNCHANGED <<file, entry, rpc, early>>
      BY <2>1 DEF Alloc
    <3> QED BY <3>1
  <2>2. CASE Activate
    BY <2>2 DEF Activate, TypeOK
  <2>3. CASE InitRing
    BY <2>3 DEF InitRing
  <2>4. CASE Arm
    BY <2>4 DEF Arm
  <2>5. CASE Deactivate
    BY <2>5 DEF Deactivate
  <2>6. CASE CancelSampling
    BY <2>6 DEF CancelSampling
  <2>7. CASE DeleteDuration
    BY <2>7 DEF DeleteDuration
  <2> QED BY <1>3, <2>1, <2>2, <2>3, <2>4, <2>5, <2>6, <2>7 DEF Controller
<1>4. ASSUME NEW r \in Readers, Reader(r) PROVE FileInv'
  BY <1>4 DEF Reader, Open, ReadFront, LockRing, PrintRow, Close, TypeOK
<1>5. CASE UNCHANGED vars
  BY <1>5 DEF vars
<1> QED BY <1>1, <1>2, <1>3, <1>4, <1>5 DEF Next

\* A reader that has printed nothing will start with a sample of the session, if with any;
\* one that has printed goes on with the next, which cannot have been overwritten: no more
\* than two samples begin while it is inside.
Busy == IF apc = "idle" THEN 0 ELSE 1
Behind(r) == taken - rows[r][Len(rows[r])]
Going(r) ==
  IF rows[r] = <<>>
    THEN /\ Ahead(pos[r], rear) <= taken - base
         /\ Ahead(pos[r], rear) + budget[r] + Busy <= Cap + 1
    ELSE /\ 0 <= Behind(r) /\ Behind(r) < taken - base
         /\ Behind(r) + budget[r] + Busy <= Cap
         /\ Ahead(pos[r], rear) = IF Behind(r) = Cap THEN 0 ELSE Behind(r)
InARow(s) == \A k \in DOMAIN s : s[k] = s[1] + k - 1 /\ s[k] > 0

RowInv ==
  \A r \in Readers \ early :
    /\ budget[r] <= 2 /\ InARow(rows[r])
    /\ rpc[r] \in {"front", "lock"} => rows[r] = <<>>
    /\ rpc[r] \in {"lock", "rows"} => Going(r)

\* A row more.
LEMMA AddARow ==
  ASSUME NEW s \in Seq(Nat), InARow(s), NEW n \in Nat, n > 0,
         s # <<>> => n = s[Len(s)] + 1
  PROVE  InARow(Append(s, n)) /\ Append(s, n) # <<>>
         /\ Append(s, n)[Len(Append(s, n))] = n
<1>1. PICK k : k = Len(s)
  OBVIOUS
<1>2. PICK t : t = Append(s, n)
  OBVIOUS
<1>3. k \in Nat /\ t \in Seq(Nat) /\ Len(t) = k + 1 /\ t[k + 1] = n /\ \A i \in 1..k : t[i] = s[i]
  BY <1>1, <1>2
<1>4. DOMAIN s = 1..k /\ DOMAIN t = 1..k + 1 /\ t # <<>>
  BY <1>1, <1>3
<1>5. CASE k = 0
  BY <1>2, <1>3, <1>4, <1>5 DEF InARow
<1>6. CASE k > 0
  <2>1. k \in DOMAIN s /\ 1 \in DOMAIN s /\ 1 \in 1..k /\ s # <<>>
    BY <1>1, <1>3, <1>4, <1>6
  <2>2. n = s[k] + 1 /\ s[k] = s[1] + k - 1 /\ s[1] \in Nat /\ t[1] = s[1]
    <3>1. n = s[k] + 1
      BY <1>1, <2>1
    <3>2. s[k] = s[1] + k - 1
      BY <2>1 DEF InARow
    <3>3. s[1] \in Nat
      BY <2>1
    <3>4. t[1] = s[1]
      BY <1>3, <2>1
    <3> QED BY <3>1, <3>2, <3>3, <3>4
  <2>3. ASSUME NEW i \in 1..k + 1 PROVE t[i] = t[1] + i - 1 /\ t[i] > 0
    <3>1. CASE i = k + 1
      BY <1>3, <2>2, <3>1
    <3>2. CASE i \in 1..k
      BY <1>3, <1>4, <2>2, <3>2 DEF InARow
    <3> QED BY <1>3, <3>1, <3>2
  <2> QED BY <1>2, <1>3, <1>4, <2>3 DEF InARow
<1> QED BY <1>3, <1>5, <1>6

\* The row that is printed.
LEMMA PrintRowDoes ==
  ASSUME TypeOK, RingInv, WindowInv, NEW r \in Readers \ early, Going(r), InARow(rows[r]),
         PrintRow(r)
  PROVE  InARow(rows[r])' /\ Going(r)'
<1>1. /\ rows' = [rows EXCEPT ![r] = Append(@, datas[pos[r]])]
      /\ pos' = [pos EXCEPT ![r] = NextSlot(@)]
      /\ pos[r] # rear /\ UNCHANGED <<taken, base, rear, apc, budget>>
  BY DEF PrintRow, Following, ring
<1>2. /\ rows[r] \in Seq(Nat) /\ pos[r] \in Slots /\ rear \in Slots /\ r \in Readers
      /\ taken \in Nat /\ base \in Nat /\ base <= taken /\ budget[r] \in Nat /\ Busy \in {0, 1}
      /\ datas[pos[r]] \in Nat
      /\ rows'[r] = Append(rows[r], datas[pos[r]]) /\ pos'[r] = NextSlot(pos[r])
  BY <1>1 DEF TypeOK, RingInv, Busy
<1>3. PICK d, n, b : d = Ahead(pos[r], rear) /\ n = datas[pos[r]] /\ b = budget[r]
  OBVIOUS
<1>4. d \in Int /\ 0 < d /\ d < Cap
  <2>1. d \in Slots
    BY <1>2, <1>3, AheadIs
  <2>2. d # 0
    BY <1>1, <1>2, <1>3, AheadMoves
  <2> QED BY <2>1, <2>2, SlotsNat
<1>5. d <= taken - base
  BY <1>2, <1>3, <1>4 DEF Going
<1>6. n = taken + 1 - d
  BY <1>2, <1>3, <1>4, <1>5 DEF WindowInv
<1>7. rows[r] # <<>> => n = rows[r][Len(rows[r])] + 1 /\ d + b + Busy <= Cap
  <2> SUFFICES ASSUME rows[r] # <<>>
               PROVE  n = rows[r][Len(rows[r])] + 1 /\ d + b + Busy <= Cap
    OBVIOUS
  <2>1. PICK l, k : k = Behind(r) /\ l = rows[r][Len(rows[r])]
    OBVIOUS
  <2>2. k = taken - l /\ k + b + Busy <= Cap /\ d = IF k = Cap THEN 0 ELSE k
    BY <1>3, <2>1 DEF Going, Behind
  <2>3. l \in Nat
    BY <1>2, <2>1
  <2>4. n = l + 1 /\ d + b + Busy <= Cap
    BY <1>2, <1>4, <1>6, <2>2, <2>3
  <2> QED BY <2>1, <2>4
<1>8. n \in Nat /\ n > 0 /\ taken - n = d - 1
  BY <1>2, <1>4, <1>5, <1>6
<1>9. InARow(rows'[r]) /\ rows'[r] # <<>> /\ rows'[r][Len(rows'[r])] = n
  <2>1. PICK s : s = rows[r]
    OBVIOUS
  <2>2. s \in Seq(Nat) /\ InARow(s) /\ (s # <<>> => n = s[Len(s)] + 1) /\ n \in Nat /\ n > 0
    BY <1>2, <1>7, <1>8, <2>1
  <2>3. InARow(Append(s, n)) /\ Append(s, n) # <<>> /\ Append(s, n)[Len(Append(s, n))] = n
    BY <2>2, AddARow
  <2> QED BY <1>2, <1>3, <2>1, <2>3
<1>10. Ahead(pos'[r], rear) = d - 1
  BY <1>2, <1>3, <1>4, AheadMoves
<1>11. d - 1 + b + Busy <= Cap
  <2>1. CASE rows[r] = <<>>
    <3>1. d + b + Busy <= Cap + 1
      BY <1>3, <2>1 DEF Going
    <3> QED BY <1>2, <1>3, <1>4, <3>1
  <2>2. CASE rows[r] # <<>>
    BY <1>2, <1>3, <1>4, <1>7, <2>2
  <2> QED BY <2>1, <2>2
<1>12. 0 <= d - 1 /\ d - 1 < taken - base /\ d - 1 # Cap
  BY <1>2, <1>3, <1>4, <1>5
<1>13. PICK m : m = Behind(r)'
  OBVIOUS
<1>14. m = d - 1
  BY <1>1, <1>8, <1>9, <1>13 DEF Behind
<1>15. Ahead(pos[r], rear)' = m /\ budget'[r] = b /\ Busy' = Busy
  BY <1>1, <1>3, <1>10, <1>14 DEF Ahead, Busy
<1>16. /\ 0 <= m /\ m < taken' - base' /\ m + b + Busy' <= Cap /\ m # Cap
  BY <1>1, <1>11, <1>12, <1>14, <1>15
<1> QED BY <1>9, <1>13, <1>15, <1>16 DEF InARow, Going

\* A sample begins while readers print.
LEMMA RowExpire == TypeOK /\ RowInv /\ Expire => RowInv'
<1> SUFFICES ASSUME TypeOK, RowInv, Expire, NEW r \in Readers \ early
             PROVE  (/\ budget[r] <= 2 /\ InARow(rows[r])
                     /\ rpc[r] \in {"front", "lock"} => rows[r] = <<>>
                     /\ rpc[r] \in {"lock", "rows"} => Going(r))'
  BY DEF RowInv, Expire, readers
<1>1. /\ UNCHANGED <<rpc, rows, pos, rear, taken, base>> /\ apc = "idle" /\ apc' = "store"
      /\ rpc[r] # "idle" => budget[r] > 0
      /\ budget'[r] = IF rpc[r] # "idle" THEN budget[r] - 1 ELSE budget[r]
  BY DEF Expire, readers
<1>2. /\ taken \in Nat /\ budget[r] \in Nat /\ rows[r] \in Seq(Nat)
      /\ pos[r] \in Slots /\ rear \in Slots
  BY DEF TypeOK
<1>3. ASSUME rpc[r] \in {"lock", "rows"} PROVE Going(r)'
  <2>1. Behind(r)' = Behind(r) /\ Ahead(pos[r], rear)' = Ahead(pos[r], rear)
        /\ Busy = 0 /\ Busy' = 1
    BY <1>1 DEF Behind, Ahead, Busy
  <2>2. Going(r)
    BY <1>3 DEF RowInv
  <2>3. budget'[r] + 1 = budget[r] /\ budget'[r] \in Int
    BY <1>1, <1>2, <1>3
  <2>4. CASE rows[r] = <<>>
    <3>1. PICK d : d = Ahead(pos[r], rear)
      OBVIOUS
    <3>2. d \in Int
      BY <1>2, <3>1, AheadIs, SlotsNat
    <3>3. d <= taken - base /\ d + budget'[r] + 1 <= Cap + 1
      BY <1>2, <2>1, <2>2, <2>3, <2>4, <3>1, <3>2 DEF Going
    <3> QED BY <1>1, <2>1, <2>4, <3>1, <3>3 DEF Going
  <2>5. CASE rows[r] # <<>>
    <3>1. PICK k : k = Behind(r)
      OBVIOUS
    <3>2. k \in Int
      <4>1. Len(rows[r]) \in DOMAIN rows[r]
        BY <1>2, <2>5
      <4>2. rows[r][Len(rows[r])] \in Nat
        BY <1>2, <4>1
      <4> QED BY <1>2, <3>1, <4>2 DEF Behind
    <3>3. k + budget'[r] + 1 <= Cap
      BY <1>2, <2>1, <2>2, <2>3, <2>5, <3>1, <3>2 DEF Going
    <3> QED BY <1>1, <2>1, <2>2, <2>5, <3>1, <3>3 DEF Going
  <2> QED BY <2>4, <2>5
<1>4. budget'[r] <= 2
  BY <1>1, <1>2 DEF RowInv
<1>5. InARow(rows[r])' /\ (rpc'[r] \in {"front", "lock"} => rows'[r] = <<>>)
  BY <1>1 DEF RowInv, InARow
<1> QED BY <1>1, <1>3, <1>4, <1>5

\* A sample is complete.
LEMMA RowAdvance == TypeOK /\ RingInv /\ RowInv /\ Advance => RowInv'
<1> SUFFICES ASSUME TypeOK, RingInv, RowInv, Advance, NEW r \in Readers \ early
             PROVE  (/\ budget[r] <= 2 /\ InARow(rows[r])
                     /\ rpc[r] \in {"front", "lock"} => rows[r] = <<>>
                     /\ rpc[r] \in {"lock", "rows"} => Going(r))'
  BY DEF RowInv, Advance, readers
<1>1. /\ UNCHANGED <<rpc, rows, pos, budget, base>> /\ apc = "advance" /\ apc' = "idle"
      /\ rear' = NextSlot(rear) /\ taken' = taken + 1
  BY DEF Advance, Advanced, readers
<1>2. /\ taken \in Nat /\ base \in Nat /\ budget[r] \in Nat /\ rows[r] \in Seq(Nat)
      /\ pos[r] \in Slots /\ rear \in Slots /\ base <= taken
  BY DEF TypeOK, RingInv
<1>3. ASSUME rpc[r] \in {"lock", "rows"} PROVE Going(r)'
  <2>1. PICK d, e, b : d = Ahead(pos[r], rear) /\ e = Ahead(pos[r], rear)' /\ b = budget[r]
    OBVIOUS
  <2>2. d \in Int /\ 0 <= d /\ d < Cap /\ e = IF d = Cap - 1 THEN 0 ELSE d + 1
    <3>1. e = Ahead(pos[r], NextSlot(rear))
      BY <1>1, <2>1 DEF Ahead
    <3>2. d \in Slots
      BY <1>2, <2>1, AheadIs
    <3>3. e = IF d = Cap - 1 THEN 0 ELSE d + 1
      BY <1>2, <2>1, <3>1, AheadMoves
    <3> QED BY <3>2, <3>3, SlotsNat
  <2>3. Going(r) /\ Busy = 1 /\ Busy' = 0
    BY <1>1, <1>3 DEF RowInv, Busy
  <2>4. CASE rows[r] = <<>>
    <3>1. d <= taken - base /\ d + b + 1 <= Cap + 1
      BY <2>1, <2>3, <2>4 DEF Going
    <3>2. e <= taken' - base' /\ e + b + 0 <= Cap + 1
      BY <1>1, <1>2, <2>1, <2>2, <3>1
    <3> QED BY <1>1, <2>1, <2>3, <2>4, <3>2 DEF Going
  <2>5. CASE rows[r] # <<>>
    <3>1. PICK k, m : k = Behind(r) /\ m = Behind(r)'
      OBVIOUS
    <3>2. k \in Int /\ m = k + 1
      <4>1. Len(rows[r]) \in DOMAIN rows[r]
        BY <1>2, <2>5
      <4>2. PICK l : l = rows[r][Len(rows[r])]
        OBVIOUS
      <4>3. l \in Nat /\ k = taken - l /\ m = taken + 1 - l
        BY <1>1, <1>2, <3>1, <4>1, <4>2 DEF Behind
      <4> QED BY <1>2, <4>3
    <3>3. 0 <= k /\ k < taken - base /\ k + b + 1 <= Cap /\ d = IF k = Cap THEN 0 ELSE k
      BY <1>2, <2>1, <2>3, <2>5, <3>1, <3>2 DEF Going
    <3>4. /\ 0 <= m /\ m < taken' - base' /\ m + b + 0 <= Cap
          /\ e = IF m = Cap THEN 0 ELSE m
      <4>1. b \in Nat /\ taken' - base' = taken - base + 1 /\ taken - base \in Int
        BY <1>1, <1>2, <2>1
      <4>2. PICK w : w = taken - base
        OBVIOUS
      <4>3. 0 <= m /\ m < w + 1 /\ m + b + 0 <= Cap /\ e = IF m = Cap THEN 0 ELSE m
        BY <2>2, <3>2, <3>3, <4>1, <4>2
      <4> QED BY <4>1, <4>2, <4>3
    <3> QED BY <1>1, <2>1, <2>3, <2>5, <3>1, <3>4 DEF Going
  <2> QED BY <2>4, <2>5
<1>4. InARow(rows[r])' /\ (rpc'[r] \in {"front", "lock"} => rows'[r] = <<>>) /\ budget'[r] <= 2
  BY <1>1 DEF RowInv, InARow
<1> QED BY <1>1, <1>3, <1>4

\* The readers.
LEMMA RowReader ==
  ASSUME SamplesPerShow <= 2, TypeOK, RingInv, WindowInv, RowInv, NEW r \in Readers, Reader(r)
  PROVE  RowInv'
<1>0. /\ UNCHANGED <<rear, taken, base, apc>> /\ early' \ {r} = early \ {r}
      /\ \A q \in Readers \ {r} : /\ rpc'[q] = rpc[q] /\ rows'[q] = rows[q] /\ pos'[q] = pos[q]
                                  /\ budget'[q] = budget[q]
  BY DEF TypeOK, Reader, Open, ReadFront, LockRing, PrintRow, Close, ring, control, timers
<1>1. ASSUME NEW q \in Readers \ early', q # r
      PROVE  (/\ budget[q] <= 2 /\ InARow(rows[q])
              /\ rpc[q] \in {"front", "lock"} => rows[q] = <<>>
              /\ rpc[q] \in {"lock", "rows"} => Going(q))'
  <2>1. q \in Readers \ early
    BY <1>0, <1>1
  <2>2. Going(q)' <=> Going(q)
    BY <1>0, <1>1 DEF Going, Behind, Busy, Ahead
  <2> QED BY <1>0, <1>1, <2>1, <2>2 DEF RowInv, InARow
<1>2. ASSUME r \notin early'
      PROVE  (/\ budget[r] <= 2 /\ InARow(rows[r])
              /\ rpc[r] \in {"front", "lock"} => rows[r] = <<>>
              /\ rpc[r] \in {"lock", "rows"} => Going(r))'
  <2>1. CASE Open(r)
    <3>1. rpc'[r] = "front" /\ rows'[r] = <<>> /\ budget'[r] = SamplesPerShow
      BY <2>1 DEF Open, TypeOK
    <3> QED BY <3>1 DEF InARow
  <2> USE DEF RowInv, TypeOK
  <2>2. CASE ReadFront(r)
    <3>1. /\ rpc[r] = "front" /\ pos'[r] = front /\ rpc'[r] = "lock" /\ UNCHANGED <<rows, budget, early>>
      BY <2>2 DEF ReadFront
    <3>2. rows[r] = <<>> /\ budget[r] <= 2 /\ InARow(rows[r])
      BY <1>2, <3>1
    <3>3. Ahead(pos'[r], rear) <= taken - base /\ Ahead(pos'[r], rear) + budget[r] + Busy <= Cap + 1
      <4>1. PICK d, b : d = Filled /\ b = budget[r]
        OBVIOUS
      <4>2. d \in Int /\ d <= taken - base /\ d + Busy <= Cap - 1 /\ b \in Nat /\ b <= 2
        BY <1>2, <3>2, <4>1 DEF RingInv, Least, Busy
      <4>3. d + b + Busy <= Cap + 1
        BY <4>2 DEF Busy
      <4> QED BY <3>1, <4>1, <4>2, <4>3 DEF Filled
    <3> QED BY <1>0, <3>1, <3>2, <3>3 DEF Going, Ahead, InARow, Busy
  <2>3. CASE LockRing(r)
    <3>1. /\ rpc[r] = "lock" /\ rpc'[r] = "rows" /\ UNCHANGED <<pos, rows, budget, early>>
      BY <2>3 DEF LockRing
    <3>2. Going(r)' <=> Going(r)
      BY <1>0, <3>1 DEF Going, Behind, Busy, Ahead
    <3> QED BY <1>2, <3>1, <3>2 DEF InARow
  <2>4. CASE PrintRow(r)
    <3>1. rpc[r] = "rows" /\ UNCHANGED <<rpc, budget, early>>
      BY <2>4 DEF PrintRow
    <3>2. InARow(rows[r])' /\ Going(r)'
      BY <1>2, <2>4, <3>1, PrintRowDoes
    <3> QED BY <1>2, <3>1, <3>2
  <2>5. CASE Close(r)
    <3>1. rpc'[r] = "idle" /\ UNCHANGED <<pos, rows, budget, early>>
      BY <2>5 DEF Close
    <3> QED BY <1>2, <3>1 DEF InARow
  <2> QED BY <2>1, <2>2, <2>3, <2>4, <2>5 DEF Reader
<1> QED BY <1>1, <1>2 DEF RowInv

LEMMA RowNext ==
  ASSUME SamplesPerShow <= 2
  PROVE  TypeOK /\ RingInv /\ WindowInv /\ FileInv /\ RowInv /\ [Next]_vars => RowInv'
<1> SUFFICES ASSUME TypeOK, RingInv, WindowInv, FileInv, RowInv, [Next]_vars PROVE RowInv'
  OBVIOUS
<1> USE DEF ring, timers, control, readers
<1>1. ASSUME UNCHANGED <<rpc, rows, pos, budget, early, rear, taken, base>>, Busy' = Busy
      PROVE  RowInv'
  BY <1>1 DEF RowInv, InARow, Going, Behind, Ahead
<1>2. CASE Store
  BY <1>1, <1>2 DEF Store, Busy
<1>3. CASE InitRing
  <2>1. \A r \in Readers \ early : rpc[r] = "idle"
    BY <1>3 DEF InitRing, FileInv
  <2>2. UNCHANGED <<rpc, rows, budget, early>>
    BY <1>3 DEF InitRing
  <2> QED BY <2>1, <2>2 DEF RowInv, InARow
<1>4. ASSUME Controller, ~InitRing PROVE RowInv'
  <2>1. UNCHANGED <<rpc, rows, pos, budget, early, rear, taken, base, apc>>
    BY <1>4 DEF Controller, Activate, Arm, Alloc, Deactivate, CancelSampling, DeleteDuration
  <2> QED BY <1>1, <2>1 DEF Busy
<1>5. CASE Ending
  <2>1. UNCHANGED <<rpc, rows, pos, budget, early, rear, taken, base, apc>>
    BY <1>5 DEF Ending, DurationFires, DurationCancels
  <2> QED BY <1>1, <2>1 DEF Busy
<1>6. CASE UNCHANGED vars
  BY <1>1, <1>6 DEF vars, Busy
<1> QED BY <1>2, <1>3, <1>4, <1>5, <1>6, RowExpire, RowAdvance, RowReader DEF Next, Sampler

\* Whatever the size of the ring and the number of readers, what a reader prints are samples
\* in the order they were taken, without a gap, although none of them is locked out by the
\* timer: provided that no more than two samples begin while it is inside the file, and that
\* the record buffer can be allocated.
THEOREM RowsAlwaysInOrder ==
  ASSUME ~AllocFails, SamplesPerShow <= 2
  PROVE  Spec => []RowsInOrder
<1>1. Init => StoppedInv /\ RingInv /\ WindowInv /\ FileInv /\ RowInv
  <2> SUFFICES ASSUME Init PROVE StoppedInv /\ RingInv /\ WindowInv /\ FileInv /\ RowInv
    OBVIOUS
  <2>1. WindowInv
    <3>1. \A i \in Slots : Ahead(i, rear) \in Int
      BY AheadIs, SlotsNat DEF Init, Slots
    <3> QED BY <3>1 DEF Init, WindowInv
  <2>2. RowInv
    BY DEF Init, RowInv, InARow
  <2>3. FileInv
    BY DEF Init, FileInv
  <2> QED BY <2>1, <2>2, <2>3, RingEmpty DEF Init, StoppedInv
<1>2. RowInv => RowsInOrder
  BY DEF RowInv, InARow, RowsInOrder
<1> QED BY TypeInit, TypeNext, StoppedNext, RingNext, WindowNext, FileNext, RowNext, <1>1, <1>2, PTL
        DEF Spec
=============================================================================
