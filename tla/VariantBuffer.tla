--------------------------- MODULE VariantBuffer ---------------------------
(***************************************************************************)
(* The record buffer every monitor of the kernel module writes to and      *)
(* every report command drains: pub/variant_buffer.c.                      *)
(*                                                                         *)
(* Two equally large halves are filled in turn.  A writer holds the spin   *)
(* lock (with interrupts off) around reserve, write and seal.  A report    *)
(* copies both halves, the older first, to a third area, the product,      *)
(* under a mutex and the spin lock, empties the halves, lets both locks    *)
(* go, and only then copies the product to user space.                     *)
(*                                                                         *)
(* A half is modelled by what is visible below pos: the records, each with *)
(* the offset of its header, the header's len field (0 until sealed) and   *)
(* whether all of its payload was stored.  Sizes are in an arbitrary unit: *)
(* HeadSize and Word stand for sizeof(struct diag_variant_buffer_head) and *)
(* sizeof(unsigned long).                                                  *)
(***************************************************************************)
EXTENDS Integers, Sequences, FiniteSets

CONSTANTS
  Writers,     \* kernel contexts that emit records
  Dumpers,     \* processes that issue a DUMP request
  Nobody,      \* the holder of a free lock
  BufSize,     \* the size given to init_diag_variant_buffer
  HeadSize,    \* sizeof(struct diag_variant_buffer_head)
  Word,        \* sizeof(unsigned long)
  Payloads,    \* the records a writer emits: the length it gives to reserve
               \* and the lengths of its write calls, [len, parts]
  UserSizes,   \* the sizes of the user buffers passed to DUMP
  MaxRecords   \* bound on the number of records ever sealed

ASSUME SizesAssumption ==
  /\ BufSize \in Nat /\ HeadSize \in Nat \ {0} /\ Word \in Nat \ {0}
  /\ BufSize > HeadSize + Word
  /\ UserSizes \subseteq Nat
ASSUME PayloadsAssumption == Payloads \subseteq [len : Nat, parts : Seq(Nat)]

\* The write calls of a record store at most n: rest[i] is what they store from
\* the i-th on.
AddUpWithin(parts, n) ==
  \E rest \in [1..(Len(parts) + 1) -> 0..n] :
    rest[Len(parts) + 1] = 0 /\ \A i \in 1..Len(parts) : rest[i] = parts[i] + rest[i + 1]

\* Every caller writes at most what it reserved, and there is a longest record.
ASSUME CallersAssumption ==
  /\ \A p \in Payloads : AddUpWithin(p.parts, p.len)
  /\ \E p \in Payloads : \A q \in Payloads : q.len <= p.len
ASSUME HoldersAssumption ==
  /\ Nobody \notin Writers \cup Dumpers
  /\ Writers \cap Dumpers = {}
ASSUME BoundAssumption == MaxRecords \in Nat

NoHead == -1          \* head == NULL
Halves == {0, 1}

VARIABLES
  size,       \* buf_size: BufSize, or 0 once destroyed
  alloced,    \* the three areas exist
  buffers,    \* [pos, head, recs] of each half
  toggle,     \* buffer_toggle: the half that is written
  product,    \* [len, recs]: what the last backup collected
  spin,       \* holder of buffer->lock
  mutex,      \* holder of buffer->mutex
  wpc, todo,  \* per writer: where it is, the write calls still to make
  dpc, dlen,  \* per dumper: where it is, the length it will copy
  snap, out,  \* per dumper: the records its own backup took, those it copied
  seq,        \* number of records sealed so far
  delivered   \* ids of all records that some finished dump copied

memory == <<size, alloced, buffers, toggle, product>>
writerVars == <<wpc, todo, seq>>
dumperVars == <<dpc, dlen, snap, out, delivered>>
vars == <<size, alloced, buffers, toggle, product, spin, mutex,
          wpc, todo, dpc, dlen, snap, out, seq, delivered>>

Record == [id : Nat, at : Nat, len : Nat, sealed : BOOLEAN, whole : BOOLEAN]
Half == [pos : Nat, head : Nat \cup {NoHead}, recs : Seq(Record)]

NoPayload == [len |-> 0, parts |-> <<>>]
EmptyHalf == [pos |-> 0, head |-> NoHead, recs |-> <<>>]
EmptyProduct == [len |-> 0, recs |-> <<>>]

Other(i) == 1 - i
Active == buffers[toggle]
Older == buffers[Other(toggle)]

(***************************************************************************)
(* reserve: real_len is computed with "& (sizeof(long) - 1)", so it is the *)
(* remainder of the length, not the length rounded up; what reserve tests  *)
(* is therefore only that a header and the remainder fit.                  *)
(***************************************************************************)
\* Mutant: reserve that asks for two headers.
MutRealLenTwoHeads(len) == ((len + Word) % Word) + 2 * HeadSize

RealLen(len) == ((len + Word) % Word) + HeadSize

NewRecord(at) == [id |-> seq + 1, at |-> at, len |-> 0, sealed |-> FALSE, whole |-> TRUE]

\* The header goes behind what the active half holds.
ReserveHere(b) ==
  [pos |-> b.pos + HeadSize, head |-> b.pos, recs |-> Append(b.recs, NewRecord(b.pos))]

\* The other half is started over, whatever it held.
ReserveAnew == [pos |-> HeadSize, head |-> 0, recs |-> <<NewRecord(0)>>]

Init ==
  /\ size = BufSize /\ alloced = FALSE
  /\ buffers = [i \in Halves |-> EmptyHalf] /\ toggle = 0
  /\ product = EmptyProduct
  /\ spin = Nobody /\ mutex = Nobody
  /\ wpc = [w \in Writers |-> "idle"] /\ todo = [w \in Writers |-> NoPayload]
  /\ dpc = [d \in Dumpers |-> "idle"] /\ dlen = [d \in Dumpers |-> 0]
  /\ snap = [d \in Dumpers |-> <<>>] /\ out = [d \in Dumpers |-> <<>>]
  /\ seq = 0 /\ delivered = {}

-----------------------------------------------------------------------------
(* Life of the buffer: module load, activation, module unload.             *)

\* alloc_diag_variant_buffer, successful.  A monitor allocates before it
\* installs the hooks that write, so no writer is inside its critical section.
Alloc ==
  /\ ~alloced /\ size # 0
  /\ spin = Nobody
  /\ alloced' = TRUE
  /\ UNCHANGED <<size, buffers, toggle, product, spin, mutex>>
  /\ UNCHANGED <<writerVars, dumperVars>>

\* Module exit: hooks and device are gone before the buffer is destroyed.
Destroy ==
  /\ size # 0
  /\ \A w \in Writers : wpc[w] = "idle"
  /\ \A d \in Dumpers : dpc[d] = "idle"
  /\ size' = 0 /\ alloced' = FALSE
  /\ buffers' = [i \in Halves |-> EmptyHalf] /\ toggle' = 0
  /\ product' = EmptyProduct
  /\ UNCHANGED <<spin, mutex, writerVars, dumperVars>>

\* The module is loaded again.
InitBuffer ==
  /\ size = 0
  /\ size' = BufSize
  /\ UNCHANGED <<alloced, buffers, toggle, product, spin, mutex>>
  /\ UNCHANGED <<writerVars, dumperVars>>

-----------------------------------------------------------------------------
(* A writer.                                                               *)

\* No hook is live between module exit and the next load: size # 0.
Lock(w) ==
  /\ wpc[w] = "idle" /\ spin = Nobody /\ size # 0
  /\ seq < MaxRecords
  /\ spin' = w
  /\ wpc' = [wpc EXCEPT ![w] = "reserve"]
  /\ \E p \in Payloads : todo' = [todo EXCEPT ![w] = p]
  /\ UNCHANGED <<memory, mutex, seq, dumperVars>>

\* diag_variant_buffer_reserve with its three outcomes: no buffer, the active
\* half has room, the halves are exchanged.
ReserveNothing == ~alloced /\ UNCHANGED <<buffers, toggle>>

ReserveFits(len) ==
  /\ alloced
  /\ Active.pos + RealLen(len) < size
  /\ buffers' = [buffers EXCEPT ![toggle] = ReserveHere(@)]
  /\ UNCHANGED toggle

ReserveToggles(len) ==
  /\ alloced
  /\ Active.pos + RealLen(len) >= size
  /\ toggle' = Other(toggle)
  /\ buffers' = [buffers EXCEPT ![Other(toggle)] = ReserveAnew]

Reserve(w) ==
  /\ wpc[w] = "reserve"
  /\ \/ ReserveNothing
     \/ ReserveFits(todo[w].len)
     \/ ReserveToggles(todo[w].len)
  /\ wpc' = [wpc EXCEPT ![w] = "write"]
  /\ UNCHANGED <<size, alloced, product, spin, mutex, todo, seq, dumperVars>>

\* diag_variant_buffer_write_nolock: what does not fit is left out without
\* an error; the record that is being written stays open.
Stored(b, len) == [b EXCEPT !.pos = @ + len]
LeftOut(b) ==
  [b EXCEPT !.recs = [i \in DOMAIN b.recs |->
     IF b.recs[i].sealed THEN b.recs[i] ELSE [b.recs[i] EXCEPT !.whole = FALSE]]]

\* Mutant: buf_size is taken for the size of both halves together.
MutWriteHalf(b, len) == IF len < (size \div 2) - b.pos THEN Stored(b, len) ELSE LeftOut(b)
WriteInto(b, len) == IF len < size - b.pos THEN Stored(b, len) ELSE LeftOut(b)

Write(w) ==
  /\ wpc[w] = "write" /\ todo[w].parts # <<>>
  /\ buffers' = IF alloced
                  THEN [buffers EXCEPT ![toggle] = WriteInto(@, Head(todo[w].parts))]
                  ELSE buffers
  /\ todo' = [todo EXCEPT ![w].parts = Tail(@)]
  /\ UNCHANGED <<size, alloced, toggle, product, spin, mutex, wpc, seq, dumperVars>>

\* diag_variant_buffer_seal: the header at head gets its magic and its length.
Closed(b) ==
  [b EXCEPT !.recs = [i \in DOMAIN b.recs |->
     IF b.recs[i].at = b.head
       THEN [b.recs[i] EXCEPT !.sealed = TRUE, !.len = b.pos - b.head]
       ELSE b.recs[i]]]

CanSeal == alloced /\ Active.head >= 0 /\ Active.head <= size - HeadSize

Seal(w) ==
  /\ wpc[w] = "write" /\ todo[w].parts = <<>>
  /\ IF CanSeal
       THEN /\ buffers' = [buffers EXCEPT ![toggle] = Closed(@)]
            /\ seq' = seq + 1
       ELSE UNCHANGED <<buffers, seq>>
  /\ wpc' = [wpc EXCEPT ![w] = "unlock"]
  /\ UNCHANGED <<size, alloced, toggle, product, spin, mutex, todo, dumperVars>>

Unlock(w) ==
  /\ wpc[w] = "unlock"
  /\ spin' = Nobody
  /\ wpc' = [wpc EXCEPT ![w] = "idle"]
  /\ todo' = [todo EXCEPT ![w] = NoPayload]
  /\ UNCHANGED <<memory, mutex, seq, dumperVars>>

\* discard_diag_variant_buffer, called by a context that starts a new trace.
\* The heads are left as they are.
Discard ==
  /\ alloced
  /\ mutex = Nobody /\ spin = Nobody
  /\ buffers' = [i \in Halves |->
       [pos |-> 0, head |-> buffers[i].head, recs |-> <<>>]]
  /\ toggle' = 0
  /\ UNCHANGED <<size, alloced, product, spin, mutex, writerVars, dumperVars>>

-----------------------------------------------------------------------------
(* A report: copy_to_user_variant_buffer, which calls backup.              *)

\* The unlocked test of alloced at the head of backup.
DumpStart(d) ==
  /\ dpc[d] = "idle" /\ size # 0
  /\ dpc' = [dpc EXCEPT ![d] = IF alloced THEN "mutex" ELSE "length"]
  /\ snap' = [snap EXCEPT ![d] = <<>>]
  /\ out' = [out EXCEPT ![d] = <<>>]
  /\ dlen' = [dlen EXCEPT ![d] = 0]
  /\ UNCHANGED <<memory, spin, mutex, writerVars, delivered>>

DumpLock(d) ==
  /\ dpc[d] = "mutex" /\ mutex = Nobody
  /\ mutex' = d
  /\ dpc' = [dpc EXCEPT ![d] = "backup"]
  /\ UNCHANGED <<memory, spin, writerVars, dlen, snap, out, delivered>>

\* Both halves one behind the other, the older half first.
Shift(recs, by) == [i \in DOMAIN recs |-> [recs[i] EXCEPT !.at = @ + by]]
\* Mutant: backup that copies the active half first.
MutCollectActiveFirst(older, active) ==
  [len |-> older.pos + active.pos, recs |-> active.recs \o Shift(older.recs, active.pos)]

Collect(older, active) ==
  [len |-> older.pos + active.pos, recs |-> older.recs \o Shift(active.recs, older.pos)]

MayBackup(d) == dpc[d] = "backup" /\ spin = Nobody

\* Mutant: the halves are copied and left as they are.
MutBackupKeeps == buffers
Emptied == [i \in Halves |-> EmptyHalf]

\* The part of backup under the spin lock.
Backup(d) ==
  /\ MayBackup(d)
  /\ product' = Collect(Older, Active)
  /\ buffers' = Emptied
  /\ toggle' = 0
  /\ snap' = [snap EXCEPT ![d] = product'.recs]
  /\ dpc' = [dpc EXCEPT ![d] = "release"]
  /\ UNCHANGED <<size, alloced, spin, mutex, writerVars, dlen, out, delivered>>

AfterBackup == "length"

DumpUnlock(d) ==
  /\ dpc[d] = "release"
  /\ mutex' = Nobody
  /\ dpc' = [dpc EXCEPT ![d] = AfterBackup]
  /\ UNCHANGED <<memory, spin, writerVars, dlen, snap, out, delivered>>

\* No lock is held from here on.
DumpLength(d) ==
  /\ dpc[d] = "length"
  /\ \E user \in UserSizes :
       dlen' = [dlen EXCEPT ![d] = IF user < product.len THEN user ELSE product.len]
  /\ dpc' = [dpc EXCEPT ![d] = "copy"]
  /\ UNCHANGED <<memory, spin, mutex, writerVars, snap, out, delivered>>

\* copy_to_user: the first dlen bytes of the product as it is now; the reader's
\* walk is bounded by dlen.
DumpCopy(d) ==
  /\ dpc[d] = "copy"
  /\ out' = [out EXCEPT ![d] = product.recs]
  /\ dpc' = [dpc EXCEPT ![d] = "walk"]
  /\ UNCHANGED <<memory, spin, mutex, writerVars, dlen, snap, delivered>>

(***************************************************************************)
(* extract_variant_buffer, in the report command: from the first header on *)
(* the walk goes by head->len, and stops at a header that ends at or       *)
(* beyond the copied length, or is not sealed, or is too short.            *)
(***************************************************************************)
\* Mutant: The reader stops at a record that ends where the copied bytes end.
MutReadableStrict(r, limit) == r.at + r.len < limit /\ r.sealed /\ r.len >= HeadSize

Readable(r, limit) == r.at + HeadSize < limit /\ r.sealed /\ r.len >= HeadSize
Walked(recs, limit) ==
  {i \in DOMAIN recs : \A j \in 1..i : Readable(recs[j], limit)}

Walk(d) ==
  /\ dpc[d] = "walk"
  /\ delivered' = delivered \cup {out[d][i].id : i \in Walked(out[d], dlen[d])}
  /\ dpc' = [dpc EXCEPT ![d] = "idle"]
  /\ UNCHANGED <<memory, spin, mutex, writerVars, dlen, snap, out>>

-----------------------------------------------------------------------------
Writer(w) == Lock(w) \/ Reserve(w) \/ Write(w) \/ Seal(w) \/ Unlock(w)

Dump(d) ==
  \/ DumpStart(d) \/ DumpLock(d) \/ Backup(d) \/ DumpUnlock(d)
  \/ DumpLength(d) \/ DumpCopy(d) \/ Walk(d)

Next ==
  \/ Alloc \/ Destroy \/ InitBuffer \/ Discard
  \/ \E w \in Writers : Writer(w)
  \/ \E d \in Dumpers : Dump(d)

Spec == Init /\ [][Next]_vars

-----------------------------------------------------------------------------
(* Properties.                                                             *)

\* The memory of the buffer, the writers' and the reports' variables are typed:
\* in particular no offset and no length is ever negative.
MemoryTyped ==
  /\ size \in {0, BufSize} /\ alloced \in BOOLEAN
  /\ buffers \in [Halves -> Half] /\ toggle \in Halves
  /\ product \in [len : Nat, recs : Seq(Record)]
WritersTyped ==
  /\ spin \in Writers \cup {Nobody}
  /\ wpc \in [Writers -> {"idle", "reserve", "write", "unlock"}]
  /\ todo \in [Writers -> [len : Nat, parts : Seq(Nat)]]
  /\ seq \in Nat
DumpersTyped ==
  /\ mutex \in Dumpers \cup {Nobody}
  /\ dpc \in [Dumpers -> {"idle", "mutex", "backup", "release", "length", "copy", "walk"}]
  /\ dlen \in [Dumpers -> Nat]
  /\ snap \in [Dumpers -> Seq(Record)] /\ out \in [Dumpers -> Seq(Record)]
  /\ delivered \subseteq Nat
TypeOK == MemoryTyped /\ WritersTyped /\ DumpersTyped

\* The records tile [0, end): the first header is at 0, and each next one is
\* where the len field of the one before says, which is all a reader has to go
\* by.  Only the last record may be open, and its header ends at or below end.
Tiles(recs, end) ==
  /\ recs = <<>> => end = 0
  /\ \A i \in 1..Len(recs) :
       /\ recs[i].at = IF i = 1 THEN 0 ELSE recs[i - 1].at + recs[i - 1].len
       /\ recs[i].sealed => recs[i].len >= HeadSize
       /\ i < Len(recs) => recs[i].sealed
       /\ i = Len(recs) => IF recs[i].sealed THEN recs[i].at + recs[i].len = end
                                             ELSE recs[i].at + HeadSize <= end

\* The halves always tile their filled part, whatever was dropped, exchanged or
\* emptied between any two steps of a writer (reserve, write, seal).
HalvesTiled == \A i \in Halves : Tiles(buffers[i].recs, buffers[i].pos)

\* Only the context inside its critical section can have an open record, one
\* whose reserve has been made and whose seal has not.
OpenOnlyUnderLock ==
  \A i \in Halves : \A k \in DOMAIN buffers[i].recs :
    ~buffers[i].recs[k].sealed =>
      i = toggle /\ \E w \in Writers : spin = w /\ wpc[w] = "write"

\* What backup leaves for the reports is a gapless chain of sealed records that
\* fills [0, product.len), although writers go on while it is copied out.
ProductTiled ==
  /\ Tiles(product.recs, product.len)
  /\ \A k \in DOMAIN product.recs : product.recs[k].sealed

\* What backup copies behind what fits the product area, which is twice a half,
\* and no half is ever filled to its last byte.
Fits ==
  /\ product.len <= 2 * BufSize
  /\ alloced => \A i \in Halves : buffers[i].pos < size

\* reserve starts the other half over only when the active one is nearly full:
\* at any time the half that is not written is empty or full up to a header and
\* a word, so records are forgotten only if that much newer data is kept.
HistoryKept ==
  Older.pos # 0 => Older.pos + HeadSize + Word > BufSize

\* A record is cut short only at the end of a half: where a whole half is as
\* good as filled, never because of the records another context wrote before.
LongestPayload == CHOOSE n \in {p.len : p \in Payloads} : \A q \in Payloads : q.len <= n
CutOnlyAtTheEnd ==
  \A i \in Halves : \A k \in DOMAIN buffers[i].recs :
    ~buffers[i].recs[k].whole =>
      buffers[i].recs[k].at + HeadSize + LongestPayload >= BufSize

\* What a report command walks through is the beginning of what its own backup
\* took, and everything that was copied entirely is delivered, but for a last
\* record of which only the header was stored.  Holds for one report at a time.
ReportIsOwnBackup ==
  \A d \in Dumpers : dpc[d] = "walk" =>
    LET seen == Walked(out[d], dlen[d])
        end(r) == r.at + r.len
    IN /\ \A i \in seen : i \in DOMAIN snap[d] /\ out[d][i] = snap[d][i]
       /\ \A i \in DOMAIN snap[d] :
            LET r == snap[d][i]
            IN end(r) <= dlen[d] => i \in seen \/ (r.len = HeadSize /\ end(r) = dlen[d])

\* The user manuals say "history is cleared each time results are output"
\* (mutex-monitor.md:87 and 13 others): no record is delivered by two reports.
NoRepeat ==
  [][\A d \in Dumpers : Walk(d) =>
       {out[d][i].id : i \in Walked(out[d], dlen[d])} \cap delivered = {}]_vars

\* The buffer implements the record log: order, contiguity, newest kept.
\* Only the last record of the active half may be open.
Ids(recs) == [i \in DOMAIN recs |-> recs[i].id]
SealedOf(recs) ==
  IF recs # <<>> /\ ~recs[Len(recs)].sealed THEN SubSeq(recs, 1, Len(recs) - 1) ELSE recs
Pending == Older.recs \o SealedOf(Active.recs)
Log == INSTANCE RecordLog
         WITH window <- Ids(Pending), last <- seq, batch <- Ids(product.recs)
ImplementsRecordLog == Log!Spec
=============================================================================
