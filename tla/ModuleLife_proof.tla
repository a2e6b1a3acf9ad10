-------------------------- MODULE ModuleLife_proof --------------------------
(***************************************************************************)
(* Proofs about ModuleLife, for any sets of monitors, of parts that can    *)
(* fail, of processes and of CPUs: whichever init fails, the exits that    *)
(* are called are those of the parts that are up; what a timer, a system   *)
(* call or the device gets to is up; nothing is left when the module goes; *)
(* and every CPU has its timer while the module is loaded.                 *)
(***************************************************************************)
EXTENDS ModuleLife, TLAPS

-----------------------------------------------------------------------------
(* Lists without repetition, in an order.                                  *)

\* No element twice, and the elements of a pair in F in its order.
Tidy(q, F) ==
  \A i, j \in DOMAIN q : (q[i] = q[j] => i = j) /\ (<<q[i], q[j]>> \in F => i < j)

\* The list without its first element.
LEMMA TailTidy ==
  ASSUME NEW S, NEW q \in Seq(S), q # <<>>, NEW F, Tidy(q, F)
  PROVE  /\ Head(q) \in S /\ Head(q) \in Range(q) /\ Tail(q) \in Seq(S)
         /\ Range(Tail(q)) = Range(q) \ {Head(q)} /\ Tidy(Tail(q), F)
         /\ \A y \in Range(q) : <<y, Head(q)>> \notin F
         /\ Len(q) = 1 <=> Tail(q) = <<>>
<1>1. PICK n, t : n = Len(q) /\ t = Tail(q)
  OBVIOUS
<1>2. /\ n \in Nat /\ n > 0 /\ DOMAIN q = 1..n /\ Head(q) = q[1]
      /\ t \in Seq(S) /\ Len(t) = n - 1 /\ DOMAIN t = 1..n - 1
      /\ \A i \in 1..n - 1 : t[i] = q[i + 1]
  BY <1>1
<1>3. 1 \in DOMAIN q /\ Head(q) \in S /\ Head(q) \in Range(q)
  BY <1>2 DEF Range
<1>4. \A i \in 1..n - 1 : i + 1 \in DOMAIN q /\ i + 1 # 1
  BY <1>2
<1>5. Range(t) = Range(q) \ {Head(q)}
  <2>1. ASSUME NEW x \in Range(t) PROVE x \in Range(q) \ {Head(q)}
    <3>1. PICK i \in 1..n - 1 : x = t[i]
      BY <1>2 DEF Range
    <3>2. x = q[i + 1] /\ i + 1 \in DOMAIN q /\ i + 1 # 1
      BY <1>2, <1>4, <3>1
    <3> QED BY <1>2, <1>3, <3>2 DEF Range, Tidy
  <2>2. ASSUME NEW x \in Range(q), x # Head(q) PROVE x \in Range(t)
    <3>1. PICK i \in DOMAIN q : x = q[i]
      BY DEF Range
    <3>2. i - 1 \in 1..n - 1 /\ (i - 1) + 1 = i
      BY <1>2, <2>2, <3>1
    <3>3. x = t[i - 1]
      BY <1>2, <3>1, <3>2
    <3> QED BY <1>2, <3>2, <3>3 DEF Range
  <2> QED BY <2>1, <2>2
<1>6. Tidy(t, F)
  <2> SUFFICES ASSUME NEW i \in 1..n - 1, NEW j \in 1..n - 1
               PROVE  (t[i] = t[j] => i = j) /\ (<<t[i], t[j]>> \in F => i < j)
    BY <1>2 DEF Tidy
  <2>1. (q[i + 1] = q[j + 1] => i + 1 = j + 1) /\ (<<q[i + 1], q[j + 1]>> \in F => i + 1 < j + 1)
    BY <1>4 DEF Tidy
  <2>2. t[i] = q[i + 1] /\ t[j] = q[j + 1]
    BY <1>2
  <2>3. i \in Int /\ j \in Int
    BY <1>2
  <2>4. (i + 1 = j + 1 => i = j) /\ (i + 1 < j + 1 => i < j)
    BY <2>3
  <2> QED BY Zenon, <2>1, <2>2, <2>4
<1>7. ASSUME NEW y \in Range(q) PROVE <<y, Head(q)>> \notin F
  <2>1. PICK i \in DOMAIN q : y = q[i]
    BY DEF Range
  <2>2. <<q[i], q[1]>> \in F => i < 1
    BY <1>3, <2>1 DEF Tidy
  <2> QED BY <1>2, <2>1, <2>2
<1>8. n = 1 <=> t = <<>>
  BY <1>2
<1> QED BY <1>1, <1>2, <1>3, <1>5, <1>6, <1>7, <1>8

\* One list after another.
LEMMA Concat ==
  ASSUME NEW S, NEW a \in Seq(S), NEW b \in Seq(S), NEW F, Tidy(a, F), Tidy(b, F),
         \A x \in Range(a), y \in Range(b) : x # y /\ <<y, x>> \notin F
  PROVE  a \o b \in Seq(S) /\ Range(a \o b) = Range(a) \cup Range(b) /\ Tidy(a \o b, F)
<1>1. PICK m, n, c : m = Len(a) /\ n = Len(b) /\ c = a \o b
  OBVIOUS
<1>2. /\ m \in Nat /\ n \in Nat /\ DOMAIN a = 1..m /\ DOMAIN b = 1..n
      /\ c \in Seq(S) /\ DOMAIN c = 1..m + n
      /\ \A i \in 1..m : c[i] = a[i]
      /\ \A i \in 1..n : c[m + i] = b[i]
  BY <1>1
<1>3. ASSUME NEW i \in 1..m + n
      PROVE  \/ i \in 1..m /\ c[i] = a[i] /\ a[i] \in Range(a)
             \/ i \notin 1..m /\ i - m \in 1..n /\ c[i] = b[i - m] /\ b[i - m] \in Range(b)
  <2>1. CASE i \in 1..m
    BY <1>2, <2>1 DEF Range
  <2>2. CASE i \notin 1..m
    <3>1. i - m \in 1..n /\ m + (i - m) = i
      BY <1>2, <2>2
    <3>2. c[m + (i - m)] = b[i - m]
      BY <1>2, <3>1
    <3> QED BY <1>2, <2>2, <3>1, <3>2 DEF Range
  <2> QED BY <2>1, <2>2
<1>4. Range(c) = Range(a) \cup Range(b)
  <2>1. ASSUME NEW x \in Range(c) PROVE x \in Range(a) \cup Range(b)
    <3>1. PICK i \in 1..m + n : x = c[i]
      BY <1>2 DEF Range
    <3> QED BY <1>3, <3>1
  <2>2. ASSUME NEW i \in 1..m PROVE a[i] \in Range(c)
    <3>1. i \in 1..m + n
      BY <1>2
    <3> QED BY <1>2, <3>1 DEF Range
  <2>3. ASSUME NEW i \in 1..n PROVE b[i] \in Range(c)
    <3>1. m + i \in 1..m + n
      BY <1>2
    <3> QED BY <1>2, <3>1 DEF Range
  <2>4. Range(a) \subseteq Range(c)
    BY <1>2, <2>2 DEF Range
  <2>5. Range(b) \subseteq Range(c)
    BY <1>2, <2>3 DEF Range
  <2> QED BY <2>1, <2>4, <2>5
<1>5. ASSUME NEW i \in 1..m + n, NEW j \in 1..m + n
      PROVE  (c[i] = c[j] => i = j) /\ (<<c[i], c[j]>> \in F => i < j)
  <2>1. CASE i \in 1..m /\ j \in 1..m
    BY <1>2, <2>1 DEF Tidy
  <2>2. CASE i \in 1..m /\ j \notin 1..m
    <3>1. c[i] \in Range(a) /\ c[j] \in Range(b)
      BY <1>3, <2>2
    <3> QED BY <1>2, <2>2, <3>1
  <2>3. CASE i \notin 1..m /\ j \in 1..m
    <3>1. c[i] \in Range(b) /\ c[j] \in Range(a)
      BY <1>3, <2>3
    <3> QED BY <3>1
  <2>4. CASE i \notin 1..m /\ j \notin 1..m
    <3>1. i - m \in DOMAIN b /\ j - m \in DOMAIN b /\ c[i] = b[i - m] /\ c[j] = b[j - m]
      BY <1>2, <1>3, <2>4
    <3>2. (b[i - m] = b[j - m] => i - m = j - m)
          /\ (<<b[i - m], b[j - m]>> \in F => i - m < j - m)
      BY <3>1 DEF Tidy
    <3> QED BY <1>2, <3>1, <3>2
  <2> QED BY <2>1, <2>2, <2>3, <2>4
<1>6. Tidy(c, F)
  BY <1>2, <1>5 DEF Tidy
<1> QED BY <1>1, <1>2, <1>4, <1>6

\* What FlattenSeq builds, list by list.
IsFlat(f, ss, n) == f = [i \in 1..n |-> IF i = 1 THEN ss[i] ELSE f[i - 1] \o ss[i]]

\* There is such a function, for one list more.
LEMMA FlatMore ==
  ASSUME NEW ss, NEW n \in Nat, \E f : IsFlat(f, ss, n)
  PROVE  \E f : IsFlat(f, ss, n + 1)
<1>1. PICK f : IsFlat(f, ss, n)
  OBVIOUS
<1>2. DOMAIN f = 1..n /\ \A i \in 1..n : f[i] = IF i = 1 THEN ss[i] ELSE f[i - 1] \o ss[i]
  BY <1>1 DEF IsFlat
<1> DEFINE g == [i \in 1..n + 1 |->
                   IF i = 1 THEN ss[1] ELSE IF i = n + 1 THEN f[n] \o ss[n + 1] ELSE f[i]]
           h == [i \in 1..n + 1 |-> IF i = 1 THEN ss[i] ELSE g[i - 1] \o ss[i]]
<1>3. ASSUME NEW i \in 1..n + 1 PROVE g[i] = h[i]
  <2>1. CASE i = 1
    BY <2>1
  <2>2. CASE i # 1 /\ i = n + 1
    <3>1. n \in 1..n + 1 /\ n \in 1..n /\ n # n + 1 /\ i - 1 = n
      BY <2>2
    <3>2. g[n] = f[n]
      BY <1>2, <3>1
    <3> QED BY <2>2, <3>1, <3>2
  <2>3. CASE i # 1 /\ i # n + 1
    <3>1. i \in 1..n /\ i - 1 \in 1..n /\ i - 1 \in 1..n + 1 /\ i - 1 # n + 1
      BY <2>3
    <3>2. f[i] = f[i - 1] \o ss[i]
      BY <1>2, <2>3, <3>1
    <3>3. g[i - 1] = f[i - 1]
      BY <1>2, <3>1
    <3> QED BY <2>3, <3>2, <3>3
  <2> QED BY <2>1, <2>2, <2>3
<1>4. g = h
  BY <1>3
<1> QED BY <1>4 DEF IsFlat

\* The elements of the first n lists.
Upto(ss, n) == UNION {Range(ss[k]) : k \in 1..n}

\* s is the first n lists of ss joined, and in order.
Flat(S, ss, F, s, n) == s \in Seq(S) /\ Range(s) = Upto(ss, n) /\ Tidy(s, F)

\* Lists that are in order, and in order among each other.
Lists(S, ss, F) ==
  /\ ss \in Seq(Seq(S))
  /\ \A i \in DOMAIN ss : Tidy(ss[i], F)
  /\ \A i, j \in DOMAIN ss : i < j =>
       \A x \in Range(ss[i]), y \in Range(ss[j]) : x # y /\ <<y, x>> \notin F

\* One more list joined to the n first ones.
LEMMA FlatGrows ==
  ASSUME NEW S, NEW ss, NEW F, Lists(S, ss, F), NEW f, IsFlat(f, ss, Len(ss)),
         NEW n \in Nat, n < Len(ss), n > 0 => Flat(S, ss, F, f[n], n)
  PROVE  Flat(S, ss, F, f[n + 1], n + 1)
<1>1. PICK m : m = Len(ss)
  OBVIOUS
<1>2. m \in Nat /\ DOMAIN ss = 1..m /\ \A i \in 1..m : ss[i] \in Seq(S)
  BY <1>1 DEF Lists
<1>3. /\ n + 1 \in 1..m
      /\ n = 0 => f[n + 1] = ss[n + 1]
      /\ n > 0 => f[n + 1] = f[n] \o ss[n + 1]
  <2>1. PICK k : k = n + 1
    OBVIOUS
  <2>2. k \in 1..m /\ k - 1 = n /\ (k = 1 <=> n = 0)
    BY <1>1, <1>2, <2>1
  <2>3. f[k] = IF k = 1 THEN ss[k] ELSE f[k - 1] \o ss[k]
    BY <1>1, <2>2 DEF IsFlat
  <2>4. n > 0 => f[k] = f[n] \o ss[k]
    <3> SUFFICES ASSUME n > 0 PROVE f[k] = f[n] \o ss[k]
      OBVIOUS
    <3>1. k # 1
      BY <2>2
    <3>2. f[k] = f[k - 1] \o ss[k]
      BY <2>3, <3>1
    <3> QED BY Zenon, <2>2, <3>2
  <2>5. n = 0 => f[k] = ss[k]
    BY <2>2, <2>3
  <2> QED BY <1>1, <1>2, <2>1, <2>2, <2>4, <2>5
<1>4. ss[n + 1] \in Seq(S) /\ Tidy(ss[n + 1], F)
  BY <1>2, <1>3 DEF Lists
<1>5. Upto(ss, n + 1) = Upto(ss, n) \cup Range(ss[n + 1])
  <2>1. 1..n + 1 = (1..n) \cup {n + 1}
    OBVIOUS
  <2> QED BY <2>1 DEF Upto
<1>6. CASE n = 0
  <2>1. Upto(ss, n) = {}
    BY <1>6 DEF Upto
  <2>2. f[n + 1] = ss[n + 1] /\ Upto(ss, n + 1) = Range(ss[n + 1])
    BY <1>3, <1>5, <1>6, <2>1
  <2> QED BY <1>4, <2>2 DEF Flat
<1>7. CASE n > 0
  <2>1. f[n + 1] = f[n] \o ss[n + 1] /\ Flat(S, ss, F, f[n], n)
    BY <1>3, <1>7
  <2>2. ASSUME NEW x \in Upto(ss, n), NEW y \in Range(ss[n + 1])
        PROVE  x # y /\ <<y, x>> \notin F
    <3>1. PICK k \in 1..n : x \in Range(ss[k])
      BY DEF Upto
    <3>2. k \in DOMAIN ss /\ n + 1 \in DOMAIN ss /\ k < n + 1
      BY <1>2, <1>3
    <3> QED BY <3>1, <3>2 DEF Lists
  <2>3. f[n] \in Seq(S) /\ Range(f[n]) = Upto(ss, n) /\ Tidy(f[n], F)
    BY <2>1 DEF Flat
  <2>4. /\ f[n] \o ss[n + 1] \in Seq(S) /\ Tidy(f[n] \o ss[n + 1], F)
        /\ Range(f[n] \o ss[n + 1]) = Upto(ss, n) \cup Range(ss[n + 1])
    BY <1>4, <2>2, <2>3, Concat
  <2> QED BY <1>5, <2>1, <2>4 DEF Flat
<1> QED BY <1>6, <1>7

\* The library defines FlattenSeq by a function on lengths.
LEMMA FlattenIs ==
  ASSUME NEW ss, Len(ss) # 0
  PROVE  FlattenSeq(ss) = (CHOOSE f : IsFlat(f, ss, Len(ss)))[Len(ss)]
BY Zenon DEF FlattenSeq, IsFlat

\* The module has twelve subsystems.
LEMMA Flattened ==
  ASSUME NEW S, NEW ss, NEW F, Lists(S, ss, F), Len(ss) \in 0..12
  PROVE  Flat(S, ss, F, FlattenSeq(ss), Len(ss))
<1>1. PICK n : n = Len(ss)
  OBVIOUS
<1>2. n \in 0..12
  BY <1>1
<1>3. CASE n = 0
  <2>1. ss = <<>>
    <3>1. PICK T : T = Seq(S)
      OBVIOUS
    <3>2. ss \in Seq(T) /\ Len(ss) = 0
      BY <1>1, <1>3, <3>1 DEF Lists
    <3> QED BY <3>2
  <2>2. FlattenSeq(ss) = <<>>
    BY <1>1, <1>3, <2>1 DEF FlattenSeq
  <2>3. Range(<<>>) = {} /\ Upto(ss, 0) = {} /\ <<>> \in Seq(S) /\ Tidy(<<>>, F)
    BY DEF Range, Upto, Tidy
  <2> QED BY <1>1, <1>3, <2>2, <2>3 DEF Flat
<1>4. CASE n # 0
  <2> DEFINE E(k) == \E f : IsFlat(f, ss, k)
  <2>1. \A k \in Nat : E(k) => E(k + 1)
    BY FlatMore
  <2>2. E(0)
    <3>1. IsFlat(<<>>, ss, 0)
      BY DEF IsFlat
    <3> QED BY <3>1
  <2>3. E(n)
    <3> HIDE DEF E
    <3>1. E(1) /\ E(2) /\ E(3) /\ E(4)
      BY <2>1, <2>2
    <3>2. E(5) /\ E(6) /\ E(7) /\ E(8)
      BY <2>1, <3>1
    <3>3. E(9) /\ E(10) /\ E(11) /\ E(12)
      BY <2>1, <3>2
    <3> QED BY <1>2, <1>4, <3>1, <3>2, <3>3
  <2>4. PICK f : f = CHOOSE g : IsFlat(g, ss, n)
    OBVIOUS
  <2>5. IsFlat(f, ss, n)
    BY <2>3, <2>4
  <2> DEFINE G(k) == Flat(S, ss, F, f[k], k)
  <2>6. \A k \in Nat : k < n /\ (k > 0 => G(k)) => G(k + 1)
    BY <1>1, <2>5, FlatGrows
  <2>7. G(n)
    <3> HIDE DEF G
    <3>1. (n >= 1 => G(1)) /\ (n >= 2 => G(2)) /\ (n >= 3 => G(3)) /\ (n >= 4 => G(4))
      BY <1>2, <2>6
    <3>2. (n >= 5 => G(5)) /\ (n >= 6 => G(6)) /\ (n >= 7 => G(7)) /\ (n >= 8 => G(8))
      BY <1>2, <2>6, <3>1
    <3>3. (n >= 9 => G(9)) /\ (n >= 10 => G(10)) /\ (n >= 11 => G(11)) /\ (n >= 12 => G(12))
      BY <1>2, <2>6, <3>2
    <3> QED BY <1>2, <1>4, <3>1, <3>2, <3>3
  <2> QED BY <1>1, <1>4, <2>4, <2>7, FlattenIs
<1> QED BY <1>3, <1>4

-----------------------------------------------------------------------------
(* The parts, in the order they are initialised.                           *)

\* The parts in the order in which diagnosis_init gets to them.
Named == <<"symbols", "context", "controller",
  "irq_stats", "irq_delay", "sched_delay", "mutex", "load", "exit", "sys_cost", "sys_delay",
  "exec", "perf", "run_trace", "irq_trace", "kprobe", "utilization", "reboot", "uprobe",
  "sig_info", "task_monitor", "rw_sem", "throttle_delay", "timers", "notifier",
  "tcp_retrans", "drop_packet", "ping_delay", "ping_delay6", "net_bandwidth", "tcp_connect",
  "alloc_page", "memory_leak", "alloc_top", "high_order", "rss_monitor", "memcg_stats",
  "pupil", "orphan", "rw_top", "shm", "cache", "pmu", "test", "dev">>

\* The place of a part.
Rank == [symbols |-> 1, context |-> 2, controller |-> 3, irq_stats |-> 4, irq_delay |-> 5,
  sched_delay |-> 6, mutex |-> 7, load |-> 8, exit |-> 9, sys_cost |-> 10, sys_delay |-> 11,
  exec |-> 12, perf |-> 13, run_trace |-> 14, irq_trace |-> 15, kprobe |-> 16,
  utilization |-> 17, reboot |-> 18, uprobe |-> 19, sig_info |-> 20, task_monitor |-> 21,
  rw_sem |-> 22, throttle_delay |-> 23, timers |-> 24, notifier |-> 25, tcp_retrans |-> 26,
  drop_packet |-> 27, ping_delay |-> 28, ping_delay6 |-> 29, net_bandwidth |-> 30,
  tcp_connect |-> 31, alloc_page |-> 32, memory_leak |-> 33, alloc_top |-> 34,
  high_order |-> 35, rss_monitor |-> 36, memcg_stats |-> 37, pupil |-> 38, orphan |-> 39,
  rw_top |-> 40, shm |-> 41, cache |-> 42, pmu |-> 43, test |-> 44, dev |-> 45]

All == DOMAIN Rank

\* A part has one place, and a place one part.
LEMMA RankIs ==
  /\ \A p \in All : Rank[p] \in 1..45 /\ Named[Rank[p]] = p
  /\ \A p, q \in All : Rank[p] = Rank[q] => p = q
<1>1. \A p \in All : Rank[p] \in 1..45 /\ Named[Rank[p]] = p
  BY DEF All, Rank, Named
<1> QED BY <1>1

\* What init, undo and exit of a subsystem have in common: they name the n parts that
\* come after the first b.
Inits(r, b, n) ==
  r.inits \in Seq(All) /\ Len(r.inits) = n /\ \A i \in 1..n : Rank[r.inits[i]] = b + i
Exits(r, b, n) ==
  /\ r.exits \in Seq(All) /\ \A i, j \in DOMAIN r.exits : r.exits[i] = r.exits[j] => i = j
  /\ Range(r.exits) = {p \in All : b < Rank[p] /\ Rank[p] <= b + n} \ {"throttle_delay"}
Undo(r, b, n) ==
  /\ r.undo \in Seq(All) /\ Len(r.undo) = n - 1
  /\ \A j \in 1..n - 1 : r.undo[j] = IF b = 3 /\ j = 1 THEN "throttle_delay" ELSE r.inits[n - j]

\* The subsystems, one by one.
LEMMA KernelIs == Inits(diag_kernel, 3, 20) /\ Exits(diag_kernel, 3, 20) /\ Undo(diag_kernel, 3, 20)
<1>1. Inits(diag_kernel, 3, 20)
  BY DEF Inits, diag_kernel, Rank, All
<1>2. Exits(diag_kernel, 3, 20)
  <2> DEFINE X == {"irq_stats", "irq_delay", "sched_delay", "mutex", "load", "exit",
                   "sys_cost", "sys_delay", "exec", "perf", "run_trace", "irq_trace",
                   "kprobe", "utilization", "reboot", "uprobe", "sig_info",
                   "task_monitor", "rw_sem"}
  <2>1. /\ diag_kernel.exits \in Seq(All)
        /\ \A i, j \in DOMAIN diag_kernel.exits : diag_kernel.exits[i] = diag_kernel.exits[j] => i = j
    BY DEF diag_kernel, Rank, All
  <2>2. Range(diag_kernel.exits) = X
    BY DEF diag_kernel, Range
  <2>3. {p \in All : 3 < Rank[p] /\ Rank[p] <= 3 + 20} \ {"throttle_delay"} = X
    BY DEF Rank, All
  <2> QED BY <2>1, <2>2, <2>3 DEF Exits
<1>3. Undo(diag_kernel, 3, 20)
  BY DEF Undo, diag_kernel, Rank, All
<1> QED BY <1>1, <1>2, <1>3

LEMMA TimingIs == Inits(timing, 23, 2) /\ Exits(timing, 23, 2)
<1>1. Inits(timing, 23, 2)
  BY DEF Inits, timing, Rank, All
<1>2. Exits(timing, 23, 2)
  <2> DEFINE X == {"timers", "notifier"}
  <2>1. /\ timing.exits \in Seq(All)
        /\ \A i, j \in DOMAIN timing.exits : timing.exits[i] = timing.exits[j] => i = j
    BY DEF timing, Rank, All
  <2>2. Range(timing.exits) = X
    BY DEF timing, Range
  <2>3. {p \in All : 23 < Rank[p] /\ Rank[p] <= 23 + 2} \ {"throttle_delay"} = X
    BY DEF Rank, All
  <2> QED BY <2>1, <2>2, <2>3 DEF Exits
<1> QED BY <1>1, <1>2

LEMMA NetIs == Inits(diag_net, 25, 6) /\ Exits(diag_net, 25, 6) /\ Undo(diag_net, 25, 6)
<1>1. Inits(diag_net, 25, 6)
  BY DEF Inits, diag_net, Rank, All
<1>2. Exits(diag_net, 25, 6)
  <2> DEFINE X == {"tcp_retrans", "drop_packet", "ping_delay", "ping_delay6",
                   "net_bandwidth", "tcp_connect"}
  <2>1. /\ diag_net.exits \in Seq(All)
        /\ \A i, j \in DOMAIN diag_net.exits : diag_net.exits[i] = diag_net.exits[j] => i = j
    BY DEF diag_net, Rank, All
  <2>2. Range(diag_net.exits) = X
    BY DEF diag_net, Range
  <2>3. {p \in All : 25 < Rank[p] /\ Rank[p] <= 25 + 6} \ {"throttle_delay"} = X
    BY DEF Rank, All
  <2> QED BY <2>1, <2>2, <2>3 DEF Exits
<1>3. Undo(diag_net, 25, 6)
  BY DEF Undo, diag_net, Rank, All
<1> QED BY <1>1, <1>2, <1>3

LEMMA MmIs == Inits(diag_mm, 31, 6) /\ Exits(diag_mm, 31, 6) /\ Undo(diag_mm, 31, 6)
<1>1. Inits(diag_mm, 31, 6)
  BY DEF Inits, diag_mm, Rank, All
<1>2. Exits(diag_mm, 31, 6)
  <2> DEFINE X == {"alloc_page", "memory_leak", "alloc_top", "high_order",
                   "rss_monitor", "memcg_stats"}
  <2>1. /\ diag_mm.exits \in Seq(All)
        /\ \A i, j \in DOMAIN diag_mm.exits : diag_mm.exits[i] = diag_mm.exits[j] => i = j
    BY DEF diag_mm, Rank, All
  <2>2. Range(diag_mm.exits) = X
    BY DEF diag_mm, Range
  <2>3. {p \in All : 31 < Rank[p] /\ Rank[p] <= 31 + 6} \ {"throttle_delay"} = X
    BY DEF Rank, All
  <2> QED BY <2>1, <2>2, <2>3 DEF Exits
<1>3. Undo(diag_mm, 31, 6)
  BY DEF Undo, diag_mm, Rank, All
<1> QED BY <1>1, <1>2, <1>3

LEMMA FsIs == Inits(diag_fs, 38, 4) /\ Exits(diag_fs, 38, 4) /\ Undo(diag_fs, 38, 4)
<1>1. Inits(diag_fs, 38, 4)
  BY DEF Inits, diag_fs, Rank, All
<1>2. Exits(diag_fs, 38, 4)
  <2> DEFINE X == {"orphan", "rw_top", "shm", "cache"}
  <2>1. /\ diag_fs.exits \in Seq(All)
        /\ \A i, j \in DOMAIN diag_fs.exits : diag_fs.exits[i] = diag_fs.exits[j] => i = j
    BY DEF diag_fs, Rank, All
  <2>2. Range(diag_fs.exits) = X
    BY DEF diag_fs, Range
  <2>3. {p \in All : 38 < Rank[p] /\ Rank[p] <= 38 + 4} \ {"throttle_delay"} = X
    BY DEF Rank, All
  <2> QED BY <2>1, <2>2, <2>3 DEF Exits
<1>3. Undo(diag_fs, 38, 4)
  BY DEF Undo, diag_fs, Rank, All
<1> QED BY <1>1, <1>2, <1>3

\* A part that is a subsystem of its own.
LEMMA SingleIs ==
  ASSUME NEW p \in All, p # "throttle_delay", NEW b, Rank[p] = b + 1, b \in 0..44, b # 3
  PROVE  Inits(Single(p), b, 1) /\ Exits(Single(p), b, 1) /\ Undo(Single(p), b, 1)
<1>1. Inits(Single(p), b, 1) /\ Undo(Single(p), b, 1)
  BY DEF Inits, Undo, Single
<1>2. Range(<<p>>) = {p}
  BY DEF Range
<1>3. {q \in All : b < Rank[q] /\ Rank[q] <= b + 1} \ {"throttle_delay"} = {p}
  BY RankIs
<1>4. Exits(Single(p), b, 1)
  BY <1>2, <1>3 DEF Exits, Single
<1> QED BY <1>1, <1>4

\* The twelve subsystems: how many parts come before them, and how many they have.
First == <<0, 1, 2, 3, 23, 25, 31, 37, 38, 42, 43, 44>>
\* How many parts each of the twelve has.
Size == <<1, 1, 1, 20, 2, 6, 6, 1, 4, 1, 1, 1>>

\* The subsystems follow one another and cover all parts.
LEMMA FirstIs ==
  /\ \A t \in 1..12 : First[t] \in 0..44 /\ Size[t] \in 1..20 /\ First[t] + Size[t] \in 1..45
  /\ \A s, t \in 1..12 : s < t => First[s] + Size[s] <= First[t]
  /\ \A p \in All : \E t \in 1..12 : First[t] < Rank[p] /\ Rank[p] <= First[t] + Size[t]
  /\ \A t \in 1..12 : First[t] = 3 <=> t = 4
<1>1. \A t \in 1..12 : First[t] \in 0..44 /\ Size[t] \in 1..20 /\ First[t] + Size[t] \in 1..45
  BY DEF First, Size
<1>2. \A s, t \in 1..12 : s < t => First[s] + Size[s] <= First[t]
  BY DEF First, Size
<1>3. \A r \in 1..45 : \E t \in 1..12 : First[t] < r /\ r <= First[t] + Size[t]
  BY DEF First, Size
<1>4. \A t \in 1..12 : First[t] = 3 <=> t = 4
  BY DEF First
<1> QED BY <1>1, <1>2, <1>3, <1>4, RankIs

\* All twelve have the form of their places.
LEMMA SubsAre ==
  /\ DOMAIN diagnosis = 1..12 /\ Len(diagnosis) = 12
  /\ \A t \in 1..12 : /\ Inits(diagnosis[t], First[t], Size[t])
                      /\ Exits(diagnosis[t], First[t], Size[t])
                      /\ t # 5 => Undo(diagnosis[t], First[t], Size[t])
<1> DEFINE OK(t) == /\ Inits(diagnosis[t], First[t], Size[t])
                    /\ Exits(diagnosis[t], First[t], Size[t])
                    /\ t # 5 => Undo(diagnosis[t], First[t], Size[t])
<1>1. DOMAIN diagnosis = 1..12 /\ Len(diagnosis) = 12
  BY DEF diagnosis
<1>2. OK(1)
  <2>1. "symbols" \in All /\ Rank["symbols"] = 0 + 1
    BY DEF Rank, All
  <2>2. diagnosis[1] = Single("symbols") /\ First[1] = 0 /\ Size[1] = 1
    BY DEF diagnosis, First, Size
  <2> QED BY <2>1, <2>2, SingleIs
<1>3. OK(2)
  <2>1. "context" \in All /\ Rank["context"] = 1 + 1
    BY DEF Rank, All
  <2>2. diagnosis[2] = Single("context") /\ First[2] = 1 /\ Size[2] = 1
    BY DEF diagnosis, First, Size
  <2> QED BY <2>1, <2>2, SingleIs
<1>4. OK(3)
  <2>1. "controller" \in All /\ Rank["controller"] = 2 + 1
    BY DEF Rank, All
  <2>2. diagnosis[3] = Single("controller") /\ First[3] = 2 /\ Size[3] = 1
    BY DEF diagnosis, First, Size
  <2> QED BY <2>1, <2>2, SingleIs
<1>5. OK(4)
  <2>1. diagnosis[4] = diag_kernel /\ First[4] = 3 /\ Size[4] = 20
    BY DEF diagnosis, First, Size
  <2> QED BY <2>1, KernelIs
<1>6. OK(5)
  <2>1. diagnosis[5] = timing /\ First[5] = 23 /\ Size[5] = 2
    BY DEF diagnosis, First, Size
  <2> QED BY <2>1, TimingIs
<1>7. OK(6)
  <2>1. diagnosis[6] = diag_net /\ First[6] = 25 /\ Size[6] = 6
    BY DEF diagnosis, First, Size
  <2> QED BY <2>1, NetIs
<1>8. OK(7)
  <2>1. diagnosis[7] = diag_mm /\ First[7] = 31 /\ Size[7] = 6
    BY DEF diagnosis, First, Size
  <2> QED BY <2>1, MmIs
<1>9. OK(8)
  <2>1. "pupil" \in All /\ Rank["pupil"] = 37 + 1
    BY DEF Rank, All
  <2>2. diagnosis[8] = Single("pupil") /\ First[8] = 37 /\ Size[8] = 1
    BY DEF diagnosis, First, Size
  <2> QED BY <2>1, <2>2, SingleIs
<1>10. OK(9)
  <2>1. diagnosis[9] = diag_fs /\ First[9] = 38 /\ Size[9] = 4
    BY DEF diagnosis, First, Size
  <2> QED BY <2>1, FsIs
<1>11. OK(10)
  <2>1. "pmu" \in All /\ Rank["pmu"] = 42 + 1
    BY DEF Rank, All
  <2>2. diagnosis[10] = Single("pmu") /\ First[10] = 42 /\ Size[10] = 1
    BY DEF diagnosis, First, Size
  <2> QED BY <2>1, <2>2, SingleIs
<1>12. OK(11)
  <2>1. "test" \in All /\ Rank["test"] = 43 + 1
    BY DEF Rank, All
  <2>2. diagnosis[11] = Single("test") /\ First[11] = 43 /\ Size[11] = 1
    BY DEF diagnosis, First, Size
  <2> QED BY <2>1, <2>2, SingleIs
<1>13. OK(12)
  <2>1. "dev" \in All /\ Rank["dev"] = 44 + 1
    BY DEF Rank, All
  <2>2. diagnosis[12] = Single("dev") /\ First[12] = 44 /\ Size[12] = 1
    BY DEF diagnosis, First, Size
  <2> QED BY <2>1, <2>2, SingleIs
<1> HIDE DEF OK
<1>14. ASSUME NEW t \in 1..12 PROVE OK(t)
  BY <1>2, <1>3, <1>4, <1>5, <1>6, <1>7, <1>8, <1>9, <1>10, <1>11, <1>12, <1>13
<1> QED BY <1>1, <1>14 DEF OK

-----------------------------------------------------------------------------
(* What is called.                                                         *)

\* Calls, those of one kind, and the order of the inits.
CallSet == {"init", "exit", "unhook", "sync", "drain"} \X (All \cup {"do", "1", "2"})
Pairs(op) == {<<op, p>> : p \in All}
Rising == {c \in All \X All : Rank[c[1]] < Rank[c[2]]}
ByRank == {c \in Pairs("init") \X Pairs("init") : Rank[c[1][2]] < Rank[c[2][2]]}

\* The calls of one operation for a list of parts.
LEMMA DoIs ==
  ASSUME NEW op \in {"init", "exit"}, NEW q \in Seq(All), NEW F, Tidy(q, F),
         NEW G, \A x, y \in All : <<<<op, x>>, <<op, y>>>> \in G => <<x, y>> \in F
  PROVE  /\ Do(op, q) \in Seq(CallSet) /\ Tidy(Do(op, q), G) /\ Len(Do(op, q)) = Len(q)
         /\ Range(Do(op, q)) = {<<op, p>> : p \in Range(q)}
<1>1. PICK n, d : n = Len(q) /\ d = Do(op, q)
  OBVIOUS
<1>2. n \in Nat /\ DOMAIN q = 1..n /\ \A i \in 1..n : q[i] \in All
  BY <1>1
<1>3. d = [i \in 1..n |-> <<op, q[i]>>]
  BY <1>1, <1>2 DEF Do
<1>4. \A i \in 1..n : <<op, q[i]>> \in CallSet
  BY <1>2 DEF CallSet
<1>5. d \in Seq(CallSet)
  BY <1>2, <1>3, <1>4
<1>6. DOMAIN d = 1..n /\ Len(d) = n
  BY <1>2, <1>3, <1>5
<1>7. Range(d) = {<<op, p>> : p \in Range(q)}
  <2>1. ASSUME NEW c \in Range(d) PROVE c \in {<<op, p>> : p \in Range(q)}
    <3>1. PICK i \in 1..n : c = <<op, q[i]>>
      BY <1>3, <1>6 DEF Range
    <3>2. q[i] \in Range(q)
      BY <1>2 DEF Range
    <3> QED BY <3>1, <3>2
  <2>2. ASSUME NEW p \in Range(q) PROVE <<op, p>> \in Range(d)
    <3>1. PICK i \in 1..n : p = q[i]
      BY <1>2 DEF Range
    <3>2. d[i] = <<op, p>>
      BY <1>3, <3>1
    <3> QED BY <1>6, <3>2 DEF Range
  <2> QED BY <2>1, <2>2
<1>8. Tidy(d, G)
  <2> SUFFICES ASSUME NEW i \in 1..n, NEW j \in 1..n
               PROVE  (d[i] = d[j] => i = j) /\ (<<d[i], d[j]>> \in G => i < j)
    BY <1>6 DEF Tidy
  <2>1. d[i] = <<op, q[i]>> /\ d[j] = <<op, q[j]>> /\ q[i] \in All /\ q[j] \in All
    BY <1>2, <1>3
  <2>2. (q[i] = q[j] => i = j) /\ (<<q[i], q[j]>> \in F => i < j)
    BY <1>2 DEF Tidy
  <2> QED BY <2>1, <2>2
<1> QED BY <1>1, <1>5, <1>6, <1>7, <1>8

\* The parts of a subsystem come after those of the subsystems before it.
LEMMA InitsAre ==
  ASSUME NEW t \in 1..12
  PROVE  /\ diagnosis[t].inits \in Seq(All) /\ Tidy(diagnosis[t].inits, Rising)
         /\ Range(diagnosis[t].inits)
              = {p \in All : First[t] < Rank[p] /\ Rank[p] <= First[t] + Size[t]}
<1>1. PICK q, b, n : q = diagnosis[t].inits /\ b = First[t] /\ n = Size[t]
  OBVIOUS
<1>2. q \in Seq(All) /\ Len(q) = n /\ \A i \in 1..n : Rank[q[i]] = b + i
  BY <1>1, SubsAre DEF Inits
<1>a. b \in 0..44 /\ n \in 1..20
  BY <1>1, FirstIs
<1>3. b \in 0..44 /\ n \in 1..20 /\ DOMAIN q = 1..n /\ \A i \in 1..n : q[i] \in All
  BY <1>2, <1>a
<1>4. Tidy(q, Rising)
  BY <1>2, <1>3 DEF Tidy, Rising
<1>5. ASSUME NEW p \in Range(q) PROVE p \in All /\ b < Rank[p] /\ Rank[p] <= b + n
  BY <1>2, <1>3 DEF Range
<1>6. ASSUME NEW p \in All, b < Rank[p], Rank[p] <= b + n PROVE p \in Range(q)
  <2>1. PICK r, i : r = Rank[p] /\ i = r - b
    OBVIOUS
  <2>a. r \in 1..45 /\ b < r /\ r <= b + n
    BY <1>6, <2>1, RankIs
  <2>b. i \in 1..n /\ b + i = r
    BY <1>3, <2>1, <2>a
  <2>2. i \in 1..n /\ b + i = Rank[p]
    BY <2>1, <2>b
  <2>3. q[i] = p
    BY <1>2, <1>3, <2>2, RankIs
  <2> QED BY <1>3, <2>2, <2>3 DEF Range
<1> QED BY <1>1, <1>2, <1>4, <1>5, <1>6

\* The inits, all together, are in the order of the ranks.
LEMMA AllInits ==
  /\ Calls("inits", diagnosis) \in Seq(All) /\ Tidy(Calls("inits", diagnosis), Rising)
  /\ Range(Calls("inits", diagnosis)) = All
<1> DEFINE ss == [t \in 1..12 |-> diagnosis[t].inits]
<1>1. Calls("inits", diagnosis) = FlattenSeq(ss)
  BY Zenon, SubsAre DEF Calls
<1>2. ss \in Seq(Seq(All)) /\ Len(ss) = 12 /\ DOMAIN ss = 1..12
  BY InitsAre
<1>3. \A t \in 1..12 : ss[t] = diagnosis[t].inits
  OBVIOUS
<1> HIDE DEF ss
<1>4. ASSUME NEW s \in 1..12, NEW t \in 1..12, s < t, NEW x \in Range(ss[s]), NEW y \in Range(ss[t])
      PROVE  x # y /\ <<y, x>> \notin Rising
  <2>1. /\ x \in All /\ Rank[x] <= First[s] + Size[s] /\ y \in All /\ First[t] < Rank[y]
    BY <1>3, InitsAre
  <2>a. First[s] + Size[s] <= First[t] /\ First[s] + Size[s] \in 1..45 /\ First[t] \in 0..44
    BY <1>4, FirstIs
  <2>b. Rank[x] \in 1..45 /\ Rank[y] \in 1..45
    BY <2>1, RankIs
  <2>2. Rank[x] < Rank[y]
    BY <2>1, <2>a, <2>b
  <2> QED BY <2>1, <2>2, RankIs DEF Rising
<1>5. Lists(All, ss, Rising)
  BY <1>2, <1>3, <1>4, InitsAre DEF Lists
<1>6. Flat(All, ss, Rising, FlattenSeq(ss), 12)
  <2>1. Len(ss) \in 0..12
    BY <1>2
  <2> QED BY <1>2, <1>5, <2>1, Flattened
<1>7. Upto(ss, 12) = All
  <2>1. ASSUME NEW x \in Upto(ss, 12) PROVE x \in All
    <3>1. PICK t \in 1..12 : x \in Range(ss[t])
      BY <2>1 DEF Upto
    <3> QED BY <1>3, <3>1, InitsAre
  <2>2. ASSUME NEW p \in All PROVE p \in Upto(ss, 12)
    <3>1. PICK t \in 1..12 : First[t] < Rank[p] /\ Rank[p] <= First[t] + Size[t]
      BY FirstIs
    <3>2. p \in Range(ss[t])
      BY <1>3, <3>1, InitsAre
    <3> QED BY <3>2 DEF Upto
  <2> QED BY <2>1, <2>2
<1> QED BY <1>1, <1>6, <1>7 DEF Flat

\* Every part is initialised.
LEMMA PartsAre == Parts = All
BY AllInits DEF Parts

\* What insmod calls: the init of every part, in order.
LEMMA LoadsIs ==
  /\ Loads \in Seq(CallSet) /\ Loads # <<>> /\ Range(Loads) = Pairs("init")
  /\ Tidy(Loads, ByRank)
<1>1. PICK q : q = Calls("inits", diagnosis)
  OBVIOUS
<1>2. q \in Seq(All) /\ Tidy(q, Rising) /\ Range(q) = All
  BY <1>1, AllInits
<1>3. \A x, y \in All : <<<<"init", x>>, <<"init", y>>>> \in ByRank => <<x, y>> \in Rising
  BY DEF ByRank, Rising, Pairs
<1>4. /\ Do("init", q) \in Seq(CallSet) /\ Tidy(Do("init", q), ByRank)
      /\ Range(Do("init", q)) = {<<"init", p>> : p \in Range(q)}
  BY <1>2, <1>3, DoIs
<1>5. Loads = Do("init", q)
  BY <1>1 DEF Loads
<1>6. Range(Loads) = Pairs("init")
  BY <1>2, <1>4, <1>5 DEF Pairs
<1>7. Range(Loads) # {}
  BY <1>6 DEF Pairs, All, Rank
<1>8. Loads # <<>>
  BY <1>7 DEF Range
<1> QED BY <1>4, <1>5, <1>6, <1>8

-----------------------------------------------------------------------------
(* What is called when an init has failed.                                 *)

\* The timers and the notifier, and the parts whose exits come after theirs.
Timing == {"timers", "notifier"}
After == {"symbols"} \cup TimerParts

\* The notifier goes before the timers, the timers before what they look into.
TimersFirst == {<<"notifier", "timers">>} \cup {<<"timers", p>> : p \in After}
\* The same of the calls.
ByTimers == {<<<<"exit", c[1]>>, <<"exit", c[2]>>>> : c \in TimersFirst}

\* Timers come before parts of lower rank only.
LEMMA TimersFirstIs ==
  \A x, y \in All : <<x, y>> \in TimersFirst => x \in Timing /\ Rank[y] < Rank[x]
BY DEF TimersFirst, Timing, After, TimerParts, All, Rank

\* A list without the timers has nothing to keep in order but its elements apart.
LEMMA NoTimers ==
  ASSUME NEW q \in Seq(All), \A i, j \in DOMAIN q : q[i] = q[j] => i = j,
         Range(q) \cap Timing = {}
  PROVE  Tidy(q, TimersFirst)
<1>1. \A i \in DOMAIN q : q[i] \in All /\ q[i] \notin Timing
  BY DEF Range
<1> QED BY <1>1, TimersFirstIs DEF Tidy

\* The exits of a subsystem: its parts but throttle_delay, the timers first.
LEMMA ExitsAre ==
  ASSUME NEW t \in 1..12
  PROVE  /\ diagnosis[t].exits \in Seq(All) /\ Tidy(diagnosis[t].exits, TimersFirst)
         /\ Range(diagnosis[t].exits)
              = {p \in All : First[t] < Rank[p] /\ Rank[p] <= First[t] + Size[t]}
                \ {"throttle_delay"}
<1>1. Exits(diagnosis[t], First[t], Size[t])
  BY SubsAre
<1>2. CASE t = 5
  <2>1. diagnosis[t].exits = <<"notifier", "timers">>
    BY <1>2 DEF diagnosis, timing
  <2>2. Tidy(<<"notifier", "timers">>, TimersFirst)
    BY DEF Tidy, TimersFirst, After, TimerParts
  <2> QED BY <1>1, <2>1, <2>2 DEF Exits
<1>3. CASE t # 5
  <2>1. "timers" \in All /\ "notifier" \in All /\ Rank["timers"] = 24 /\ Rank["notifier"] = 25
    BY DEF All, Rank
  <2>2. \/ 25 <= First[t]
        \/ First[t] + Size[t] <= 23
    BY <1>3 DEF First, Size
  <2>3. Range(diagnosis[t].exits) \cap Timing = {}
    <3>1. ASSUME NEW p \in Range(diagnosis[t].exits)
          PROVE First[t] < Rank[p] /\ Rank[p] <= First[t] + Size[t]
      BY <1>1 DEF Exits
    <3>2. First[t] \in 0..44 /\ Size[t] \in 1..20
      BY FirstIs
    <3> QED BY <2>1, <2>2, <3>1, <3>2 DEF Timing
  <2>4. Tidy(diagnosis[t].exits, TimersFirst)
    BY <1>1, <2>3, NoTimers DEF Exits
  <2> QED BY <1>1, <2>4 DEF Exits
<1> QED BY <1>2, <1>3

\* The exits of the subsystems before the s-th, which the ladder of diagnosis_init calls.
LEMMA EarlierExits ==
  ASSUME NEW s \in 1..12
  PROVE  LET q == Calls("exits", Reverse(SubSeq(diagnosis, 1, s - 1)))
         IN /\ q \in Seq(All) /\ Tidy(q, TimersFirst)
            /\ Range(q) = {p \in All : Rank[p] <= First[s]} \ {"throttle_delay"}
<1> DEFINE ss == [k \in 1..s - 1 |-> diagnosis[s - k].exits]
           before == SubSeq(diagnosis, 1, s - 1)
           q == Calls("exits", Reverse(before))
<1>1. q = FlattenSeq(ss)
  <2>1. DOMAIN before = 1..s - 1 /\ Len(before) = s - 1 /\ \A i \in 1..s - 1 : before[i] = diagnosis[i]
    <3>1. diagnosis \in Seq(Range(diagnosis))
      BY SubsAre DEF diagnosis, Range
    <3> HIDE DEF before
    <3>2. before = SubSeq(diagnosis, 1, s - 1)
      BY DEF before
    <3> QED BY <3>1, <3>2, SubsAre
  <2>2. Reverse(before) = [k \in 1..s - 1 |-> diagnosis[s - k]]
    <3> HIDE DEF before
    <3>1. Reverse(before) = [k \in 1..s - 1 |-> before[s - 1 - k + 1]]
      BY <2>1 DEF Reverse
    <3>2. \A k \in 1..s - 1 : s - 1 - k + 1 = s - k /\ s - k \in 1..s - 1
      OBVIOUS
    <3> QED BY <2>1, <3>1, <3>2
  <2>3. [i \in DOMAIN Reverse(before) |-> Reverse(before)[i]["exits"]] = ss
    BY <2>2
  <2> QED BY <2>3 DEF Calls
<1>2. DOMAIN ss = 1..s - 1 /\ \A k \in 1..s - 1 : s - k \in 1..12 /\ ss[k] = diagnosis[s - k].exits
  OBVIOUS
<1>3. ss \in Seq(Seq(All)) /\ Len(ss) = s - 1
  <2>1. \A k \in 1..s - 1 : diagnosis[s - k].exits \in Seq(All)
    BY <1>2, ExitsAre
  <2>2. PICK T : T = Seq(All)
    OBVIOUS
  <2>3. s - 1 \in Nat
    OBVIOUS
  <2> QED BY <2>1, <2>2, <2>3
<1> HIDE DEF ss, q
<1>4. ASSUME NEW i \in 1..s - 1, NEW j \in 1..s - 1, i < j,
             NEW x \in Range(ss[i]), NEW y \in Range(ss[j])
      PROVE  x # y /\ <<y, x>> \notin TimersFirst
  <2>1. PICK a, b : a = s - i /\ b = s - j
    OBVIOUS
  <2>2. a \in 1..12 /\ b \in 1..12 /\ b < a /\ ss[i] = diagnosis[a].exits /\ ss[j] = diagnosis[b].exits
    BY <1>2, <1>4, <2>1
  <2>3. x \in All /\ y \in All /\ First[a] < Rank[x] /\ Rank[y] <= First[b] + Size[b]
    BY <2>2, ExitsAre
  <2>4. First[b] + Size[b] <= First[a] /\ First[b] + Size[b] \in 1..45 /\ First[a] \in 0..44
    BY <2>2, FirstIs
  <2>5. Rank[x] \in 1..45 /\ Rank[y] \in 1..45
    BY <2>3, RankIs
  <2>6. Rank[y] < Rank[x]
    BY <2>3, <2>4, <2>5
  <2> QED BY <2>3, <2>5, <2>6, TimersFirstIs
<1>5. Lists(All, ss, TimersFirst)
  BY <1>2, <1>3, <1>4, ExitsAre DEF Lists
<1>6. Flat(All, ss, TimersFirst, q, s - 1)
  <2>1. Len(ss) \in 0..12
    BY <1>3
  <2> QED BY <1>1, <1>3, <1>5, <2>1, Flattened
<1>7. Upto(ss, s - 1) = {p \in All : Rank[p] <= First[s]} \ {"throttle_delay"}
  <2>1. ASSUME NEW x \in Upto(ss, s - 1)
        PROVE  x \in All /\ Rank[x] <= First[s] /\ x # "throttle_delay"
    <3>1. PICK k \in 1..s - 1 : x \in Range(ss[k])
      BY <2>1 DEF Upto
    <3>2. PICK a : a = s - k
      OBVIOUS
    <3>3. a \in 1..12 /\ a < s /\ ss[k] = diagnosis[a].exits
      BY <1>2, <3>2
    <3>4. x \in All /\ Rank[x] <= First[a] + Size[a] /\ x # "throttle_delay"
      BY <3>1, <3>3, ExitsAre
    <3>5. First[a] + Size[a] <= First[s] /\ First[a] + Size[a] \in 1..45 /\ First[s] \in 0..44
      BY <3>3, FirstIs
    <3>6. Rank[x] \in 1..45
      BY <3>4, RankIs
    <3> QED BY <3>4, <3>5, <3>6
  <2>2. ASSUME NEW p \in All, Rank[p] <= First[s], p # "throttle_delay" PROVE p \in Upto(ss, s - 1)
    <3>1. PICK t \in 1..12 : First[t] < Rank[p] /\ Rank[p] <= First[t] + Size[t]
      BY FirstIs
    <3>2. t < s
      <4>1. CASE s < t
        <5>1. First[s] + Size[s] <= First[t] /\ First[s] \in 0..44 /\ Size[s] \in 1..20 /\ First[t] \in 0..44
          BY <4>1, FirstIs
        <5>2. Rank[p] \in 1..45
          BY RankIs
        <5> QED BY <2>2, <3>1, <5>1, <5>2
      <4>2. CASE s = t
        <5>1. First[s] \in 0..44 /\ Rank[p] \in 1..45
          BY FirstIs, RankIs
        <5> QED BY <2>2, <3>1, <4>2, <5>1
      <4> QED BY <4>1, <4>2
    <3>3. PICK k : k = s - t
      OBVIOUS
    <3>4. k \in 1..s - 1 /\ s - k = t
      BY <3>2, <3>3
    <3>5. p \in Range(ss[k])
      BY <1>2, <2>2, <3>1, <3>4, ExitsAre
    <3> QED BY <3>4, <3>5 DEF Upto
  <2> QED BY <2>1, <2>2
<1> QED BY <1>6, <1>7 DEF Flat, q

\* The label of the i-th part is the i-th from the end.
LEMMA LabelIs ==
  ASSUME NEW t \in 1..12, NEW i \in 1..Size[t]
  PROVE  Label(diagnosis[t], diagnosis[t].inits[i]) = Size[t] - i + 1
<1>1. PICK q, n, p : q = diagnosis[t].inits /\ n = Size[t] /\ p = q[i]
  OBVIOUS
<1>2. q \in Seq(All) /\ Len(q) = n /\ \A k \in 1..n : Rank[q[k]] = First[t] + k
  BY <1>1, SubsAre DEF Inits
<1>3. n \in 1..20 /\ i \in 1..n /\ First[t] \in 0..44
  BY <1>1, FirstIs
<1>4. Reverse(q) = [k \in 1..n |-> q[n - k + 1]]
  BY <1>2 DEF Reverse
<1>5. Len(Reverse(q)) = n
  <2>1. \A k \in 1..n : q[n - k + 1] \in All
    BY <1>2, <1>3
  <2> QED BY <1>3, <1>4, <2>1
<1>6. PICK l : l = n - i + 1
  OBVIOUS
<1>7. l \in 1..n /\ n - l + 1 = i
  BY <1>3, <1>6
<1>8. {k \in 1..n : Reverse(q)[k] = p} = {l}
  <2>1. Reverse(q)[l] = p
    BY <1>1, <1>4, <1>7
  <2>2. ASSUME NEW k \in 1..n, Reverse(q)[k] = p PROVE k = l
    <3>a. Reverse(q)[k] = q[n - k + 1]
      BY <1>4
    <3>b. n - k + 1 \in 1..n
      BY <1>3
    <3>1. n - k + 1 \in 1..n /\ q[n - k + 1] = q[i]
      BY <1>1, <2>2, <3>a, <3>b
    <3>2. First[t] + (n - k + 1) = First[t] + i
      BY <1>2, <1>3, <3>1
    <3> QED BY <1>3, <1>6, <3>2
  <2> QED BY <1>7, <2>1, <2>2
<1>9. SelectInSeq(Reverse(q), LAMBDA x : x = p) = l
  <2>1. Min({l}) = l
    BY <1>3, <1>6 DEF Min
  <2>2. {l} # {}
    OBVIOUS
  <2> QED BY <1>5, <1>8, <2>1, <2>2 DEF SelectInSeq
<1> QED BY <1>1, <1>6, <1>9 DEF Label

\* What the goto of a failed part calls: the exits of the parts before it in its subsystem.
LEMMA BelowIs ==
  ASSUME NEW t \in 1..12, t # 5, NEW p \in Range(diagnosis[t].inits), p # "throttle_delay"
  PROVE  /\ Below(diagnosis[t], p) \in Seq(All) /\ Tidy(Below(diagnosis[t], p), TimersFirst)
         /\ Range(Below(diagnosis[t], p))
              = {x \in All : First[t] < Rank[x] /\ Rank[x] < Rank[p]} \ {"throttle_delay"}
<1>1. PICK q, n, b, u : q = diagnosis[t].inits /\ n = Size[t] /\ b = First[t] /\ u = diagnosis[t].undo
  OBVIOUS
<1>2. /\ q \in Seq(All) /\ Len(q) = n /\ \A k \in 1..n : Rank[q[k]] = b + k
      /\ u \in Seq(All) /\ Len(u) = n - 1
      /\ \A j \in 1..n - 1 : u[j] = IF b = 3 /\ j = 1 THEN "throttle_delay" ELSE q[n - j]
  <2>1. Inits(diagnosis[t], b, n) /\ Undo(diagnosis[t], b, n)
    BY <1>1, SubsAre
  <2> QED BY <1>1, <2>1 DEF Inits, Undo
<1>3. n \in 1..20 /\ b \in 0..44 /\ DOMAIN q = 1..n
  <2>1. n \in 1..20 /\ b \in 0..44
    BY <1>1, FirstIs
  <2> QED BY <1>2, <2>1
<1>4. PICK i \in 1..n : p = q[i]
  BY <1>1, <1>3 DEF Range
<1>5. PICK l, v : l = n - i + 1 /\ v = SubSeq(u, l, n - 1)
  OBVIOUS
<1>6. Below(diagnosis[t], p) = v
  <2>1. Label(diagnosis[t], p) = l
    BY <1>1, <1>4, <1>5, LabelIs
  <2> QED BY <1>1, <1>2, <1>5, <2>1 DEF Below
<1>7. l \in 1..n /\ n - 1 = l + (i - 1) - 1 /\ i - 1 \in 0..n - 1
  BY <1>3, <1>5
<1>8. v \in Seq(All) /\ DOMAIN v = 1..i - 1 /\ \A k \in 1..i - 1 : v[k] = u[l + k - 1]
  <2>1. PICK m : m = n - 1
    OBVIOUS
  <2>2. Len(u) = m /\ m = l + (i - 1) - 1 /\ l \in 1..m + 1 /\ m \in Nat
    BY <1>2, <1>3, <1>7, <2>1
  <2>3. v = SubSeq(u, l, m)
    BY <1>5, <2>1
  <2>4. m - l + 1 = i - 1
    BY <1>7, <2>2
  <2>5. v \in Seq(All) /\ Len(v) = m - l + 1 /\ \A k \in 1..m - l + 1 : v[k] = u[l + k - 1]
    BY <1>2, <2>2, <2>3
  <2> QED BY <2>4, <2>5
<1>9. Rank["throttle_delay"] = 23 /\ "throttle_delay" \in All
  BY DEF Rank, All
<1>10. ASSUME b = 3 PROVE n = 20
  BY <1>1, <1>10 DEF First, Size
<1>11. ASSUME NEW k \in 1..i - 1
       PROVE  v[k] = q[i - k] /\ i - k \in 1..n /\ v[k] \in All /\ Rank[v[k]] = b + (i - k)
  <2>1. PICK j : j = l + k - 1
    OBVIOUS
  <2>2. j \in 1..n - 1 /\ n - j = i - k /\ i - k \in 1..n /\ (j = 1 => i = n)
    BY <1>3, <1>5, <2>1
  <2>3. ~(b = 3 /\ j = 1)
    <3> SUFFICES ASSUME b = 3, j = 1 PROVE FALSE
      OBVIOUS
    <3>1. Rank[p] = 23
      BY <1>2, <1>4, <1>10, <2>2
    <3>2. p \in All
      BY <1>2, <1>4
    <3> QED BY <1>9, <3>1, <3>2, RankIs
  <2>4. v[k] = q[n - j]
    BY <1>2, <1>8, <2>1, <2>2, <2>3
  <2>5. v[k] = q[i - k] /\ q[i - k] \in All
    BY <1>2, <2>2, <2>4
  <2> QED BY <1>2, <2>2, <2>5
<1>12. Rank[p] = b + i /\ p \in All
  BY <1>2, <1>4
<1>13. \A k, m \in DOMAIN v : v[k] = v[m] => k = m
  <2> SUFFICES ASSUME NEW k \in 1..i - 1, NEW m \in 1..i - 1, v[k] = v[m] PROVE k = m
    BY <1>8
  <2>1. b + (i - k) = b + (i - m)
    BY <1>11
  <2> QED BY <1>3, <2>1
<1>14. ASSUME NEW x \in Range(v)
       PROVE  x \in All /\ b < Rank[x] /\ Rank[x] < Rank[p] /\ x # "throttle_delay"
  <2>1. PICK k \in 1..i - 1 : x = v[k]
    BY <1>8 DEF Range
  <2>2. x \in All /\ Rank[x] = b + (i - k)
    BY <1>11, <2>1
  <2>3. b < Rank[x] /\ Rank[x] < b + i
    BY <1>3, <2>2
  <2>4. x # "throttle_delay"
    <3> SUFFICES ASSUME x = "throttle_delay" PROVE FALSE
      OBVIOUS
    <3>1. b < 23 /\ 23 < b + i
      BY <1>9, <2>3
    <3>2. b + n <= 23 \/ 23 <= b
      BY <1>1 DEF First, Size
    <3> QED BY <1>3, <3>1, <3>2
  <2> QED BY <1>12, <2>2, <2>3, <2>4
<1>15. ASSUME NEW x \in All, b < Rank[x], Rank[x] < Rank[p] PROVE x \in Range(v)
  <2>1. PICK r, k : r = Rank[x] /\ k = b + i - r
    OBVIOUS
  <2>2. r \in 1..45 /\ b < r /\ r < b + i
    BY <1>12, <1>15, <2>1, RankIs
  <2>3. k \in 1..i - 1 /\ b + (i - k) = r
    BY <1>3, <2>1, <2>2
  <2>4. v[k] = x
    BY <1>11, <1>15, <2>1, <2>3, RankIs
  <2> QED BY <1>8, <2>3, <2>4 DEF Range
<1>16. Range(v) \cap Timing = {}
  <2>1. "timers" \in All /\ "notifier" \in All /\ Rank["timers"] = 24 /\ Rank["notifier"] = 25
    BY DEF All, Rank
  <2>2. 25 <= b \/ b + n <= 23
    BY <1>1 DEF First, Size
  <2>3. ASSUME NEW x \in Range(v), x \in Timing PROVE FALSE
    <3>1. b < Rank[x] /\ Rank[x] < b + i
      BY <1>12, <1>14
    <3>2. Rank[x] = 24 \/ Rank[x] = 25
      BY <2>1, <2>3 DEF Timing
    <3> QED BY <1>3, <2>2, <3>1, <3>2
  <2> QED BY <2>3
<1>17. Tidy(v, TimersFirst)
  BY <1>8, <1>13, <1>16, NoTimers
<1> QED BY <1>1, <1>6, <1>8, <1>14, <1>15, <1>17

\* When throttle_delay has failed, its own exit is called, but not that of rw_sem.
LEMMA BelowThrottle ==
  LET v == Below(diag_kernel, "throttle_delay")
  IN /\ v \in Seq(All) /\ Tidy(v, TimersFirst)
     /\ Range(v) = ({x \in All : 3 < Rank[x] /\ Rank[x] < 23} \ {"rw_sem"}) \cup {"throttle_delay"}
<1> DEFINE u == diag_kernel.undo
           X == {"throttle_delay", "task_monitor", "sig_info", "uprobe", "reboot",
                 "utilization", "kprobe", "irq_trace", "run_trace", "perf", "exec",
                 "sys_delay", "sys_cost", "exit", "load", "mutex", "sched_delay",
                 "irq_delay", "irq_stats"}
<1>1. u \in Seq(All) /\ Len(u) = 19
  BY DEF diag_kernel, All, Rank
<1>2. \A i, j \in DOMAIN u : u[i] = u[j] => i = j
  BY DEF diag_kernel
<1>3. Range(u) = X
  BY DEF diag_kernel, Range
<1>4. ({x \in All : 3 < Rank[x] /\ Rank[x] < 23} \ {"rw_sem"}) \cup {"throttle_delay"} = X
  BY DEF All, Rank
<1>5. X \cap Timing = {}
  BY DEF Timing
<1> HIDE DEF X, u
<1>6. Below(diag_kernel, "throttle_delay") = u
  <2>1. diagnosis[4] = diag_kernel /\ diag_kernel.inits[20] = "throttle_delay" /\ Size[4] = 20
    BY DEF diagnosis, diag_kernel, Size
  <2>2. 4 \in 1..12 /\ 20 \in 1..Size[4] /\ Size[4] - 20 + 1 = 1
    BY <2>1
  <2>3. Label(diag_kernel, "throttle_delay") = 1
    BY <2>1, <2>2, LabelIs
  <2>4. SubSeq(u, 1, Len(u)) = u
    BY <1>1
  <2> QED BY <2>3, <2>4 DEF Below, u
<1> QED BY <1>1, <1>2, <1>3, <1>4, <1>5, <1>6, NoTimers

\* The parts whose exits are called when the init of p has failed.
Taken(p) ==
  IF p = "throttle_delay"
  THEN ({x \in All : Rank[x] < Rank[p]} \ {"rw_sem"}) \cup {"throttle_delay"}
  ELSE {x \in All : Rank[x] < Rank[p]} \ {"throttle_delay"}

\* What a failed insmod calls: the exits of the parts before the one that failed.
LEMMA UndoesIs ==
  ASSUME NEW p \in All, p \notin Timing
  PROVE  /\ Undoes(p) \in Seq(CallSet) /\ Tidy(Undoes(p), ByTimers)
         /\ Range(Undoes(p)) = {<<"exit", x>> : x \in Taken(p)}
<1>1. PICK s : s = CHOOSE i \in DOMAIN diagnosis : Contains(diagnosis[i].inits, p)
  OBVIOUS
<1>2. s \in 1..12 /\ p \in Range(diagnosis[s].inits)
  <2>1. \A t \in 1..12 : Contains(diagnosis[t].inits, p) <=> p \in Range(diagnosis[t].inits)
    <3> SUFFICES ASSUME NEW t \in 1..12
                 PROVE  Contains(diagnosis[t].inits, p) <=> p \in Range(diagnosis[t].inits)
      OBVIOUS
    <3>1. diagnosis[t].inits \in Seq(All)
      BY InitsAre
    <3> QED BY <3>1 DEF Contains, Range
  <2>2. PICK t \in 1..12 : First[t] < Rank[p] /\ Rank[p] <= First[t] + Size[t]
    BY FirstIs
  <2>3. p \in Range(diagnosis[t].inits)
    BY <2>2, InitsAre
  <2>4. t \in DOMAIN diagnosis /\ Contains(diagnosis[t].inits, p)
    BY <2>1, <2>3, SubsAre
  <2>5. s \in DOMAIN diagnosis /\ Contains(diagnosis[s].inits, p)
    BY <1>1, <2>4
  <2> QED BY <2>1, <2>5, SubsAre
<1>3. First[s] < Rank[p] /\ Rank[p] <= First[s] + Size[s]
  BY <1>2, InitsAre
<1>4. s # 5
  <2> SUFFICES ASSUME s = 5 PROVE FALSE
    OBVIOUS
  <2>1. p \in Range(<<"timers", "notifier">>)
    BY <1>2 DEF diagnosis, timing
  <2> QED BY <2>1 DEF Range, Timing
<1>5. PICK a, b : a = Below(diagnosis[s], p)
                  /\ b = Calls("exits", Reverse(SubSeq(diagnosis, 1, s - 1)))
  OBVIOUS
<1>6. Undoes(p) = Do("exit", a \o b)
  BY <1>1, <1>5 DEF Undoes
<1>7. /\ b \in Seq(All) /\ Tidy(b, TimersFirst)
      /\ Range(b) = {x \in All : Rank[x] <= First[s]} \ {"throttle_delay"}
  BY <1>2, <1>5, EarlierExits
<1>8. p = "throttle_delay" => s = 4 /\ First[s] = 3 /\ Rank[p] = 23
  <2>1. Rank["throttle_delay"] = 23
    BY DEF Rank
  <2> QED BY <1>2, <1>3, <2>1 DEF First, Size
<1>9. /\ a \in Seq(All) /\ Tidy(a, TimersFirst)
      /\ p # "throttle_delay" =>
           Range(a) = {x \in All : First[s] < Rank[x] /\ Rank[x] < Rank[p]} \ {"throttle_delay"}
      /\ p = "throttle_delay" =>
           Range(a) = ({x \in All : 3 < Rank[x] /\ Rank[x] < 23} \ {"rw_sem"}) \cup {"throttle_delay"}
  <2>1. CASE p = "throttle_delay"
    <3>1. diagnosis[4] = diag_kernel
      BY DEF diagnosis
    <3>2. a = Below(diag_kernel, "throttle_delay")
      BY <1>5, <1>8, <2>1, <3>1
    <3> QED BY <2>1, <3>2, BelowThrottle
  <2>2. CASE p # "throttle_delay"
    BY <1>2, <1>4, <1>5, <2>2, BelowIs
  <2> QED BY <2>1, <2>2
<1>10. First[s] \in 0..44
  BY <1>2, FirstIs
<1>11. ASSUME NEW x \in Range(a), NEW y \in Range(b)
       PROVE  x # y /\ <<x, y>> \in All \X All /\ Rank[y] < Rank[x]
  <2>1. x \in All /\ y \in All /\ Rank[x] \in 1..45 /\ Rank[y] \in 1..45
    <3>1. Range(a) \subseteq All /\ Range(b) \subseteq All
      BY <1>7, <1>9 DEF Range
    <3> QED BY <3>1, RankIs
  <2>2. First[s] < Rank[x]
    <3>1. CASE p = "throttle_delay"
      <4>1. Rank["throttle_delay"] = 23
        BY DEF Rank
      <4> QED BY <1>8, <1>9, <3>1, <4>1
    <3>2. CASE p # "throttle_delay"
      BY <1>9, <3>2
    <3> QED BY <3>1, <3>2
  <2>3. Rank[y] <= First[s]
    BY <1>7
  <2> QED BY <1>10, <2>1, <2>2, <2>3
<1>12. \A x \in Range(a), y \in Range(b) : x # y /\ <<y, x>> \notin TimersFirst
  <2> SUFFICES ASSUME NEW x \in Range(a), NEW y \in Range(b) PROVE x # y /\ <<y, x>> \notin TimersFirst
    OBVIOUS
  <2>1. x \in All /\ y \in All /\ Rank[x] \in 1..45 /\ Rank[y] \in 1..45
    BY <1>11, RankIs
  <2>2. Rank[y] < Rank[x] /\ x # y
    BY <1>11
  <2>3. ~(Rank[x] < Rank[y])
    BY <2>1, <2>2
  <2> QED BY <2>1, <2>2, <2>3, TimersFirstIs
<1>13. /\ a \o b \in Seq(All) /\ Tidy(a \o b, TimersFirst)
       /\ Range(a \o b) = Range(a) \cup Range(b)
  BY <1>7, <1>9, <1>12, Concat
<1>14. \A x, y \in All : <<<<"exit", x>>, <<"exit", y>>>> \in ByTimers => <<x, y>> \in TimersFirst
  <2> SUFFICES ASSUME NEW x \in All, NEW y \in All, <<<<"exit", x>>, <<"exit", y>>>> \in ByTimers
               PROVE  <<x, y>> \in TimersFirst
    OBVIOUS
  <2>1. PICK c \in TimersFirst : <<<<"exit", x>>, <<"exit", y>>>> = <<<<"exit", c[1]>>, <<"exit", c[2]>>>>
    BY DEF ByTimers
  <2>2. c = <<c[1], c[2]>>
    BY DEF TimersFirst
  <2> QED BY <2>1, <2>2
<1>15. /\ Undoes(p) \in Seq(CallSet) /\ Tidy(Undoes(p), ByTimers)
       /\ Range(Undoes(p)) = {<<"exit", x>> : x \in Range(a \o b)}
  BY <1>6, <1>13, <1>14, DoIs
<1>16. Range(a) \cup Range(b) = Taken(p)
  <2>1. \A x \in All : Rank[x] \in 1..45
    BY RankIs
  <2>2. Rank[p] \in 1..45
    BY RankIs
  <2>3. CASE p = "throttle_delay"
    <3>1. Taken(p) = ({x \in All : Rank[x] < 23} \ {"rw_sem"}) \cup {"throttle_delay"}
      BY <1>8, <2>3 DEF Taken
    <3>2. Range(b) = {x \in All : Rank[x] <= 3} \ {"throttle_delay"}
      BY <1>7, <1>8, <2>3
    <3>3. Rank["rw_sem"] = 22 /\ Rank["throttle_delay"] = 23
      BY DEF Rank
    <3>4. \A x \in All : Rank[x] < 23 <=> (3 < Rank[x] /\ Rank[x] < 23) \/ Rank[x] <= 3
      BY <2>1
    <3>5. Range(a) = ({x \in All : 3 < Rank[x] /\ Rank[x] < 23} \ {"rw_sem"}) \cup {"throttle_delay"}
      BY <1>9, <2>3
    <3>6. ~(Rank["rw_sem"] <= 3)
      BY <3>3
    <3> HIDE DEF Taken
    <3> QED BY <3>1, <3>2, <3>4, <3>5, <3>6
  <2>4. CASE p # "throttle_delay"
    <3>1. Taken(p) = {x \in All : Rank[x] < Rank[p]} \ {"throttle_delay"}
      BY <2>4 DEF Taken
    <3>2. \A x \in All : Rank[x] < Rank[p]
            <=> (First[s] < Rank[x] /\ Rank[x] < Rank[p]) \/ Rank[x] <= First[s]
      BY <1>3, <1>10, <2>1, <2>2
    <3>3. Range(a) = {x \in All : First[s] < Rank[x] /\ Rank[x] < Rank[p]} \ {"throttle_delay"}
      BY <1>9, <2>4
    <3> QED BY <1>7, <3>1, <3>2, <3>3
  <2> QED BY <2>3, <2>4
<1> QED BY <1>13, <1>15, <1>16

-----------------------------------------------------------------------------
(* What rmmod calls.                                                       *)

\* The exits in stages: rmmod needs them in this order.
PartStage(p) ==
  CASE p = "controller" -> 3 [] p = "dev" -> 4 [] p = "test" -> 7 [] p = "notifier" -> 8
    [] p = "timers" -> 9 [] p = "context" -> 12 [] OTHER -> 10
PartOrder == {c \in All \X All : PartStage(c[1]) < PartStage(c[2])}

\* The order the calls are needed in.
Stage(c) ==
  CASE c[1] = "exit" -> PartStage(c[2])
    [] c[1] = "unhook" -> IF c[2] = "test" THEN 1 ELSE 2
    [] c[1] = "sync" -> IF c[2] = "1" THEN 5 ELSE 11
    [] OTHER -> 6
\* All that rmmod calls.
AllCalls ==
  {<<"exit", p>> : p \in All \ {"throttle_delay"}}
  \cup {<<"unhook", "test">>, <<"unhook", "do">>, <<"sync", "1">>, <<"drain", "1">>, <<"sync", "2">>}
\* The order of the stages.
ByStage == {c \in AllCalls \X AllCalls : Stage(c[1]) < Stage(c[2])}

\* The stages of the calls that are not exits, and the bounds of all.
LEMMA StageIs ==
  /\ \A p : PartStage(p) \in 3..12 /\ Stage(<<"exit", p>>) = PartStage(p)
  /\ Stage(<<"unhook", "test">>) = 1 /\ Stage(<<"unhook", "do">>) = 2
  /\ Stage(<<"sync", "1">>) = 5 /\ Stage(<<"drain", "1">>) = 6 /\ Stage(<<"sync", "2">>) = 11
  /\ \A c : Stage(c) \in 1..12
<1>1. \A p : PartStage(p) \in 3..12
  BY DEF PartStage
<1>2. \A p : Stage(<<"exit", p>>) = PartStage(p)
  BY DEF Stage
<1>3. /\ Stage(<<"unhook", "test">>) = 1 /\ Stage(<<"unhook", "do">>) = 2
      /\ Stage(<<"sync", "1">>) = 5 /\ Stage(<<"drain", "1">>) = 6 /\ Stage(<<"sync", "2">>) = 11
  BY DEF Stage
<1>4. \A c : Stage(c) \in 1..12
  BY <1>1 DEF Stage
<1> QED BY <1>1, <1>2, <1>3, <1>4

\* Parts of one stage have no order to keep.
LEMMA OneStage ==
  ASSUME NEW q \in Seq(All), \A i, j \in DOMAIN q : q[i] = q[j] => i = j,
         \A p \in Range(q) : PartStage(p) = 10
  PROVE  Tidy(q, PartOrder)
<1>1. \A i \in DOMAIN q : PartStage(q[i]) = 10
  BY DEF Range
<1> QED BY <1>1 DEF Tidy, PartOrder

\* The exits of the subsystems between the drain and the last wait.
LEMMA ExitsStaged ==
  ASSUME NEW t \in {4, 5, 6, 7, 9}
  PROVE  /\ Tidy(diagnosis[t].exits, PartOrder)
         /\ t # 5 => \A p \in Range(diagnosis[t].exits) : PartStage(p) = 10
<1>1. CASE t = 5
  <2>1. diagnosis[t].exits = <<"notifier", "timers">>
    BY <1>1 DEF diagnosis, timing
  <2>2. PartStage("notifier") = 8 /\ PartStage("timers") = 9
    BY DEF PartStage
  <2>3. Tidy(<<"notifier", "timers">>, PartOrder)
    BY <2>2 DEF Tidy, PartOrder
  <2> QED BY <1>1, <2>1, <2>3
<1>2. CASE t # 5
  <2>1. Exits(diagnosis[t], First[t], Size[t])
    BY SubsAre
  <2>2. ASSUME NEW p \in Range(diagnosis[t].exits) PROVE PartStage(p) = 10
    <3>1. p \in All /\ First[t] < Rank[p] /\ Rank[p] <= First[t] + Size[t]
      BY <2>1, <2>2 DEF Exits
    <3>2. /\ First[t] \in {3, 25, 31, 38}
          /\ First[t] = 3 => First[t] + Size[t] = 23
          /\ First[t] > 3 => First[t] + Size[t] <= 42
      BY <1>2 DEF First, Size
    <3>3. Rank[p] \in 4..23 \/ Rank[p] \in 26..42
      <4>1. PICK b, n, r : b = First[t] /\ n = First[t] + Size[t] /\ r = Rank[p]
        OBVIOUS
      <4>2. r \in 1..45 /\ b < r /\ r <= n
        BY <3>1, <4>1, RankIs
      <4>3. b \in {3, 25, 31, 38} /\ (b = 3 => n = 23) /\ (b > 3 => n <= 42)
        BY <3>2, <4>1
      <4>4. n \in 1..45
        BY <4>1, FirstIs
      <4>5. r \in 4..23 \/ r \in 26..42
        BY <4>2, <4>3, <4>4
      <4> QED BY <4>1, <4>5
    <3>4. p \notin {"controller", "dev", "test", "notifier", "timers", "context"}
      BY <3>3 DEF Rank
    <3> QED BY <3>4 DEF PartStage
  <2> QED BY <1>2, <2>1, <2>2, OneStage DEF Exits
<1> QED BY <1>1, <1>2

\* A list of exits of the parts R, in their stages.
Staged(q, R) == q \in Seq(All) /\ Tidy(q, PartOrder) /\ Range(q) = R

\* Two lists of exits, one after the other.
LEMMA Appended ==
  ASSUME NEW a, NEW A, NEW b, NEW B, Staged(a, A), Staged(b, B),
         \A x \in A, y \in B : x # y /\ PartStage(x) <= PartStage(y)
  PROVE  Staged(a \o b, A \cup B)
<1>1. \A x \in A, y \in B : x # y /\ <<y, x>> \notin PartOrder
  <2> SUFFICES ASSUME NEW x \in A, NEW y \in B PROVE x # y /\ <<y, x>> \notin PartOrder
    OBVIOUS
  <2>1. PartStage(x) \in 3..12 /\ PartStage(y) \in 3..12 /\ x # y /\ PartStage(x) <= PartStage(y)
    BY StageIs
  <2> QED BY <2>1 DEF PartOrder
<1> QED BY <1>1, Concat DEF Staged

\* The parts whose exits diagnosis_exit calls between the drain and the last wait.
LEMMA MiddleExits ==
  LET q == <<"test">> \o Calls("exits", <<timing, diag_kernel, diag_net, diag_mm>>) \o <<"pupil">> \o
                   diag_fs.exits \o <<"pmu", "symbols">>
  IN /\ q \in Seq(All) /\ Tidy(q, PartOrder)
     /\ Range(q) = All \ {"throttle_delay", "context", "controller", "dev"}
<1> DEFINE ss == [i \in 1..4 |-> (<<timing, diag_kernel, diag_net, diag_mm>>[i]).exits]
           a == Calls("exits", <<timing, diag_kernel, diag_net, diag_mm>>)
<1>1. a = FlattenSeq(ss)
  BY DEF Calls
<1>2. ss[1] = diagnosis[5].exits /\ ss[2] = diagnosis[4].exits /\ ss[3] = diagnosis[6].exits
      /\ ss[4] = diagnosis[7].exits /\ DOMAIN ss = 1..4
  BY DEF diagnosis
<1>3. ss \in Seq(Seq(All)) /\ Len(ss) = 4
  <2>1. \A i \in 1..4 : ss[i] \in Seq(All)
    <3> HIDE DEF ss
    <3>1. \A t \in 1..12 : diagnosis[t].exits \in Seq(All)
      BY ExitsAre
    <3>2. /\ diagnosis[5].exits \in Seq(All) /\ diagnosis[4].exits \in Seq(All)
          /\ diagnosis[6].exits \in Seq(All) /\ diagnosis[7].exits \in Seq(All)
      BY <3>1
    <3> QED BY <1>2, <3>2
  <2>2. PICK T : T = Seq(All)
    OBVIOUS
  <2> QED BY <2>1, <2>2
<1> HIDE DEF ss, a
<1>4. /\ Range(ss[1]) = {p \in All : Rank[p] \in 24..25}
      /\ Range(ss[2]) = {p \in All : Rank[p] \in 4..22}
      /\ Range(ss[3]) = {p \in All : Rank[p] \in 26..31}
      /\ Range(ss[4]) = {p \in All : Rank[p] \in 32..37}
  <2>1. Rank["throttle_delay"] = 23 /\ "throttle_delay" \in All
    BY DEF Rank, All
  <2>2. \A p \in All : Rank[p] \in 1..45 /\ (p = "throttle_delay" <=> Rank[p] = 23)
    BY <2>1, RankIs
  <2>3. /\ First[5] = 23 /\ Size[5] = 2 /\ First[4] = 3 /\ Size[4] = 20
        /\ First[6] = 25 /\ Size[6] = 6 /\ First[7] = 31 /\ Size[7] = 6
    BY DEF First, Size
  <2>4. /\ Range(ss[1]) = {p \in All : 23 < Rank[p] /\ Rank[p] <= 23 + 2} \ {"throttle_delay"}
        /\ Range(ss[2]) = {p \in All : 3 < Rank[p] /\ Rank[p] <= 3 + 20} \ {"throttle_delay"}
        /\ Range(ss[3]) = {p \in All : 25 < Rank[p] /\ Rank[p] <= 25 + 6} \ {"throttle_delay"}
        /\ Range(ss[4]) = {p \in All : 31 < Rank[p] /\ Rank[p] <= 31 + 6} \ {"throttle_delay"}
    <3>1. \A t \in 1..12 : \A b, n : First[t] = b /\ Size[t] = n =>
            Range(diagnosis[t].exits) = {p \in All : b < Rank[p] /\ Rank[p] <= b + n} \ {"throttle_delay"}
      BY ExitsAre
    <3>2. Range(ss[1]) = {p \in All : 23 < Rank[p] /\ Rank[p] <= 23 + 2} \ {"throttle_delay"}
      BY <1>2, <2>3, <3>1
    <3>3. Range(ss[2]) = {p \in All : 3 < Rank[p] /\ Rank[p] <= 3 + 20} \ {"throttle_delay"}
      BY <1>2, <2>3, <3>1
    <3>4. Range(ss[3]) = {p \in All : 25 < Rank[p] /\ Rank[p] <= 25 + 6} \ {"throttle_delay"}
      BY <1>2, <2>3, <3>1
    <3>5. Range(ss[4]) = {p \in All : 31 < Rank[p] /\ Rank[p] <= 31 + 6} \ {"throttle_delay"}
      BY <1>2, <2>3, <3>1
    <3> QED BY <3>2, <3>3, <3>4, <3>5
  <2> QED BY <2>2, <2>4
<1>5. \A i \in 1..4 : Tidy(ss[i], PartOrder) /\ (i > 1 => \A p \in Range(ss[i]) : PartStage(p) = 10)
  BY <1>2, ExitsStaged
<1>6. ASSUME NEW i \in 1..4, NEW j \in 1..4, i < j, NEW x \in Range(ss[i]), NEW y \in Range(ss[j])
      PROVE  x # y /\ <<y, x>> \notin PartOrder
  <2>1. x # y
    BY <1>4, <1>6
  <2>2. PartStage(y) = 10
    BY <1>5, <1>6
  <2>3. PartStage(x) <= 10
    <3>1. x \in All /\ Rank[x] \in 4..37
      BY <1>4
    <3>2. x # "context"
      BY <3>1 DEF Rank
    <3> QED BY <3>2 DEF PartStage
  <2> QED BY <2>1, <2>2, <2>3, StageIs DEF PartOrder
<1>7. Lists(All, ss, PartOrder)
  BY <1>2, <1>3, <1>5, <1>6 DEF Lists
<1>8. Flat(All, ss, PartOrder, a, 4)
  <2>1. Len(ss) \in 0..12
    BY <1>3
  <2> QED BY <1>1, <1>3, <1>7, <2>1, Flattened
<1>9. Upto(ss, 4) = Range(ss[1]) \cup Range(ss[2]) \cup Range(ss[3]) \cup Range(ss[4])
  <2>1. 1..4 = {1, 2, 3, 4}
    OBVIOUS
  <2> QED BY <2>1 DEF Upto
<1>10. /\ a \in Seq(All) /\ Tidy(a, PartOrder)
       /\ Range(a) = {p \in All : Rank[p] \in 4..22 \/ Rank[p] \in 24..37}
  <2>1. Range(a) = Range(ss[1]) \cup Range(ss[2]) \cup Range(ss[3]) \cup Range(ss[4])
    BY <1>8, <1>9 DEF Flat
  <2>2. Range(a) = {p \in All : Rank[p] \in 4..22 \/ Rank[p] \in 24..37}
    BY <1>4, <2>1
  <2> QED BY <1>8, <2>2 DEF Flat
<1>11. /\ Rank["test"] = 44 /\ Rank["pupil"] = 38 /\ Rank["pmu"] = 43 /\ Rank["symbols"] = 1
       /\ Rank["context"] = 2 /\ Rank["controller"] = 3 /\ Rank["dev"] = 45
       /\ Rank["throttle_delay"] = 23
       /\ {"test", "pupil", "pmu", "symbols", "context", "controller", "dev", "throttle_delay"} \subseteq All
  BY DEF Rank, All
<1>12. /\ PartStage("test") = 7 /\ PartStage("pupil") = 10 /\ PartStage("pmu") = 10
       /\ PartStage("symbols") = 10
  BY DEF PartStage
<1>13. \A p \in Range(a) : p \in All /\ Rank[p] \in 4..37 /\ PartStage(p) \in 8..10
  <2>1. ASSUME NEW p \in Range(a)
        PROVE  p \in All /\ Rank[p] \in 4..37 /\ p \notin {"context", "controller", "dev", "test"}
    <3>1. p \in All /\ Rank[p] \in 4..37
      BY <1>10
    <3> QED BY <1>11, <3>1
  <2> QED BY <2>1 DEF PartStage
<1>14. /\ <<"test">> \in Seq(All) /\ Range(<<"test">>) = {"test"} /\ Tidy(<<"test">>, PartOrder)
       /\ <<"pupil">> \in Seq(All) /\ Range(<<"pupil">>) = {"pupil"} /\ Tidy(<<"pupil">>, PartOrder)
  BY <1>11, <1>12 DEF Range, Tidy, PartOrder
<1>15. /\ <<"pmu", "symbols">> \in Seq(All) /\ Range(<<"pmu", "symbols">>) = {"pmu", "symbols"}
       /\ Tidy(<<"pmu", "symbols">>, PartOrder)
  BY <1>11, <1>12 DEF Range, Tidy, PartOrder
<1>16. PICK f : f = diag_fs.exits
  OBVIOUS
<1>17. /\ f \in Seq(All) /\ Tidy(f, PartOrder) /\ \A p \in Range(f) : PartStage(p) = 10
       /\ Range(f) = {p \in All : Rank[p] \in 39..42}
  <2>1. diagnosis[9].exits = f /\ First[9] = 38 /\ Size[9] = 4
    BY <1>16 DEF diagnosis, First, Size
  <2>2. Range(f) = {p \in All : 38 < Rank[p] /\ Rank[p] <= 38 + 4} \ {"throttle_delay"}
    <3>1. 9 \in 1..12
      OBVIOUS
    <3> QED BY <2>1, <3>1, ExitsAre
  <2>3. \A p \in All : Rank[p] \in 1..45
    BY RankIs
  <2>4. Range(f) = {p \in All : Rank[p] \in 39..42}
    BY <1>11, <2>2, <2>3
  <2> QED BY <2>1, <2>4, ExitsAre, ExitsStaged
<1>18. \A p \in Range(f) : p \in All /\ Rank[p] \in 39..42 /\ PartStage(p) = 10
  BY <1>17
<1> DEFINE b == <<"test">> \o a
           c == b \o <<"pupil">>
           d == c \o f
           e == d \o <<"pmu", "symbols">>
<1>19. Staged(b, {"test"} \cup Range(a))
  <2>1. \A x \in {"test"}, y \in Range(a) : x # y /\ PartStage(x) <= PartStage(y)
    BY <1>11, <1>12, <1>13
  <2>2. Staged(<<"test">>, {"test"}) /\ Staged(a, Range(a))
    BY <1>10, <1>14 DEF Staged
  <2> QED BY <2>1, <2>2, Appended
<1>20. Staged(c, ({"test"} \cup Range(a)) \cup {"pupil"})
  <2>1. \A x \in {"test"} \cup Range(a), y \in {"pupil"} : x # y /\ PartStage(x) <= PartStage(y)
    BY <1>11, <1>12, <1>13
  <2>2. Staged(<<"pupil">>, {"pupil"})
    BY <1>14 DEF Staged
  <2> HIDE DEF b
  <2> QED BY <1>19, <2>1, <2>2, Appended
<1>21. Staged(d, (({"test"} \cup Range(a)) \cup {"pupil"}) \cup Range(f))
  <2>1. \A x \in ({"test"} \cup Range(a)) \cup {"pupil"}, y \in Range(f) :
          x # y /\ PartStage(x) <= PartStage(y)
    BY <1>11, <1>12, <1>13, <1>18
  <2>2. Staged(f, Range(f))
    BY <1>17 DEF Staged
  <2> HIDE DEF c
  <2> QED BY <1>20, <2>1, <2>2, Appended
<1>22. Staged(e, ((({"test"} \cup Range(a)) \cup {"pupil"}) \cup Range(f)) \cup {"pmu", "symbols"})
  <2>1. \A x \in (({"test"} \cup Range(a)) \cup {"pupil"}) \cup Range(f), y \in {"pmu", "symbols"} :
          x # y /\ PartStage(x) <= PartStage(y)
    BY <1>11, <1>12, <1>13, <1>18
  <2>2. Staged(<<"pmu", "symbols">>, {"pmu", "symbols"})
    BY <1>15 DEF Staged
  <2> HIDE DEF d
  <2> QED BY <1>21, <2>1, <2>2, Appended
<1>23. ((({"test"} \cup Range(a)) \cup {"pupil"}) \cup Range(f)) \cup {"pmu", "symbols"}
         = All \ {"throttle_delay", "context", "controller", "dev"}
  <2>1. ASSUME NEW p \in All
        PROVE  \/ Rank[p] \in 4..22 \cup 24..37 \cup 39..42
               \/ p \in {"test", "pupil", "pmu", "symbols", "throttle_delay", "context", "controller", "dev"}
    <3>1. Rank[p] \in 1..45
      BY RankIs
    <3>2. Rank[p] \in 4..22 \cup 24..37 \cup 39..42 \/ Rank[p] \in {1, 2, 3, 23, 38, 43, 44, 45}
      BY <3>1
    <3>3. \A r \in All : Rank[p] = Rank[r] => p = r
      BY RankIs
    <3> QED BY <1>11, <3>2, <3>3
  <2>2. ASSUME NEW p \in Range(a) \cup Range(f)
        PROVE  p \in All /\ p \notin {"throttle_delay", "context", "controller", "dev"}
    <3>1. p \in All /\ Rank[p] \in 4..22 \cup 24..37 \cup 39..42
      BY <1>10, <1>17
    <3> QED BY <1>11, <3>1
  <2>3. \A p \in All : Rank[p] \in 4..22 \cup 24..37 \cup 39..42 => p \in Range(a) \cup Range(f)
    BY <1>10, <1>17
  <2> QED BY <1>11, <2>1, <2>2, <2>3
<1>24. e = <<"test">> \o a \o <<"pupil">> \o diag_fs.exits \o <<"pmu", "symbols">>
  BY <1>16
<1> HIDE DEF e
<1> QED BY <1>22, <1>23, <1>24 DEF a, Staged

\* A list of the calls R, in their stages.
Ordered(q, R) == q \in Seq(CallSet) /\ Tidy(q, ByStage) /\ Range(q) = R

\* Two lists of calls, one after the other.
LEMMA Joined ==
  ASSUME NEW a, NEW A, NEW b, NEW B, Ordered(a, A), Ordered(b, B),
         \A x \in A, y \in B : Stage(x) < Stage(y)
  PROVE  Ordered(a \o b, A \cup B)
<1>1. \A x \in A, y \in B : x # y /\ <<y, x>> \notin ByStage
  <2> SUFFICES ASSUME NEW x \in A, NEW y \in B PROVE x # y /\ <<y, x>> \notin ByStage
    OBVIOUS
  <2>1. Stage(x) \in 1..12 /\ Stage(y) \in 1..12 /\ Stage(x) < Stage(y)
    BY StageIs
  <2> QED BY <2>1 DEF ByStage
<1> QED BY <1>1, Concat DEF Ordered

\* What rmmod calls, in its stages.
LEMMA UnloadsIs ==
  /\ Unloads \in Seq(CallSet) /\ Unloads # <<>> /\ Range(Unloads) = AllCalls
  /\ Tidy(Unloads, ByStage)
<1> DEFINE h == <<<<"unhook", "test">>, <<"unhook", "do">>>>
           H == {<<"unhook", "test">>, <<"unhook", "do">>}
           E == {<<"exit", "controller">>, <<"exit", "dev">>, <<"sync", "1">>}
           d == <<<<"drain", "1">>>>
           D == {<<"drain", "1">>}
           m == <<"test">> \o Calls("exits", <<timing, diag_kernel, diag_net, diag_mm>>)
                \o <<"pupil">> \o diag_fs.exits \o <<"pmu", "symbols">>
           b == Do("exit", m)
           B == {<<"exit", p>> : p \in All \ {"throttle_delay", "context", "controller", "dev"}}
           c == <<<<"sync", "2">>, <<"exit", "context">>>>
           C == {<<"sync", "2">>, <<"exit", "context">>}
<1>1. {"controller", "dev", "context", "test"} \subseteq All /\ "throttle_delay" \in All
  BY DEF All, Rank
<1>2. /\ Stage(<<"exit", "controller">>) = 3 /\ Stage(<<"exit", "dev">>) = 4
      /\ Stage(<<"exit", "context">>) = 12
  <2>1. PartStage("controller") = 3 /\ PartStage("dev") = 4 /\ PartStage("context") = 12
    BY DEF PartStage
  <2> QED BY <2>1, StageIs
<1>3. H \subseteq CallSet /\ E \subseteq CallSet /\ D \subseteq CallSet /\ C \subseteq CallSet
  BY <1>1 DEF CallSet
<1>4. Ordered(h, H)
  <2>1. h \in Seq(CallSet) /\ Range(h) = H
    BY <1>3 DEF Range
  <2>2. Tidy(h, ByStage)
    BY StageIs DEF Tidy, ByStage
  <2> QED BY <2>1, <2>2 DEF Ordered
<1>5. Ordered(Ends, E)
  <2>1. Ends \in Seq(CallSet) /\ Range(Ends) = E
    BY <1>3 DEF Range, Ends
  <2>2. DOMAIN Ends = 1..3 /\ \A i \in 1..3 : Stage(Ends[i]) = i + 2
    BY <1>2, StageIs DEF Ends
  <2>3. Tidy(Ends, ByStage)
    BY <2>2 DEF Tidy, ByStage
  <2> QED BY <2>1, <2>3 DEF Ordered
<1>6. Ordered(d, D)
  <2>1. d \in Seq(CallSet) /\ Range(d) = D
    BY <1>3 DEF Range
  <2>2. Tidy(d, ByStage)
    BY StageIs DEF Tidy, ByStage
  <2> QED BY <2>1, <2>2 DEF Ordered
<1>7. Ordered(c, C)
  <2>1. c \in Seq(CallSet) /\ Range(c) = C
    BY <1>3 DEF Range
  <2>2. Tidy(c, ByStage)
    BY <1>2, StageIs DEF Tidy, ByStage
  <2> QED BY <2>1, <2>2 DEF Ordered
<1>8. Ordered(b, B)
  <2>1. /\ m \in Seq(All) /\ Tidy(m, PartOrder)
        /\ Range(m) = All \ {"throttle_delay", "context", "controller", "dev"}
    BY MiddleExits
  <2> HIDE DEF m
  <2>2. \A x, y \in All : <<<<"exit", x>>, <<"exit", y>>>> \in ByStage => <<x, y>> \in PartOrder
    BY StageIs DEF ByStage, PartOrder
  <2> QED BY <2>1, <2>2, DoIs DEF Ordered
<1>9. /\ \A x \in H : Stage(x) \in 1..2
      /\ \A x \in E : Stage(x) \in 3..5
      /\ \A x \in D : Stage(x) = 6
      /\ \A x \in C : Stage(x) \in 11..12
  BY <1>2, StageIs
<1>10. ASSUME NEW x \in B PROVE Stage(x) \in 7..10
  <2>1. PICK p \in All \ {"throttle_delay", "context", "controller", "dev"} : x = <<"exit", p>>
    OBVIOUS
  <2>2. PartStage(p) \in 7..10
    BY <2>1 DEF PartStage
  <2> QED BY <2>1, <2>2, StageIs
<1>11. (H \cup E) \cup D \cup (B \cup C) = AllCalls
  BY <1>1 DEF AllCalls
<1> HIDE DEF h, H, E, d, D, b, B, c, C, m
<1>12. Ordered(b \o c, B \cup C)
  BY <1>7, <1>8, <1>9, <1>10, Joined
<1>13. Ordered(h \o Ends, H \cup E)
  BY <1>4, <1>5, <1>9, Joined
<1>14. Ordered((h \o Ends) \o d, (H \cup E) \cup D)
  <2>1. \A x \in H \cup E, y \in D : Stage(x) < Stage(y)
    BY <1>9
  <2> QED BY <1>6, <1>13, <2>1, Joined
<1>15. Ordered((h \o Ends) \o d \o (b \o c), (H \cup E) \cup D \cup (B \cup C))
  <2>1. \A x \in (H \cup E) \cup D, y \in B \cup C : Stage(x) < Stage(y)
    BY <1>9, <1>10
  <2> QED BY <1>12, <1>14, <2>1, Joined
<1>16. Unloads = (h \o Ends) \o d \o (b \o c)
  BY DEF Unloads, Rest, h, d, b, c, m
<1>17. Ordered(Unloads, AllCalls)
  BY <1>11, <1>15, <1>16
<1>18. Unloads # <<>>
  <2>1. Range(<<>>) = {}
    BY DEF Range
  <2>2. AllCalls # {}
    BY DEF AllCalls
  <2> QED BY <1>17, <2>1, <2>2 DEF Ordered
<1> QED BY <1>17, <1>18 DEF Ordered

-----------------------------------------------------------------------------
(* How far the loading and the unloading are.                              *)

\* The parts that are still to be initialised, or to be torn down.
Left(op) == {p \in All : <<op, p>> \in Range(todo)}

\* What a ladder never gets to.
Forgot == IF broken = "throttle_delay" THEN {"rw_sem"} ELSE {"throttle_delay"}

\* What is left is an end of the list; what is up is what has been called, or what is
\* left to be called.
Loading ==
  /\ todo # <<>> /\ todo \in Seq(CallSet) /\ Range(todo) \subseteq Pairs("init")
  /\ Tidy(todo, ByRank) /\ broken = None
  /\ \A p \in Left("init"), q \in All : Rank[p] < Rank[q] => q \in Left("init")
  /\ up = (All \ Left("init")) \ Timing
Undoing ==
  /\ todo # <<>> /\ todo \in Seq(CallSet) /\ Range(todo) \subseteq Pairs("exit")
  /\ Tidy(todo, ByTimers)
  /\ "timers" \in Left("exit") => After \subseteq Left("exit")
  /\ "notifier" \in Left("exit") => "timers" \in Left("exit")
  /\ up \subseteq Left("exit") \cup Forgot /\ up \cap Timing = {}
  /\ Left("exit") \ ({"throttle_delay"} \cup Timing) \subseteq up
Unloading ==
  /\ todo # <<>> /\ todo \in Seq(CallSet) /\ Range(todo) \subseteq AllCalls
  /\ Tidy(todo, ByStage) /\ broken = None
  /\ \A c \in Range(todo), d \in AllCalls : Stage(c) < Stage(d) => d \in Range(todo)
  /\ up = (Left("exit") \cup {"throttle_delay"}) \ Timing
LadderInv ==
  /\ phase \in {"loading", "undoing", "refused", "loaded", "unloading", "out"}
  /\ phase = "loading" => Loading
  /\ phase = "undoing" => Undoing
  /\ phase = "refused" => todo = <<>> /\ up \subseteq Forgot
  /\ phase = "loaded" => todo = <<>> /\ up = All \ Timing /\ broken = None
  /\ phase = "unloading" => Unloading
  /\ phase = "out" => todo = <<>> /\ up = {"throttle_delay"} /\ broken = None

\* What is called next tells the phase.
LEMMA NextCall ==
  ASSUME LadderInv, todo # <<>>
  PROVE  /\ Call \in CallSet /\ Call = <<Call[1], Call[2]>> /\ Call \in Range(todo)
         /\ phase = "loading" => Call \in Pairs("init")
         /\ phase = "undoing" => Call \in Pairs("exit")
         /\ phase = "unloading" => Call \in AllCalls
         /\ phase \in {"loading", "undoing", "unloading"}
         /\ Doing("init") <=> phase = "loading"
<1>1. phase \in {"loading", "undoing", "unloading"}
  BY DEF LadderInv
<1>2. todo \in Seq(CallSet) /\ \E F : Tidy(todo, F)
  BY <1>1 DEF LadderInv, Loading, Undoing, Unloading
<1>3. Call \in CallSet /\ Call \in Range(todo)
  BY <1>2, TailTidy DEF Call
<1>4. /\ phase = "loading" => Call \in Pairs("init")
      /\ phase = "undoing" => Call \in Pairs("exit")
      /\ phase = "unloading" => Call \in AllCalls
  BY <1>3 DEF LadderInv, Loading, Undoing, Unloading
<1>5. \A c \in CallSet : c = <<c[1], c[2]>>
  BY DEF CallSet
<1>6. Call \in Pairs("init") => Call[1] = "init"
  BY DEF Pairs
<1>7. Call \in Pairs("exit") \cup AllCalls => Call[1] # "init"
  BY DEF Pairs, AllCalls
<1> QED BY <1>1, <1>3, <1>4, <1>5, <1>6, <1>7 DEF Doing

\* One call less.
LEMMA WentIs ==
  ASSUME LadderInv, todo # <<>>, Went, NEW F, Tidy(todo, F)
  PROVE  /\ todo' \in Seq(CallSet) /\ Range(todo') = Range(todo) \ {Call} /\ Tidy(todo', F)
         /\ \A y \in Range(todo) : <<y, Call>> \notin F
         /\ Len(todo) \in Nat /\ (Len(todo) = 1 <=> todo' = <<>>) /\ (Len(todo) > 1 <=> todo' # <<>>)
         /\ \A op : Left(op)' = IF Call[1] = op THEN Left(op) \ {Call[2]} ELSE Left(op)
<1>1. phase \in {"loading", "undoing", "unloading"}
  BY NextCall
<1>2. todo \in Seq(CallSet)
  BY <1>1 DEF LadderInv, Loading, Undoing, Unloading
<1>3. /\ todo' \in Seq(CallSet) /\ Range(todo') = Range(todo) \ {Call} /\ Tidy(todo', F)
      /\ \A y \in Range(todo) : <<y, Call>> \notin F
      /\ (Len(todo) = 1 <=> todo' = <<>>)
  <2>1. /\ Range(Tail(todo)) = Range(todo) \ {Head(todo)} /\ Tail(todo) \in Seq(CallSet)
        /\ Tidy(Tail(todo), F)
        /\ \A y \in Range(todo) : <<y, Head(todo)>> \notin F
        /\ (Len(todo) = 1 <=> Tail(todo) = <<>>)
    BY <1>2, TailTidy
  <2>2. todo' = Tail(todo) /\ Call = Head(todo)
    BY DEF Went, Call
  <2> QED BY Zenon, <2>1, <2>2
<1>4. Len(todo) \in Nat /\ Len(todo) > 0
  BY <1>2
<1>6. Len(todo) > 1 <=> todo' # <<>>
  <2>1. PICK n : n = Len(todo)
    OBVIOUS
  <2>2. n \in Nat /\ n > 0
    BY <1>4, <2>1
  <2>3. n > 1 <=> ~(n = 1)
    BY <2>2
  <2> QED BY Zenon, <1>3, <2>1, <2>3
<1>5. ASSUME NEW op PROVE Left(op)' = IF Call[1] = op THEN Left(op) \ {Call[2]} ELSE Left(op)
  <2>1. Left(op)' = {p \in All : <<op, p>> \in Range(todo')}
    BY DEF Left, Range
  <2>2. Call = <<Call[1], Call[2]>>
    BY NextCall
  <2>3. \A p : <<op, p>> = Call <=> op = Call[1] /\ p = Call[2]
    BY <2>2
  <2> QED BY <1>3, <2>1, <2>3 DEF Left
<1> QED BY Zenon, <1>3, <1>4, <1>5, <1>6

\* Parts that have names in the proofs.
LEMMA Some ==
  /\ {"timers", "notifier", "symbols", "throttle_delay", "rw_sem", "context", "controller",
      "dev", "tcp_retrans"} \subseteq All
  /\ Rank["timers"] = 24 /\ Rank["notifier"] = 25 /\ Rank["tcp_retrans"] = 26
  /\ Rank["throttle_delay"] = 23 /\ Rank["rw_sem"] = 22
  /\ After \subseteq All /\ After \cap {"throttle_delay", "timers", "notifier", "rw_sem"} = {}
  /\ \A p \in After : Rank[p] < 23
  /\ <<"exit", "context">> \in AllCalls /\ Stage(<<"exit", "context">>) = 12
<1>1. /\ {"timers", "notifier", "symbols", "throttle_delay", "rw_sem", "context", "controller",
          "dev", "tcp_retrans"} \subseteq All
      /\ Rank["timers"] = 24 /\ Rank["notifier"] = 25 /\ Rank["tcp_retrans"] = 26
      /\ Rank["throttle_delay"] = 23 /\ Rank["rw_sem"] = 22
  BY DEF All, Rank
<1>2. /\ After \subseteq All /\ After \cap {"throttle_delay", "timers", "notifier", "rw_sem"} = {}
      /\ \A p \in After : Rank[p] < 23
  BY DEF All, Rank, After, TimerParts
<1>3. <<"exit", "context">> \in AllCalls
  BY <1>1 DEF AllCalls
<1>4. PartStage("context") = 12
  BY DEF PartStage
<1> QED BY <1>1, <1>2, <1>3, <1>4, StageIs

\* insmod begins with everything to be initialised.
LEMMA LadderInit == Init => LadderInv
<1> SUFFICES ASSUME Init PROVE LadderInv
  OBVIOUS
<1>1. phase = "loading" /\ todo = Loads /\ broken = None /\ up = {}
  BY DEF Init
<1>2. Left("init") = All
  BY <1>1, LoadsIs DEF Left, Pairs
<1>3. Loading
  BY <1>1, <1>2, LoadsIs DEF Loading
<1> QED BY <1>1, <1>3 DEF LadderInv

\* One part more is up.
LEMMA LoadOne ==
  ASSUME LadderInv, todo # <<>>, phase = "loading", Went, up' = up \cup ({Call[2]} \ Timing),
         broken' = broken
  PROVE  /\ broken' = None
         /\ todo' = <<>> => up' = All \ Timing
         /\ todo' # <<>> => Loading'
         /\ Left("init")' = Left("init") \ {Call[2]} /\ Call[2] \in Left("init")
<1>1. Loading
  BY DEF LadderInv
<1>2. /\ Call \in Pairs("init") /\ Call = <<Call[1], Call[2]>> /\ Call \in Range(todo)
  BY NextCall
<1>3. Call[1] = "init" /\ Call[2] \in All
  BY <1>2 DEF Pairs
<1>4. Call[2] \in Left("init")
  BY <1>2, <1>3 DEF Left
<1>5. /\ todo' \in Seq(CallSet) /\ Range(todo') = Range(todo) \ {Call} /\ Tidy(todo', ByRank)
      /\ \A y \in Range(todo) : <<y, Call>> \notin ByRank
      /\ \A op : Left(op)' = IF Call[1] = op THEN Left(op) \ {Call[2]} ELSE Left(op)
  BY <1>1, WentIs DEF Loading
<1>6. Left("init")' = Left("init") \ {Call[2]}
  BY <1>3, <1>5
<1>7. ASSUME NEW p \in Left("init")', NEW q \in All, Rank[p] < Rank[q] PROVE q \in Left("init")'
  <2>1. p \in Left("init") /\ q \in Left("init")
    BY <1>1, <1>6, <1>7 DEF Loading
  <2>2. q # Call[2]
    <3> SUFFICES ASSUME q = Call[2] PROVE FALSE
      OBVIOUS
    <3>1. <<"init", p>> \in Range(todo) /\ p \in All
      BY <2>1 DEF Left
    <3>2. Call = <<"init", q>>
      BY <1>2, <1>3
    <3>3. <<<<"init", p>>, Call>> \in ByRank
      BY <1>7, <3>1, <3>2 DEF ByRank, Pairs
    <3> QED BY <1>5, <3>1, <3>3
  <2> QED BY <1>6, <2>1, <2>2
<1>8. up' = (All \ Left("init")') \ Timing
  BY <1>1, <1>3, <1>4, <1>6 DEF Loading
<1>9. todo' = <<>> => up' = All \ Timing
  <2> SUFFICES ASSUME todo' = <<>> PROVE up' = All \ Timing
    OBVIOUS
  <2>1. Range(todo') = {}
    BY DEF Range
  <2>2. Left("init")' = {p \in All : <<"init", p>> \in Range(todo')}
    BY DEF Left, Range
  <2> QED BY <1>8, <2>1, <2>2
<1>10. todo' # <<>> => Loading'
  <2> SUFFICES ASSUME todo' # <<>> PROVE Loading'
    OBVIOUS
  <2>1. Range(todo') \subseteq Pairs("init") /\ broken' = None
    BY <1>1, <1>5 DEF Loading
  <2>2. Loading' =
      (/\ todo' # <<>> /\ todo' \in Seq(CallSet) /\ Range(todo') \subseteq Pairs("init")
       /\ Tidy(todo', ByRank) /\ broken' = None
       /\ \A p \in Left("init")', q \in All : Rank[p] < Rank[q] => q \in Left("init")'
       /\ up' = (All \ Left("init")') \ Timing)
    BY DEF Loading, Range, Tidy
  <2> QED BY <1>5, <1>7, <1>8, <2>1, <2>2
<1>11. broken' = None
  BY <1>1 DEF Loading
<1> QED BY <1>4, <1>6, <1>9, <1>10, <1>11

\* One part less is up, by a ladder.
LEMMA UndoOne ==
  ASSUME LadderInv, todo # <<>>, phase = "undoing", Went, up' = up \ ({Call[2]} \ Timing),
         broken' = broken
  PROVE  /\ todo' = <<>> => up' \subseteq Forgot'
         /\ todo' # <<>> => Undoing'
         /\ Left("exit")' = Left("exit") \ {Call[2]} /\ Call[2] \in Left("exit")
         /\ Call[2] = "timers" => "notifier" \notin Left("exit")
         /\ Call[2] \in Timing => todo' # <<>>
<1>1. Undoing
  BY DEF LadderInv
<1>2. /\ Call \in Pairs("exit") /\ Call = <<Call[1], Call[2]>> /\ Call \in Range(todo)
  BY NextCall
<1>3. Call[1] = "exit" /\ Call[2] \in All
  BY <1>2 DEF Pairs
<1>4. Call[2] \in Left("exit")
  BY <1>2, <1>3 DEF Left
<1>5. /\ todo' \in Seq(CallSet) /\ Range(todo') = Range(todo) \ {Call} /\ Tidy(todo', ByTimers)
      /\ \A y \in Range(todo) : <<y, Call>> \notin ByTimers
      /\ \A op : Left(op)' = IF Call[1] = op THEN Left(op) \ {Call[2]} ELSE Left(op)
  BY <1>1, WentIs DEF Undoing
<1>6. Left("exit")' = Left("exit") \ {Call[2]}
  BY <1>3, <1>5
<1>7. Forgot' = Forgot
  BY DEF Forgot
<1>8. \A p \in Left("exit") : <<p, Call[2]>> \notin TimersFirst
  <2> SUFFICES ASSUME NEW p \in Left("exit"), <<p, Call[2]>> \in TimersFirst PROVE FALSE
    OBVIOUS
  <2>1. <<"exit", p>> \in Range(todo)
    BY DEF Left
  <2>2. <<<<"exit", p>>, <<"exit", Call[2]>>>> \in ByTimers
    <3>1. PICK c : c = <<p, Call[2]>>
      OBVIOUS
    <3>2. c \in TimersFirst /\ c[1] = p /\ c[2] = Call[2]
      BY <3>1
    <3> QED BY <3>2 DEF ByTimers
  <2> QED BY <1>2, <1>3, <1>5, <2>1, <2>2
<1>9. /\ "timers" \in Left("exit")' => After \subseteq Left("exit")'
      /\ "notifier" \in Left("exit")' => "timers" \in Left("exit")'
      /\ Call[2] = "timers" => "notifier" \notin Left("exit")
  <2>1. /\ "timers" \in Left("exit") => Call[2] \notin After
        /\ "notifier" \in Left("exit") => Call[2] # "timers"
    BY <1>8 DEF TimersFirst
  <2> QED BY <1>1, <1>6, <2>1 DEF Undoing
<1>10. /\ up' \subseteq Left("exit")' \cup Forgot' /\ up' \cap Timing = {}
       /\ Left("exit")' \ ({"throttle_delay"} \cup Timing) \subseteq up'
  BY <1>1, <1>6, <1>7 DEF Undoing
<1>11. todo' = <<>> => Left("exit")' = {}
  <2> SUFFICES ASSUME todo' = <<>> PROVE Left("exit")' = {}
    OBVIOUS
  <2>1. Range(todo') = {}
    BY DEF Range
  <2>2. Left("exit")' = {p \in All : <<"exit", p>> \in Range(todo')}
    BY DEF Left, Range
  <2> QED BY <2>1, <2>2
<1>12. todo' # <<>> => Undoing'
  <2> SUFFICES ASSUME todo' # <<>> PROVE Undoing'
    OBVIOUS
  <2>1. Range(todo') \subseteq Pairs("exit")
    BY <1>1, <1>5 DEF Undoing
  <2>2. Undoing' =
      (/\ todo' # <<>> /\ todo' \in Seq(CallSet) /\ Range(todo') \subseteq Pairs("exit")
       /\ Tidy(todo', ByTimers)
       /\ ("timers" \in Left("exit")' => After \subseteq Left("exit")')
       /\ ("notifier" \in Left("exit")' => "timers" \in Left("exit")')
       /\ up' \subseteq Left("exit")' \cup Forgot' /\ up' \cap Timing = {}
       /\ Left("exit")' \ ({"throttle_delay"} \cup Timing) \subseteq up')
    BY DEF Undoing, Range, Tidy
  <2> QED BY <1>5, <1>9, <1>10, <2>1, <2>2
<1>13. Call[2] \in Timing => Left("exit")' # {}
  <2>1. "symbols" \in After
    BY DEF After
  <2>2. "timers" \in Left("exit") => "symbols" \in Left("exit")'
    <3>1. "symbols" \notin Timing
      BY DEF Timing
    <3>2. "timers" \in Left("exit") /\ Call[2] \in Timing => "symbols" \in Left("exit") /\ "symbols" # Call[2]
      BY <1>1, <2>1, <3>1 DEF Undoing
    <3>3. "timers" \in Left("exit") => Call[2] \notin After
      BY <1>8 DEF TimersFirst
    <3> QED BY <1>1, <1>6, <2>1, <3>3 DEF Undoing
  <2>3. Call[2] \in Timing => "timers" \in Left("exit")
    BY <1>1, <1>4 DEF Undoing, Timing
  <2> QED BY <2>2, <2>3
<1> QED BY <1>4, <1>6, <1>9, <1>10, <1>11, <1>12, <1>13

\* One call of diagnosis_exit.
LEMMA UnloadOne ==
  ASSUME LadderInv, todo # <<>>, phase = "unloading", Went, broken' = broken,
         up' = IF Call[1] = "exit" THEN up \ ({Call[2]} \ Timing) ELSE up
  PROVE  /\ broken' = None
         /\ todo' = <<>> => up' = {"throttle_delay"}
         /\ todo' # <<>> => Unloading'
         /\ Call # <<"exit", "context">> => todo' # <<>>
         /\ Range(todo') = Range(todo) \ {Call}
         /\ \A y \in Range(todo) : ~(Stage(y) < Stage(Call))
         /\ \A op : Left(op)' = IF Call[1] = op THEN Left(op) \ {Call[2]} ELSE Left(op)
<1>1. Unloading
  BY DEF LadderInv
<1>2. /\ Call \in AllCalls /\ Call = <<Call[1], Call[2]>> /\ Call \in Range(todo)
  BY NextCall
<1>3. Call[1] = "exit" => Call[2] \in All \ {"throttle_delay"}
  BY <1>2 DEF AllCalls
<1>5. /\ todo' \in Seq(CallSet) /\ Range(todo') = Range(todo) \ {Call} /\ Tidy(todo', ByStage)
      /\ \A y \in Range(todo) : <<y, Call>> \notin ByStage
      /\ \A op : Left(op)' = IF Call[1] = op THEN Left(op) \ {Call[2]} ELSE Left(op)
  BY <1>1, WentIs DEF Unloading
<1>6. \A y \in Range(todo) : ~(Stage(y) < Stage(Call))
  BY <1>1, <1>2, <1>5 DEF Unloading, ByStage
<1>7. ASSUME NEW c \in Range(todo'), NEW d \in AllCalls, Stage(c) < Stage(d) PROVE d \in Range(todo')
  <2>1. d \in Range(todo)
    BY <1>1, <1>5, <1>7 DEF Unloading
  <2>2. d # Call
    BY <1>5, <1>6, <1>7
  <2> QED BY <1>5, <2>1, <2>2
<1>8. up' = (Left("exit")' \cup {"throttle_delay"}) \ Timing
  <2>1. CASE Call[1] = "exit"
    <3>1. Left("exit")' = Left("exit") \ {Call[2]}
      BY <1>5, <2>1
    <3> QED BY <1>1, <1>3, <2>1, <3>1 DEF Unloading
  <2>2. CASE Call[1] # "exit"
    <3>1. Left("exit")' = Left("exit")
      BY <1>5, <2>2
    <3> QED BY <1>1, <2>2, <3>1 DEF Unloading
  <2> QED BY <2>1, <2>2
<1>9. todo' = <<>> => Range(todo') = {}
  BY DEF Range
<1>10. todo' = <<>> => up' = {"throttle_delay"}
  <2>1. Left("exit")' = {p \in All : <<"exit", p>> \in Range(todo')}
    BY DEF Left, Range
  <2>2. "throttle_delay" \notin Timing
    BY DEF Timing
  <2> QED BY <1>8, <1>9, <2>1, <2>2
<1>11. todo' # <<>> => Unloading'
  <2> SUFFICES ASSUME todo' # <<>> PROVE Unloading'
    OBVIOUS
  <2>1. Range(todo') \subseteq AllCalls /\ broken' = None
    BY <1>1, <1>5 DEF Unloading
  <2>2. Unloading' =
      (/\ todo' # <<>> /\ todo' \in Seq(CallSet) /\ Range(todo') \subseteq AllCalls
       /\ Tidy(todo', ByStage) /\ broken' = None
       /\ (\A c \in Range(todo'), d \in AllCalls : Stage(c) < Stage(d) => d \in Range(todo'))
       /\ up' = (Left("exit")' \cup {"throttle_delay"}) \ Timing)
    BY DEF Unloading, Range, Tidy
  <2> QED BY <1>5, <1>7, <1>8, <2>1, <2>2
<1>12. Call # <<"exit", "context">> => todo' # <<>>
  <2> SUFFICES ASSUME Call # <<"exit", "context">>, todo' = <<>> PROVE FALSE
    OBVIOUS
  <2>1. Stage(Call) < 12
    <3>1. CASE Call[1] = "exit"
      <4>1. Call = <<"exit", Call[2]>> /\ Call[2] # "context"
        BY <1>2, <3>1
      <4>2. PartStage(Call[2]) < 12
        BY <4>1 DEF PartStage
      <4> QED BY <4>1, <4>2, StageIs
    <3>2. CASE Call[1] # "exit"
      <4>1. Call \in {<<"unhook", "test">>, <<"unhook", "do">>, <<"sync", "1">>,
                      <<"drain", "1">>, <<"sync", "2">>}
        BY <1>2, <3>2 DEF AllCalls
      <4> QED BY <4>1, StageIs
    <3> QED BY <3>1, <3>2
  <2>2. <<"exit", "context">> \in Range(todo)
    BY <1>1, <1>2, <2>1, Some DEF Unloading
  <2> QED BY <1>5, <1>9, <2>2
<1>13. broken' = None
  BY <1>1 DEF Unloading
<1> QED BY <1>5, <1>6, <1>10, <1>11, <1>12, <1>13

\* Three stages have one call only.
LEMMA OnlyStages ==
  ASSUME NEW c \in AllCalls
  PROVE  /\ Stage(c) = 1 <=> c = <<"unhook", "test">>
         /\ Stage(c) = 2 <=> c = <<"unhook", "do">>
         /\ Stage(c) < 12 <=> c # <<"exit", "context">>
         /\ Stage(c) <= 2 => c[1] = "unhook"
<1>1. CASE \E p \in All : c = <<"exit", p>>
  <2>1. PICK p \in All : c = <<"exit", p>>
    BY <1>1
  <2>2. PartStage(p) \in 3..12 /\ (PartStage(p) = 12 <=> p = "context")
    BY DEF PartStage
  <2>3. Stage(c) = PartStage(p)
    BY <2>1, StageIs
  <2> QED BY <2>1, <2>2, <2>3
<1>2. CASE c \in {<<"unhook", "test">>, <<"unhook", "do">>, <<"sync", "1">>, <<"drain", "1">>,
                  <<"sync", "2">>}
  BY <1>2, StageIs
<1> QED BY <1>1, <1>2 DEF AllCalls

\* The test of the flag leaves out what follows it.
LEMMA SkipOne ==
  ASSUME LadderInv, todo # <<>>, phase = "unloading", Call = <<"unhook", "test">>,
         todo' = Tail(Tail(todo)), broken' = broken, up' = up
  PROVE  /\ Unloading' /\ Range(todo') = Range(todo) \ {<<"unhook", "test">>, <<"unhook", "do">>}
         /\ Left("exit")' = Left("exit")
<1>1. Unloading
  BY DEF LadderInv
<1> DEFINE t == Tail(todo)
<1>2. /\ t \in Seq(CallSet) /\ Range(t) = Range(todo) \ {Call} /\ Tidy(t, ByStage)
      /\ Call \in Range(todo)
  BY <1>1, TailTidy DEF Unloading, Call
<1>3. <<"unhook", "do">> \in Range(t)
  <2>1. <<"unhook", "do">> \in AllCalls
    BY DEF AllCalls
  <2>2. Stage(Call) < Stage(<<"unhook", "do">>)
    BY StageIs
  <2> QED BY <1>1, <1>2, <2>1, <2>2 DEF Unloading
<1> HIDE DEF t
<1>4. t # <<>>
  BY <1>3 DEF Range
<1>5. /\ Head(t) \in Range(t) /\ Tail(t) \in Seq(CallSet) /\ Range(Tail(t)) = Range(t) \ {Head(t)}
      /\ Tidy(Tail(t), ByStage)
      /\ \A y \in Range(t) : <<y, Head(t)>> \notin ByStage
  BY <1>2, <1>4, TailTidy
<1>6. Head(t) = <<"unhook", "do">>
  <2>1. Head(t) \in AllCalls /\ Head(t) # Call /\ Call \in AllCalls /\ <<"unhook", "do">> \in AllCalls
    BY <1>1, <1>2, <1>3, <1>5 DEF Unloading
  <2>2. ~(Stage(<<"unhook", "do">>) < Stage(Head(t)))
    BY <1>3, <1>5, <2>1 DEF ByStage
  <2>3. Stage(Head(t)) \in 1..2
    BY <2>2, StageIs
  <2> QED BY <2>1, <2>3, OnlyStages
<1>7. todo' = Tail(t)
  BY DEF t
<1>8. Range(todo') = Range(todo) \ {<<"unhook", "test">>, <<"unhook", "do">>}
  <2>1. Range(Tail(t)) = Range(todo) \ {<<"unhook", "test">>, <<"unhook", "do">>}
    BY <1>2, <1>5, <1>6
  <2> QED BY Zenon, <1>7, <2>1
<1>9. todo' \in Seq(CallSet) /\ Tidy(todo', ByStage)
  BY Zenon, <1>5, <1>7
<1>10. Left("exit")' = Left("exit")
  <2>1. Left("exit")' = {p \in All : <<"exit", p>> \in Range(todo')}
    BY DEF Left, Range
  <2> QED BY <1>8, <2>1 DEF Left
<1>11. <<"exit", "context">> \in Range(todo')
  <2>1. Stage(Call) < 12
    BY StageIs
  <2>2. <<"exit", "context">> \in Range(todo)
    BY <1>1, <1>2, <2>1, Some DEF Unloading
  <2> QED BY <1>8, <2>2
<1>12. todo' # <<>>
  BY <1>11 DEF Range
<1>13. ASSUME NEW c \in Range(todo'), NEW d \in AllCalls, Stage(c) < Stage(d) PROVE d \in Range(todo')
  <2>1. c \in Range(todo) /\ c \in AllCalls /\ d \in Range(todo)
    BY <1>1, <1>8, <1>13 DEF Unloading
  <2>2. Stage(c) \in 1..12 /\ Stage(c) # 1 /\ Stage(c) # 2
    BY <1>8, <2>1, OnlyStages, StageIs
  <2>3. Stage(d) \in 1..12 /\ Stage(d) # 1 /\ Stage(d) # 2
    BY <1>13, <2>2, StageIs
  <2>4. d # <<"unhook", "test">> /\ d # <<"unhook", "do">>
    BY <2>3, StageIs
  <2> QED BY <1>8, <2>1, <2>4
<1>14. Range(todo') \subseteq AllCalls /\ broken' = None
  BY <1>1, <1>8 DEF Unloading
<1>15. up' = (Left("exit")' \cup {"throttle_delay"}) \ Timing
  BY <1>1, <1>10 DEF Unloading
<1>16. Unloading' =
    (/\ todo' # <<>> /\ todo' \in Seq(CallSet) /\ Range(todo') \subseteq AllCalls
     /\ Tidy(todo', ByStage) /\ broken' = None
     /\ (\A c \in Range(todo'), d \in AllCalls : Stage(c) < Stage(d) => d \in Range(todo'))
     /\ up' = (Left("exit")' \cup {"throttle_delay"}) \ Timing)
  BY DEF Unloading, Range, Tidy
<1> QED BY <1>8, <1>9, <1>10, <1>12, <1>13, <1>14, <1>15, <1>16

\* An init fails: the parts that are up are those before it.
LEMMA FailOne ==
  ASSUME LadderInv, InitFails
  PROVE  /\ phase = "loading" /\ phase' \in {"undoing", "refused"}
         /\ phase' = "undoing" <=> todo' # <<>>
         /\ LadderInv'
         /\ \A p \in Timing : p \notin Left("init") => p \in Left("exit")'
<1>1. /\ todo # <<>> /\ Call[1] = "init" /\ Call[2] \in Fallible /\ todo' = Undoes(Call[2])
      /\ broken' = Call[2] /\ phase' = IF todo' = <<>> THEN "refused" ELSE "undoing"
      /\ up' = up
  BY DEF InitFails, Doing
<1>2. phase = "loading" /\ Loading
  BY <1>1, NextCall DEF LadderInv, Doing
<1>3. PICK p : p = Call[2]
  OBVIOUS
<1>4. Call = <<"init", p>> /\ p \in All /\ p \in Left("init")
  <2>1. Call \in Pairs("init") /\ Call = <<Call[1], Call[2]>> /\ Call \in Range(todo)
    BY <1>1, <1>2, NextCall
  <2> QED BY <1>1, <1>3, <2>1 DEF Pairs, Left
<1>5. p \notin Timing
  BY <1>1, <1>3, PartsAssumption DEF Timing
<1>6. /\ Undoes(p) \in Seq(CallSet) /\ Tidy(Undoes(p), ByTimers)
      /\ Range(Undoes(p)) = {<<"exit", x>> : x \in Taken(p)}
  BY <1>4, <1>5, UndoesIs
<1>7. todo' \in Seq(CallSet) /\ Tidy(todo', ByTimers)
      /\ Range(todo') = {<<"exit", x>> : x \in Taken(p)}
  BY Zenon, <1>1, <1>3, <1>6
<1>8. Taken(p) \subseteq All
  BY <1>4 DEF Taken
<1>9. Left("exit")' = Taken(p)
  <2>1. Left("exit")' = {x \in All : <<"exit", x>> \in Range(todo')}
    BY DEF Left, Range
  <2> QED BY <1>7, <1>8, <2>1
<1>10. \A q \in All : Rank[q] \in 1..45
  BY RankIs
<1>11. Left("init") = {q \in All : ~(Rank[q] < Rank[p])}
  <2>1. ASSUME NEW q \in Left("init"), Rank[q] < Rank[p] PROVE FALSE
    <3>1. <<"init", q>> \in Range(todo) /\ q \in All
      BY DEF Left
    <3>2. \A y \in Range(todo) : <<y, Call>> \notin ByRank
      BY <1>1, <1>2, TailTidy DEF Loading, Call
    <3>3. <<<<"init", q>>, Call>> \in ByRank
      BY <1>4, <2>1, <3>1 DEF ByRank, Pairs
    <3> QED BY <3>1, <3>2, <3>3
  <2>2. ASSUME NEW q \in All, ~(Rank[q] < Rank[p]) PROVE q \in Left("init")
    <3>1. CASE Rank[p] < Rank[q]
      BY <1>2, <1>4, <3>1 DEF Loading
    <3>2. CASE Rank[p] = Rank[q]
      BY <1>4, <3>2, RankIs
    <3>3. Rank[p] < Rank[q] \/ Rank[p] = Rank[q]
      BY <1>4, <1>10, <2>2
    <3> QED BY <3>1, <3>2, <3>3
  <2> QED BY <2>1, <2>2 DEF Left
<1>12. up = {q \in All : Rank[q] < Rank[p]} \ Timing
  BY <1>2, <1>11 DEF Loading
<1>13. Forgot' = IF p = "throttle_delay" THEN {"rw_sem"} ELSE {"throttle_delay"}
  BY <1>1, <1>3 DEF Forgot
<1>14. /\ up \subseteq Taken(p) \cup Forgot' /\ up \cap Timing = {}
       /\ Taken(p) \ ({"throttle_delay"} \cup Timing) \subseteq up
  BY <1>12, <1>13 DEF Taken
<1>15. \A x \in Timing : Rank[x] < Rank[p] => x \in Taken(p)
  <2> SUFFICES ASSUME NEW x \in Timing, Rank[x] < Rank[p] PROVE x \in Taken(p)
    OBVIOUS
  <2>1. x \in All /\ Rank[x] \in 24..25 /\ x # "throttle_delay"
    BY Some DEF Timing
  <2>2. p # "throttle_delay"
    BY <2>1, Some
  <2> QED BY <2>1, <2>2 DEF Taken
<1>16. /\ "timers" \in Taken(p) => After \subseteq Taken(p)
       /\ "notifier" \in Taken(p) => "timers" \in Taken(p)
  <2>1. CASE p = "throttle_delay"
    <3>1. "timers" \notin Taken(p) /\ "notifier" \notin Taken(p)
      BY <2>1, Some DEF Taken
    <3> QED BY <3>1
  <2>2. CASE p # "throttle_delay"
    <3>1. Taken(p) = {x \in All : Rank[x] < Rank[p]} \ {"throttle_delay"}
      BY <2>2 DEF Taken
    <3>2. "timers" \in Taken(p) => After \subseteq Taken(p)
      <4> SUFFICES ASSUME "timers" \in Taken(p), NEW x \in After PROVE x \in Taken(p)
        OBVIOUS
      <4>1. 24 < Rank[p] /\ Rank[p] \in 1..45
        BY <1>4, <1>10, <3>1, Some
      <4>2. x \in All /\ Rank[x] < 23 /\ x # "throttle_delay" /\ Rank[x] \in 1..45
        BY <1>10, Some
      <4> QED BY <3>1, <4>1, <4>2
    <3>3. "notifier" \in Taken(p) => "timers" \in Taken(p)
      <4> SUFFICES ASSUME "notifier" \in Taken(p) PROVE "timers" \in Taken(p)
        OBVIOUS
      <4>1. 25 < Rank[p] /\ Rank[p] \in 1..45
        BY <1>4, <1>10, <3>1, Some
      <4> QED BY <3>1, <4>1, Some
    <3> QED BY <3>2, <3>3
  <2> QED BY <2>1, <2>2
<1>17. CASE todo' = <<>>
  <2>1. Taken(p) = {}
    <3>1. Range(todo') = {}
      BY <1>17 DEF Range
    <3> QED BY <1>7, <3>1
  <2>2. phase' = "refused" /\ up' \subseteq Forgot'
    BY <1>1, <1>14, <1>17, <2>1
  <2>3. LadderInv'
    BY <1>17, <2>2 DEF LadderInv
  <2> QED BY <1>2, <1>4, <1>9, <1>11, <1>15, <1>17, <2>2, <2>3, Some DEF Timing
<1>18. CASE todo' # <<>>
  <2>1. phase' = "undoing"
    BY <1>1, <1>18
  <2>2. Range(todo') \subseteq Pairs("exit")
    BY <1>7, <1>8 DEF Pairs
  <2>3. Undoing' =
      (/\ todo' # <<>> /\ todo' \in Seq(CallSet) /\ Range(todo') \subseteq Pairs("exit")
       /\ Tidy(todo', ByTimers)
       /\ ("timers" \in Left("exit")' => After \subseteq Left("exit")')
       /\ ("notifier" \in Left("exit")' => "timers" \in Left("exit")')
       /\ up' \subseteq Left("exit")' \cup Forgot' /\ up' \cap Timing = {}
       /\ Left("exit")' \ ({"throttle_delay"} \cup Timing) \subseteq up')
    BY DEF Undoing, Range, Tidy
  <2>4. Undoing'
    BY <1>1, <1>7, <1>9, <1>14, <1>16, <1>18, <2>2, <2>3
  <2>5. LadderInv'
    BY <2>1, <2>4 DEF LadderInv
  <2> QED BY <1>2, <1>4, <1>9, <1>11, <1>15, <1>18, <2>1, <2>5, Some DEF Timing
<1> QED BY <1>17, <1>18

\* What comes after the last call.
Ended ==
  CASE phase = "loading" -> "loaded" [] phase = "undoing" -> "refused" [] OTHER -> "out"

\* A call is done.
Done ==
  /\ todo # <<>> /\ Went /\ broken' = broken
  /\ phase' = IF todo' = <<>> THEN Ended ELSE phase
  /\ up' = CASE Call[1] = "init" -> up \cup ({Call[2]} \ Timing)
             [] Call[1] = "exit" -> up \ ({Call[2]} \ Timing)
             [] OTHER -> up

\* What a finished call changes.
LEMMA DoneIs ==
  ASSUME LadderInv, Done
  PROVE  /\ LadderInv' /\ phase' = (IF todo' = <<>> THEN Ended ELSE phase)
         /\ Call \in Range(todo) /\ Call = <<Call[1], Call[2]>>
         /\ Range(todo') = Range(todo) \ {Call}
         /\ \A op : Left(op)' = IF Call[1] = op THEN Left(op) \ {Call[2]} ELSE Left(op)
         /\ phase = "loading" => Call[1] = "init" /\ Call[2] \in All
         /\ phase = "undoing" => Call[1] = "exit" /\ Call[2] \in All
         /\ phase = "unloading" => /\ Call \in AllCalls
                                   /\ \A y \in Range(todo) : ~(Stage(y) < Stage(Call))
         /\ phase \in {"loading", "undoing", "unloading"}
<1>1. /\ todo # <<>> /\ Went /\ broken' = broken
      /\ phase' = IF todo' = <<>> THEN Ended ELSE phase
      /\ up' = CASE Call[1] = "init" -> up \cup ({Call[2]} \ Timing)
                 [] Call[1] = "exit" -> up \ ({Call[2]} \ Timing)
                 [] OTHER -> up
  BY DEF Done
<1>2. /\ Call = <<Call[1], Call[2]>> /\ Call \in Range(todo)
      /\ phase = "loading" => Call \in Pairs("init")
      /\ phase = "undoing" => Call \in Pairs("exit")
      /\ phase = "unloading" => Call \in AllCalls
      /\ phase \in {"loading", "undoing", "unloading"}
  BY <1>1, NextCall
<1>3. CASE phase = "loading"
  <2>1. Call[1] = "init" /\ Call[2] \in All
    BY <1>2, <1>3 DEF Pairs
  <2>2. up' = up \cup ({Call[2]} \ Timing)
    BY <1>1, <2>1
  <2>3. /\ broken' = None
        /\ todo' = <<>> => up' = All \ Timing
        /\ todo' # <<>> => Loading'
    BY <1>1, <1>3, <2>2, LoadOne
  <2>4. Tidy(todo, ByRank)
    BY <1>3 DEF LadderInv, Loading
  <2>5. /\ Range(todo') = Range(todo) \ {Call}
        /\ \A op : Left(op)' = IF Call[1] = op THEN Left(op) \ {Call[2]} ELSE Left(op)
    BY <1>1, <2>4, WentIs
  <2>6. LadderInv'
    BY <1>1, <1>3, <2>3 DEF LadderInv, Ended
  <2> QED BY <1>1, <1>2, <1>3, <2>1, <2>5, <2>6
<1>4. CASE phase = "undoing"
  <2>1. Call[1] = "exit" /\ Call[2] \in All
    BY <1>2, <1>4 DEF Pairs
  <2>2. up' = up \ ({Call[2]} \ Timing)
    BY <1>1, <2>1
  <2>3. /\ todo' = <<>> => up' \subseteq Forgot'
        /\ todo' # <<>> => Undoing'
    BY <1>1, <1>4, <2>2, UndoOne
  <2>4. Tidy(todo, ByTimers)
    BY <1>4 DEF LadderInv, Undoing
  <2>5. /\ Range(todo') = Range(todo) \ {Call}
        /\ \A op : Left(op)' = IF Call[1] = op THEN Left(op) \ {Call[2]} ELSE Left(op)
    BY <1>1, <2>4, WentIs
  <2>6. LadderInv'
    BY <1>1, <1>4, <2>3 DEF LadderInv, Ended
  <2> QED BY <1>1, <1>2, <1>4, <2>1, <2>5, <2>6
<1>5. CASE phase = "unloading"
  <2>1. Call[1] # "init"
    BY <1>2, <1>5 DEF AllCalls
  <2>2. up' = IF Call[1] = "exit" THEN up \ ({Call[2]} \ Timing) ELSE up
    BY <1>1, <2>1
  <2>3. /\ broken' = None
        /\ todo' = <<>> => up' = {"throttle_delay"}
        /\ todo' # <<>> => Unloading'
        /\ Range(todo') = Range(todo) \ {Call}
        /\ \A y \in Range(todo) : ~(Stage(y) < Stage(Call))
        /\ \A op : Left(op)' = IF Call[1] = op THEN Left(op) \ {Call[2]} ELSE Left(op)
    BY <1>1, <1>5, <2>2, UnloadOne
  <2>4. LadderInv'
    BY <1>1, <1>5, <2>3 DEF LadderInv, Ended
  <2> QED BY <1>1, <1>2, <1>5, <2>3, <2>4
<1> QED BY <1>2, <1>3, <1>4, <1>5

\* A call after which others come.
LEMMA NotLast ==
  ASSUME LadderInv, todo # <<>>, Went, broken' = broken, up' = up,
         (Call[1] # "exit" /\ Call[1] # "init") \/ Call[2] \in Timing
  PROVE  todo' # <<>>
<1>1. /\ Call = <<Call[1], Call[2]>> /\ Call \in Range(todo)
      /\ phase = "loading" => Call \in Pairs("init")
      /\ phase = "undoing" => Call \in Pairs("exit")
      /\ phase = "unloading" => Call \in AllCalls
      /\ phase \in {"loading", "undoing", "unloading"}
  BY NextCall
<1>2. CASE phase = "loading"
  <2>1. Call[1] = "init" /\ Call[2] \in Timing
    BY <1>1, <1>2 DEF Pairs
  <2>2. up' = up \cup ({Call[2]} \ Timing)
    BY <2>1
  <2>3. Left("init")' = Left("init") \ {Call[2]} /\ Call[2] \in Left("init")
    BY <1>2, <2>2, LoadOne
  <2>4. "tcp_retrans" \in Left("init")'
    <3>1. Rank[Call[2]] < Rank["tcp_retrans"]
      BY <2>1, Some DEF Timing
    <3>2. "tcp_retrans" \in Left("init")
      BY <1>2, <2>3, <3>1, Some DEF LadderInv, Loading
    <3>3. "tcp_retrans" # Call[2]
      BY <2>1 DEF Timing
    <3> QED BY <2>3, <3>2, <3>3
  <2> QED BY <2>4 DEF Left, Range
<1>3. CASE phase = "undoing"
  <2>1. Call[1] = "exit" /\ Call[2] \in Timing
    BY <1>1, <1>3 DEF Pairs
  <2>2. up' = up \ ({Call[2]} \ Timing)
    BY <2>1
  <2> QED BY <1>3, <2>1, <2>2, UndoOne
<1>4. CASE phase = "unloading"
  <2>1. Call[1] # "init"
    BY <1>1, <1>4 DEF AllCalls
  <2>2. Call # <<"exit", "context">>
    BY <1>1 DEF Timing
  <2>3. up' = IF Call[1] = "exit" THEN up \ ({Call[2]} \ Timing) ELSE up
    BY <2>1
  <2> QED BY <1>4, <2>2, <2>3, UnloadOne
<1> QED BY <1>1, <1>2, <1>3, <1>4

\* All actions of the loader but two finish one call.
LEMMA EachDone ==
  ASSUME LadderInv,
         \/ InitPart \/ StartTimers \/ Register \/ ExitPart \/ Unregister \/ CancelTimers
         \/ (TestFlag /\ flag) \/ UnhookAtExit \/ Sync \/ Drain
  PROVE  Done
<1>1. CASE InitPart
  <2>1. /\ todo # <<>> /\ Call[1] = "init" /\ Call[2] \notin Timing /\ Went
        /\ up' = up \cup {Call[2]} /\ broken' = broken
        /\ phase' = IF Len(todo) = 1 THEN "loaded" ELSE phase
    BY <1>1 DEF InitPart, Doing, Timing
  <2>2. phase = "loading"
    BY <2>1, NextCall DEF Doing
  <2>3. Tidy(todo, ByRank)
    BY <2>2 DEF LadderInv, Loading
  <2>4. Len(todo) = 1 <=> todo' = <<>>
    BY <2>1, <2>3, WentIs
  <2>5. up \cup {Call[2]} = up \cup ({Call[2]} \ Timing)
    BY <2>1
  <2> QED BY <2>1, <2>2, <2>4, <2>5 DEF Done, Ended
<1>2. CASE ExitPart
  <2>1. /\ todo # <<>> /\ Call[1] = "exit" /\ Call[2] \notin Timing /\ Went
        /\ up' = up \ {Call[2]} /\ broken' = broken
        /\ phase' = IF Len(todo) > 1 THEN phase ELSE IF phase = "undoing" THEN "refused" ELSE "out"
    BY <1>2 DEF ExitPart, Doing, Timing
  <2>2. phase \in {"undoing", "unloading"}
    BY <2>1, NextCall DEF Doing
  <2>3. \E F : Tidy(todo, F)
    BY <2>2 DEF LadderInv, Undoing, Unloading
  <2>4. Len(todo) > 1 <=> todo' # <<>>
    BY <2>1, <2>3, WentIs
  <2>5. up \ {Call[2]} = up \ ({Call[2]} \ Timing)
    BY <2>1
  <2> QED BY <2>1, <2>2, <2>4, <2>5 DEF Done, Ended
<1>3. CASE \/ StartTimers \/ Register \/ Unregister \/ CancelTimers
           \/ (TestFlag /\ flag) \/ UnhookAtExit \/ Sync \/ Drain
  <2>1. /\ todo # <<>> /\ Went /\ broken' = broken /\ up' = up /\ phase' = phase
        /\ (Call[1] # "exit" /\ Call[1] # "init") \/ Call[2] \in Timing
    BY <1>3 DEF StartTimers, Register, Unregister, CancelTimers, TestFlag, UnhookAtExit, Sync,
      Drain, Is, Doing, Went, Timing
  <2>2. todo' # <<>>
    BY <2>1, NotLast
  <2>3. CASE Call[1] # "exit" /\ Call[1] # "init"
    BY <2>1, <2>2, <2>3 DEF Done
  <2>4. CASE Call[2] \in Timing
    <3>1. {Call[2]} \ Timing = {}
      BY <2>4
    <3>2. up = up \cup ({Call[2]} \ Timing) /\ up = up \ ({Call[2]} \ Timing)
      BY <3>1
    <3> QED BY <2>1, <2>2, <3>2 DEF Done
  <2> QED BY <2>1, <2>3, <2>4
<1> QED BY <1>1, <1>2, <1>3

\* The test of the flag, when it is not set.
LEMMA SkipIs ==
  ASSUME LadderInv, TestFlag, ~flag
  PROVE  /\ LadderInv' /\ phase = "unloading" /\ phase' = "unloading"
         /\ Range(todo') = Range(todo) \ {<<"unhook", "test">>, <<"unhook", "do">>}
         /\ Left("exit")' = Left("exit")
<1>1. /\ todo # <<>> /\ Call = <<"unhook", "test">> /\ todo' = Tail(Tail(todo))
      /\ phase' = phase /\ broken' = broken /\ up' = up
  BY DEF TestFlag, Is
<1>2. phase = "unloading"
  BY <1>1, NextCall DEF Pairs
<1>3. Unloading' /\ Range(todo') = Range(todo) \ {<<"unhook", "test">>, <<"unhook", "do">>}
      /\ Left("exit")' = Left("exit")
  BY <1>1, <1>2, SkipOne
<1>4. LadderInv'
  BY <1>1, <1>2, <1>3 DEF LadderInv
<1> QED BY <1>1, <1>2, <1>3, <1>4

\* rmmod begins with everything to be called.
LEMMA RmmodIs ==
  ASSUME LadderInv, Rmmod
  PROVE  /\ LadderInv' /\ phase' = "unloading" /\ phase = "loaded" /\ Range(todo') = AllCalls
         /\ Left("exit")' = All \ {"throttle_delay"}
<1>1. /\ phase = "loaded" /\ phase' = "unloading" /\ todo' = Unloads /\ broken' = broken /\ up' = up
  BY DEF Rmmod
<1>2. up = All \ Timing /\ broken = None
  BY <1>1 DEF LadderInv
<1>3. /\ todo' # <<>> /\ todo' \in Seq(CallSet) /\ Range(todo') = AllCalls /\ Tidy(todo', ByStage)
  BY Zenon, <1>1, UnloadsIs
<1>4. Left("exit")' = All \ {"throttle_delay"}
  <2>1. Left("exit")' = {p \in All : <<"exit", p>> \in Range(todo')}
    BY DEF Left, Range
  <2> QED BY <1>3, <2>1 DEF AllCalls
<1>5. up' = (Left("exit")' \cup {"throttle_delay"}) \ Timing
  BY <1>1, <1>2, <1>4, Some
<1>6. Unloading' =
    (/\ todo' # <<>> /\ todo' \in Seq(CallSet) /\ Range(todo') \subseteq AllCalls
     /\ Tidy(todo', ByStage) /\ broken' = None
     /\ (\A c \in Range(todo'), d \in AllCalls : Stage(c) < Stage(d) => d \in Range(todo'))
     /\ up' = (Left("exit")' \cup {"throttle_delay"}) \ Timing)
  BY DEF Unloading, Range, Tidy
<1>7. Unloading'
  BY <1>1, <1>2, <1>3, <1>5, <1>6
<1> QED BY <1>1, <1>3, <1>4, <1>7 DEF LadderInv

\* What a process in the probe of sys_enter does.
LEMMA CallIs ==
  ASSUME NEW c \in Callers, Enter(c) \/ Called(c)
  PROVE  /\ UNCHANGED <<alone, loader, active, flag, probed, writer, user, cpus, events>>
         /\ \E to \in Watched \cup {"idle", "inside", "waiting", "left"} :
              caller' = [caller EXCEPT ![c] = to]
<1>1. CASE Enter(c) \/ Count(c) \/ Leave(c)
  BY <1>1 DEF Enter, Count, Leave, Moves, still
<1>2. CASE \E m \in Watched : Handle(c, m)
  BY <1>2 DEF Handle, Moves, still
<1>3. CASE Uncount(c)
  BY <1>3 DEF Uncount, Moves, still
<1> QED BY <1>1, <1>2, <1>3 DEF Called

\* Every step keeps what is left to be called and what is up together.
LEMMA LadderNext == LadderInv /\ [Next]_vars => LadderInv'
<1> SUFFICES ASSUME LadderInv, [Next]_vars PROVE LadderInv'
  OBVIOUS
<1>1. CASE Load
  <2>1. CASE InitFails
    BY <2>1, FailOne
  <2>2. CASE TestFlag /\ ~flag
    BY <2>2, SkipIs
  <2>3. CASE \/ InitPart \/ StartTimers \/ Register \/ ExitPart \/ Unregister \/ CancelTimers
             \/ (TestFlag /\ flag) \/ UnhookAtExit \/ Sync \/ Drain
    BY <2>3, EachDone, DoneIs
  <2> QED BY <1>1, <2>1, <2>2, <2>3 DEF Load
<1>2. CASE Rmmod
  BY <1>2, RmmodIs
<1>3. CASE UNCHANGED loader
  <2>1. /\ Left("init")' = Left("init") /\ Left("exit")' = Left("exit") /\ Forgot' = Forgot
    BY <1>3 DEF Left, Forgot, loader
  <2> QED BY <1>3 DEF LadderInv, Loading, Undoing, Unloading, Left, Forgot, loader
<1>4. CASE Write
  BY <1>3, <1>4 DEF Write, Activate, Deactivate, Switch, SwitchProbe, SwitchFlag, quiet
<1>5. CASE \E c \in Callers : Enter(c) \/ Called(c)
  BY <1>3, <1>5, CallIs
<1>6. CASE \E u \in Users : Device(u)
  BY <1>3, <1>6 DEF Device, Open, Ioctl, IoctlEnds, Close, Opens
<1>7. CASE \E c \in CPUs : CpuUp(c) \/ CpuDown(c)
  BY <1>3, <1>7 DEF CpuUp, CpuDown, rest
<1>8. CASE UNCHANGED vars
  BY <1>3, <1>8 DEF vars
<1> QED BY <1>1, <1>2, <1>4, <1>5, <1>6, <1>7, <1>8 DEF Next

-----------------------------------------------------------------------------
(* Types.                                                                  *)

\* Every variable but the phase and the lists of the loader keeps its type.
TypeInv ==
  /\ alone \in BOOLEAN /\ notifies \in BOOLEAN
  /\ active \subseteq Watched /\ broken \in Fallible \cup {None}
  /\ flag \in BOOLEAN /\ probed \in BOOLEAN
  /\ writer \in {None} \cup ({"probe", "flag"} \X BOOLEAN)
  /\ caller \in [Callers -> Watched \cup {"idle", "inside", "waiting", "left"}]
  /\ user \in [Users -> Watched \cup {"closed", "open"}]
  /\ online \subseteq CPUs /\ armed \in [CPUs -> {"no", "own", "away"}]
  /\ notified \in BOOLEAN /\ missed \subseteq CPUs

\* Types, at the beginning and from step to step.
LEMMA TypeInit == Init => TypeInv
BY DEF Init, TypeInv

LEMMA TypeNext == TypeInv /\ [Next]_vars => TypeInv'
<1> SUFFICES ASSUME TypeInv, [Next]_vars PROVE TypeInv'
  OBVIOUS
<1> USE DEF TypeInv
<1>1. CASE Load
  <2> USE DEF hooks, timers, outside
  <2>1. CASE InitPart
    BY <2>1 DEF InitPart
  <2>2. CASE InitFails
    BY <2>2 DEF InitFails
  <2>3. CASE StartTimers
    BY <2>3 DEF StartTimers
  <2>4. CASE Register
    BY <2>4 DEF Register
  <2>5. CASE ExitPart
    BY <2>5 DEF ExitPart
  <2>6. CASE Unregister
    BY <2>6 DEF Unregister
  <2>7. CASE CancelTimers
    BY <2>7 DEF CancelTimers
  <2>8. CASE TestFlag \/ UnhookAtExit \/ Sync \/ Drain
    BY <2>8 DEF TestFlag, UnhookAtExit, Sync, Drain
  <2> QED BY <1>1, <2>1, <2>2, <2>3, <2>4, <2>5, <2>6, <2>7, <2>8 DEF Load
<1>2. CASE Rmmod
  BY <1>2 DEF Rmmod, hooks, timers, outside
<1>3. CASE Write
  <2> USE DEF quiet, loader, cpus
  <2>1. CASE \E m \in Watched : Activate(m) \/ Deactivate(m)
    BY <2>1 DEF Activate, Deactivate
  <2>2. CASE \E to \in BOOLEAN : Switch(to)
    BY <2>2 DEF Switch
  <2>3. CASE SwitchProbe \/ SwitchFlag
    <3>1. writer \in {"probe", "flag"} \X BOOLEAN
      BY <2>3 DEF SwitchProbe, SwitchFlag
    <3>2. writer[2] \in BOOLEAN
      BY <3>1
    <3> QED BY <2>3, <3>2 DEF SwitchProbe, SwitchFlag
  <2> QED BY <1>3, <2>1, <2>2, <2>3 DEF Write
<1>4. CASE \E c \in Callers : Enter(c) \/ Called(c)
  BY <1>4, CallIs DEF loader, cpus
<1>5. CASE \E u \in Users : Device(u)
  BY <1>5 DEF Device, Open, Ioctl, IoctlEnds, Close, Opens, loader, cpus
<1>6. CASE \E c \in CPUs : CpuUp(c) \/ CpuDown(c)
  BY <1>6 DEF CpuUp, CpuDown, rest, loader
<1>7. CASE UNCHANGED vars
  BY <1>7 DEF vars, loader, cpus
<1> QED BY <1>1, <1>2, <1>3, <1>4, <1>5, <1>6, <1>7 DEF Next

\* The type invariant of the module (TypeOK of ModuleLife): every variable keeps its
\* type, and there is something to call exactly while the module is being loaded, taken
\* down again or unloaded, whichever parts fail and whatever processes and CPUs do.
THEOREM TypeCorrect == Spec => []TypeOK
<1>1. LadderInv => (phase \in {"refused", "loaded", "out"} <=> todo = <<>>) /\ up \subseteq All
  <2> SUFFICES ASSUME LadderInv
               PROVE  (phase \in {"refused", "loaded", "out"} <=> todo = <<>>) /\ up \subseteq All
    OBVIOUS
  <2>1. Forgot \subseteq All
    BY Some DEF Forgot
  <2> QED BY <2>1, Some DEF LadderInv, Loading, Undoing, Unloading, Left
<1>2. LadderInv /\ TypeInv => TypeOK
  BY <1>1, PartsAre DEF LadderInv, TypeInv, TypeOK
<1> QED BY <1>2, LadderInit, LadderNext, TypeInit, TypeNext, PTL DEF Spec

-----------------------------------------------------------------------------
(* The timers.                                                             *)

\* No timer is armed.
Still == \A c \in CPUs : armed[c] = "no"

\* Timers are armed, and the notifier is registered, only as long as the way that is
\* left cancels them.
TimerInv ==
  /\ phase = "loading" => /\ "timers" \in Left("init") => Still
                          /\ "notifier" \in Left("init") => ~notified
  /\ phase \in {"undoing", "unloading"} =>
       /\ ~Still \/ notified => "timers" \in Left("exit")
       /\ notified => "notifier" \in Left("exit")
  /\ phase \in {"refused", "out"} => Still /\ ~notified

\* A timer that another CPU has taken over belongs to a CPU that was missed; the others
\* that are online have theirs.
SampleInv ==
  /\ \A c \in CPUs : armed[c] = "away" => c \in missed
  /\ phase = "loaded" \/ (phase = "loading" /\ "timers" \notin Left("init"))
       => \A c \in online \ missed : armed[c] = "own"

\* What is left of the way with nothing to call.
LEMMA NothingLeft == todo = <<>> => Range(todo) = {} /\ Left("init") = {} /\ Left("exit") = {}
BY DEF Left, Range

\* The steps of the loader that have nothing to do with the timers.
Aside ==
  \/ InitPart \/ ExitPart \/ (TestFlag /\ flag) \/ UnhookAtExit \/ Sync \/ Drain

\* They change neither the timers nor what is left to be done about them.
LEMMA AsideIs ==
  ASSUME LadderInv, Aside
  PROVE  /\ Done /\ UNCHANGED <<armed, notified, missed, online>>
         /\ \A p \in Timing : /\ p \in Left("init")' <=> p \in Left("init")
                              /\ p \in Left("exit")' <=> p \in Left("exit")
         /\ phase' = "loading" => phase = "loading"
         /\ phase' = "loaded" => phase = "loading" /\ Left("init")' = {}
         /\ phase' \in {"undoing", "unloading"} => phase' = phase
         /\ phase' \in {"refused", "out"} =>
              /\ phase \in {"undoing", "unloading"} /\ Left("exit")' = {}
              /\ phase' = "refused" <=> phase = "undoing"
<1>1. Done
  BY EachDone DEF Aside
<1>2. /\ phase' = (IF todo' = <<>> THEN Ended ELSE phase)
      /\ \A op : Left(op)' = IF Call[1] = op THEN Left(op) \ {Call[2]} ELSE Left(op)
      /\ phase \in {"loading", "undoing", "unloading"}
  BY <1>1, DoneIs
<1>3. /\ UNCHANGED <<armed, notified, missed, online>>
      /\ Call[1] \in {"init", "exit"} => Call[2] \notin Timing
  BY DEF Aside, InitPart, ExitPart, TestFlag, UnhookAtExit, Sync, Drain, timers, outside, Doing, Is,
    Timing
<1>4. \A p \in Timing : /\ p \in Left("init")' <=> p \in Left("init")
                        /\ p \in Left("exit")' <=> p \in Left("exit")
  BY <1>2, <1>3
<1>5. todo' = <<>> => Left("init")' = {} /\ Left("exit")' = {}
  <2>1. Left("init")' = {p \in All : <<"init", p>> \in Range(todo')}
        /\ Left("exit")' = {p \in All : <<"exit", p>> \in Range(todo')}
    BY DEF Left, Range
  <2> QED BY <2>1 DEF Range
<1> QED BY <1>1, <1>2, <1>3, <1>4, <1>5 DEF Ended

\* The steps of the loader about the timers.
LEMMA TimerStepIs ==
  ASSUME LadderInv
  PROVE  /\ StartTimers \/ Register => phase = "loading" /\ phase' = "loading"
         /\ StartTimers => Left("init")' = Left("init") \ {"timers"}
         /\ Register => Left("init")' = Left("init") \ {"notifier"}
         /\ Unregister \/ CancelTimers => phase \in {"undoing", "unloading"} /\ phase' = phase
         /\ Unregister => Left("exit")' = Left("exit") \ {"notifier"}
         /\ CancelTimers => Left("exit")' = Left("exit") \ {"timers"} /\ "notifier" \notin Left("exit")
<1>1. CASE StartTimers \/ Register
  <2>1. Done /\ Call[1] = "init" /\ phase' = phase
    BY <1>1, EachDone DEF StartTimers, Register, Is
  <2>2. phase = "loading"
    BY <2>1, DoneIs DEF AllCalls
  <2>3. Left("init")' = Left("init") \ {Call[2]}
    BY <2>1, DoneIs
  <2>4. (StartTimers => Call[2] = "timers") /\ (Register => Call[2] = "notifier")
    BY DEF StartTimers, Register, Is
  <2>5. ~Unregister /\ ~CancelTimers
    BY <2>1 DEF Unregister, CancelTimers, Is
  <2> QED BY <2>1, <2>2, <2>3, <2>4, <2>5
<1>2. CASE Unregister \/ CancelTimers
  <2>1. Done /\ Call[1] = "exit" /\ phase' = phase
    <3>1. Done
      BY <1>2, EachDone
    <3>2. Call[1] = "exit" /\ phase' = phase
      BY <1>2 DEF Unregister, CancelTimers, Is
    <3> QED BY <3>1, <3>2
  <2>2. phase \in {"undoing", "unloading"}
    BY <2>1, DoneIs
  <2>3. Left("exit")' = Left("exit") \ {Call[2]}
    BY <2>1, DoneIs
  <2>4. (Unregister => Call[2] = "notifier") /\ (CancelTimers => Call[2] = "timers")
    BY DEF Unregister, CancelTimers, Is
  <2>5. ~StartTimers /\ ~Register
    BY <2>1 DEF StartTimers, Register, Is
  <2>6. ASSUME CancelTimers PROVE "notifier" \notin Left("exit")
    <3>1. CASE phase = "undoing"
      <4>1. todo # <<>> /\ Went /\ broken' = broken
        BY <2>1 DEF Done
      <4>2. Call[2] = "timers" /\ up' = up
        BY <2>4, <2>6 DEF CancelTimers
      <4>3. {Call[2]} \ Timing = {}
        BY <4>2 DEF Timing
      <4>4. up' = up \ ({Call[2]} \ Timing)
        BY <4>2, <4>3
      <4> QED BY <3>1, <4>1, <4>2, <4>4, UndoOne
    <3>2. CASE phase = "unloading"
      <4>1. Call = <<"exit", "timers">> /\ \A y \in Range(todo) : ~(Stage(y) < Stage(Call))
        BY <2>1, <2>4, <2>6, <3>2, DoneIs
      <4>2. PartStage("timers") = 9 /\ PartStage("notifier") = 8
        BY DEF PartStage
      <4>3. Stage(<<"exit", "notifier">>) < Stage(Call)
        BY <4>1, <4>2, StageIs
      <4> QED BY <4>1, <4>3 DEF Left
    <3> QED BY <2>2, <3>1, <3>2
  <2> QED BY <2>1, <2>2, <2>3, <2>4, <2>5, <2>6
<1> QED BY <1>1, <1>2

\* The steps of everybody else.
LEMMA OtherIs ==
  ASSUME UNCHANGED loader
  PROVE  /\ phase' = phase /\ todo' = todo /\ broken' = broken /\ up' = up
         /\ Left("init")' = Left("init") /\ Left("exit")' = Left("exit")
BY DEF loader, Left

\* Whoever is not the loader leaves its state alone, and only CPUs change the timers.
LEMMA EachOther ==
  ASSUME [Next]_vars, ~Load, ~Rmmod
  PROVE  /\ UNCHANGED loader
         /\ UNCHANGED cpus \/ \E c \in CPUs : CpuUp(c) \/ CpuDown(c)
<1>1. CASE Write
  BY <1>1 DEF Write, Activate, Deactivate, Switch, SwitchProbe, SwitchFlag, quiet
<1>2. CASE \E c \in Callers : Enter(c) \/ Called(c)
  BY <1>2, CallIs
<1>3. CASE \E u \in Users : Device(u)
  BY <1>3 DEF Device, Open, Ioctl, IoctlEnds, Close, Opens
<1>4. CASE \E c \in CPUs : CpuUp(c) \/ CpuDown(c)
  BY <1>4 DEF CpuUp, CpuDown, rest
<1>5. CASE UNCHANGED vars
  BY <1>5 DEF vars
<1> QED BY <1>1, <1>2, <1>3, <1>4, <1>5 DEF Next

\* No timer is armed at the beginning.
LEMMA TimerInit == Init => TimerInv /\ SampleInv
<1> SUFFICES ASSUME Init PROVE TimerInv /\ SampleInv
  OBVIOUS
<1>1. phase = "loading" /\ todo = Loads /\ Still /\ ~notified
  BY DEF Init, Still
<1>2. "timers" \in Left("init")
  BY <1>1, LoadsIs, Some DEF Left, Pairs
<1> QED BY <1>1, <1>2 DEF TimerInv, SampleInv, Still

\* Who arms a timer or registers the notifier has its exit to come.
LEMMA TimerNext == LadderInv /\ TypeInv /\ TimerInv /\ [Next]_vars => TimerInv'
<1> SUFFICES ASSUME LadderInv, TypeInv, TimerInv, [Next]_vars PROVE TimerInv'
  OBVIOUS
<1>0. LadderInv'
  BY LadderNext
<1>1. CASE Aside
  <2>1. Still' <=> Still
    BY <1>1, AsideIs DEF Still
  <2>2. "timers" \in Timing /\ "notifier" \in Timing
    BY DEF Timing
  <2> QED BY <1>1, <2>1, <2>2, AsideIs DEF TimerInv
<1>2. CASE StartTimers
  <2>1. notified' = notified /\ phase = "loading" /\ phase' = "loading"
        /\ Left("init")' = Left("init") \ {"timers"}
    BY <1>2, TimerStepIs DEF StartTimers
  <2> QED BY <2>1 DEF TimerInv
<1>3. CASE Register
  <2>1. armed' = armed /\ phase = "loading" /\ phase' = "loading"
        /\ Left("init")' = Left("init") \ {"notifier"}
    BY <1>3, TimerStepIs DEF Register
  <2>2. Still' <=> Still
    BY <2>1 DEF Still
  <2> QED BY <2>1, <2>2 DEF TimerInv
<1>4. CASE Unregister
  <2>1. armed' = armed /\ notified' = FALSE /\ phase \in {"undoing", "unloading"} /\ phase' = phase
        /\ Left("exit")' = Left("exit") \ {"notifier"}
    BY <1>4, TimerStepIs DEF Unregister
  <2>2. Still' <=> Still
    BY <2>1 DEF Still
  <2> QED BY <2>1, <2>2 DEF TimerInv
<1>5. CASE CancelTimers
  <2>1. notified' = notified /\ phase \in {"undoing", "unloading"} /\ phase' = phase
        /\ "notifier" \notin Left("exit")
    BY <1>5, TimerStepIs DEF CancelTimers
  <2>2. Still'
    BY <1>5 DEF CancelTimers, Still
  <2> QED BY <2>1, <2>2 DEF TimerInv
<1>6. CASE InitFails
  <2>1. /\ phase = "loading" /\ phase' \in {"undoing", "refused"}
        /\ phase' = "undoing" <=> todo' # <<>>
        /\ \A p \in Timing : p \notin Left("init") => p \in Left("exit")'
    BY <1>6, FailOne
  <2>2. armed' = armed /\ notified' = notified
    BY <1>6 DEF InitFails, timers
  <2>3. Still' <=> Still
    BY <2>2 DEF Still
  <2>4. "timers" \in Timing /\ "notifier" \in Timing
    BY DEF Timing
  <2>5. phase' = "undoing" => ("notifier" \in Left("exit")' => "timers" \in Left("exit")')
    BY <1>0 DEF LadderInv, Undoing
  <2>6. phase' = "refused" => Left("exit")' = {}
    <3>1. todo' = <<>> => Left("exit")' = {}
      <4>1. Left("exit")' = {p \in All : <<"exit", p>> \in Range(todo')}
        BY DEF Left, Range
      <4> QED BY <4>1 DEF Range
    <3> QED BY <2>1, <3>1
  <2> QED BY <2>1, <2>2, <2>3, <2>4, <2>5, <2>6 DEF TimerInv
<1>7. CASE TestFlag /\ ~flag
  <2>1. /\ phase = "unloading" /\ phase' = "unloading" /\ Left("exit")' = Left("exit")
    BY <1>7, SkipIs
  <2>2. armed' = armed /\ notified' = notified
    BY <1>7 DEF TestFlag, timers
  <2>3. Still' <=> Still
    BY <2>2 DEF Still
  <2> QED BY <2>1, <2>2, <2>3 DEF TimerInv
<1>8. CASE Rmmod
  <2>1. phase' = "unloading" /\ Left("exit")' = All \ {"throttle_delay"}
    BY <1>8, RmmodIs
  <2>2. "timers" \in Left("exit")' /\ "notifier" \in Left("exit")'
    BY <2>1, Some
  <2> QED BY <2>1, <2>2 DEF TimerInv
<1>9. CASE ~Load /\ ~Rmmod
  <2>1. /\ phase' = phase /\ Left("init")' = Left("init") /\ Left("exit")' = Left("exit")
    BY <1>9, EachOther, OtherIs
  <2>2. CASE UNCHANGED cpus
    <3>1. armed' = armed /\ notified' = notified
      BY <2>2 DEF cpus
    <3>2. Still' <=> Still
      BY <3>1 DEF Still
    <3> QED BY <2>1, <3>1, <3>2 DEF TimerInv
  <2>3. ASSUME NEW c \in CPUs, CpuUp(c) PROVE TimerInv'
    <3>1. /\ notified' = notified
          /\ armed' = [armed EXCEPT ![c] = IF notified /\ @ = "no" THEN "own" ELSE @]
      BY <2>3 DEF CpuUp
    <3>2. ~notified => (Still' <=> Still)
      BY <3>1 DEF Still, TypeInv
    <3>3. phase = "loading" /\ "timers" \in Left("init") => "notifier" \in Left("init")
      BY Some DEF LadderInv, Loading
    <3> QED BY <2>1, <3>1, <3>2, <3>3 DEF TimerInv
  <2>4. ASSUME NEW c \in CPUs, CpuDown(c) PROVE TimerInv'
    <3>1. /\ notified' = notified
          /\ armed' = [armed EXCEPT ![c] = IF notified THEN "no" ELSE IF @ = "no" THEN @ ELSE "away"]
      BY <2>4 DEF CpuDown
    <3>2. Still => Still'
      BY <3>1 DEF Still, TypeInv
    <3> QED BY <2>1, <3>1, <3>2 DEF TimerInv
  <2> QED BY <1>9, <2>2, <2>3, <2>4, EachOther
<1> QED BY <1>1, <1>2, <1>3, <1>4, <1>5, <1>6, <1>7, <1>8, <1>9 DEF Load, Aside

\* A CPU that comes or goes while the notifier is registered keeps the timers in step.
LEMMA SampleNext == LadderInv /\ TypeInv /\ SampleInv /\ [Next]_vars => SampleInv'
<1> SUFFICES ASSUME LadderInv, TypeInv, SampleInv, [Next]_vars PROVE SampleInv'
  OBVIOUS
<1>1. CASE Aside
  <2>1. "timers" \in Timing
    BY DEF Timing
  <2>2. "timers" \notin Left("init")' => "timers" \notin Left("init")
    BY <1>1, <2>1, AsideIs
  <2>3. UNCHANGED <<armed, missed, online>>
    BY <1>1, AsideIs
  <2>4. phase' = "loaded" \/ phase' = "loading" => phase = "loading"
    BY <1>1, AsideIs
  <2>5. phase' = "loaded" => "timers" \notin Left("init")'
    BY <1>1, AsideIs
  <2> QED BY <2>2, <2>3, <2>4, <2>5 DEF SampleInv
<1>2. CASE StartTimers
  <2>1. missed' = missed /\ online' = online
        /\ armed' = [c \in CPUs |-> IF c \in online THEN "own" ELSE "no"]
    BY <1>2 DEF StartTimers, outside
  <2> QED BY <2>1 DEF SampleInv, TypeInv
<1>3. CASE Register
  <2>1. UNCHANGED <<armed, missed, online>> /\ phase' = "loading" /\ phase = "loading"
        /\ Left("init")' = Left("init") \ {"notifier"}
    BY <1>3, TimerStepIs DEF Register, outside
  <2> QED BY <2>1 DEF SampleInv
<1>4. CASE Unregister \/ CancelTimers
  <2>1. phase' \in {"undoing", "unloading"}
    BY <1>4, TimerStepIs
  <2>2. missed' = missed /\ (armed' = armed \/ armed' = [c \in CPUs |-> "no"])
    BY <1>4 DEF Unregister, CancelTimers
  <2> QED BY <2>1, <2>2 DEF SampleInv
<1>5. CASE InitFails \/ (TestFlag /\ ~flag) \/ Rmmod
  <2>1. phase' \in {"undoing", "refused", "unloading"}
    BY <1>5, FailOne, SkipIs, RmmodIs
  <2>2. missed' = missed /\ armed' = armed
    BY <1>5 DEF InitFails, TestFlag, Rmmod, timers
  <2> QED BY <2>1, <2>2 DEF SampleInv
<1>6. CASE ~Load /\ ~Rmmod
  <2>1. /\ phase' = phase /\ Left("init")' = Left("init")
    BY <1>6, EachOther, OtherIs
  <2>2. CASE UNCHANGED cpus
    BY <2>1, <2>2 DEF SampleInv, cpus
  <2>3. ASSUME NEW c \in CPUs, CpuUp(c) PROVE SampleInv'
    BY <2>1, <2>3 DEF SampleInv, TypeInv, CpuUp
  <2>4. ASSUME NEW c \in CPUs, CpuDown(c) PROVE SampleInv'
    BY <2>1, <2>4 DEF SampleInv, TypeInv, CpuDown
  <2> QED BY <1>6, <2>2, <2>3, <2>4, EachOther
<1> QED BY <1>1, <1>2, <1>3, <1>4, <1>5, <1>6 DEF Load, Aside

\* What a timer looks into is up as long as one is armed.
LEMMA TimersSeeWhatIsUp == LadderInv /\ TimerInv => (~Still => TimerParts \subseteq up)
<1> SUFFICES ASSUME LadderInv, TimerInv, ~Still PROVE TimerParts \subseteq up
  OBVIOUS
<1>1. /\ TimerParts \subseteq After /\ TimerParts \cap Timing = {}
      /\ TimerParts \cap {"throttle_delay", "rw_sem"} = {}
  BY DEF After, TimerParts, Timing
<1>2. TimerParts \subseteq All
  BY <1>1, Some
<1>3. CASE phase = "loading"
  <2>1. "timers" \notin Left("init")
    BY <1>3 DEF TimerInv
  <2>2. \A p \in TimerParts : Rank[p] < Rank["timers"]
    <3>1. \A p \in TimerParts : Rank[p] < 23
      BY <1>1, Some
    <3>2. Rank["timers"] = 24
      BY Some
    <3>3. \A p \in TimerParts : Rank[p] \in 1..45
      BY <1>2, RankIs
    <3> QED BY <3>1, <3>2, <3>3
  <2>3. TimerParts \cap Left("init") = {}
    <3>1. "timers" \in All
      BY Some
    <3> QED BY <1>3, <2>1, <2>2, <3>1 DEF LadderInv, Loading
  <2> QED BY <1>1, <1>2, <1>3, <2>3 DEF LadderInv, Loading
<1>4. CASE phase = "undoing"
  <2>1. "timers" \in Left("exit")
    BY <1>4 DEF TimerInv
  <2>2. TimerParts \subseteq Left("exit")
    BY <1>1, <1>4, <2>1 DEF LadderInv, Undoing
  <2>3. Left("exit") \ ({"throttle_delay"} \cup Timing) \subseteq up
    BY <1>4 DEF LadderInv, Undoing
  <2> QED BY <1>1, <2>2, <2>3
<1>5. CASE phase = "loaded"
  BY <1>1, <1>2, <1>5 DEF LadderInv
<1>6. CASE phase = "unloading"
  <2>1. "timers" \in Left("exit")
    BY <1>6 DEF TimerInv
  <2>2. PartStage("timers") = 9 /\ \A p \in TimerParts : PartStage(p) \in {10, 12}
    BY DEF PartStage, TimerParts
  <2>3. \A p \in TimerParts : Stage(<<"exit", "timers">>) < Stage(<<"exit", p>>)
    <3>1. \A p : Stage(<<"exit", p>>) = PartStage(p)
      BY StageIs
    <3>2. ASSUME NEW p \in TimerParts PROVE Stage(<<"exit", "timers">>) < Stage(<<"exit", p>>)
      <4>1. Stage(<<"exit", "timers">>) = 9
        BY <2>2, <3>1
      <4>2. Stage(<<"exit", p>>) \in {10, 12}
        BY Zenon, <2>2, <3>1
      <4> QED BY <4>1, <4>2
    <3> QED BY <3>2
  <2>4. \A p \in TimerParts : <<"exit", p>> \in AllCalls
    BY <1>1, <1>2 DEF AllCalls
  <2>5. TimerParts \subseteq Left("exit")
    BY <1>2, <1>6, <2>1, <2>3, <2>4 DEF LadderInv, Unloading, Left
  <2>6. up = (Left("exit") \cup {"throttle_delay"}) \ Timing
    BY <1>6 DEF LadderInv, Unloading
  <2> QED BY <1>1, <2>5, <2>6
<1>7. CASE phase \in {"refused", "out"}
  BY <1>7 DEF TimerInv
<1> QED BY <1>3, <1>4, <1>5, <1>6, <1>7 DEF LadderInv

\* A CPU that is online has its own timer while the module is loaded, but for CPUs that
\* came or went when nobody was notified (SamplesEveryCpu of ModuleLife; on_each_cpu of
\* start_timer and diag_cpu_notifier in timer.c).
THEOREM SamplesAlwaysEveryCpu == Spec => []SamplesEveryCpu
<1>1. SampleInv => SamplesEveryCpu
  BY DEF SampleInv, SamplesEveryCpu
<1> QED BY <1>1, LadderInit, LadderNext, TypeInit, TypeNext, TimerInit, SampleNext, PTL DEF Spec

\* An exit function is called for a part that was initialised, and once, whichever init
\* has failed: the goto of a failed init starts at the right label (ExitsOnlyWhatIsUp of
\* ModuleLife; diagnosis_init and the inits of the subsystems, diagnosis_exit).
THEOREM ExitsAlwaysWhatIsUp == Spec => []ExitsOnlyWhatIsUp
<1>1. ASSUME LadderInv, NEW p \in Parts \ {"timers", "notifier"}, Is("exit", p), p # "throttle_delay"
      PROVE  p \in up
  <2>1. todo # <<>> /\ Call = <<"exit", p>>
    BY <1>1 DEF Is
  <2>2. phase \in {"undoing", "unloading"}
    BY <1>1, <2>1, NextCall DEF Pairs
  <2>3. p \in Left("exit")
    <3>1. Call \in Range(todo) /\ p \in All
      BY <1>1, <2>1, NextCall, PartsAre
    <3> QED BY <2>1, <3>1 DEF Left
  <2> QED BY <1>1, <2>2, <2>3 DEF LadderInv, Undoing, Unloading, Timing
<1>2. LadderInv => ExitsOnlyWhatIsUp
  BY <1>1 DEF ExitsOnlyWhatIsUp
<1> QED BY <1>2, LadderInit, LadderNext, PTL DEF Spec

-----------------------------------------------------------------------------
(* The monitors.                                                           *)

\* A monitor is none of the states a process can be in, and rmmod gets to its exit only
\* after the drain.
LEMMA WatchedIs ==
  ASSUME NEW m \in Watched
  PROVE  /\ m \in All \ {"controller", "dev", "timers", "notifier"}
         /\ m \notin {"idle", "inside", "waiting", "left", "closed", "open"}
         /\ PartStage(m) \in 7..12 /\ Stage(<<"exit", m>>) = PartStage(m)
<1>1. m \in All \ {"controller", "dev", "timers", "notifier"}
  BY PartsAssumption, PartsAre
<1>2. m \notin {"idle", "inside", "waiting", "left", "closed", "open"}
  BY <1>1 DEF All, Rank
<1>3. PartStage(m) \in 7..12
  BY <1>1 DEF PartStage
<1> QED BY <1>1, <1>2, <1>3, StageIs

\* The calls of rmmod that are still to come, from one of them on.
LEMMA Later ==
  ASSUME LadderInv, phase = "unloading"
  PROVE  /\ <<"unhook", "do">> \in Range(todo) => <<"sync", "1">> \in Range(todo)
         /\ <<"sync", "1">> \in Range(todo) => <<"drain", "1">> \in Range(todo)
         /\ <<"drain", "1">> \in Range(todo) => <<"sync", "2">> \in Range(todo)
         /\ <<"drain", "1">> \in Range(todo) \/ <<"exit", "controller">> \in Range(todo)
              => Watched \subseteq up /\ Watched \subseteq Left("exit") \cup {"throttle_delay"}
<1>1. \A c \in Range(todo), d \in AllCalls : Stage(c) < Stage(d) => d \in Range(todo)
  BY DEF LadderInv, Unloading
<1>2. up = (Left("exit") \cup {"throttle_delay"}) \ Timing
  BY DEF LadderInv, Unloading
<1>3. {<<"sync", "1">>, <<"drain", "1">>, <<"sync", "2">>} \subseteq AllCalls
  BY DEF AllCalls
<1>4. <<"unhook", "do">> \in Range(todo) => <<"sync", "1">> \in Range(todo)
  <2>1. Stage(<<"unhook", "do">>) < Stage(<<"sync", "1">>)
    BY StageIs
  <2> QED BY <1>1, <1>3, <2>1
<1>5. <<"sync", "1">> \in Range(todo) => <<"drain", "1">> \in Range(todo)
  <2>1. Stage(<<"sync", "1">>) < Stage(<<"drain", "1">>)
    BY StageIs
  <2> QED BY <1>1, <1>3, <2>1
<1>6. <<"drain", "1">> \in Range(todo) => <<"sync", "2">> \in Range(todo)
  <2>1. Stage(<<"drain", "1">>) < Stage(<<"sync", "2">>)
    BY StageIs
  <2> QED BY <1>1, <1>3, <2>1
<1>7. ASSUME <<"drain", "1">> \in Range(todo) \/ <<"exit", "controller">> \in Range(todo),
             NEW m \in Watched
      PROVE  m \in up /\ m \in Left("exit") \cup {"throttle_delay"}
  <2>1. PICK c \in Range(todo) : c = <<"drain", "1">> \/ c = <<"exit", "controller">>
    BY <1>7
  <2>2. Stage(c) \in {3, 6}
    <3>1. Stage(<<"drain", "1">>) = 6
      BY StageIs
    <3>2. Stage(<<"exit", "controller">>) = 3
      BY DEF Stage, PartStage
    <3> QED BY <2>1, <3>1, <3>2
  <2>3. m \in All \ {"controller", "dev", "timers", "notifier"} /\ Stage(<<"exit", m>>) \in 7..12
    BY WatchedIs
  <2>4. Stage(c) < Stage(<<"exit", m>>)
    BY <2>2, <2>3
  <2>5. m # "throttle_delay" => <<"exit", m>> \in AllCalls
    BY <2>3 DEF AllCalls
  <2>6. m # "throttle_delay" => m \in Left("exit")
    BY <1>1, <2>3, <2>4, <2>5 DEF Left
  <2>7. m \notin Timing
    BY <2>3 DEF Timing
  <2> QED BY <1>2, <2>6, <2>7
<1> QED BY <1>4, <1>5, <1>6, <1>7

\* Nobody is in the probe of sys_enter; the device is closed.
Idle == \A c \in Callers : caller[c] = "idle"
Closed == \A u \in Users : user[u] = "closed"

\* What rmmod has left behind: no probe, then nobody on the way into it, then nobody who
\* is counted, then nobody on the way out.
Behind ==
  /\ <<"unhook", "do">> \notin Range(todo) => ~probed
  /\ <<"sync", "1">> \notin Range(todo) => \A c \in Callers : caller[c] # "inside"
  /\ <<"drain", "1">> \notin Range(todo) => Counted = {}
  /\ <<"sync", "2">> \notin Range(todo) => Idle

\* Nobody uses the controller or the device but while the module is loaded.
QuietInv ==
  alone =>
    /\ phase # "loaded" => writer = None /\ Closed
    /\ writer = None => probed = flag
    /\ (writer # None /\ writer[1] = "flag") => probed = writer[2]
    /\ phase \in {"loading", "undoing", "refused"} => ~probed /\ active = {} /\ Idle
    /\ phase \in {"unloading", "out"} => Behind

\* A monitor is active only as long as its exit is to come.
ActiveInv ==
  /\ phase = "unloading" => active \subseteq Left("exit") \cup {"throttle_delay"}
  /\ phase = "out" => active \subseteq {"throttle_delay"}

\* The steps of the loader that finish a call.
Finishes ==
  \/ InitPart \/ StartTimers \/ Register \/ ExitPart \/ Unregister \/ CancelTimers
  \/ (TestFlag /\ flag) \/ UnhookAtExit \/ Sync \/ Drain

\* What they change of the hooks, and which calls they belong to.
LEMMA FinishIs ==
  ASSUME Finishes
  PROVE  /\ UNCHANGED <<alone, writer, caller, user>> /\ active' \subseteq active
         /\ (UnhookAtExit /\ probed' = FALSE /\ flag' = FALSE)
            \/ (~UnhookAtExit /\ UNCHANGED <<probed, flag>>)
         /\ Call[1] = "unhook" => Call[2] = "test" \/ UnhookAtExit
         /\ Call[1] = "sync" => Sync
         /\ Call[1] = "drain" => Drain
         /\ Call[1] = "exit" /\ Call[2] \notin Timing => active' = active \ {Call[2]}
<1> USE DEF outside, Timing, Is, Doing
<1>1. CASE UnhookAtExit
  BY <1>1 DEF UnhookAtExit
<1>2. CASE InitPart \/ ExitPart
  BY <1>2 DEF InitPart, ExitPart, UnhookAtExit, hooks
<1>3. CASE StartTimers \/ Register \/ Unregister \/ CancelTimers
  BY <1>3 DEF StartTimers, Register, Unregister, CancelTimers, UnhookAtExit, hooks
<1>4. CASE Sync \/ Drain \/ TestFlag
  BY <1>4 DEF Sync, Drain, TestFlag, UnhookAtExit, hooks
<1> QED BY <1>1, <1>2, <1>3, <1>4 DEF Finishes

\* A call of rmmod that is finished leaves behind what it is there for.
LEMMA BehindNext ==
  ASSUME LadderInv, phase = "unloading", Behind, Finishes
  PROVE  Behind'
<1>1. Done
  BY EachDone DEF Finishes
<1>2. /\ Range(todo') = Range(todo) \ {Call} /\ Call = <<Call[1], Call[2]>>
      /\ Call \in AllCalls /\ \A y \in Range(todo) : ~(Stage(y) < Stage(Call))
  BY <1>1, DoneIs
<1>3. caller' = caller
  BY FinishIs
<1>4. Behind' = (/\ <<"unhook", "do">> \notin Range(todo') => ~probed'
                 /\ <<"sync", "1">> \notin Range(todo') => \A c \in Callers : caller'[c] # "inside"
                 /\ <<"drain", "1">> \notin Range(todo') => Counted'= {}
                 /\ <<"sync", "2">> \notin Range(todo') => \A c \in Callers : caller'[c] = "idle")
  BY DEF Behind, Range, Idle
<1>5. Counted' = Counted
  BY <1>3 DEF Counted
<1>6. <<"unhook", "do">> \notin Range(todo') => ~probed'
  <2>1. CASE Call = <<"unhook", "do">>
    <3>1. UnhookAtExit
      BY <2>1, FinishIs
    <3> QED BY <3>1, FinishIs
  <2>2. CASE Call # <<"unhook", "do">>
    <3>1. ~probed => ~probed'
      BY FinishIs
    <3> QED BY <1>2, <2>2, <3>1 DEF Behind
  <2> QED BY <2>1, <2>2
<1>7. <<"sync", "1">> \notin Range(todo') => \A c \in Callers : caller[c] # "inside"
  <2>1. CASE Call = <<"sync", "1">>
    <3>1. Sync
      BY <2>1, FinishIs
    <3> QED BY <3>1 DEF Sync
  <2> QED BY <1>2, <2>1 DEF Behind
<1>8. <<"drain", "1">> \notin Range(todo') => Counted = {}
  <2>1. CASE Call = <<"drain", "1">>
    <3>1. Drain
      BY <2>1, FinishIs
    <3> QED BY <3>1 DEF Drain
  <2> QED BY <1>2, <2>1 DEF Behind
<1>9. <<"sync", "2">> \notin Range(todo') => Idle
  <2>1. CASE Call = <<"sync", "2">>
    <3>1. Sync
      BY <2>1, FinishIs
    <3>2. Stage(<<"drain", "1">>) < Stage(Call)
      BY <2>1, StageIs
    <3>3. Counted = {}
      BY <1>2, <3>2 DEF Behind
    <3> QED BY <3>1, <3>3 DEF Sync, Counted, Idle
  <2> QED BY <1>2, <2>1 DEF Behind
<1> QED BY <1>3, <1>4, <1>5, <1>6, <1>7, <1>8, <1>9 DEF Idle

\* Nobody is there at the beginning.
LEMMA QuietInit == Init => QuietInv
<1> SUFFICES ASSUME Init PROVE QuietInv
  OBVIOUS
<1>1. /\ phase = "loading" /\ writer = None /\ probed = FALSE /\ flag = FALSE /\ active = {} /\ Closed /\ Idle
  BY DEF Init, Closed, Idle
<1> QED BY <1>1 DEF QuietInv

\* The steps of the loader.
LEMMA QuietLoad == LadderInv /\ QuietInv /\ (Load \/ Rmmod) => QuietInv'
<1> SUFFICES ASSUME LadderInv, QuietInv, Load \/ Rmmod, alone' PROVE QuietInv'
  BY DEF QuietInv
<1>1. UNCHANGED <<alone, writer, caller, user>> /\ active' \subseteq active
  <2>1. CASE Finishes
    BY <2>1, FinishIs
  <2>2. CASE InitFails
    BY <2>2 DEF InitFails, outside
  <2>3. CASE TestFlag /\ ~flag
    BY <2>3 DEF TestFlag, outside
  <2>4. CASE Rmmod
    BY <2>4 DEF Rmmod, outside
  <2> QED BY <2>1, <2>2, <2>3, <2>4 DEF Load, Finishes
<1>2. (Closed' <=> Closed) /\ (Idle' <=> Idle) /\ alone
  BY <1>1 DEF Closed, Idle
<1>3. CASE Finishes
  <2>1. Done
    BY <1>3, EachDone DEF Finishes
  <2>2. /\ phase \in {"loading", "undoing", "unloading"}
        /\ phase' = (IF todo' = <<>> THEN Ended ELSE phase)
    BY <2>1, DoneIs
  <2>3. writer = None /\ Closed /\ probed = flag
    BY <1>2, <2>2 DEF QuietInv
  <2>4. (probed' = FALSE /\ flag' = FALSE) \/ UNCHANGED <<probed, flag>>
    BY <1>3, FinishIs
  <2>5. CASE phase \in {"loading", "undoing"}
    <3>1. phase' \in {"loading", "loaded", "undoing", "refused"}
      BY <2>2, <2>5 DEF Ended
    <3>2. ~probed /\ active = {} /\ Idle
      BY <1>2, <2>5 DEF QuietInv
    <3> QED BY <1>1, <1>2, <2>3, <2>4, <3>1, <3>2 DEF QuietInv
  <2>6. CASE phase = "unloading"
    <3>1. phase' \in {"unloading", "out"}
      BY <2>2, <2>6 DEF Ended
    <3>2. Behind'
      BY <1>2, <1>3, <2>6, BehindNext DEF QuietInv
    <3> QED BY <1>1, <1>2, <2>3, <2>4, <3>1, <3>2 DEF QuietInv
  <2> QED BY <2>2, <2>5, <2>6
<1>4. CASE InitFails
  <2>1. phase = "loading" /\ phase' \in {"undoing", "refused"}
    BY <1>4, FailOne
  <2>2. UNCHANGED <<active, probed, flag>>
    BY <1>4 DEF InitFails, hooks
  <2> QED BY <1>1, <1>2, <2>1, <2>2 DEF QuietInv
<1>5. CASE TestFlag /\ ~flag
  <2>1. /\ phase = "unloading" /\ phase' = "unloading"
        /\ Range(todo') = Range(todo) \ {<<"unhook", "test">>, <<"unhook", "do">>}
    BY <1>5, SkipIs
  <2>2. UNCHANGED <<active, probed, flag>>
    BY <1>5 DEF TestFlag, hooks
  <2>3. Counted' = Counted
    BY <1>1 DEF Counted
  <2>4. writer = None /\ Closed /\ probed = flag /\ Behind
    BY <1>2, <2>1 DEF QuietInv
  <2>5. Behind' = (/\ <<"unhook", "do">> \notin Range(todo') => ~probed'
                   /\ <<"sync", "1">> \notin Range(todo') => \A c \in Callers : caller'[c] # "inside"
                   /\ <<"drain", "1">> \notin Range(todo') => Counted'= {}
                   /\ <<"sync", "2">> \notin Range(todo') => \A c \in Callers : caller'[c] = "idle")
    BY DEF Behind, Range, Idle
  <2>6. Behind'
    BY <1>1, <1>5, <2>1, <2>2, <2>3, <2>4, <2>5 DEF Behind, Idle
  <2> QED BY <1>1, <1>2, <2>1, <2>2, <2>4, <2>6 DEF QuietInv
<1>6. CASE Rmmod
  <2>1. phase' = "unloading" /\ Range(todo') = AllCalls
    BY <1>6, RmmodIs
  <2>2. UNCHANGED <<active, probed, flag>> /\ writer = None /\ Closed
    BY <1>2, <1>6 DEF Rmmod, hooks, Closed
  <2>3. Behind' = (/\ <<"unhook", "do">> \notin Range(todo') => ~probed'
                   /\ <<"sync", "1">> \notin Range(todo') => \A c \in Callers : caller'[c] # "inside"
                   /\ <<"drain", "1">> \notin Range(todo') => Counted'= {}
                   /\ <<"sync", "2">> \notin Range(todo') => \A c \in Callers : caller'[c] = "idle")
    BY DEF Behind, Range, Idle
  <2>4. {<<"unhook", "do">>, <<"sync", "1">>, <<"drain", "1">>, <<"sync", "2">>} \subseteq AllCalls
    BY DEF AllCalls
  <2>5. Behind'
    BY <2>1, <2>3, <2>4
  <2>6. probed = flag
    BY <1>2, <2>2 DEF QuietInv
  <2> QED BY <1>1, <1>2, <2>1, <2>2, <2>5, <2>6 DEF QuietInv
<1> QED BY <1>3, <1>4, <1>5, <1>6 DEF Load, Finishes

\* The steps of a process in a system call.
LEMMA QuietCall ==
  ASSUME LadderInv, TypeInv, QuietInv, NEW c \in Callers, Enter(c) \/ Called(c)
  PROVE  QuietInv'
<1> SUFFICES ASSUME alone' PROVE QuietInv'
  BY DEF QuietInv
<1>1. UNCHANGED <<alone, loader, active, flag, probed, writer, user>>
  BY CallIs
<1>2. alone /\ (Closed' <=> Closed) /\ phase' = phase /\ Range(todo') = Range(todo)
  BY <1>1 DEF Closed, loader, Range
<1>3. PICK to : caller' = [caller EXCEPT ![c] = to]
  BY CallIs
<1>4. /\ caller[c] = "idle" => probed /\ to = "inside"
      /\ caller[c] = "inside" => to = "waiting"
      /\ caller[c] = "left" => to = "idle"
      /\ caller[c] \notin {"idle", "left"} => to # "inside"
  <2>1. caller'[c] = to
    BY <1>3 DEF TypeInv
  <2>2. CASE Enter(c)
    BY <2>1, <2>2 DEF Enter, Moves, TypeInv
  <2>3. CASE Count(c)
    BY <2>1, <2>3 DEF Count, Moves, TypeInv
  <2>4. ASSUME NEW m \in Watched, Handle(c, m) PROVE caller[c] = "waiting" /\ caller'[c] = m
    BY <2>4 DEF Handle, Moves, TypeInv
  <2>5. ASSUME Uncount(c)
        PROVE  caller[c] \notin {"idle", "inside", "left"} /\ caller'[c] = "left"
    <3>1. PICK m \in Watched : caller[c] = m /\ caller' = [caller EXCEPT ![c] = "left"]
      BY <2>5 DEF Uncount, Moves
    <3> QED BY <3>1, WatchedIs DEF TypeInv
  <2>6. CASE Leave(c)
    BY <2>1, <2>6 DEF Leave, Moves, TypeInv
  <2> QED BY <2>1, <2>2, <2>3, <2>4, <2>5, <2>6, WatchedIs DEF Called
<1>5. CASE phase \in {"loading", "undoing", "refused"}
  BY <1>2, <1>4, <1>5 DEF QuietInv, Idle
<1>6. CASE phase = "loaded"
  BY <1>1, <1>2, <1>6 DEF QuietInv
<1>7. CASE phase = "unloading"
  <2>1. Behind
    BY <1>2, <1>7 DEF QuietInv
  <2>2. <<"sync", "2">> \notin Range(todo) => FALSE
    <3> SUFFICES ASSUME <<"sync", "2">> \notin Range(todo) PROVE FALSE
      OBVIOUS
    <3>1. <<"unhook", "do">> \notin Range(todo)
      BY <1>7, Later
    <3> QED BY <1>4, <2>1, <3>1 DEF Behind, Idle
  <2>3. <<"drain", "1">> \notin Range(todo) => Counted' = {}
    <3> SUFFICES ASSUME <<"drain", "1">> \notin Range(todo) PROVE Counted' = {}
      OBVIOUS
    <3>1. <<"unhook", "do">> \notin Range(todo) /\ <<"sync", "1">> \notin Range(todo)
      BY <1>7, Later
    <3>2. ~probed /\ Counted = {} /\ caller[c] # "inside"
      BY <2>1, <3>1 DEF Behind
    <3>3. caller[c] = "left"
      BY <1>4, <3>2 DEF Counted
    <3> QED BY <1>3, <1>4, <3>2, <3>3 DEF Counted, TypeInv
  <2>4. <<"sync", "1">> \notin Range(todo) => \A d \in Callers : caller'[d] # "inside"
    <3> SUFFICES ASSUME <<"sync", "1">> \notin Range(todo) PROVE \A d \in Callers : caller'[d] # "inside"
      OBVIOUS
    <3>1. <<"unhook", "do">> \notin Range(todo)
      BY <1>7, Later
    <3>2. ~probed /\ \A d \in Callers : caller[d] # "inside"
      BY <2>1, <3>1 DEF Behind
    <3>3. to # "inside"
      BY <1>4, <3>2
    <3> QED BY <1>3, <3>2, <3>3 DEF TypeInv
  <2>5. Behind' = (/\ <<"unhook", "do">> \notin Range(todo') => ~probed'
                   /\ <<"sync", "1">> \notin Range(todo') => \A d \in Callers : caller'[d] # "inside"
                   /\ <<"drain", "1">> \notin Range(todo') => Counted'= {}
                   /\ <<"sync", "2">> \notin Range(todo') => \A d \in Callers : caller'[d] = "idle")
    BY DEF Behind, Range, Idle
  <2>6. <<"unhook", "do">> \notin Range(todo) => ~probed'
    BY <1>1, <2>1 DEF Behind
  <2>7. Behind'
    BY <1>2, <2>2, <2>3, <2>4, <2>5, <2>6
  <2> QED BY <1>1, <1>2, <1>7, <2>7 DEF QuietInv
<1>8. CASE phase = "out"
  <2>1. Range(todo) = {} /\ Behind
    BY <1>2, <1>8, NothingLeft DEF QuietInv, LadderInv
  <2> QED BY <1>4, <2>1 DEF Behind, Idle
<1> QED BY <1>5, <1>6, <1>7, <1>8 DEF LadderInv

\* The steps of a write to the controller.
LEMMA QuietWrite == LadderInv /\ TypeInv /\ QuietInv /\ Write => QuietInv'
<1> SUFFICES ASSUME LadderInv, TypeInv, QuietInv, Write, alone' PROVE QuietInv'
  BY DEF QuietInv
<1>1. UNCHANGED <<alone, loader, user, caller>>
  BY DEF Write, Activate, Deactivate, Switch, SwitchProbe, SwitchFlag, quiet
<1>2. alone /\ phase' = phase
  BY <1>1 DEF loader
<1>3. writer # None => phase = "loaded"
  BY <1>2 DEF QuietInv
<1>4. phase = "loaded"
  <2>1. CASE SwitchProbe \/ SwitchFlag
    BY <1>3, <2>1 DEF SwitchProbe, SwitchFlag
  <2>2. CASE ~(SwitchProbe \/ SwitchFlag)
    BY <1>2, <2>2 DEF Write, Activate, Deactivate, Switch, Usable
  <2> QED BY <2>1, <2>2
<1>5. None \notin {"probe", "flag"} \X BOOLEAN
  BY PartsAssumption
<1>6. CASE \E m \in Watched : Activate(m) \/ Deactivate(m)
  BY <1>2, <1>4, <1>6 DEF QuietInv, Activate, Deactivate
<1>7. CASE \E to \in BOOLEAN : Switch(to)
  <2>1. PICK to \in BOOLEAN : writer' = <<"probe", to>> /\ UNCHANGED <<flag, probed>>
    BY <1>7 DEF Switch
  <2>2. writer' # None /\ writer'[1] = "probe"
    BY <1>5, <2>1
  <2> QED BY <1>2, <1>4, <2>1, <2>2 DEF QuietInv
<1>8. CASE SwitchProbe
  <2>1. writer \in {"probe", "flag"} \X BOOLEAN
    BY <1>8 DEF SwitchProbe, TypeInv
  <2>2. probed' = writer[2] /\ writer' = <<"flag", writer[2]>>
    BY <1>8 DEF SwitchProbe
  <2>3. writer' # None /\ writer'[2] = probed'
    BY <1>5, <2>1, <2>2
  <2> QED BY <1>2, <1>4, <2>3 DEF QuietInv
<1>9. CASE SwitchFlag
  <2>1. writer # None /\ writer[1] = "flag" /\ flag' = writer[2] /\ probed' = probed /\ writer' = None
    BY <1>9 DEF SwitchFlag
  <2>2. probed = writer[2]
    BY <1>2, <2>1 DEF QuietInv
  <2> QED BY <1>2, <1>4, <2>1, <2>2 DEF QuietInv
<1> QED BY <1>6, <1>7, <1>8, <1>9 DEF Write

\* Every step keeps it.
LEMMA QuietNext == LadderInv /\ TypeInv /\ QuietInv /\ [Next]_vars => QuietInv'
<1> SUFFICES ASSUME LadderInv, TypeInv, QuietInv, [Next]_vars PROVE QuietInv'
  OBVIOUS
<1>1. CASE \E u \in Users : Device(u)
  <2>1. PICK u \in Users : Device(u)
    BY <1>1
  <2>2. UNCHANGED <<alone, loader, active, flag, probed, writer, caller>>
    BY <2>1 DEF Device, Open, Ioctl, IoctlEnds, Close, Opens
  <2>3. Behind' = Behind /\ phase' = phase
    BY <2>2 DEF Behind, Range, Idle, Counted, loader
  <2>4. alone => phase = "loaded"
    <3>1. CASE Open(u)
      BY <3>1 DEF Open
    <3>2. CASE ~Open(u)
      <4>1. user[u] # "closed"
        BY <2>1, <3>2, WatchedIs DEF Device, Ioctl, IoctlEnds, Close, Opens
      <4> QED BY <4>1 DEF QuietInv, Closed
    <3> QED BY <3>1, <3>2
  <2> QED BY <2>2, <2>3, <2>4 DEF QuietInv
<1>2. CASE UNCHANGED <<alone, loader, active, flag, probed, writer, caller, user>>
  <2>1. Behind' = Behind /\ phase' = phase /\ Closed' = Closed /\ Idle' = Idle
    BY <1>2 DEF Behind, Range, Idle, Counted, Closed, loader
  <2> QED BY <1>2, <2>1 DEF QuietInv
<1>3. CASE \E c \in CPUs : CpuUp(c) \/ CpuDown(c)
  BY <1>2, <1>3 DEF CpuUp, CpuDown, rest
<1>4. CASE UNCHANGED vars
  BY <1>2, <1>4 DEF vars
<1> QED BY <1>1, <1>3, <1>4, QuietLoad, QuietCall, QuietWrite DEF Next

\* A monitor that is activated while rmmod runs has its exit to come.
LEMMA ActiveNext == LadderInv /\ TypeInv /\ ActiveInv /\ [Next]_vars => ActiveInv'
<1> SUFFICES ASSUME LadderInv, TypeInv, ActiveInv, [Next]_vars PROVE ActiveInv'
  OBVIOUS
<1>1. CASE Finishes
  <2>1. Done
    BY <1>1, EachDone DEF Finishes
  <2>2. /\ phase \in {"loading", "undoing", "unloading"}
        /\ phase' = (IF todo' = <<>> THEN Ended ELSE phase)
        /\ Left("exit")' = IF Call[1] = "exit" THEN Left("exit") \ {Call[2]} ELSE Left("exit")
    BY <2>1, DoneIs
  <2>3. phase' \in {"unloading", "out"} => phase = "unloading"
    BY <2>2 DEF Ended
  <2>4. active' \subseteq active /\ active \subseteq Watched
    BY <1>1, FinishIs DEF TypeInv
  <2>5. phase = "unloading" => active' \subseteq Left("exit")' \cup {"throttle_delay"}
    <3>1. CASE Call[1] = "exit" /\ Call[2] \notin Timing
      <4>1. active' = active \ {Call[2]}
        BY <1>1, <3>1, FinishIs
      <4> QED BY <2>2, <3>1, <4>1 DEF ActiveInv
    <3>2. CASE Call[1] = "exit" /\ Call[2] \in Timing
      <4>1. Call[2] \notin active
        BY <2>4, <3>2, WatchedIs DEF Timing
      <4> QED BY <2>2, <2>4, <3>2, <4>1 DEF ActiveInv
    <3>3. CASE Call[1] # "exit"
      BY <2>2, <2>4, <3>3 DEF ActiveInv
    <3> QED BY <3>1, <3>2, <3>3
  <2>6. phase' = "out" => Left("exit")' = {}
    <3>1. todo' = <<>> => Left("exit")' = {}
      <4>1. Left("exit")' = {p \in All : <<"exit", p>> \in Range(todo')}
        BY DEF Left, Range
      <4> QED BY <4>1 DEF Range
    <3>2. phase' = "out" => todo' = <<>>
      BY <2>2
    <3> QED BY <3>1, <3>2
  <2> QED BY <2>3, <2>5, <2>6 DEF ActiveInv
<1>2. CASE InitFails
  <2>1. phase' \in {"undoing", "refused"}
    BY <1>2, FailOne
  <2> QED BY <2>1 DEF ActiveInv
<1>3. CASE TestFlag /\ ~flag
  <2>1. /\ phase = "unloading" /\ phase' = "unloading" /\ Left("exit")' = Left("exit")
    BY <1>3, SkipIs
  <2>2. active' = active
    BY <1>3 DEF TestFlag
  <2> QED BY <2>1, <2>2 DEF ActiveInv
<1>4. CASE Rmmod
  <2>1. phase' = "unloading" /\ Left("exit")' = All \ {"throttle_delay"}
    BY <1>4, RmmodIs
  <2>2. active' \subseteq Watched
    BY <1>4 DEF Rmmod, TypeInv
  <2> QED BY <2>1, <2>2, WatchedIs DEF ActiveInv
<1>5. CASE ~Load /\ ~Rmmod
  <2>1. phase' = phase /\ Left("exit")' = Left("exit")
    BY <1>5, EachOther, OtherIs
  <2>2. CASE active' \subseteq active
    BY <2>1, <2>2 DEF ActiveInv
  <2>3. ASSUME NEW m \in Watched, Activate(m) PROVE ActiveInv'
    <3>1. "controller" \in up /\ active' = active \cup {m}
      BY <2>3 DEF Activate, Usable
    <3>2. phase # "out"
      BY <3>1 DEF LadderInv
    <3>3. ASSUME phase = "unloading" PROVE m \in Left("exit") \cup {"throttle_delay"}
      <4>1. "controller" \in Left("exit")
        BY <3>1, <3>3 DEF LadderInv, Unloading
      <4>2. <<"exit", "controller">> \in Range(todo)
        BY <4>1 DEF Left
      <4> QED BY <3>3, <4>2, Later
    <3> QED BY <2>1, <3>1, <3>2, <3>3 DEF ActiveInv
  <2>4. CASE Write
    <3>1. (\E m \in Watched : Activate(m)) \/ active' \subseteq active
      BY <2>4 DEF Write, Deactivate, Switch, SwitchProbe, SwitchFlag
    <3> QED BY <2>2, <2>3, <3>1
  <2>5. CASE \E c \in Callers : Enter(c) \/ Called(c)
    BY <2>2, <2>5, CallIs
  <2>6. CASE \E u \in Users : Device(u)
    BY <2>2, <2>6 DEF Device, Open, Ioctl, IoctlEnds, Close, Opens
  <2>7. CASE \E c \in CPUs : CpuUp(c) \/ CpuDown(c)
    BY <2>2, <2>7 DEF CpuUp, CpuDown, rest
  <2>8. CASE UNCHANGED vars
    BY <2>2, <2>8 DEF vars
  <2> QED BY <1>5, <2>4, <2>5, <2>6, <2>7, <2>8 DEF Next
<1> QED BY <1>1, <1>2, <1>3, <1>4, <1>5 DEF Load, Finishes

\* All of it.
LifeInv == LadderInv /\ TypeInv /\ TimerInv /\ QuietInv /\ ActiveInv

\* The invariants hold at the beginning, and every step keeps them.
LEMMA LifeInit == Init => LifeInv
<1>1. Init => ActiveInv
  BY DEF Init, ActiveInv
<1> QED BY <1>1, LadderInit, TypeInit, TimerInit, QuietInit DEF LifeInv

LEMMA LifeNext == LifeInv /\ [Next]_vars => LifeInv'
BY LadderNext, TypeNext, TimerNext, QuietNext, ActiveNext DEF LifeInv

\* A system call or an ioctl is in a monitor only while the monitor is up.
LEMMA MonitorsAreUp ==
  ASSUME LifeInv, alone
  PROVE  /\ \A c \in Callers : caller[c] \in Watched => caller[c] \in up
         /\ \A u \in Users : user[u] # "closed" => "dev" \in up
         /\ \A u \in Users : user[u] \in Watched => user[u] \in up
<1> USE DEF LifeInv
<1>1. phase = "loaded" => Watched \cup {"dev"} \subseteq up
  <2>1. \A m \in Watched : m \in All \ Timing
    BY WatchedIs DEF Timing
  <2>2. "dev" \in All \ Timing
    BY Some DEF Timing
  <2> QED BY <2>1, <2>2 DEF LadderInv
<1>2. ASSUME NEW c \in Callers, caller[c] \in Watched PROVE caller[c] \in up
  <2>1. caller[c] \notin {"idle", "inside", "left"}
    BY <1>2, WatchedIs
  <2>2. c \in Counted /\ ~Idle
    BY <2>1 DEF Counted, Idle
  <2>3. CASE phase = "loaded"
    BY <1>1, <1>2, <2>3
  <2>4. CASE phase = "unloading"
    <3>1. <<"drain", "1">> \in Range(todo)
      BY <2>2, <2>4 DEF QuietInv, Behind
    <3> QED BY <1>2, <2>4, <3>1, Later
  <2>5. phase # "out"
    <3> SUFFICES ASSUME phase = "out" PROVE FALSE
      OBVIOUS
    <3>1. Range(todo) = {} /\ Behind
      BY NothingLeft DEF QuietInv, LadderInv
    <3> QED BY <2>2, <3>1 DEF Behind
  <2> QED BY <2>2, <2>3, <2>4, <2>5 DEF QuietInv, LadderInv
<1>3. ASSUME NEW u \in Users, user[u] # "closed" PROVE phase = "loaded"
  BY <1>3 DEF QuietInv, Closed
<1>4. ASSUME NEW u \in Users, user[u] \in Watched PROVE user[u] # "closed"
  BY <1>4, WatchedIs
<1> QED BY <1>1, <1>2, <1>3, <1>4

\* A timer, a system call of the tool or a call of the device never gets to a part that
\* is not initialised, or already torn down, as long as the controller and the device
\* are left alone while the module is loaded and unloaded (UsesOnlyWhatIsUp of
\* ModuleLife; the order of the calls of diagnosis_init and diagnosis_exit).
THEOREM UsesAlwaysWhatIsUp == Spec => []UsesOnlyWhatIsUp
<1>1. LifeInv => \A c \in CPUs : armed[c] # "no" => TimerParts \subseteq up
  BY TimersSeeWhatIsUp DEF LifeInv, Still
<1>2. LifeInv => UsesOnlyWhatIsUp
  BY <1>1, MonitorsAreUp DEF UsesOnlyWhatIsUp
<1> QED BY <1>2, LifeInit, LifeNext, PTL DEF Spec

\* When rmmod or a failed insmod returns nothing points into the module's memory: no part
\* is left but the one the ladders forget, no timer is armed, no monitor of another part
\* active, and, the controller and the device left alone, no probe registered, nobody in
\* a hook and the device closed (LeavesNothing of ModuleLife; diagnosis_exit and the
\* gotos of diagnosis_init).
THEOREM LeavesAlwaysNothing == Spec => []LeavesNothing
<1>1. ASSUME LifeInv, phase \in {"refused", "out"}
      PROVE  /\ up \subseteq IF broken = "throttle_delay" THEN {"rw_sem"} ELSE {"throttle_delay"}
             /\ \A c \in CPUs : armed[c] = "no"
             /\ phase = "out" \/ alone => active \subseteq {"throttle_delay"}
             /\ alone => ~probed /\ Idle /\ Closed
  <2> USE DEF LifeInv
  <2>1. up \subseteq IF broken = "throttle_delay" THEN {"rw_sem"} ELSE {"throttle_delay"}
    <3>1. None # "throttle_delay"
      <4>1. "throttle_delay" \in Parts
        BY Some, PartsAre
      <4> QED BY <4>1, PartsAssumption
    <3> QED BY <1>1, <3>1 DEF LadderInv, Forgot
  <2>2. \A c \in CPUs : armed[c] = "no"
    BY <1>1 DEF TimerInv, Still
  <2>3. phase = "out" \/ alone => active \subseteq {"throttle_delay"}
    BY <1>1 DEF ActiveInv, QuietInv
  <2>4. alone /\ phase = "out" => ~probed /\ Idle
    <3>1. phase = "out" => Range(todo) = {}
      BY <1>1, NothingLeft DEF LadderInv
    <3> QED BY <1>1, <3>1 DEF QuietInv, Behind
  <2>5. alone => ~probed /\ Idle /\ Closed
    BY <1>1, <2>4 DEF QuietInv
  <2> QED BY <2>1, <2>2, <2>3, <2>5
<1>2. LifeInv => LeavesNothing
  BY <1>1 DEF LeavesNothing, Idle, Closed
<1> QED BY <1>2, LifeInit, LifeNext, PTL DEF Spec
=============================================================================
