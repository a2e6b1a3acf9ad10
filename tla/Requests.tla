------------------------------ MODULE Requests ------------------------------
(***************************************************************************)
(* The requests of the command line tool to one monitor: SET (with the     *)
(* activation that follows it), SETTINGS and DUMP, for a report or for a   *)
(* log.  A request is an ioctl of the device, or a system call with a      *)
(* number nobody else uses, which the module answers from the sys_enter    *)
(* tracepoint while it is hooked.  System calls and the controller file    *)
(* hold one semaphore, ioctls hold none, and a request may sleep wherever  *)
(* it copies from or to the tool.  What differs between the monitors is in *)
(* RequestRows.  A record stands for a batch of records that takes at most *)
(* half of the record buffer.                                              *)
(***************************************************************************)
EXTENDS RequestRows, Sequences, FiniteSets

CONSTANTS
  Monitors,    \* the monitors under check, names of rows of Rows
  Clients,     \* runs of the tool
  Operator,    \* the client that sets, activates and deactivates
  Commands,    \* per client: the commands under check
  Values,      \* settings
  Zero,        \* the settings before the first SET
  None,        \* nobody
  MaxRecords   \* bound on the records that are made

ASSUME RequestsAssumption ==
  /\ Monitors \subseteq DOMAIN Rows
  /\ Operator \in Clients /\ None \notin Clients
  /\ Commands \in [Clients -> SUBSET {"set", "get", "dump", "log"}]
  /\ \A c \in Clients \ {Operator} : "set" \notin Commands[c]
  /\ Zero \in Values /\ MaxRecords \in Nat

VARIABLES
  mon,       \* the monitor
  hooked,    \* sys_enter_hooked
  sem,       \* the client that holds controller_sem, or None
  own,       \* the client that holds the monitor's own mutex
  setting,   \* the settings of the monitor, activated apart
  asked,     \* the settings that the last activation was to use
  active,    \* settings.activated
  alloced,   \* the record buffer is allocated
  slot,      \* per path: the static copy of the settings in the handler
  made,      \* the records made so far: who prints their kind, text or log
  buffer,    \* the records in the buffer
  product,   \* the records in the backup that DUMP copies from
  done,      \* per record: how many times it was printed or logged
  gone,      \* the records that were cut off a report or not printed
  crossed,   \* the paths of DUMPs that used the backup at the same time
  pc, cmd, way,   \* per client: where it is, its command and its path
  ret,       \* per client: the return value as the tool sees it
  val,       \* per client: the settings it gives, copies or got
  seen,      \* per client: the settings there were during its request
  out,       \* per client: the records in its array
  fresh      \* per client: the present request has filled the array

clientVars == <<pc, cmd, way, ret, val, seen, out, fresh>>
lockVars == <<mon, hooked, sem, own>>
settingVars == <<setting, asked, active, alloced, slot>>
recordVars == <<made, buffer, product, done, gone, crossed>>
vars == <<clientVars, lockVars, settingVars, recordVars>>

Row == Rows[mon]
K == Row.k
IsDump(c) == cmd[c] \in {"dump", "log"}
Media == {"text", "log"}
Form(c) == IF cmd[c] = "log" THEN Row.log ELSE Row.text
Records == 1 .. Len(made)

\* Whether a report of n records is sure to fit into what the tool asks for.
Fits(form, path, n) == n * K.half <= form.room[path]

\* Where the kinds of records that the kernel writes are shown.
Shown(r, kind) == {m \in Media : kind \in r[m].kinds}
Kinds(r) == {Shown(r, kind) : kind \in r.text.kinds \cup r.k.extra}

\* Monitors whose rows differ only in what cannot matter, be it for the bounds,
\* are checked once.
Features(m) ==
  LET r == Rows[m]
      fits(form, p) == {n \in 1 .. 2 : n * r.k.half <= form.room[p]}
      plain(form) == [form EXCEPT !.kinds = form.kinds # {},
                                  !.room = [p \in Paths |-> fits(form, p)]]
  IN  IF MaxRecords = 0
        THEN <<r.k.shared, r.k.locks, r.k.locked, r.k.late, r.k.checks, r.s>>
        ELSE <<[r.k EXCEPT !.half = 0, !.extra = Kinds(r),
                           !.shared = IF Cardinality(Values) = 1 THEN {} ELSE @],
               r.s.ways, plain(r.text), plain(r.log)>>

\* The monitor may have been activated before, with the settings it has.
Init ==
  /\ mon \in {CHOOSE m \in Monitors : Features(m) = x : x \in {Features(m) : m \in Monitors}}
  /\ hooked \in BOOLEAN /\ sem = None /\ own = None
  /\ setting = Zero /\ asked = Zero /\ slot = [p \in Paths |-> Zero]
  /\ val = [c \in Clients |-> Zero] /\ seen = [c \in Clients |-> {}]
  /\ active \in BOOLEAN /\ alloced = active
  /\ made = <<>> /\ buffer = <<>> /\ product = <<>> /\ gone = {} /\ crossed = {}
  /\ done = [i \in 1 .. MaxRecords |-> 0]
  /\ pc = [c \in Clients |-> "idle"] /\ cmd = [c \in Clients |-> "get"]
  /\ way = [c \in Clients |-> "ioctl"] /\ ret = [c \in Clients |-> "one"]
  /\ out = [c \in Clients |-> <<>>] /\ fresh = [c \in Clients |-> FALSE]

-----------------------------------------------------------------------------
(* The tool sends a request.                                               *)

Goto(c, p) == pc' = [pc EXCEPT ![c] = p]

\* The run of the tool ends, and its variables with it.
End(c) ==
  /\ Goto(c, "idle")
  /\ cmd' = [cmd EXCEPT ![c] = "get"] /\ way' = [way EXCEPT ![c] = "ioctl"]
  /\ ret' = [ret EXCEPT ![c] = "one"] /\ val' = [val EXCEPT ![c] = Zero]
  /\ seen' = [seen EXCEPT ![c] = {}] /\ out' = [out EXCEPT ![c] = <<>>]
  /\ fresh' = [fresh EXCEPT ![c] = FALSE]

First(k) == CASE k = "set" -> Row.s.set [] k = "get" -> Row.s.get
              [] k = "dump" -> Row.text.ret [] k = "log" -> Row.log.ret

\* What a variable can hold that is declared and not assigned.
AnyOf(r) == IF r = "any" THEN {"ok", "one"} ELSE {r}

Start(c) ==
  /\ pc[c] = "idle"
  /\ \E k \in Commands[c], w \in Row.s.ways, v \in Values :
       /\ k # "set" => v = Zero
       /\ k = "log" => Row.log.kinds # {}
       /\ k = "dump" /\ Row.text.probes => active \/ (w = "syscall" /\ ~hooked)
       /\ cmd' = [cmd EXCEPT ![c] = k] /\ way' = [way EXCEPT ![c] = w]
       /\ val' = [val EXCEPT ![c] = v]
       /\ \E r \in AnyOf(First(k)) : ret' = [ret EXCEPT ![c] = r]
  /\ Goto(c, "call")
  /\ UNCHANGED <<seen, out, fresh, lockVars, settingVars, recordVars>>

\* Without the hook the kernel knows no such system call, and the tool's
\* variables stay as they are.  Where ret is prepared, the array is not looked
\* at again unless it is filled.
Call(c) ==
  /\ pc[c] = "call"
  /\ IF First(cmd[c]) = "nosys"
       THEN ret' = [ret EXCEPT ![c] = "nosys"] /\ out' = [out EXCEPT ![c] = <<>>]
       ELSE UNCHANGED <<ret, out>>
  /\ fresh' = [fresh EXCEPT ![c] = FALSE]
  /\ seen' = [seen EXCEPT ![c] = {setting}]
  /\ Goto(c, IF way[c] = "ioctl" THEN "handle" ELSE IF hooked THEN "down" ELSE "back")
  /\ UNCHANGED <<cmd, way, val, lockVars, settingVars, recordVars>>

-----------------------------------------------------------------------------
(* The module answers it.                                                  *)

\* Mutant: system calls are not kept apart.
MutDown(c) ==
  /\ pc[c] = "down"
  /\ sem' = c
  /\ Goto(c, "handle")
  /\ UNCHANGED <<cmd, way, ret, val, seen, out, fresh, mon, hooked, own, settingVars, recordVars>>

Down(c) ==
  /\ pc[c] = "down" /\ sem = None
  /\ sem' = c
  /\ Goto(c, "handle")
  /\ UNCHANGED <<cmd, way, ret, val, seen, out, fresh, mon, hooked, own, settingVars, recordVars>>

\* Mutant: SETTINGS returns without releasing the mutex.
MutAnswer(c, r) ==
  /\ ret' = [ret EXCEPT ![c] = r]
  /\ sem' = IF sem = c THEN None ELSE sem
  /\ own' = IF own = c /\ cmd[c] # "get" THEN None ELSE own
  /\ Goto(c, "back")

\* The handler ends with answer r: the mutex and the semaphore are released.
Answer(c, r) ==
  /\ ret' = [ret EXCEPT ![c] = r]
  /\ sem' = IF sem = c THEN None ELSE sem
  /\ own' = IF own = c THEN None ELSE own
  /\ Goto(c, "back")

\* The mutex of the monitor's own, where the handler of the path has it.
Take(c, needed) ==
  IF needed /\ way[c] \in K.locked THEN own = None /\ own' = c ELSE own' = own

Handle(c) ==
  /\ pc[c] = "handle"
  /\ Take(c, cmd[c] \in K.locks)
  /\ Goto(c, CASE cmd[c] = "set" -> "test" [] cmd[c] = "get" -> "read" [] OTHER -> "gather")
  /\ UNCHANGED <<cmd, way, ret, val, seen, out, fresh, mon, hooked, sem, settingVars, recordVars>>

\* Mutant: SET does not look whether the monitor is active.
MutSetTest(c) ==
  /\ pc[c] = "test"
  /\ Take(c, K.late)
  /\ Goto(c, "copy")
  /\ UNCHANGED <<cmd, way, ret, val, seen, out, fresh, mon, hooked, sem, settingVars, recordVars>>

SetTest(c) ==
  /\ pc[c] = "test" /\ ~active
  /\ Take(c, K.late)
  /\ Goto(c, "copy")
  /\ UNCHANGED <<cmd, way, ret, val, seen, out, fresh, mon, hooked, sem, settingVars, recordVars>>

SetBusy(c) ==
  /\ pc[c] = "test" /\ active
  /\ Answer(c, "busy")
  /\ UNCHANGED <<cmd, way, val, seen, out, fresh, mon, hooked, settingVars, recordVars>>

\* The handler's copy of the settings is its own, or one for all requests on
\* the path.
Copy(c, v) ==
  IF way[c] \in K.shared
    THEN slot' = [slot EXCEPT ![way[c]] = v] /\ val' = val
    ELSE slot' = slot /\ val' = [val EXCEPT ![c] = v]
Copied(c) == IF way[c] \in K.shared THEN slot[way[c]] ELSE val[c]

SetCopy(c) ==
  /\ pc[c] = "copy"
  /\ Copy(c, val[c])
  /\ Goto(c, "assign")
  /\ UNCHANGED <<cmd, way, ret, seen, out, fresh, lockVars,
                 setting, asked, active, alloced, recordVars>>

SetAssign(c) ==
  /\ pc[c] = "assign"
  /\ \/ Answer(c, "ok") /\ setting' = Copied(c)
        /\ seen' = [d \in Clients |-> seen[d] \cup {Copied(c)}]
     \/ K.checks /\ Answer(c, "inval") /\ UNCHANGED <<setting, seen>>
  /\ UNCHANGED <<cmd, way, val, out, fresh, mon, hooked, asked, active, alloced, slot, recordVars>>

GetRead(c) ==
  /\ pc[c] = "read"
  /\ Copy(c, setting)
  /\ Goto(c, "show")
  /\ UNCHANGED <<cmd, way, ret, seen, out, fresh, lockVars,
                 setting, asked, active, alloced, recordVars>>

GetShow(c) ==
  /\ pc[c] = "show"
  /\ val' = [val EXCEPT ![c] = Copied(c)]
  /\ fresh' = [fresh EXCEPT ![c] = TRUE]
  /\ Answer(c, "ok")
  /\ UNCHANGED <<cmd, way, seen, out, mon, hooked, settingVars, recordVars>>

\* A record is written, or dropped if the buffer is full.
Write(i, kind) ==
  /\ Len(made) < MaxRecords /\ alloced /\ Len(buffer) < 2
  /\ made' = Append(made, kind) /\ buffer' = Append(buffer, i)

\* DUMP, before it takes the backup.
Gather(c) ==
  /\ pc[c] = "gather" /\ (alloced \/ ~K.tests)
  /\ \/ K.gathers /\ \E kind \in Kinds(Row) : Write(Len(made) + 1, kind)
     \/ UNCHANGED <<made, buffer>>
  /\ Goto(c, "backup")
  /\ UNCHANGED <<cmd, way, ret, val, seen, out, fresh, lockVars, settingVars,
                 product, done, gone, crossed>>

GatherInvalid(c) ==
  /\ pc[c] = "gather" /\ ~alloced /\ K.tests
  /\ Answer(c, "inval")
  /\ UNCHANGED <<cmd, way, val, seen, out, fresh, mon, hooked, settingVars, recordVars>>

Copying == {c \in Clients : pc[c] = "copyout"}

Backup(c) ==
  /\ pc[c] = "backup"
  /\ product' = buffer /\ buffer' = <<>>
  /\ crossed' = crossed \cup (IF Copying = {} THEN {} ELSE {way[d] : d \in Copying \cup {c}})
  /\ Goto(c, "copyout")
  /\ UNCHANGED <<cmd, way, ret, val, seen, out, fresh, lockVars, settingVars, made, done, gone>>

\* The report is cut at the size that the tool asked for.  What stays in the
\* backup is never looked at again.
CopyOut(c) ==
  /\ pc[c] = "copyout"
  /\ \E n \in 0 .. Len(product) :
       /\ Fits(Form(c), way[c], Len(product)) => n = Len(product)
       /\ out' = [out EXCEPT ![c] = SubSeq(product, 1, n)]
       /\ gone' = gone \cup {product[i] : i \in n + 1 .. Len(product)}
  /\ product' = IF Copying = {c} THEN <<>> ELSE product
  /\ fresh' = [fresh EXCEPT ![c] = TRUE]
  /\ Answer(c, "ok")
  /\ UNCHANGED <<cmd, way, val, seen, mon, hooked, settingVars, made, buffer, done, crossed>>

-----------------------------------------------------------------------------
(* The tool takes the answer.                                              *)

BackSet(c) ==
  /\ pc[c] = "back" /\ cmd[c] = "set" /\ ret[c] = "ok"
  /\ asked' = val[c]
  /\ Goto(c, "activate")
  /\ UNCHANGED <<cmd, way, ret, val, seen, out, fresh, lockVars,
                 setting, active, alloced, slot, recordVars>>

BackEnd(c) ==
  /\ pc[c] = "back" /\ (cmd[c] = "get" \/ (cmd[c] = "set" /\ ret[c] # "ok"))
  /\ End(c)
  /\ UNCHANGED <<lockVars, settingVars, recordVars>>

\* Mutant: a failed request is decoded as well.
MutDecodes(c) == Form(c).len => out[c] # <<>>
Decodes(c) == ret[c] = "ok" /\ (Form(c).len => out[c] # <<>>)

Times(c) == IF way[c] \in Form(c).twice THEN 2 ELSE 1

BackDump(c) ==
  /\ pc[c] = "back" /\ IsDump(c)
  /\ LET medium == IF cmd[c] = "log" THEN "log" ELSE "text"
         mine == {out[c][i] : i \in DOMAIN out[c]}
         printed == IF Decodes(c) THEN {i \in mine : medium \in made[i]} ELSE {}
     IN  IF fresh[c]
           THEN /\ done' = [i \in DOMAIN done |->
                              IF i \in printed THEN done[i] + Times(c) ELSE done[i]]
                /\ gone' = gone \cup (mine \ printed)
           ELSE UNCHANGED <<done, gone>>
  /\ IF Form(c).again /\ (cmd[c] = "log" \/ (ret[c] = "ok" /\ out[c] # <<>>))
       THEN /\ Goto(c, IF cmd[c] = "log" THEN "asleep" ELSE "call")
            /\ UNCHANGED <<cmd, way, ret, val, seen, out, fresh>>
       ELSE End(c)
  /\ UNCHANGED <<lockVars, settingVars, made, buffer, product, crossed>>

\* A log goes on after 10 seconds.
Wake(c) ==
  /\ pc[c] = "asleep"
  /\ Goto(c, "call")
  /\ UNCHANGED <<cmd, way, ret, val, seen, out, fresh, lockVars, settingVars, recordVars>>

Kill(c) ==
  /\ pc[c] = "asleep"
  /\ End(c)
  /\ UNCHANGED <<lockVars, settingVars, recordVars>>

\* The controller file: an activation can fail, and nobody is told.
Activate(c) ==
  /\ pc[c] = "activate" /\ sem = None
  /\ \/ active' = TRUE /\ alloced' = TRUE
     \/ UNCHANGED <<active, alloced>>
  /\ End(c)
  /\ UNCHANGED <<lockVars, setting, asked, slot, recordVars>>

Deactivate ==
  /\ pc[Operator] = "idle" /\ active /\ sem = None
  /\ active' = FALSE
  /\ UNCHANGED <<clientVars, lockVars, setting, asked, alloced, slot, recordVars>>

\* "syscall on" and "syscall off".
Switch ==
  /\ hooked' = ~hooked
  /\ UNCHANGED <<clientVars, mon, sem, own, settingVars, recordVars>>

\* A handler of the monitor writes a record.
Emit ==
  /\ active
  /\ \E kind \in Kinds(Row) : Write(Len(made) + 1, kind)
  /\ UNCHANGED <<clientVars, lockVars, settingVars, product, done, gone, crossed>>

Serve(c) ==
  \/ Call(c) \/ Handle(c) \/ SetTest(c) \/ SetBusy(c) \/ SetCopy(c)
  \/ SetAssign(c) \/ GetRead(c) \/ GetShow(c) \/ Gather(c) \/ GatherInvalid(c)
  \/ Backup(c) \/ CopyOut(c) \/ BackSet(c) \/ BackEnd(c) \/ BackDump(c)

Next ==
  \/ \E c \in Clients : \/ Start(c) \/ Down(c) \/ Serve(c)
                        \/ Activate(c) \/ Wake(c) \/ Kill(c)
  \/ Deactivate \/ Switch \/ Emit

Spec == Init /\ [][Next]_vars

\* Every task runs again, down() serves its waiters in order, and the log wakes
\* up when its time is over.
FairSpec ==
  /\ Spec
  /\ \A c \in Clients : WF_vars(Serve(c) \/ Wake(c)) /\ SF_vars(Down(c)) /\ SF_vars(Handle(c))

-----------------------------------------------------------------------------
(* Properties.  The exceptions are the monitors of which they are not true. *)

\* One copy of the settings for all ioctls, which SETTINGS uses with no lock.
OneCopy == {"perf", "sched_delay", "throttle_delay", "pmu"}
\* The tool does not prepare ret for a system call that nobody answers.
Unprepared == {"exec_monitor", "fs_orphan", "net_bandwidth"}
\* DUMP runs under a mutex of the monitor's own, in uprobe by ioctl only.
OwnMutex == {"irq_stats"}
HalfMutex == {"uprobe"}
\* The tool has room for all that the buffer can hold.
Roomy == {"rss_monitor", "kprobe", "uprobe"}
\* do_dump decodes the report of an ioctl twice.
Twice == {"fs_shm"}

\* The variables have their types.
TypeOK ==
  /\ mon \in Monitors /\ hooked \in BOOLEAN
  /\ sem \in Clients \cup {None} /\ own \in Clients \cup {None}
  /\ setting \in Values /\ asked \in Values /\ slot \in [Paths -> Values]
  /\ active \in BOOLEAN /\ alloced \in BOOLEAN
  /\ made \in Seq(SUBSET Media) /\ buffer \in Seq(Records) /\ product \in Seq(Records)
  /\ Len(buffer) <= 2 /\ gone \subseteq Records /\ crossed \subseteq Paths
  /\ \A c \in Clients :
       /\ cmd[c] \in Commands[c] \cup {"get"} /\ way[c] \in Paths /\ val[c] \in Values
       /\ ret[c] \in {"ok", "one", "nosys", "busy", "inval"} /\ fresh[c] \in BOOLEAN
       /\ seen[c] \subseteq Values /\ out[c] \in Seq(Records)

\* An active monitor runs with the settings of the activation that the tool
\* reported: SET is refused while it is active, and what SET copied is what it
\* assigns, whatever other requests do in between.
RunsAsAsked ==
  active => setting = asked \/ mon \in OneCopy \cup Unprepared

\* What SETTINGS shows was the settings at some time during the request.
GetsTheTruth ==
  \A c \in Clients :
    pc[c] = "back" /\ cmd[c] = "get" /\ ret[c] = "ok"
      => (fresh[c] /\ val[c] \in seen[c])
         \/ mon \in OneCopy \cup (Unprepared \ {"exec_monitor"})

\* The tool decodes only what the present request has brought.  A log that does
\* not prepare ret repeats the last report once the system calls are switched
\* off, and so it may only do by a system call.
DecodesOnlyReports ==
  \A c \in Clients :
    pc[c] = "back" /\ IsDump(c) /\ Decodes(c)
      => \/ fresh[c]
         \/ way[c] = "syscall" /\ cmd[c] = "log" /\ Row.log.ret # "nosys"
         \/ mon = "fs_orphan"

\* How often record i is somewhere on its way or at its end.
Places(i) ==
  Cardinality({<<"buffer", n>> : n \in {n \in DOMAIN buffer : buffer[n] = i}}
    \cup {<<"product", n>> : n \in {n \in DOMAIN product : product[n] = i}}
    \cup (UNION {{<<c, n>> : n \in {n \in DOMAIN out[c] : out[c][n] = i}} :
                  c \in {c \in Clients : IsDump(c) /\ fresh[c] /\ pc[c] = "back"}})
    \cup {<<"gone", 0>> : j \in gone \cap {i}})
  + done[i]

\* Each record is printed or logged once, however many requests there are at the
\* same time: two DUMPs share the backup, and only the semaphore of the system
\* calls, or the monitor's own mutex, keeps them apart; uprobe's keeps ioctls
\* apart, but not an ioctl from a system call.  A record may get lost only where
\* the tool asks for less than the buffer holds or leaves its kind out.
EachRecordOnce ==
  /\ crossed # {} =>
       "ioctl" \in crossed /\ mon \notin OwnMutex /\ (mon \in HalfMutex => crossed = Paths)
  /\ crossed = {} /\ mon \notin Twice => \A i \in Records : Places(i) = 1
  /\ crossed = {} /\ gone # {} => mon \notin Roomy

\* A log that goes on, by ioctl or while the system calls are switched on,
\* comes to every record.
LogsAll ==
  \A c \in Clients :
    (<>[](cmd[c] = "log" /\ pc[c] # "idle") /\ <>[](way[c] = "ioctl" \/ hooked))
      => \A i \in 1 .. MaxRecords :
           [](i \in Records => <>(i \notin {buffer[n] : n \in DOMAIN buffer}))
=============================================================================
