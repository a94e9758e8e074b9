-------------------------- MODULE SupervisorProofs --------------------------
(* What the runs of MCSupervisor check on small engines, for every          *)
(* registry, policy and pool of processes.                                  *)
EXTENDS Supervisor, TLAPS

Waiting == {"stop", "reload", "quit"}

\* A record that says "running", and a job that waits, name a process of their
\* script: processes are recycled only when nothing refers to them.
RecordsOK ==
  /\ \A t \in Thread, s \in Script :
       dict[t][s].status = "running" =>
         dict[t][s].proc \in Child /\ child[dict[t][s].proc].script = s
  /\ \A s \in Script :
       fresh[s].status = "running" =>
         fresh[s].proc \in Child /\ child[fresh[s].proc].script = s
  /\ \A t \in Thread :
       job[t].kind \in Waiting =>
         /\ job[t].proc \in Child /\ job[t].script \in Script
         /\ child[job[t].proc].script = job[t].script
  /\ \A t \in Thread : job[t].kind = "launch" => job[t].script \in Script
  /\ \A c \in Child : child[c].alive => child[c].script \in Script

\* Where the main thread can be while it has a job, and what a pass leaves.
PlacesOK ==
  /\ mainPc \in {"boot", "monitor", "console", "exited"} =>
       job["main"] = Idle /\ batch["main"] = {}
  /\ mainPc = "drain" => job["main"].kind # "quit"
  /\ mainPc = "shutdown" =>
       (job["main"] = Idle \/ job["main"].kind = "quit") /\ batch["main"] = {}
  /\ job["admin"].kind # "quit"
  /\ mainPc # "monitor" => \A s \in Script : fresh[s] = Absent
  /\ mainPc = "monitor" => \A s \in todo : fresh[s] = Absent
  /\ mainPc \in {"boot", "exited"} => job["admin"] = Idle /\ batch["admin"] = {}
  /\ mainPc = "boot" => shared /\ \A s \in Script : halted[s] = None

\* Before the dicts part, every process counts as launched at boot.
EraOK == shared => \A c \in Child : child[c].by = "boot"

\* A live process is in the dict of the thread that launched it.
TrackedOK ==
  /\ NoLostChild
  /\ \A c \in Child :
       child[c].alive /\ child[c].by = "admin" /\ Up =>
         dict["admin"][child[c].script] = Running(c)
  /\ mainPc = "monitor" /\ ~shared =>
       \A s \in Script \ todo :
         dict["main"][s].status = "running" /\ child[dict["main"][s].proc].alive =>
           fresh[s] = dict["main"][s]

\* A thread that waits for a process, or is about to launch one, has no other
\* live process of that script.
JobsOK ==
  \A t \in Thread :
    /\ job[t].kind \in {"stop", "reload"} => Mine(t, job[t].script) \subseteq {job[t].proc}
    /\ job[t].kind = "launch" => Mine(t, job[t].script) = {}

\* The final stops have not reached a live process yet, or wait for it.
ExitOK ==
  /\ mainPc = "shutdown" /\ cause = "quit" =>
       \A c \in Child :
         child[c].alive /\ child[c].by = "main" =>
           /\ dict["main"][child[c].script] = Running(c)
           /\ child[c].script \in todo \/ job["main"].proc = c
  /\ mainPc \notin {"shutdown", "exited"} <=> cause = "none"

IInv ==
  /\ TypeOK /\ RecordsOK /\ PlacesOK /\ EraOK /\ TrackedOK /\ JobsOK /\ ExitOK
  /\ OnePerLauncher /\ CleanExit /\ ConsoleStopSticks

-----------------------------------------------------------------------------
(* Types of the operators that the actions are made of.                     *)

\* Every record constructor of process_wrapper.py yields a process record.
LEMMA RecordTypes ==
  /\ Absent \in Record /\ Crashed \in Record
  /\ \A c \in Child : Running(c) \in Record
  /\ \A z \in BOOLEAN : Stopped(z) \in Record
  /\ Idle \in Job
BY DEF Absent, Crashed, Running, Stopped, Record, Idle, Job

\* Storing a record under a script keeps both dicts well typed.
LEMMA PutType ==
  ASSUME TypeOK, NEW t \in Thread, NEW s \in Script, NEW r \in Record, Put(t, s, r)
  PROVE  dict' \in [Thread -> [Script -> Record]]
BY DEF TypeOK, Put

\* A launch keeps the processes well typed.
LEMMA SpawnType ==
  ASSUME TypeOK, NEW c \in Child, NEW s \in Script,
         NEW who \in {"boot", "main", "admin"}, Spawn(c, s, who)
  PROVE  child' \in [Child -> Process]
BY DEF TypeOK, Spawn, Process

\* A killed process is a process.
LEMMA KilledType ==
  ASSUME TypeOK, NEW c \in Child
  PROVE  Killed(c) \in [Child -> Process]
BY DEF TypeOK, Killed, Process

\* The launcher of a thread is one of the three marks.
LEMMA LauncherType ==
  ASSUME NEW t \in Thread
  PROVE  Launcher(t) \in {"boot", "main", "admin"}
BY DEF Launcher, Thread

-----------------------------------------------------------------------------
(* Type correctness.                                                        *)

\* The initial state is well typed.
LEMMA InitType == Init => TypeOK
BY RecordTypes, EnabledAssumption, EventsAssumption DEF Init, TypeOK, Process, Thread, Record

\* A waiting job names a live or dead process of the pool, and so does a record
\* that says "running"; with that, every step keeps the types.
LEMMA ThreadStepType ==
  ASSUME TypeOK, RecordsOK, NEW t \in Thread, ThreadStep(t)
  PROVE  TypeOK'
<1> USE DEF mainVars
<1>1. CASE StopTimeout(t)
  <2>1. job[t].proc \in Child
    BY <1>1 DEF StopTimeout, RecordsOK, Waiting
  <2>2. child' \in [Child -> Process]
    BY <1>1, <2>1, KilledType DEF StopTimeout
  <2> QED BY <1>1, <2>2 DEF StopTimeout, TypeOK
<1>2. CASE StopDone(t)
  <2>1. job[t].proc \in Child /\ job[t].script \in Script /\ job[t] \in Job
    BY <1>2 DEF StopDone, RecordsOK, Waiting, TypeOK
  <2>2. Stopped(child[job[t].proc].ok) \in Record
    BY <2>1, RecordTypes DEF TypeOK, Process
  <2>3. dict' \in [Thread -> [Script -> Record]]
    BY <1>2, <2>1, <2>2, PutType DEF StopDone, TypeOK
  <2>4. job' \in [Thread -> Job]
    <3>1. [kind |-> "launch", script |-> job[t].script, proc |-> None] \in Job
      BY <2>1 DEF Job
    <3> QED BY <1>2, <3>1, RecordTypes DEF StopDone, TypeOK
  <2>5. halted' \in [Script -> Thread \cup {None}]
    BY <1>2, <2>1 DEF StopDone, TypeOK
  <2> QED BY <1>2, <2>3, <2>4, <2>5 DEF StopDone, TypeOK
<1>3. CASE LaunchDone(t)
  <2>1. job[t].script \in Script
    BY <1>3 DEF LaunchDone, RecordsOK
  <2>2. child' \in [Child -> Process] /\ dict' \in [Thread -> [Script -> Record]]
    <3>1. CASE \E c \in Child : /\ Spawn(c, job[t].script, Launcher(t))
                                /\ Put(t, job[t].script, Running(c))
      BY <2>1, <3>1, SpawnType, PutType, RecordTypes, LauncherType
    <3>2. CASE Put(t, job[t].script, Crashed) /\ UNCHANGED child
      BY <2>1, <3>2, PutType, RecordTypes DEF TypeOK
    <3> QED BY <1>3, <3>1, <3>2 DEF LaunchDone
  <2>3. job' \in [Thread -> Job]
    BY <1>3, RecordTypes DEF LaunchDone, TypeOK
  <2>4. /\ halted' \in [Script -> Thread \cup {None}]
        /\ recent' \in [Script -> BOOLEAN]
        /\ batch' \in [Thread -> SUBSET Script]
    BY <1>3, <2>1 DEF LaunchDone, TypeOK
  <2> QED BY <1>3, <2>2, <2>3, <2>4 DEF LaunchDone, TypeOK
<1>4. ASSUME NEW s \in Script, ReloadNext(t, s)
      PROVE  TypeOK'
  <2>1. dict[t][s].status = "running" => dict[t][s].proc \in Child
    BY DEF RecordsOK
  <2>2. job' \in [Thread -> Job]
    <3>1. PICK j : (job' = [job EXCEPT ![t] = j] /\ j \in Job) \/ job' = job
      <4>1. CASE recent[s]
        BY <1>4, <4>1 DEF ReloadNext
      <4>2. CASE ~recent[s] /\ dict[t][s].status = "running"
        <5>1. [kind |-> "reload", script |-> s, proc |-> dict[t][s].proc] \in Job
          BY <1>4, <2>1, <4>2 DEF Job
        <5>. QED  BY <1>4, <4>2, <5>1 DEF ReloadNext
      <4>3. CASE ~recent[s] /\ dict[t][s].status # "running"
        <5>1. [kind |-> "launch", script |-> s, proc |-> None] \in Job
          BY <1>4 DEF Job
        <5>. QED  BY <1>4, <4>3, <5>1 DEF ReloadNext
      <4>. QED  BY <4>1, <4>2, <4>3
    <3>. QED  BY <3>1 DEF TypeOK
  <2>3. batch' \in [Thread -> SUBSET Script]
    BY <1>4 DEF ReloadNext, TypeOK
  <2> QED BY <1>4, <2>2, <2>3 DEF ReloadNext, TypeOK
<1> QED BY <1>1, <1>2, <1>3, <1>4 DEF ThreadStep

\* A command sets up a well typed job or batch.
LEMMA CommandType ==
  ASSUME TypeOK, RecordsOK, NEW t \in Thread, Command(t)
  PROVE  job' \in [Thread -> Job] /\ batch' \in [Thread -> SUBSET Script]
<1>1. \A s \in Script : dict[t][s].status = "running" => dict[t][s].proc \in Child
  BY DEF RecordsOK
<1>2. Entries(dict[t]) \subseteq Script
  BY DEF Entries
<1>3. ASSUME NEW s \in Script, NEW j \in Job, job' = [job EXCEPT ![t] = j]
      PROVE  job' \in [Thread -> Job]
  BY <1>3 DEF TypeOK
<1>4. ASSUME NEW b \in SUBSET Script, batch' = [batch EXCEPT ![t] = b]
      PROVE  batch' \in [Thread -> SUBSET Script]
  BY <1>4 DEF TypeOK
<1>5. \A s \in Script :
        /\ [kind |-> "launch", script |-> s, proc |-> None] \in Job
        /\ dict[t][s].status = "running" =>
             [kind |-> "stop", script |-> s, proc |-> dict[t][s].proc] \in Job
  BY <1>1 DEF Job
<1>6. job' \in [Thread -> Job]
  BY <1>3, <1>5 DEF Command, TypeOK
<1>7. batch' \in [Thread -> SUBSET Script]
  BY <1>2, <1>4 DEF Command, TypeOK
<1> QED BY <1>6, <1>7

\* The health check of a record yields a record, and what monitoring keeps is one.
LEMMA MonitorTypes ==
  ASSUME TypeOK, NEW s \in Script, NEW r \in Record
  PROVE  Health(r) \in Record /\ Kept(s, r) \in Record
BY RecordTypes DEF Health, Kept

\* Leaving the loop keeps the types.
LEMMA LeaveType ==
  ASSUME TypeOK, NEW why \in {"quit", "interrupt", "error"}, Leave(why)
  PROVE  TypeOK'
BY RecordTypes DEF Leave, TypeOK, Entries

\* The steps of the main thread outside its commands.
LEMMA MainStepType ==
  ASSUME TypeOK, RecordsOK, MainStep
  PROVE  TypeOK'
<1> USE DEF mainVars
<1>1. ASSUME NEW s \in Script, BootStart(s)
      PROVE  TypeOK'
  <2>1. child' \in [Child -> Process] /\ dict' \in [Thread -> [Script -> Record]]
    <3>1. CASE \E c \in Child : Spawn(c, s, "boot") /\ Put("main", s, Running(c))
      BY <3>1, SpawnType, PutType, RecordTypes DEF Thread
    <3>2. CASE Put("main", s, Crashed) /\ UNCHANGED child
      BY <3>2, PutType, RecordTypes DEF Thread, TypeOK
    <3> QED BY <1>1, <3>1, <3>2 DEF BootStart
  <2> QED BY <1>1, <2>1 DEF BootStart, TypeOK
<1>2. ASSUME NEW s \in Script, ShutdownNext(s)
      PROVE  TypeOK'
  <2>1. dict["main"][s].status = "running" => dict["main"][s].proc \in Child
    BY DEF RecordsOK, Thread
  <2>2. job' \in [Thread -> Job]
    BY <1>2, <2>1 DEF ShutdownNext, TypeOK, Job
  <2> QED BY <1>2, <2>2 DEF ShutdownNext, TypeOK
<1>3. CASE BootDone
  BY <1>3 DEF BootDone, TypeOK
<1>4. CASE DrainEvent
  <2>1. Head(queue) \in Script /\ Tail(queue) \in Seq(Script) /\ Len(Tail(queue)) <= MaxEvents
    BY <1>4, EventsAssumption DEF DrainEvent, TypeOK
  <2>2. batch' \in [Thread -> SUBSET Script]
    BY <1>4, <2>1 DEF DrainEvent, TypeOK
  <2> QED BY <1>4, <2>1, <2>2 DEF DrainEvent, TypeOK
<1>5. CASE MonitorBegin
  BY <1>5, RecordTypes DEF MonitorBegin, TypeOK, Entries
<1>6. CASE MonitorEnd
  BY <1>6, RecordTypes DEF MonitorEnd, TypeOK, Thread
<1>7. ASSUME NEW s \in Script, MonitorKeep(s)
      PROVE  TypeOK'
  <2> DEFINE r == dict["main"][s]
  <2>1. r \in Record /\ (r.status = "running" => r.proc \in Child)
    BY DEF RecordsOK, TypeOK, Thread
  <2>2. child' \in [Child -> Process]
    BY <1>7, <2>1, KilledType DEF MonitorKeep, TypeOK
  <2>3. fresh' \in [Script -> Record]
    <3>1. Health(r) \in Record
      BY <2>1, MonitorTypes
    <3>2. Kept(s, Stopped(FALSE)) \in Record /\ Kept(s, Health(r)) \in Record
      BY <3>1, MonitorTypes, RecordTypes
    <3> QED BY <1>7, <3>2 DEF MonitorKeep, TypeOK
  <2> QED BY <1>7, <2>2, <2>3 DEF MonitorKeep, TypeOK
<1>8. ASSUME NEW s \in Script, MonitorRestart(s)
      PROVE  TypeOK'
  <2>1. child' \in [Child -> Process] /\ fresh' \in [Script -> Record]
    <3>1. CASE \E c \in Child : /\ Spawn(c, s, Launcher("main"))
                                /\ fresh' = [fresh EXCEPT ![s] = Running(c)]
      BY <3>1, SpawnType, RecordTypes, LauncherType DEF Thread, TypeOK
    <3>2. CASE fresh' = [fresh EXCEPT ![s] = Crashed] /\ UNCHANGED child
      BY <3>2, RecordTypes DEF TypeOK
    <3> QED BY <1>8, <3>1, <3>2 DEF MonitorRestart
  <2> QED BY <1>8, <2>1 DEF MonitorRestart, TypeOK
<1>9. CASE MonitorTorn
  BY <1>9, LeaveType DEF MonitorTorn
<1>10. CASE NoInput
  BY <1>10 DEF NoInput, TypeOK
<1>11. CASE ShutdownDone
  BY <1>11, RecordTypes DEF ShutdownDone, TypeOK
<1> QED BY <1>1, <1>2, <1>3, <1>4, <1>5, <1>6, <1>7, <1>8, <1>9, <1>10, <1>11
        DEF MainStep, MonitorStep

\* The steps of operators, children, drain threads, watchers and clocks.
LEMMA EnvironmentType ==
  ASSUME TypeOK, RecordsOK, Environment
  PROVE  TypeOK'
<1> USE DEF mainVars
<1>1. CASE AdminCommand
  <2>1. job' \in [Thread -> Job] /\ batch' \in [Thread -> SUBSET Script]
    BY <1>1, CommandType DEF AdminCommand, Thread
  <2> QED BY <1>1, <2>1 DEF AdminCommand, TypeOK
<1>2. CASE ConsoleCommand
  <2>1. job' \in [Thread -> Job] /\ batch' \in [Thread -> SUBSET Script]
    BY <1>2, CommandType DEF ConsoleCommand, Thread
  <2> QED BY <1>2, <2>1 DEF ConsoleCommand, TypeOK
<1>3. CASE Quit
  BY <1>3, LeaveType DEF Quit
<1>8. CASE Interrupt
  BY <1>8, LeaveType DEF Interrupt
<1>4. CASE BootInterrupt
  BY <1>4 DEF BootInterrupt, TypeOK
<1>9. CASE InterruptAgain
  BY <1>9, RecordTypes DEF InterruptAgain, TypeOK
<1>5. ASSUME NEW c \in Child, ChildExits(c) \/ DrainSees(c)
      PROVE  TypeOK'
  <2>1. child' \in [Child -> Process]
    <3>1. CASE ChildExits(c)
      <4>1. PICK ok \in BOOLEAN :
              child' = [child EXCEPT ![c] = [@ EXCEPT !.alive = FALSE, !.ok = ok]]
        BY <3>1 DEF ChildExits
      <4>2. child[c] \in Process
        BY DEF TypeOK
      <4>3. [child[c] EXCEPT !.alive = FALSE, !.ok = ok] \in Process
        BY <4>2 DEF Process
      <4> QED BY <4>1, <4>3 DEF TypeOK
    <3>2. CASE DrainSees(c)
      <4>1. child' = [child EXCEPT ![c] = [@ EXCEPT !.seen = TRUE]]
        BY <3>2 DEF DrainSees
      <4>2. child[c] \in Process
        BY DEF TypeOK
      <4>3. [child[c] EXCEPT !.seen = TRUE] \in Process
        BY <4>2 DEF Process
      <4> QED BY <4>1, <4>3 DEF TypeOK
    <3> QED BY <1>5, <3>1, <3>2
  <2> QED BY <1>5, <2>1 DEF ChildExits, DrainSees, TypeOK
<1>6. ASSUME NEW s \in Script, FileChanged(s)
      PROVE  TypeOK'
  <2>1. queue' \in Seq(Script) /\ Len(queue') <= MaxEvents
    BY <1>6, EventsAssumption DEF FileChanged, TypeOK
  <2> QED BY <1>6, <2>1 DEF FileChanged, TypeOK
<1>7. ASSUME NEW s \in Script, DebounceEnds(s)
      PROVE  TypeOK'
  BY <1>7 DEF DebounceEnds, TypeOK
<1> QED BY <1>1, <1>2, <1>3, <1>4, <1>5, <1>6, <1>7, <1>8, <1>9 DEF Environment

\* Every step keeps the types.
LEMMA NextType ==
  ASSUME TypeOK, RecordsOK, [Next]_vars
  PROVE  TypeOK'
<1>1. CASE UNCHANGED vars
  BY <1>1 DEF vars, TypeOK
<1> QED BY <1>1, ThreadStepType, MainStepType, EnvironmentType DEF Next

-----------------------------------------------------------------------------
(* Records and jobs name processes of their own script.                      *)

\* What happens to a process that nobody launches in this step.
Calm(p) ==
  /\ child'[p].script = child[p].script
  /\ child'[p].by = child[p].by
  /\ child'[p].alive => child[p].alive

\* A launch disturbs the one process it recycles.
LEMMA SpawnMoves ==
  ASSUME TypeOK, NEW c \in Child, NEW s \in Script,
         NEW who \in {"boot", "main", "admin"}, Spawn(c, s, who)
  PROVE  /\ \A p \in Child : p # c => child'[p] = child[p]
         /\ child'[c].script = s /\ child'[c].by = who /\ child'[c].alive
BY DEF TypeOK, Spawn

\* A kill leaves every process its script and its launcher.
LEMMA KilledMoves ==
  ASSUME TypeOK, NEW c \in Child, child' = Killed(c)
  PROVE  \A p \in Child : Calm(p)
BY DEF TypeOK, Killed, Calm, Process

\* No action but a launch gives life to a process, and a launch records it: at
\* boot, as the end of a command or a reload, or in the pass that restarts it.
LEMMA Launches ==
  ASSUME TypeOK, RecordsOK, [Next]_vars, NEW p \in Child, ~Calm(p)
  PROVE  /\ Free(p)
         /\ \/ \E s \in Script :
                 BootStart(s) /\ Spawn(p, s, "boot") /\ Put("main", s, Running(p))
            \/ \E t \in Thread :
                 /\ LaunchDone(t) /\ job[t].kind = "launch" /\ job[t].script \in Script
                 /\ Spawn(p, job[t].script, Launcher(t)) /\ Put(t, job[t].script, Running(p))
            \/ \E s \in Script :
                 /\ MonitorRestart(s) /\ Spawn(p, s, Launcher("main"))
                 /\ fresh' = [fresh EXCEPT ![s] = Running(p)]
<1> USE DEF mainVars
<1> DEFINE Goal ==
  /\ Free(p)
  /\ \/ \E s \in Script : BootStart(s) /\ Spawn(p, s, "boot") /\ Put("main", s, Running(p))
     \/ \E t \in Thread :
          /\ LaunchDone(t) /\ job[t].kind = "launch" /\ job[t].script \in Script
          /\ Spawn(p, job[t].script, Launcher(t)) /\ Put(t, job[t].script, Running(p))
     \/ \E s \in Script :
          /\ MonitorRestart(s) /\ Spawn(p, s, Launcher("main"))
          /\ fresh' = [fresh EXCEPT ![s] = Running(p)]
<1>0. ASSUME UNCHANGED child
      PROVE  FALSE
  BY <1>0 DEF Calm
<1>1. ASSUME NEW c \in Child, NEW s \in Script, NEW who \in {"boot", "main", "admin"},
             Spawn(c, s, who)
      PROVE  c = p
  BY <1>1, SpawnMoves DEF Calm
<1>2. ASSUME NEW s \in Script, BootStart(s)
      PROVE  Goal
  <2>1. PICK c \in Child : Free(c) /\ Spawn(c, s, "boot") /\ Put("main", s, Running(c))
    BY <1>0, <1>2 DEF BootStart
  <2> QED BY <1>1, <1>2, <2>1
<1>3. ASSUME NEW t \in Thread, LaunchDone(t)
      PROVE  Goal
  <2>1. job[t].script \in Script /\ job[t].kind = "launch"
    BY <1>3 DEF LaunchDone, RecordsOK
  <2>2. PICK c \in Child : /\ Free(c) /\ Spawn(c, job[t].script, Launcher(t))
                           /\ Put(t, job[t].script, Running(c))
    BY <1>0, <1>3 DEF LaunchDone
  <2>3. c = p
    BY <1>1, <2>1, <2>2, LauncherType
  <2> QED BY <1>3, <2>1, <2>2, <2>3
<1>4. ASSUME NEW s \in Script, MonitorRestart(s)
      PROVE  Goal
  <2>1. PICK c \in Child : /\ Free(c) /\ Spawn(c, s, Launcher("main"))
                           /\ fresh' = [fresh EXCEPT ![s] = Running(c)]
    BY <1>0, <1>4 DEF MonitorRestart
  <2>2. c = p
    BY <1>1, <2>1, LauncherType DEF Thread
  <2> QED BY <1>4, <2>1, <2>2
<1>5. ASSUME NEW c \in Child, child' = Killed(c)
      PROVE  FALSE
  BY <1>5, KilledMoves
<1>6. ASSUME NEW t \in Thread, StopTimeout(t)
      PROVE  FALSE
  <2>1. job[t].proc \in Child
    BY <1>6 DEF StopTimeout, RecordsOK, Waiting
  <2> QED BY <1>5, <1>6, <2>1 DEF StopTimeout
<1>7. ASSUME NEW s \in Script, MonitorKeep(s)
      PROVE  FALSE
  <2>1. dict["main"][s].status = "running" => dict["main"][s].proc \in Child
    BY DEF RecordsOK, Thread
  <2> QED BY <1>0, <1>5, <1>7, <2>1 DEF MonitorKeep
<1>8. ASSUME NEW c \in Child, ChildExits(c) \/ DrainSees(c)
      PROVE  FALSE
  <2>1. CASE ChildExits(c)
    <3>1. PICK ok \in BOOLEAN :
            child' = [child EXCEPT ![c] = [@ EXCEPT !.alive = FALSE, !.ok = ok]]
      BY <2>1 DEF ChildExits
    <3>2. child[c] \in Process /\ child[p] \in Process
      BY DEF TypeOK
    <3>3. p # c => child'[p] = child[p]
      BY <3>1 DEF TypeOK
    <3>4. p = c => child'[p] = [child[c] EXCEPT !.alive = FALSE, !.ok = ok]
      BY <3>1 DEF TypeOK
    <3>5. CASE p = c
      <4>1. /\ child'[p].script = child[c].script
            /\ child'[p].by = child[c].by
            /\ child'[p].alive = FALSE
        BY <3>2, <3>4, <3>5 DEF Process
      <4> QED BY <3>5, <4>1 DEF Calm
    <3> QED BY <3>3, <3>5 DEF Calm
  <2>2. CASE DrainSees(c)
    BY <2>2 DEF DrainSees, Calm, TypeOK, Process
  <2> QED BY <1>8, <2>1, <2>2
<1>9. CASE \/ \E t \in Thread : StopDone(t) \/ \E s \in Script : ReloadNext(t, s)
           \/ BootDone \/ DrainEvent \/ MonitorBegin \/ MonitorEnd \/ MonitorTorn
           \/ NoInput \/ ShutdownDone \/ \E s \in Script : ShutdownNext(s)
           \/ AdminCommand \/ ConsoleCommand \/ Quit \/ Interrupt \/ BootInterrupt \/ InterruptAgain
           \/ \E s \in Script : FileChanged(s) \/ DebounceEnds(s)
           \/ UNCHANGED vars
  BY <1>0, <1>9 DEF StopDone, ReloadNext, BootDone, DrainEvent, MonitorBegin, MonitorEnd,
     MonitorTorn, Leave, NoInput, ShutdownDone, ShutdownNext, AdminCommand, ConsoleCommand,
     Quit, Interrupt, BootInterrupt, InterruptAgain, FileChanged, DebounceEnds, vars
<1> QED BY <1>2, <1>3, <1>4, <1>6, <1>7, <1>8, <1>9
        DEF Next, ThreadStep, MainStep, MonitorStep, Environment

\* A step leaves every process alone that is alive or referred to, but for its
\* exit: the processes it launches were free before.
LEMMA ChildMoves ==
  ASSUME TypeOK, RecordsOK, [Next]_vars, NEW p \in Child
  PROVE  Calm(p) \/ Free(p)
BY Launches

\* Storing a record changes the entries of one script only, and stores it there.
LEMMA PutMoves ==
  ASSUME TypeOK, NEW t \in Thread, NEW s \in Script, NEW r, Put(t, s, r)
  PROVE  /\ \A u \in Thread, v \in Script :
              dict'[u][v] = dict[u][v] \/ (v = s /\ (u = t \/ shared) /\ dict'[u][v] = r)
         /\ dict'[t][s] = r
         /\ shared => \A u \in Thread : dict'[u][s] = r
BY DEF TypeOK, Put

\* Where a record that says "running" comes from: the dict, the pass that ends,
\* or a launch of this step.
LEMMA DictMoves ==
  ASSUME TypeOK, RecordsOK, [Next]_vars, NEW t \in Thread, NEW s \in Script,
         dict'[t][s].status = "running"
  PROVE  \/ dict'[t][s] = dict[t][s] \/ dict'[t][s] = fresh[s]
         \/ \E c \in Child : dict'[t][s] = Running(c) /\ child'[c].script = s
<1> USE DEF mainVars
<1> DEFINE Goal == \/ dict'[t][s] = dict[t][s] \/ dict'[t][s] = fresh[s]
                   \/ \E c \in Child : dict'[t][s] = Running(c) /\ child'[c].script = s
<1>1. ASSUME NEW u \in Thread, NEW v \in Script, NEW c \in Child,
             NEW who \in {"boot", "main", "admin"}, Spawn(c, v, who), Put(u, v, Running(c))
      PROVE  Goal
  <2>1. child'[c].script = v
    BY <1>1, SpawnMoves
  <2> QED BY <1>1, <2>1, PutMoves
<1>2. ASSUME NEW u \in Thread, NEW v \in Script, NEW r, r.status # "running", Put(u, v, r)
      PROVE  Goal
  BY <1>2, PutMoves
<1>3. Crashed.status # "running" /\ \A z : Stopped(z).status # "running"
  BY DEF Crashed, Stopped
<1>4. ASSUME NEW u \in Thread, ThreadStep(u)
      PROVE  Goal
  <2>1. CASE StopDone(u)
    <3>1. job[u].script \in Script
      BY <2>1 DEF StopDone, RecordsOK, Waiting
    <3> QED BY <2>1, <3>1, <1>2, <1>3 DEF StopDone
  <2>2. CASE LaunchDone(u)
    <3>1. job[u].script \in Script
      BY <2>2 DEF LaunchDone, RecordsOK
    <3> QED BY <2>2, <3>1, <1>1, <1>2, <1>3, LauncherType DEF LaunchDone
  <2>3. CASE StopTimeout(u) \/ \E v \in Script : ReloadNext(u, v)
    BY <2>3 DEF StopTimeout, ReloadNext
  <2> QED BY <1>4, <2>1, <2>2, <2>3 DEF ThreadStep
<1>5. ASSUME MainStep
      PROVE  Goal
  <2>1. ASSUME NEW v \in Script, BootStart(v)
        PROVE  Goal
    BY <2>1, <1>1, <1>2, <1>3 DEF BootStart, Thread
  <2>2. CASE MonitorEnd
    BY <2>2 DEF MonitorEnd, TypeOK
  <2>3. CASE \/ BootDone \/ DrainEvent \/ MonitorBegin \/ MonitorTorn \/ NoInput \/ ShutdownDone
             \/ \E v \in Script : MonitorKeep(v) \/ MonitorRestart(v) \/ ShutdownNext(v)
    BY <2>3 DEF BootDone, DrainEvent, MonitorBegin, MonitorTorn, Leave, NoInput,
                ShutdownDone, ShutdownNext, MonitorKeep, MonitorRestart
  <2> QED BY <1>5, <2>1, <2>2, <2>3 DEF MainStep, MonitorStep
<1>6. ASSUME Environment
      PROVE  Goal
  BY <1>6 DEF Environment, AdminCommand, ConsoleCommand, Quit, Interrupt, BootInterrupt,
     InterruptAgain, Leave, FileChanged, DebounceEnds, ChildExits, DrainSees
<1>7. CASE UNCHANGED vars
  BY <1>7 DEF vars
<1> QED BY <1>4, <1>5, <1>6, <1>7 DEF Next

\* A pass builds its dict from the old one and from what it launches.
LEMMA FreshMoves ==
  ASSUME TypeOK, RecordsOK, [Next]_vars, NEW s \in Script, fresh'[s].status = "running"
  PROVE  \/ fresh'[s] = fresh[s] \/ fresh'[s] = dict["main"][s]
         \/ \E c \in Child : fresh'[s] = Running(c) /\ child'[c].script = s
<1> USE DEF mainVars
<1> DEFINE Goal == \/ fresh'[s] = fresh[s] \/ fresh'[s] = dict["main"][s]
                   \/ \E c \in Child : fresh'[s] = Running(c) /\ child'[c].script = s
<1>1. CASE fresh' = [v \in Script |-> Absent]
  BY <1>1 DEF Absent
<1>2. CASE UNCHANGED fresh
  BY <1>2
<1>3. ASSUME NEW v \in Script, MonitorKeep(v)
      PROVE  Goal
  <2> DEFINE r == dict["main"][v]
  <2>1. \A h : Kept(v, h).status = "running" => Kept(v, h) = h
    BY DEF Kept, Absent
  <2>2. Health(r).status = "running" => Health(r) = r
    BY DEF Health, Stopped, Crashed
  <2>3. Stopped(FALSE).status # "running"
    BY DEF Stopped
  <2>4. fresh' = [fresh EXCEPT ![v] =
                    Kept(v, IF Health(r).status = "crashed" /\ Policy[v] = "never"
                            THEN Stopped(FALSE) ELSE Health(r))]
    BY <1>3 DEF MonitorKeep
  <2>5. CASE s = v
    BY <2>1, <2>2, <2>3, <2>4, <2>5 DEF TypeOK
  <2>6. CASE s # v
    BY <2>4, <2>6 DEF TypeOK
  <2> QED BY <2>5, <2>6
<1>4. ASSUME NEW v \in Script, MonitorRestart(v)
      PROVE  Goal
  <2>1. ASSUME NEW c \in Child, Spawn(c, v, Launcher("main")),
               fresh' = [fresh EXCEPT ![v] = Running(c)]
        PROVE  Goal
    <3>1. child'[c].script = v
      BY <2>1, SpawnMoves, LauncherType DEF Thread
    <3> QED BY <2>1, <3>1 DEF TypeOK
  <2>2. CASE fresh' = [fresh EXCEPT ![v] = Crashed]
    BY <2>2 DEF TypeOK, Crashed
  <2> QED BY <1>4, <2>1, <2>2 DEF MonitorRestart
<1>5. ASSUME NEW u \in Thread, ThreadStep(u)
      PROVE  Goal
  BY <1>2, <1>5 DEF ThreadStep, StopTimeout, StopDone, LaunchDone, ReloadNext
<1>6. ASSUME MainStep
      PROVE  Goal
  BY <1>1, <1>2, <1>3, <1>4, <1>6 DEF MainStep, MonitorStep, BootStart, ShutdownNext, BootDone,
     DrainEvent, MonitorBegin, MonitorEnd, MonitorTorn, Leave, NoInput, ShutdownDone
<1>7. ASSUME Environment
      PROVE  Goal
  BY <1>1, <1>2, <1>7 DEF Environment, AdminCommand, ConsoleCommand, Quit, Interrupt,
     BootInterrupt, InterruptAgain, Leave, FileChanged, DebounceEnds, ChildExits, DrainSees
<1>8. CASE UNCHANGED vars
  BY <1>2, <1>8 DEF vars
<1> QED BY <1>5, <1>6, <1>7, <1>8 DEF Next
\* A job that waits was set up from a record that says "running".
LEMMA JobMoves ==
  ASSUME TypeOK, RecordsOK, [Next]_vars, NEW t \in Thread
  PROVE  \/ job'[t] = job[t] \/ job'[t] = Idle
         \/ job'[t].kind = "launch" /\ job'[t].script \in Script
         \/ \E s \in Script :
              /\ job'[t].kind \in Waiting /\ job'[t].script = s
              /\ dict[t][s].status = "running" /\ job'[t].proc = dict[t][s].proc
<1> USE DEF mainVars
<1> DEFINE Goal == \/ job'[t] = job[t] \/ job'[t] = Idle
                   \/ job'[t].kind = "launch" /\ job'[t].script \in Script
                   \/ \E s \in Script :
                        /\ job'[t].kind \in Waiting /\ job'[t].script = s
                        /\ dict[t][s].status = "running" /\ job'[t].proc = dict[t][s].proc
<1>0. ASSUME NEW u \in Thread, NEW j, job' = [job EXCEPT ![u] = j]
      PROVE  job'[t] = job[t] \/ (u = t /\ job'[t] = j)
  BY <1>0 DEF TypeOK
<1>1. ASSUME UNCHANGED job
      PROVE  Goal
  BY <1>1
<1>2. ASSUME NEW u \in Thread, NEW s \in Script,
             job' = [job EXCEPT ![u] = [kind |-> "launch", script |-> s, proc |-> None]]
      PROVE  Goal
  BY <1>0, <1>2
<1>3. ASSUME NEW u \in Thread, NEW s \in Script, NEW k \in Waiting, dict[u][s].status = "running",
             job' = [job EXCEPT ![u] = [kind |-> k, script |-> s, proc |-> dict[u][s].proc]]
      PROVE  Goal
  <2>1. CASE job'[t] = job[t]
    BY <2>1
  <2>2. CASE u = t /\ job'[t] = [kind |-> k, script |-> s, proc |-> dict[u][s].proc]
    BY <1>3, <2>2
  <2> QED BY <1>0, <1>3, <2>1, <2>2
<1>4. ASSUME NEW u \in Thread, job' = [job EXCEPT ![u] = Idle]
      PROVE  Goal
  BY <1>0, <1>4
<1>5. ASSUME NEW u \in Thread, Command(u)
      PROVE  Goal
  BY <1>1, <1>2, <1>3, <1>5 DEF Command, Waiting
<1>6. ASSUME NEW u \in Thread, ThreadStep(u)
      PROVE  Goal
  <2>1. CASE StopDone(u)
    <3>1. job[u].script \in Script
      BY <2>1 DEF StopDone, RecordsOK, Waiting
    <3> QED BY <2>1, <3>1, <1>2, <1>4 DEF StopDone
  <2>2. ASSUME NEW s \in Script, ReloadNext(u, s)
        PROVE  Goal
    BY <2>2, <1>1, <1>2, <1>3 DEF ReloadNext, Waiting
  <2>3. CASE StopTimeout(u) \/ LaunchDone(u)
    BY <2>3, <1>1, <1>4 DEF StopTimeout, LaunchDone
  <2> QED BY <1>6, <2>1, <2>2, <2>3 DEF ThreadStep
<1>7. ASSUME NEW why, Leave(why)
      PROVE  Goal
  BY <1>7, <1>4 DEF Leave, Thread
<1>8. ASSUME MainStep
      PROVE  Goal
  <2>1. ASSUME NEW s \in Script, ShutdownNext(s)
        PROVE  Goal
    BY <2>1, <1>1, <1>3 DEF ShutdownNext, Waiting, Thread
  <2>2. CASE ShutdownDone
    BY <2>2 DEF ShutdownDone
  <2>3. CASE \/ BootDone \/ DrainEvent \/ MonitorBegin \/ MonitorEnd \/ NoInput
             \/ \E s \in Script : BootStart(s) \/ MonitorKeep(s) \/ MonitorRestart(s)
    BY <2>3, <1>1 DEF BootDone, DrainEvent, MonitorBegin, MonitorEnd, NoInput, BootStart,
                      MonitorKeep, MonitorRestart
  <2> QED BY <1>7, <1>8, <2>1, <2>2, <2>3 DEF MainStep, MonitorStep, MonitorTorn
<1>9. ASSUME Environment
      PROVE  Goal
  <2>1. CASE AdminCommand \/ ConsoleCommand
    BY <2>1, <1>5 DEF AdminCommand, ConsoleCommand, Thread
  <2>2. CASE Quit \/ Interrupt
    BY <2>2, <1>7 DEF Quit, Interrupt
  <2>3. CASE \/ BootInterrupt \/ InterruptAgain \/ \E c \in Child : ChildExits(c) \/ DrainSees(c)
             \/ \E s \in Script : FileChanged(s) \/ DebounceEnds(s)
    BY <2>3, <1>1 DEF BootInterrupt, InterruptAgain, ChildExits, DrainSees, FileChanged, DebounceEnds
  <2> QED BY <1>9, <2>1, <2>2, <2>3 DEF Environment
<1>10. CASE UNCHANGED vars
  BY <1>1, <1>10 DEF vars
<1> QED BY <1>6, <1>8, <1>9, <1>10 DEF Next

\* Records and jobs keep naming processes of their script.
LEMMA RecordsStep ==
  ASSUME TypeOK, RecordsOK, [Next]_vars
  PROVE  RecordsOK'
<1>1. ASSUME NEW p \in Child, ~Free(p)
      PROVE  child'[p].script = child[p].script
  BY <1>1, ChildMoves DEF Calm
<1>2. /\ \A t \in Thread, s \in Script : dict[t][s].proc \in Child => ~Free(dict[t][s].proc)
      /\ \A s \in Script : fresh[s].proc \in Child => ~Free(fresh[s].proc)
      /\ \A t \in Thread : job[t].proc \in Child => ~Free(job[t].proc)
  BY DEF Free
<1>3. ASSUME NEW t \in Thread, NEW s \in Script
      PROVE  /\ dict[t][s].status = "running" =>
                  dict[t][s].proc \in Child /\ child'[dict[t][s].proc].script = s
             /\ fresh[s].status = "running" =>
                  fresh[s].proc \in Child /\ child'[fresh[s].proc].script = s
  BY <1>1, <1>2 DEF RecordsOK
<1>4. \A c \in Child : Running(c).proc = c
  BY DEF Running
<1>5. ASSUME NEW t \in Thread, NEW s \in Script, dict'[t][s].status = "running"
      PROVE  dict'[t][s].proc \in Child /\ child'[dict'[t][s].proc].script = s
  BY <1>3, <1>4, <1>5, DictMoves
<1>6. ASSUME NEW s \in Script, fresh'[s].status = "running"
      PROVE  fresh'[s].proc \in Child /\ child'[fresh'[s].proc].script = s
  BY <1>3, <1>4, <1>6, FreshMoves DEF Thread
<1>7. ASSUME NEW t \in Thread
      PROVE  /\ job'[t].kind \in Waiting =>
                  /\ job'[t].proc \in Child /\ job'[t].script \in Script
                  /\ child'[job'[t].proc].script = job'[t].script
             /\ job'[t].kind = "launch" => job'[t].script \in Script
  <2>1. CASE job'[t] = job[t]
    BY <2>1, <1>1, <1>2 DEF RecordsOK
  <2>2. CASE job'[t] = Idle
    BY <2>2 DEF Idle, Waiting
  <2>3. CASE job'[t].kind = "launch" /\ job'[t].script \in Script
    BY <2>3 DEF Waiting
  <2>4. ASSUME NEW s \in Script, job'[t].kind \in Waiting, job'[t].script = s,
               dict[t][s].status = "running", job'[t].proc = dict[t][s].proc
        PROVE  /\ job'[t].proc \in Child /\ child'[job'[t].proc].script = s
               /\ job'[t].kind # "launch"
    BY <2>4, <1>3 DEF Waiting
  <2> QED BY <2>1, <2>2, <2>3, <2>4, JobMoves
<1>8. ASSUME NEW c \in Child, child'[c].alive
      PROVE  child'[c].script \in Script
  <2>1. CASE Calm(c)
    BY <1>8, <2>1 DEF Calm, RecordsOK
  <2>2. CASE ~Calm(c)
    <3>1. \/ \E s \in Script : Spawn(c, s, "boot")
          \/ \E t \in Thread, s \in Script : Spawn(c, s, Launcher(t))
      BY <2>2, Launches DEF Thread
    <3> QED BY <3>1, SpawnMoves, LauncherType
  <2> QED BY <2>1, <2>2
<1> QED BY <1>5, <1>6, <1>7, <1>8 DEF RecordsOK

\* In the initial state there is nothing to name.
LEMMA InitRecords == Init => RecordsOK
BY DEF Init, RecordsOK, Absent, Idle, Waiting

\* The engine is type correct, whatever the scripts, their policies and the
\* processes of the machine (main.py, process_wrapper.py, watcher.py).
THEOREM TypeCorrect == Spec => []TypeOK
<1>1. Init => TypeOK /\ RecordsOK
  BY InitType, InitRecords
<1>2. TypeOK /\ RecordsOK /\ [Next]_vars => (TypeOK /\ RecordsOK)'
  BY NextType, RecordsStep
<1> QED BY <1>1, <1>2, PTL DEF Spec
-----------------------------------------------------------------------------
(* Where the threads can be while they work.                                *)

\* The jobs of a thread are one another's business only through the dicts.
LEMMA OwnStep ==
  ASSUME TypeOK, NEW t \in Thread, NEW u \in Thread, u # t, ThreadStep(t)
  PROVE  job'[u] = job[u] /\ batch'[u] = batch[u]
BY DEF TypeOK, ThreadStep, StopTimeout, StopDone, LaunchDone, ReloadNext

\* A thread step moves the main thread nowhere and touches no pass; a thread
\* that has nothing to do takes none.
LEMMA ThreadStepPlaces ==
  ASSUME NEW t \in Thread, ThreadStep(t)
  PROVE  /\ UNCHANGED <<mainPc, todo, keys, fresh, cause, shared, queue>>
         /\ Up /\ (job[t] # Idle \/ batch[t] # {})
<1>1. Idle.kind = "idle"
  BY DEF Idle
<1> QED BY <1>1 DEF ThreadStep, StopTimeout, StopDone, LaunchDone, ReloadNext, mainVars

\* A thread step ends a job, or starts the launch of a reload, or a stop that
\* the final stops did not order.
LEMMA ThreadStepKinds ==
  ASSUME TypeOK, RecordsOK, NEW t \in Thread, ThreadStep(t)
  PROVE  /\ job[t].kind # "quit" => job'[t].kind # "quit"
         /\ job[t].kind = "quit" /\ batch[t] = {} => job'[t] = Idle \/ job'[t].kind = "quit"
         /\ batch'[t] \subseteq batch[t]
<1> USE DEF mainVars
<1>1. Idle.kind = "idle"
  BY DEF Idle
<1>2. CASE StopTimeout(t)
  BY <1>2 DEF StopTimeout
<1>3. CASE StopDone(t)
  <2>1. \/ job'[t] = Idle
        \/ job[t].kind = "reload" /\ job'[t].kind = "launch"
    BY <1>3 DEF StopDone, TypeOK
  <2> QED BY <1>1, <1>3, <2>1 DEF StopDone
<1>4. CASE LaunchDone(t)
  <2>1. job'[t] = Idle /\ batch'[t] \subseteq batch[t]
    BY <1>4 DEF LaunchDone, TypeOK
  <2> QED BY <1>1, <2>1
<1>5. ASSUME NEW s \in Script, ReloadNext(t, s)
      PROVE  /\ job[t] = Idle /\ job'[t].kind # "quit"
             /\ batch'[t] \subseteq batch[t]
  <2>1. batch'[t] \subseteq batch[t]
    BY <1>5 DEF ReloadNext, TypeOK
  <2>2. job'[t] \in {job[t], [kind |-> "reload", script |-> s, proc |-> dict[t][s].proc],
                     [kind |-> "launch", script |-> s, proc |-> None]}
    BY <1>5 DEF ReloadNext, TypeOK
  <2>3. job[t] = Idle
    BY <1>5 DEF ReloadNext
  <2> QED BY <1>1, <2>1, <2>2, <2>3
<1> QED BY <1>1, <1>2, <1>3, <1>4, <1>5 DEF ThreadStep
\* The jobs of the two threads stay where they belong.
LEMMA PlacesStep ==
  ASSUME TypeOK, RecordsOK, PlacesOK, [Next]_vars
  PROVE  PlacesOK'
<1> USE DEF mainVars
<1>0. Idle.kind = "idle" /\ "main" \in Thread /\ "admin" \in Thread
  BY DEF Idle, Thread
<1>1. ASSUME NEW t \in Thread, ThreadStep(t)
      PROVE  PlacesOK'
  <2>1. CASE t = "main"
    <3>1. job'["admin"] = job["admin"] /\ batch'["admin"] = batch["admin"]
      BY <1>0, <1>1, <2>1, OwnStep
    <3>2. mainPc \in {"drain", "shutdown"}
      BY <1>1, <2>1, ThreadStepPlaces DEF PlacesOK, TypeOK
    <3>3. mainPc = "shutdown" =>
            (job'["main"] = Idle \/ job'["main"].kind = "quit") /\ batch'["main"] = {}
      BY <1>1, <2>1, ThreadStepPlaces, ThreadStepKinds DEF PlacesOK
    <3>4. mainPc = "drain" => job'["main"].kind # "quit"
      BY <1>1, <2>1, ThreadStepKinds DEF PlacesOK
    <3> QED BY <1>0, <1>1, <2>1, <3>1, <3>2, <3>3, <3>4, ThreadStepPlaces DEF PlacesOK
  <2>2. CASE t = "admin"
    <3>1. job'["main"] = job["main"] /\ batch'["main"] = batch["main"]
      BY <1>0, <1>1, <2>2, OwnStep
    <3>2. mainPc \notin {"boot", "exited"}
      BY <1>1, <2>2, ThreadStepPlaces DEF PlacesOK
    <3>3. job'["admin"].kind # "quit"
      BY <1>1, <2>2, ThreadStepKinds DEF PlacesOK
    <3> QED BY <1>0, <1>1, <2>2, <3>1, <3>2, <3>3, ThreadStepPlaces DEF PlacesOK
  <2> QED BY <2>1, <2>2 DEF Thread
<1>2. ASSUME NEW s \in Script, BootStart(s)
      PROVE  PlacesOK'
  BY <1>2 DEF BootStart, PlacesOK
<1>3. ASSUME NEW s \in Script, ShutdownNext(s)
      PROVE  PlacesOK'
  <2>1. job'["admin"] = job["admin"]
    BY <1>3 DEF ShutdownNext, TypeOK, Thread
  <2>2. job'["main"] = Idle \/ job'["main"].kind = "quit"
    BY <1>3 DEF ShutdownNext, TypeOK, Thread
  <2> QED BY <1>3, <2>1, <2>2 DEF ShutdownNext, PlacesOK
<1>4. CASE BootDone
  BY <1>4, <1>0 DEF BootDone, PlacesOK
<1>5. CASE DrainEvent
  BY <1>5, <1>0 DEF DrainEvent, PlacesOK, TypeOK
<1>6. CASE MonitorBegin
  <2>1. todo' \subseteq Script /\ \A s \in Script : fresh'[s] = Absent
    BY <1>6 DEF MonitorBegin, Entries
  <2> QED BY <1>6, <2>1 DEF MonitorBegin, PlacesOK, Busy
<1>7. CASE MonitorEnd
  BY <1>7 DEF MonitorEnd, PlacesOK
<1>8. ASSUME NEW why, Leave(why), mainPc # "exited"
      PROVE  PlacesOK'
  <2>1. job'["admin"] = job["admin"] /\ batch'["main"] = {} /\ job'["main"] = Idle
    BY <1>8, <1>0 DEF Leave, TypeOK
  <2> QED BY <1>8, <2>1 DEF Leave, PlacesOK
<1>9. ASSUME NEW s \in Script, MonitorKeep(s)
      PROVE  PlacesOK'
  <2>1. \A v \in todo' : fresh'[v] = fresh[v]
    BY <1>9 DEF MonitorKeep, TypeOK
  <2> QED BY <1>9, <2>1 DEF MonitorKeep, PlacesOK
<1>10. ASSUME NEW s \in Script, MonitorRestart(s)
       PROVE  PlacesOK'
  <2>1. \A v \in todo' : fresh'[v] = fresh[v]
    BY <1>10 DEF MonitorRestart, TypeOK
  <2> QED BY <1>10, <2>1 DEF MonitorRestart, PlacesOK
<1>11. CASE NoInput
  BY <1>11, <1>0 DEF NoInput, PlacesOK
<1>12. CASE ShutdownDone \/ InterruptAgain
  <2>1. job'["main"] = Idle /\ job'["admin"] = Idle /\ batch'["main"] = {} /\ batch'["admin"] = {}
    BY <1>12, <1>0 DEF ShutdownDone, InterruptAgain
  <2> QED BY <1>12, <1>0, <2>1 DEF ShutdownDone, InterruptAgain, PlacesOK
<1>13. ASSUME NEW t \in Thread, NEW u \in Thread, Command(t)
       PROVE  \/ job'[u] = job[u] \/ (u = t /\ job'[u].kind # "quit")
  BY <1>13 DEF Command, TypeOK
<1>14. ASSUME NEW t \in Thread, NEW u \in Thread, Command(t), u # t
       PROVE  job'[u] = job[u] /\ batch'[u] = batch[u]
  BY <1>14 DEF Command, TypeOK
<1>15. CASE AdminCommand
  <2>1. /\ job'["main"] = job["main"] /\ batch'["main"] = batch["main"]
        /\ job'["admin"].kind # "quit"
    BY <1>0, <1>13, <1>14, <1>15 DEF AdminCommand, PlacesOK
  <2> QED BY <1>15, <2>1 DEF AdminCommand, PlacesOK
<1>16. CASE ConsoleCommand
  <2>1. /\ job'["admin"] = job["admin"] /\ batch'["admin"] = batch["admin"]
        /\ job'["main"].kind # "quit"
    BY <1>0, <1>13, <1>14, <1>16 DEF ConsoleCommand, PlacesOK
  <2> QED BY <1>16, <2>1 DEF ConsoleCommand, PlacesOK
<1>17. CASE BootInterrupt
  BY <1>17 DEF BootInterrupt, PlacesOK
<1>18. ASSUME UNCHANGED <<shared, job, batch, halted, mainPc, todo, fresh>>
       PROVE  PlacesOK'
  BY <1>18 DEF PlacesOK
<1>19. CASE \/ \E c \in Child : ChildExits(c) \/ DrainSees(c)
            \/ \E s \in Script : FileChanged(s) \/ DebounceEnds(s)
  BY <1>18, <1>19 DEF ChildExits, DrainSees, FileChanged, DebounceEnds
<1>20. CASE UNCHANGED vars
  BY <1>18, <1>20 DEF vars
<1>21. CASE MonitorTorn \/ Quit \/ Interrupt
  BY <1>8, <1>21 DEF MonitorTorn, Quit, Interrupt
<1> QED BY <1>1, <1>2, <1>3, <1>4, <1>5, <1>6, <1>7, <1>9, <1>10, <1>11, <1>12, <1>15, <1>16,
           <1>17, <1>19, <1>20, <1>21
        DEF Next, MainStep, MonitorStep, Environment
-----------------------------------------------------------------------------
(* What changes an entry of a dict, and what ends the shared dict.          *)

\* Only the end of the first pass parts the dicts, and nothing leads back from
\* the end of the engine.
LEMMA OneWay ==
  ASSUME TypeOK, [Next]_vars
  PROVE  /\ shared' = shared \/ (MonitorEnd /\ ~shared')
         /\ mainPc' \notin {"shutdown", "exited"} => mainPc \notin {"shutdown", "exited"}
         /\ Up' => Up
<1> USE DEF mainVars
<1>1. CASE UNCHANGED <<shared, mainPc>>
  BY <1>1 DEF Up
<1>2. CASE \E t \in Thread : ThreadStep(t)
  BY <1>2, <1>1, ThreadStepPlaces
<1>3. CASE MonitorEnd
  BY <1>3 DEF MonitorEnd, Up
<1>4. ASSUME NEW why, Leave(why), mainPc # "exited"
      PROVE  shared' = shared /\ mainPc' = "shutdown" /\ Up
  BY <1>4 DEF Leave, Up
<1>5. CASE MonitorTorn \/ Quit \/ Interrupt
  BY <1>5, <1>4 DEF MonitorTorn, Quit, Interrupt
<1>6. CASE \/ BootDone \/ MonitorBegin \/ NoInput \/ ShutdownDone \/ BootInterrupt
           \/ InterruptAgain \/ ConsoleCommand
  BY <1>6 DEF BootDone, MonitorBegin, NoInput, ShutdownDone, BootInterrupt, InterruptAgain,
     ConsoleCommand, Up
<1>7. CASE \/ DrainEvent \/ AdminCommand
           \/ \E s \in Script : \/ BootStart(s) \/ ShutdownNext(s) \/ MonitorKeep(s)
                                \/ MonitorRestart(s) \/ FileChanged(s) \/ DebounceEnds(s)
           \/ \E c \in Child : ChildExits(c) \/ DrainSees(c)
           \/ UNCHANGED vars
  BY <1>7, <1>1 DEF DrainEvent, AdminCommand, BootStart, ShutdownNext, MonitorKeep,
     MonitorRestart, FileChanged, DebounceEnds, ChildExits, DrainSees, vars
<1> QED BY <1>2, <1>3, <1>5, <1>6, <1>7 DEF Next, MainStep, MonitorStep, Environment

\* Before the dicts part every launch counts as a launch at boot.
LEMMA EraStep ==
  ASSUME TypeOK, RecordsOK, EraOK, [Next]_vars
  PROVE  EraOK'
<1> SUFFICES ASSUME shared', NEW c \in Child
             PROVE  child'[c].by = "boot"
  BY DEF EraOK
<1>1. shared
  BY OneWay
<1>2. CASE Calm(c)
  BY <1>1, <1>2 DEF Calm, EraOK
<1>3. CASE ~Calm(c)
  <2>1. \/ \E s \in Script : Spawn(c, s, "boot")
        \/ \E t \in Thread, s \in Script : Spawn(c, s, Launcher(t))
    BY <1>3, Launches DEF Thread
  <2>2. \A t \in Thread : Launcher(t) = "boot"
    BY <1>1 DEF Launcher
  <2> QED BY <2>1, <2>2, SpawnMoves
<1> QED BY <1>2, <1>3

\* An entry changes when a command or a reload of a thread that sees the dict
\* stores its result, when a pass ends and at boot.
LEMMA EntryMoves ==
  ASSUME TypeOK, RecordsOK, [Next]_vars, NEW t \in Thread, NEW s \in Script,
         dict'[t][s] # dict[t][s]
  PROVE  \/ \E u \in Thread :
              /\ u = t \/ shared
              /\ StopDone(u) /\ job[u].kind \in {"stop", "reload"} /\ job[u].script = s
              /\ dict'[t][s] = Stopped(child[job[u].proc].ok)
         \/ \E u \in Thread :
              /\ u = t \/ shared
              /\ LaunchDone(u) /\ job[u].kind = "launch" /\ job[u].script = s
         \/ t = "main" /\ MonitorEnd /\ dict'[t][s] = fresh[s]
         \/ mainPc = "boot" /\ BootStart(s)
<1> USE DEF mainVars
<1> DEFINE Goal ==
  \/ \E u \in Thread :
       /\ u = t \/ shared
       /\ StopDone(u) /\ job[u].kind \in {"stop", "reload"} /\ job[u].script = s
       /\ dict'[t][s] = Stopped(child[job[u].proc].ok)
  \/ \E u \in Thread :
       /\ u = t \/ shared
       /\ LaunchDone(u) /\ job[u].kind = "launch" /\ job[u].script = s
  \/ t = "main" /\ MonitorEnd /\ dict'[t][s] = fresh[s]
  \/ mainPc = "boot" /\ BootStart(s)
<1>1. ASSUME NEW u \in Thread, NEW v \in Script, NEW r, Put(u, v, r)
      PROVE  v = s /\ (u = t \/ shared) /\ dict'[t][s] = r
  BY <1>1, PutMoves
<1>2. ASSUME NEW u \in Thread, StopDone(u)
      PROVE  Goal
  <2>1. job[u].script \in Script
    BY <1>2 DEF StopDone, RecordsOK, Waiting
  <2>2. Put(u, job[u].script, Stopped(child[job[u].proc].ok)) /\ job[u].kind # "quit"
    BY <1>2 DEF StopDone
  <2>3. job[u].kind \in {"stop", "reload"}
    BY <1>2, <2>2 DEF StopDone
  <2> QED BY <1>1, <1>2, <2>1, <2>2, <2>3
<1>3. ASSUME NEW u \in Thread, LaunchDone(u)
      PROVE  Goal
  <2>1. job[u].script \in Script /\ job[u].kind = "launch"
    BY <1>3 DEF LaunchDone, RecordsOK
  <2>2. \E r : Put(u, job[u].script, r)
    BY <1>3 DEF LaunchDone
  <2> QED BY <1>1, <1>3, <2>1, <2>2
<1>4. ASSUME NEW v \in Script, BootStart(v)
      PROVE  Goal
  <2>1. \E r : Put("main", v, r)
    BY <1>4 DEF BootStart
  <2> QED BY <1>1, <1>4, <2>1 DEF BootStart, Thread
<1>5. CASE MonitorEnd
  BY <1>5 DEF MonitorEnd, TypeOK
<1>6. CASE \/ \E u \in Thread : StopTimeout(u) \/ \E v \in Script : ReloadNext(u, v)
           \/ BootDone \/ DrainEvent \/ MonitorBegin \/ MonitorTorn \/ NoInput \/ ShutdownDone
           \/ \E v \in Script : MonitorKeep(v) \/ MonitorRestart(v) \/ ShutdownNext(v)
           \/ Environment \/ UNCHANGED vars
  BY <1>6 DEF StopTimeout, ReloadNext, BootDone, DrainEvent, MonitorBegin, MonitorTorn, Leave,
     NoInput, ShutdownDone, ShutdownNext, MonitorKeep, MonitorRestart, Environment, AdminCommand,
     ConsoleCommand, Quit, Interrupt, BootInterrupt, InterruptAgain, FileChanged, DebounceEnds,
     ChildExits, DrainSees, vars
<1> QED BY <1>2, <1>3, <1>4, <1>5, <1>6 DEF Next, ThreadStep, MainStep, MonitorStep

\* A pass fills in an entry of its dict once, and the dict is dropped with it.
LEMMA FreshEntryMoves ==
  ASSUME TypeOK, [Next]_vars, NEW s \in Script, fresh'[s] # fresh[s]
  PROVE  \/ MonitorKeep(s) \/ MonitorRestart(s)
         \/ MonitorBegin /\ fresh'[s] = Absent
         \/ MonitorEnd /\ fresh'[s] = Absent
         \/ mainPc' = "shutdown" /\ fresh'[s] = Absent
<1> USE DEF mainVars
<1>1. ASSUME NEW v \in Script, MonitorKeep(v) \/ MonitorRestart(v)
      PROVE  v = s
  BY <1>1 DEF MonitorKeep, MonitorRestart, TypeOK
<1>2. CASE \E t \in Thread : ThreadStep(t)
  BY <1>2, ThreadStepPlaces
<1>3. CASE MonitorBegin \/ MonitorEnd \/ MonitorTorn \/ Quit \/ Interrupt
  BY <1>3 DEF MonitorBegin, MonitorEnd, MonitorTorn, Quit, Interrupt, Leave
<1>4. CASE \/ BootDone \/ DrainEvent \/ NoInput \/ ShutdownDone \/ AdminCommand
           \/ ConsoleCommand \/ BootInterrupt \/ InterruptAgain
           \/ \E v \in Script : \/ BootStart(v) \/ ShutdownNext(v) \/ FileChanged(v)
                                \/ DebounceEnds(v)
           \/ \E c \in Child : ChildExits(c) \/ DrainSees(c)
           \/ UNCHANGED vars
  BY <1>4 DEF BootDone, DrainEvent, NoInput, ShutdownDone, AdminCommand, ConsoleCommand,
     BootInterrupt, InterruptAgain, BootStart, ShutdownNext, FileChanged, DebounceEnds, ChildExits,
     DrainSees, vars
<1> QED BY <1>1, <1>2, <1>3, <1>4 DEF Next, MainStep, MonitorStep, Environment
-----------------------------------------------------------------------------
(* What the console stopped stays stopped.                                  *)

\* Only the end of a stop or of a launch tells who has stopped a script.
LEMMA HaltedKept ==
  ASSUME [Next]_vars
  PROVE  UNCHANGED halted \/ \E u \in Thread : StopDone(u) \/ LaunchDone(u)
BY DEF Next, ThreadStep, MainStep, MonitorStep, Environment, StopTimeout, ReloadNext, BootStart,
   ShutdownNext, BootDone, DrainEvent, MonitorBegin, MonitorEnd, MonitorTorn, Quit, Interrupt,
   Leave, MonitorKeep, MonitorRestart, NoInput, ShutdownDone, AdminCommand, ConsoleCommand,
   BootInterrupt, InterruptAgain, ChildExits, DrainSees, FileChanged, DebounceEnds, vars

\* A script counts as stopped by the console from the end of that stop to its
\* next launch by a command or a reload.
LEMMA HaltedMoves ==
  ASSUME TypeOK, RecordsOK, [Next]_vars, NEW s \in Script, halted'[s] = "main"
  PROVE  \/ StopDone("main") /\ job["main"].kind = "stop" /\ job["main"].script = s
         \/ halted[s] = "main" /\ \A u \in Thread : LaunchDone(u) => job[u].script # s
<1> USE DEF mainVars
<1>1. CASE UNCHANGED halted /\ \A u \in Thread : ~LaunchDone(u)
  BY <1>1
<1>2. ASSUME NEW u \in Thread, LaunchDone(u)
      PROVE  halted[s] = "main" /\ \A v \in Thread : LaunchDone(v) => job[v].script # s
  <2>1. halted' = [halted EXCEPT ![job[u].script] = None] /\ job[u].kind = "launch"
    BY <1>2 DEF LaunchDone
  <2>2. job[u].script # s /\ halted[s] = "main"
    BY <2>1, NoneAssumption DEF TypeOK
  <2>3. ASSUME NEW v \in Thread, LaunchDone(v), job[v].script = s
        PROVE  FALSE
    <3>1. halted' = [halted EXCEPT ![s] = None]
      BY <2>3 DEF LaunchDone
    <3> QED BY <3>1, NoneAssumption DEF TypeOK
  <2> QED BY <2>2, <2>3
<1>3. ASSUME NEW u \in Thread, StopDone(u), \A v \in Thread : ~LaunchDone(v)
      PROVE  \/ StopDone("main") /\ job["main"].kind = "stop" /\ job["main"].script = s
             \/ halted[s] = "main"
  <2>1. CASE job[u].kind # "stop"
    BY <1>3, <2>1 DEF StopDone
  <2>2. CASE job[u].kind = "stop" /\ job[u].script # s
    BY <1>3, <2>2 DEF StopDone, TypeOK
  <2>3. CASE job[u].kind = "stop" /\ job[u].script = s
    <3>1. halted' = [halted EXCEPT ![s] = u]
      BY <1>3, <2>3 DEF StopDone
    <3>2. u = "main"
      BY <3>1 DEF TypeOK
    <3> QED BY <1>3, <2>3, <3>2
  <2> QED BY <2>1, <2>2, <2>3
<1>4. CASE \A v \in Thread : ~LaunchDone(v)
  <2>1. CASE \E u \in Thread : StopDone(u)
    BY <1>3, <1>4, <2>1
  <2>2. CASE UNCHANGED halted
    BY <1>4, <2>2, <1>1
  <2> QED BY <1>4, <2>1, <2>2, HaltedKept
<1> QED BY <1>2, <1>4

\* No pass and no command of the other thread revives what the console stopped.
LEMMA ConsoleStopStep ==
  ASSUME TypeOK, RecordsOK, PlacesOK, ConsoleStopSticks, [Next]_vars
  PROVE  ConsoleStopSticks'
<1> DEFINE Down(r) == r.status # "running" /\ r.status # "crashed"
<1> SUFFICES ASSUME NEW s \in Script, halted'[s] = "main"
             PROVE  Down(dict'["main"][s]) /\ Down(fresh'[s])
  BY DEF ConsoleStopSticks
<1>0. Down(Absent) /\ \A z : Down(Stopped(z))
  BY DEF Absent, Stopped
<1>1. CASE StopDone("main") /\ job["main"].kind = "stop" /\ job["main"].script = s
  <2>1. dict'["main"][s] = Stopped(child[job["main"].proc].ok)
    BY <1>1, PutMoves DEF StopDone, Thread
  <2>2. mainPc = "drain"
    BY <1>1 DEF PlacesOK, Idle, TypeOK
  <2>3. fresh'[s] = Absent
    BY <1>1, <2>2 DEF StopDone, mainVars, PlacesOK
  <2> QED BY <1>0, <2>1, <2>3
<1>2. CASE halted[s] = "main" /\ \A u \in Thread : LaunchDone(u) => job[u].script # s
  <2>0. Down(dict["main"][s]) /\ Down(fresh[s])
    BY <1>2 DEF ConsoleStopSticks
  <2>1. mainPc # "boot"
    BY <1>2, NoneAssumption DEF PlacesOK
  <2>2. Down(dict'["main"][s])
    <3>1. CASE dict'["main"][s] = dict["main"][s]
      BY <2>0, <3>1
    <3>2. CASE dict'["main"][s] # dict["main"][s]
      <4>1. \/ \E u \in Thread : dict'["main"][s] = Stopped(child[job[u].proc].ok)
            \/ dict'["main"][s] = fresh[s]
        BY <1>2, <2>1, <3>2, EntryMoves DEF Thread
      <4> QED BY <1>0, <2>0, <4>1
    <3> QED BY <3>1, <3>2
  <2>3. Down(fresh'[s])
    <3>1. CASE fresh'[s] = fresh[s]
      BY <2>0, <3>1
    <3>2. CASE MonitorKeep(s)
      <4>1. Health(dict["main"][s]) = dict["main"][s]
        BY <2>0 DEF Health
      <4>2. fresh'[s] = Kept(s, dict["main"][s])
        BY <2>0, <3>2, <4>1 DEF MonitorKeep, TypeOK
      <4> QED BY <1>0, <2>0, <4>2 DEF Kept
    <3>3. CASE MonitorRestart(s)
      BY <2>0, <3>3 DEF MonitorRestart, Health
    <3> QED BY <1>0, <3>1, <3>2, <3>3, FreshEntryMoves
  <2> QED BY <2>2, <2>3
<1> QED BY <1>1, <1>2, HaltedMoves
-----------------------------------------------------------------------------
(* Live processes are not forgotten.                                        *)

\* A live process launched since the dicts parted keeps its entry while its
\* thread and the main loop go on: what overwrites an entry has waited for it.
LEMMA HeldStep ==
  ASSUME TypeOK, RecordsOK, PlacesOK, EraOK, JobsOK, [Next]_vars,
         NEW t \in Thread, NEW c \in Child, Calm(c), child'[c].alive, child[c].by = t,
         dict[t][child[c].script] = Running(c), child[c].script \in Script
  PROVE  \/ dict'[t][child[c].script] = Running(c)
         \/ t = "main" /\ MonitorEnd /\ dict'[t][child[c].script] = fresh[child[c].script]
<1> DEFINE s == child[c].script
<1> SUFFICES ASSUME dict'[t][s] # dict[t][s]
             PROVE  t = "main" /\ MonitorEnd /\ dict'[t][s] = fresh[s]
  OBVIOUS
<1>1. ~shared
  BY DEF EraOK, Thread
<1>2. child[c].alive /\ c \in Mine(t, s)
  BY DEF Calm, Mine
<1>3. ASSUME StopDone(t), job[t].kind \in {"stop", "reload"}, job[t].script = s
      PROVE  FALSE
  <2>1. job[t].proc = c
    BY <1>2, <1>3 DEF JobsOK
  <2> QED BY <1>2, <1>3, <2>1 DEF StopDone
<1>4. ASSUME job[t].kind = "launch", job[t].script = s
      PROVE  FALSE
  BY <1>2, <1>4 DEF JobsOK
<1>5. mainPc # "boot"
  BY <1>1 DEF PlacesOK
<1> QED BY <1>1, <1>3, <1>4, <1>5, EntryMoves

\* Launches of a thread's own are recorded at once.
LEMMA NewIsRecorded ==
  ASSUME TypeOK, RecordsOK, PlacesOK, EraOK, [Next]_vars,
         NEW t \in Thread, NEW c \in Child, ~Calm(c), child'[c].by = t
  PROVE  /\ ~shared /\ Free(c) /\ child'[c].script \in Script
         /\ \/ LaunchDone(t) /\ job[t].kind = "launch" /\ child'[c].script = job[t].script
               /\ dict'[t][child'[c].script] = Running(c)
            \/ /\ t = "main" /\ MonitorRestart(child'[c].script)
               /\ fresh'[child'[c].script] = Running(c)
<1>1. t # "boot"
  BY DEF Thread
<1>2. ASSUME NEW s \in Script, Spawn(c, s, "boot")
      PROVE  FALSE
  BY <1>1, <1>2, SpawnMoves
<1>3. ASSUME NEW u \in Thread, NEW s \in Script, Spawn(c, s, Launcher(u))
      PROVE  ~shared /\ u = t /\ child'[c].script = s
  <2>1. child'[c].by = Launcher(u) /\ child'[c].script = s
    BY <1>3, SpawnMoves, LauncherType
  <2> QED BY <1>1, <2>1 DEF Launcher
<1>4. ASSUME NEW u \in Thread, LaunchDone(u), job[u].kind = "launch", job[u].script \in Script,
             Spawn(c, job[u].script, Launcher(u)), Put(u, job[u].script, Running(c))
      PROVE  /\ ~shared /\ child'[c].script \in Script
             /\ LaunchDone(t) /\ job[t].kind = "launch" /\ child'[c].script = job[t].script
             /\ dict'[t][child'[c].script] = Running(c)
  <2>1. ~shared /\ u = t /\ child'[c].script = job[u].script
    BY <1>3, <1>4
  <2>2. dict'[u][job[u].script] = Running(c)
    BY <1>4, PutMoves
  <2> QED BY <1>4, <2>1, <2>2
<1>5. ASSUME NEW s \in Script, MonitorRestart(s), Spawn(c, s, Launcher("main")),
             fresh' = [fresh EXCEPT ![s] = Running(c)]
      PROVE  /\ ~shared /\ child'[c].script \in Script
             /\ t = "main" /\ MonitorRestart(child'[c].script)
             /\ fresh'[child'[c].script] = Running(c)
  <2>1. ~shared /\ t = "main" /\ child'[c].script = s
    BY <1>3, <1>5 DEF Thread
  <2>2. fresh'[s] = Running(c)
    BY <1>5 DEF TypeOK
  <2> QED BY <1>5, <2>1, <2>2
<1>6. Free(c)
  BY Launches
<1> QED BY <1>2, <1>4, <1>5, <1>6, Launches

\* The main thread's processes stay in its dict, or in the one it is building.
LEMMA NoLostChildStep ==
  ASSUME TypeOK, RecordsOK, PlacesOK, EraOK, TrackedOK, JobsOK, [Next]_vars
  PROVE  NoLostChild'
<1> SUFFICES ASSUME NEW c \in Child, child'[c].alive, child'[c].by = "main",
                    mainPc' \notin {"shutdown", "exited"}
             PROVE  Running(c) \in {dict'["main"][child'[c].script], fresh'[child'[c].script]}
  BY DEF NoLostChild
<1>0. "main" \in Thread
  BY DEF Thread
<1>1. CASE ~Calm(c)
  BY <1>0, <1>1, NewIsRecorded
<1>2. CASE Calm(c)
  <2> DEFINE s == child[c].script
  <2>1. child[c].alive /\ child[c].by = "main" /\ child'[c].script = s
    BY <1>2 DEF Calm
  <2>2. mainPc \notin {"shutdown", "exited"}
    BY OneWay
  <2>3. Running(c) \in {dict["main"][s], fresh[s]}
    BY <2>1, <2>2 DEF TrackedOK, NoLostChild
  <2>4. ~shared
    BY <2>1 DEF EraOK
  <2>5. Running(c) # Absent
    BY DEF Running, Absent
  <2>6. s \in Script
    BY <2>1 DEF RecordsOK
  <2>7. CASE dict["main"][s] = Running(c)
    <3>1. CASE dict'["main"][s] = Running(c)
      BY <2>1, <3>1
    <3>2. CASE MonitorEnd /\ dict'["main"][s] = fresh[s]
      <4>1. child[dict["main"][s].proc].alive /\ dict["main"][s].status = "running"
        BY <2>1, <2>7 DEF Running
      <4>2. fresh[s] = dict["main"][s]
        BY <2>4, <2>6, <3>2, <4>1 DEF MonitorEnd, TrackedOK
      <4> QED BY <2>1, <2>7, <3>2, <4>2
    <3> QED BY <1>0, <1>2, <2>1, <2>6, <2>7, <3>1, <3>2, HeldStep
  <2>8. CASE dict["main"][s] # Running(c)
    <3>1. fresh[s] = Running(c)
      BY <2>3, <2>8
    <3>2. mainPc = "monitor" /\ s \notin todo
      BY <2>5, <2>6, <3>1 DEF PlacesOK
    <3>3. CASE fresh'[s] = fresh[s]
      BY <2>1, <3>1, <3>3
    <3>4. CASE MonitorEnd
      BY <2>1, <2>6, <3>1, <3>4 DEF MonitorEnd, TypeOK, Thread
    <3>5. ~MonitorKeep(s) /\ ~MonitorRestart(s) /\ ~MonitorBegin
      BY <3>2 DEF MonitorKeep, MonitorRestart, MonitorBegin
    <3> QED BY <2>6, <3>3, <3>4, <3>5, FreshEntryMoves
  <2> QED BY <2>7, <2>8
<1> QED BY <1>1, <1>2
\* The remote thread's processes stay in its dict.
LEMMA AdminTrackedStep ==
  ASSUME TypeOK, RecordsOK, PlacesOK, EraOK, TrackedOK, JobsOK, [Next]_vars,
         NEW c \in Child, child'[c].alive, child'[c].by = "admin", Up'
  PROVE  dict'["admin"][child'[c].script] = Running(c)
<1>0. "admin" \in Thread
  BY DEF Thread
<1>1. CASE ~Calm(c)
  BY <1>0, <1>1, NewIsRecorded
<1>2. CASE Calm(c)
  <2>1. child[c].alive /\ child[c].by = "admin" /\ child'[c].script = child[c].script
    BY <1>2 DEF Calm
  <2>2. dict["admin"][child[c].script] = Running(c)
    BY <2>1, OneWay DEF TrackedOK
  <2>3. child[c].script \in Script
    BY <2>1 DEF RecordsOK
  <2> QED BY <1>0, <1>2, <2>1, <2>2, <2>3, HeldStep
<1> QED BY <1>1, <1>2

\* A pass has taken over every record of a live process it has visited.
LEMMA PassStep ==
  ASSUME TypeOK, RecordsOK, PlacesOK, EraOK, TrackedOK, JobsOK, [Next]_vars,
         mainPc' = "monitor", ~shared', NEW s \in Script, s \notin todo',
         dict'["main"][s].status = "running", child'[dict'["main"][s].proc].alive
  PROVE  fresh'[s] = dict'["main"][s]
<1> USE DEF mainVars
<1>0. "main" \in Thread
  BY DEF Thread
<1>1. CASE MonitorBegin
  BY <1>1 DEF MonitorBegin, Entries
<1>2. CASE ~MonitorBegin
  <2>1. mainPc = "monitor" /\ ~MonitorEnd
    <3>1. CASE \E t \in Thread : ThreadStep(t)
      BY <3>1, ThreadStepPlaces DEF ThreadStep, StopTimeout, StopDone, LaunchDone, ReloadNext,
         MonitorEnd
    <3>2. CASE MonitorEnd
      BY <3>2 DEF MonitorEnd
    <3> QED BY <1>2, <3>1, <3>2 DEF Next, MainStep, MonitorStep, Environment, BootStart,
       ShutdownNext, BootDone, DrainEvent, MonitorTorn, Leave, NoInput, ShutdownDone, MonitorKeep,
       MonitorRestart, AdminCommand, ConsoleCommand, Quit, Interrupt, BootInterrupt, InterruptAgain,
       FileChanged, DebounceEnds, ChildExits, DrainSees, vars
  <2>2. ~shared
    BY <2>1, OneWay
  <2>3. dict'["main"][s] = dict["main"][s]
    <3>1. job["main"] = Idle
      BY <2>1 DEF PlacesOK
    <3>2. ~StopDone("main") /\ ~LaunchDone("main")
      BY <3>1 DEF StopDone, LaunchDone, Idle
    <3> QED BY <1>0, <2>1, <2>2, <3>2, EntryMoves
  <2> DEFINE p == dict["main"][s].proc
  <2>4. p \in Child /\ ~Free(p)
    BY <1>0, <2>3 DEF RecordsOK, Free
  <2>5. child[p].alive
    BY <2>3, <2>4, ChildMoves DEF Calm
  <2>6. CASE s \notin todo
    <3>1. fresh[s] = dict["main"][s]
      BY <2>1, <2>2, <2>3, <2>5, <2>6 DEF TrackedOK
    <3>2. fresh'[s] = fresh[s]
      BY <2>1, <2>6, FreshEntryMoves DEF MonitorKeep, MonitorRestart, MonitorBegin
    <3> QED BY <2>3, <3>1, <3>2
  <2>7. CASE s \in todo
    <3>1. MonitorKeep(s) \/ MonitorRestart(s)
      <4>1. UNCHANGED todo \/ \E v \in Script : MonitorKeep(v) \/ MonitorRestart(v)
        <5>1. CASE \E t \in Thread : ThreadStep(t)
          BY <5>1, ThreadStepPlaces
        <5> QED BY <2>1, <1>2, <5>1 DEF Next, MainStep, MonitorStep, Environment, BootStart,
           ShutdownNext, BootDone, DrainEvent, MonitorTorn, Leave, NoInput, ShutdownDone,
           AdminCommand, ConsoleCommand, Quit, Interrupt, BootInterrupt, InterruptAgain, FileChanged,
           DebounceEnds, ChildExits, DrainSees, vars
      <4> QED BY <2>7, <4>1 DEF MonitorKeep, MonitorRestart
    <3>2. CASE MonitorKeep(s)
      <4>1. ~child[p].seen
        <5>1. CASE child[p].seen
          <6>1. child' = Killed(p)
            BY <2>3, <3>2, <5>1 DEF MonitorKeep
          <6>2. ~child'[p].alive
            BY <2>4, <6>1 DEF Killed, TypeOK
          <6> QED BY <2>3, <6>2
        <5> QED BY <5>1
      <4>2. Health(dict["main"][s]) = dict["main"][s]
        BY <2>3, <2>5, <4>1 DEF Health
      <4>3. fresh'[s] = Kept(s, dict["main"][s])
        BY <2>3, <3>2, <4>2 DEF MonitorKeep, TypeOK
      <4> QED BY <2>3, <4>3 DEF Kept
    <3>3. CASE MonitorRestart(s)
      BY <2>3, <2>5, <3>3 DEF MonitorRestart, Health, Stopped
    <3> QED BY <3>1, <3>2, <3>3
  <2> QED BY <2>6, <2>7
<1> QED BY <1>1, <1>2

\* The dicts keep track of the live processes.
LEMMA TrackedStep ==
  ASSUME TypeOK, RecordsOK, PlacesOK, EraOK, TrackedOK, JobsOK, [Next]_vars
  PROVE  TrackedOK'
<1>1. NoLostChild'
  BY NoLostChildStep
<1>2. ASSUME NEW c \in Child, child'[c].alive, child'[c].by = "admin", Up'
      PROVE  dict'["admin"][child'[c].script] = Running(c)
  BY <1>2, AdminTrackedStep
<1>3. ASSUME mainPc' = "monitor", ~shared', NEW s \in Script, s \notin todo',
             dict'["main"][s].status = "running", child'[dict'["main"][s].proc].alive
      PROVE  fresh'[s] = dict'["main"][s]
  BY <1>3, PassStep
<1> QED BY <1>1, <1>2, <1>3 DEF TrackedOK
-----------------------------------------------------------------------------
(* A launch finds no other live process of its thread.                      *)

\* The dict of a thread tells all its live processes.
Settled(t) == Up /\ (t = "main" => mainPc \in {"drain", "console"})

\* A new job is the launch half of a reload, a final stop, or decided upon by
\* what the dict says about the script.
LEMMA JobOrigin ==
  ASSUME TypeOK, RecordsOK, PlacesOK, [Next]_vars, NEW t \in Thread, job'[t] # job[t]
  PROVE  \/ job'[t] = Idle \/ job'[t].kind = "quit"
         \/ /\ StopDone(t) /\ job[t].kind = "reload"
            /\ job'[t].kind = "launch" /\ job'[t].script = job[t].script
         \/ /\ Settled(t) /\ job'[t].script \in Script
            /\ \/ job'[t].kind = "launch" /\ dict[t][job'[t].script].status # "running"
               \/ /\ job'[t].kind \in {"stop", "reload"}
                  /\ dict[t][job'[t].script].status = "running"
                  /\ job'[t].proc = dict[t][job'[t].script].proc
<1> USE DEF mainVars
<1> DEFINE Goal ==
  \/ job'[t] = Idle \/ job'[t].kind = "quit"
  \/ /\ StopDone(t) /\ job[t].kind = "reload"
     /\ job'[t].kind = "launch" /\ job'[t].script = job[t].script
  \/ /\ Settled(t) /\ job'[t].script \in Script
     /\ \/ job'[t].kind = "launch" /\ dict[t][job'[t].script].status # "running"
        \/ /\ job'[t].kind \in {"stop", "reload"}
           /\ dict[t][job'[t].script].status = "running"
           /\ job'[t].proc = dict[t][job'[t].script].proc
<1>0. ASSUME NEW u \in Thread, NEW j, job' = [job EXCEPT ![u] = j]
      PROVE  u = t /\ job'[t] = j
  BY <1>0 DEF TypeOK
<1>1. ASSUME NEW u \in Thread, NEW s \in Script, Settled(u), dict[u][s].status # "running",
             job' = [job EXCEPT ![u] = [kind |-> "launch", script |-> s, proc |-> None]]
      PROVE  Goal
  <2>1. u = t /\ job'[t] = [kind |-> "launch", script |-> s, proc |-> None]
    BY <1>0, <1>1
  <2> QED BY <1>1, <2>1
<1>2. ASSUME NEW u \in Thread, NEW s \in Script, Settled(u), dict[u][s].status = "running",
             NEW k \in {"stop", "reload"},
             job' = [job EXCEPT ![u] = [kind |-> k, script |-> s, proc |-> dict[u][s].proc]]
      PROVE  Goal
  <2>1. u = t /\ job'[t] = [kind |-> k, script |-> s, proc |-> dict[u][s].proc]
    BY <1>0, <1>2
  <2> QED BY <1>2, <2>1
<1>3. ASSUME NEW u \in Thread, Command(u), Settled(u)
      PROVE  Goal
  BY <1>1, <1>2, <1>3 DEF Command
<1>4. ASSUME NEW u \in Thread, NEW s \in Script, ReloadNext(u, s)
      PROVE  Goal
  <2>1. Settled(u)
    BY <1>4 DEF ReloadNext, Settled, PlacesOK, TypeOK, Up, Thread
  <2> QED BY <1>1, <1>2, <1>4, <2>1 DEF ReloadNext
<1>5. ASSUME NEW u \in Thread, StopDone(u)
      PROVE  Goal
  <2>1. CASE job[u].kind # "reload"
    BY <1>0, <1>5, <2>1 DEF StopDone
  <2>2. CASE job[u].kind = "reload"
    <3>1. job' = [job EXCEPT ![u] = [kind |-> "launch", script |-> job[u].script, proc |-> None]]
      BY <1>5, <2>2 DEF StopDone
    <3> QED BY <1>0, <1>5, <2>2, <3>1
  <2> QED BY <2>1, <2>2
<1>6. ASSUME NEW s \in Script, ShutdownNext(s)
      PROVE  Goal
  <2>1. job' = [job EXCEPT !["main"] =
                  [kind |-> "quit", script |-> s, proc |-> dict["main"][s].proc]]
    BY <1>6 DEF ShutdownNext
  <2> QED BY <1>0, <2>1 DEF Thread
<1>7. CASE \E u \in Thread : StopTimeout(u) \/ LaunchDone(u)
  BY <1>0, <1>7 DEF StopTimeout, LaunchDone
<1>8. CASE MonitorTorn \/ Quit \/ Interrupt
  BY <1>0, <1>8 DEF MonitorTorn, Quit, Interrupt, Leave, Thread
<1>9. CASE AdminCommand \/ ConsoleCommand
  <2>1. CASE AdminCommand
    BY <1>3, <2>1 DEF AdminCommand, Settled, Up, Thread
  <2>2. CASE ConsoleCommand
    BY <1>3, <2>2 DEF ConsoleCommand, Settled, Up, Thread
  <2> QED BY <1>9, <2>1, <2>2
<1>10. CASE ShutdownDone \/ InterruptAgain
  BY <1>10 DEF ShutdownDone, InterruptAgain
<1>11. CASE \/ BootDone \/ DrainEvent \/ MonitorBegin \/ MonitorEnd \/ NoInput \/ BootInterrupt
            \/ \E s \in Script : \/ BootStart(s) \/ MonitorKeep(s) \/ MonitorRestart(s)
                                 \/ FileChanged(s) \/ DebounceEnds(s)
            \/ \E c \in Child : ChildExits(c) \/ DrainSees(c)
            \/ UNCHANGED vars
  BY <1>11 DEF BootDone, DrainEvent, MonitorBegin, MonitorEnd, NoInput, BootInterrupt, BootStart,
     MonitorKeep, MonitorRestart, FileChanged, DebounceEnds, ChildExits, DrainSees, vars
<1> QED BY <1>4, <1>5, <1>6, <1>7, <1>8, <1>9, <1>10, <1>11
        DEF Next, ThreadStep, MainStep, MonitorStep, Environment

\* Whatever a thread has launched and is alive is in its dict when it decides
\* upon a new job.
LEMMA MineTracked ==
  ASSUME PlacesOK, TrackedOK, NEW t \in Thread, NEW s \in Script, Settled(t),
         NEW c \in Mine(t, s)
  PROVE  dict[t][s] = Running(c)
<1>1. c \in Child /\ child[c].alive /\ child[c].by = t /\ child[c].script = s
  BY DEF Mine
<1>2. CASE t = "admin"
  BY <1>1, <1>2 DEF TrackedOK, Settled
<1>3. CASE t = "main"
  <2>1. Running(c) \in {dict["main"][s], fresh[s]}
    BY <1>1, <1>3 DEF TrackedOK, NoLostChild, Settled
  <2>2. fresh[s] = Absent
    BY <1>3 DEF PlacesOK, Settled
  <2>3. Running(c) # Absent
    BY DEF Running, Absent
  <2> QED BY <1>3, <2>1, <2>2, <2>3
<1> QED BY <1>2, <1>3 DEF Thread

\* A thread with a job launches nothing else in the meantime.
LEMMA MineShrinks ==
  ASSUME TypeOK, RecordsOK, PlacesOK, EraOK, [Next]_vars, NEW t \in Thread, NEW s \in Script,
         job'[t].kind \in {"stop", "reload", "launch"},
         NEW c \in Child, child'[c].alive, child'[c].by = t, child'[c].script = s
  PROVE  c \in Mine(t, s) /\ Calm(c)
<1>2. Idle.kind = "idle"
  BY DEF Idle
<1>3. Calm(c)
  <2>1. SUFFICES ASSUME ~Calm(c) PROVE FALSE
    OBVIOUS
  <2>2. CASE LaunchDone(t)
    <3>1. job'[t] = Idle
      BY <2>2 DEF LaunchDone, TypeOK
    <3> QED BY <1>2, <3>1
  <2>3. CASE t = "main" /\ MonitorRestart(s)
    <3>1. job'["main"] = Idle
      BY <2>3 DEF MonitorRestart, PlacesOK
    <3> QED BY <1>2, <2>3, <3>1
  <2> QED BY <2>1, <2>2, <2>3, NewIsRecorded
<1> QED BY <1>3 DEF Calm, Mine

\* A thread that stops or launches has at most the process it is stopping.
LEMMA JobsStep ==
  ASSUME TypeOK, RecordsOK, RecordsOK', PlacesOK, EraOK, TrackedOK, JobsOK, [Next]_vars
  PROVE  JobsOK'
<1> SUFFICES ASSUME NEW t \in Thread, NEW s \in Script, s = job'[t].script,
                    job'[t].kind \in {"stop", "reload", "launch"}, NEW c \in Child,
                    child'[c].alive, child'[c].by = t, child'[c].script = s
             PROVE  job'[t].kind # "launch" /\ job'[t].proc = c
  BY DEF JobsOK, Mine, RecordsOK, Waiting
<1>3. c \in Mine(t, s) /\ Calm(c)
  BY MineShrinks
<1>4. child[c].alive
  BY <1>3 DEF Mine
<1>5. CASE job'[t] = job[t]
  BY <1>3, <1>5 DEF JobsOK
<1>6. CASE StopDone(t) /\ job[t].kind = "reload" /\ job[t].script = s
  <2>1. job[t].proc = c
    BY <1>3, <1>6 DEF JobsOK
  <2> QED BY <1>4, <1>6, <2>1 DEF StopDone
<1>7. ASSUME dict[t][s] # Running(c), Settled(t)
      PROVE  FALSE
  BY <1>3, <1>7, MineTracked
<1>8. CASE job'[t] # job[t]
  <2>1. \/ StopDone(t) /\ job[t].kind = "reload" /\ job[t].script = s
        \/ /\ Settled(t)
           /\ \/ job'[t].kind = "launch" /\ dict[t][s].status # "running"
              \/ job'[t].kind \in {"stop", "reload"} /\ job'[t].proc = dict[t][s].proc
    BY <1>8, JobOrigin DEF Idle
  <2>2. Running(c).status = "running" /\ Running(c).proc = c
    BY DEF Running
  <2> QED BY <1>6, <1>7, <2>1, <2>2
<1> QED BY <1>5, <1>8
\* A pass restarts a script that it has found no live process of.
LEMMA RestartFindsNone ==
  ASSUME PlacesOK, TrackedOK, NEW s \in Script, MonitorRestart(s)
  PROVE  Mine("main", s) = {}
<1> SUFFICES ASSUME NEW d \in Mine("main", s) PROVE FALSE
  OBVIOUS
<1>1. d \in Child /\ child[d].alive /\ child[d].by = "main" /\ child[d].script = s
  BY DEF Mine
<1>2. Running(d) \in {dict["main"][s], fresh[s]}
  BY <1>1 DEF MonitorRestart, TrackedOK, NoLostChild
<1>3. fresh[s] = Absent
  BY DEF MonitorRestart, PlacesOK
<1>4. Running(d) # Absent /\ Running(d).status = "running" /\ Running(d).proc = d
  BY DEF Running, Absent
<1>5. dict["main"][s] = Running(d)
  BY <1>2, <1>3, <1>4
<1>6. Health(dict["main"][s]).status # "crashed"
  BY <1>1, <1>4, <1>5 DEF Health, Stopped
<1> QED BY <1>6 DEF MonitorRestart

\* A thread launches a script only when it has no live process of it.
LEMMA OnePerLauncherStep ==
  ASSUME TypeOK, RecordsOK, PlacesOK, EraOK, TrackedOK, JobsOK, OnePerLauncher, [Next]_vars
  PROVE  OnePerLauncher'
<1>1. ASSUME NEW t \in Thread, NEW c \in Child, NEW d \in Child, c # d,
             child'[c].alive, child'[d].alive, child'[c].script = child'[d].script,
             child'[c].by = t, child'[d].by = t, ~Calm(c)
      PROVE  FALSE
  <2> DEFINE s == child'[c].script
  <2>1. ~shared /\ s \in Script
    BY <1>1, NewIsRecorded
  <2>2. Calm(d)
    <3>1. SUFFICES ASSUME ~Calm(d) PROVE FALSE
      OBVIOUS
    <3>2. PICK u \in Script, w \in {"boot", "main", "admin"} : Spawn(c, u, w)
      BY <1>1, Launches, LauncherType DEF Thread
    <3>3. child'[d] = child[d]
      BY <1>1, <3>2, SpawnMoves
    <3> QED BY <3>1, <3>3 DEF Calm
  <2>3. d \in Mine(t, s) /\ child[d].alive /\ child[d].by = t /\ child[d].script = s
    BY <1>1, <2>2 DEF Calm, Mine
  <2>4. CASE LaunchDone(t) /\ job[t].kind = "launch" /\ s = job[t].script
    BY <2>3, <2>4 DEF JobsOK
  <2>5. CASE t = "main" /\ MonitorRestart(s)
    BY <2>1, <2>3, <2>5, RestartFindsNone
  <2> QED BY <1>1, <2>4, <2>5, NewIsRecorded
<1>2. ASSUME NEW c \in Child, NEW d \in Child,
             child'[c].alive, child'[d].alive, child'[c].script = child'[d].script,
             child'[c].by = child'[d].by, child'[c].by # "boot"
      PROVE  c = d
  <2>1. child'[c].by \in Thread
    <3>1. TypeOK'
      BY NextType
    <3> QED BY <1>2, <3>1 DEF TypeOK, Process, Thread
  <2>2. CASE Calm(c) /\ Calm(d)
    BY <1>2, <2>2 DEF Calm, OnePerLauncher
  <2> QED BY <1>1, <1>2, <2>1, <2>2
<1> QED BY <1>2 DEF OnePerLauncher

-----------------------------------------------------------------------------
(* The final stops.                                                         *)

\* How the main thread comes to its final stops and how it ends.
LEMMA ExitMoves ==
  ASSUME TypeOK, PlacesOK, [Next]_vars
  PROVE  \/ UNCHANGED <<mainPc, cause, todo>>
         \/ mainPc' \notin {"shutdown", "exited"} /\ UNCHANGED cause
              /\ mainPc \notin {"shutdown", "exited"}
         \/ mainPc = "console" /\ Leave("quit")
         \/ mainPc \in {"drain", "monitor", "console"}
              /\ (Leave("interrupt") \/ Leave("error"))
         \/ BootInterrupt \/ InterruptAgain \/ ShutdownDone
         \/ \E s \in Script : ShutdownNext(s)
<1> USE DEF mainVars
<1>1. CASE \E t \in Thread : ThreadStep(t)
  BY <1>1, ThreadStepPlaces
<1>2. CASE MonitorTorn \/ Quit \/ Interrupt
  BY <1>2 DEF MonitorTorn, Quit, Interrupt
<1>3. CASE \/ BootDone \/ MonitorBegin \/ MonitorEnd \/ NoInput \/ ConsoleCommand
           \/ \E s \in Script : BootStart(s) \/ MonitorKeep(s) \/ MonitorRestart(s)
  BY <1>3 DEF BootDone, MonitorBegin, MonitorEnd, NoInput, ConsoleCommand, BootStart,
     MonitorKeep, MonitorRestart
<1>4. CASE \/ DrainEvent \/ AdminCommand
           \/ \E s \in Script : FileChanged(s) \/ DebounceEnds(s)
           \/ \E c \in Child : ChildExits(c) \/ DrainSees(c)
           \/ UNCHANGED vars
  BY <1>4 DEF DrainEvent, AdminCommand, FileChanged, DebounceEnds, ChildExits, DrainSees, vars
<1> QED BY <1>1, <1>2, <1>3, <1>4 DEF Next, MainStep, MonitorStep, Environment

\* During the final stops every live process of the main thread is still to be
\* visited or is being waited for.
LEMMA ExitStep ==
  ASSUME TypeOK, RecordsOK, PlacesOK, EraOK, TrackedOK, JobsOK, ExitOK, [Next]_vars
  PROVE  ExitOK'
<1> USE DEF mainVars
<1>0. "main" \in Thread
  BY DEF Thread
<1>1. mainPc' \notin {"shutdown", "exited"} <=> cause' = "none"
  BY ExitMoves DEF ExitOK, Leave, BootInterrupt, InterruptAgain, ShutdownDone, ShutdownNext
<1>2. ASSUME mainPc' = "shutdown", cause' = "quit", NEW c \in Child,
             child'[c].alive, child'[c].by = "main"
      PROVE  /\ dict'["main"][child'[c].script] = Running(c)
             /\ child'[c].script \in todo' \/ job'["main"].proc = c
  <2>1. Calm(c)
    <3>1. SUFFICES ASSUME ~Calm(c) PROVE FALSE
      OBVIOUS
    <3>2. CASE LaunchDone("main") /\ job["main"].kind = "launch"
      <4>1. mainPc' = mainPc
        BY <3>2 DEF LaunchDone
      <4> QED BY <1>2, <3>2, <4>1 DEF PlacesOK, Idle
    <3>3. CASE \E s : MonitorRestart(s)
      BY <1>2, <3>3 DEF MonitorRestart
    <3> QED BY <1>0, <1>2, <3>1, <3>2, <3>3, NewIsRecorded
  <2> DEFINE s == child[c].script
  <2>2. child[c].alive /\ child[c].by = "main" /\ child'[c].script = s /\ s \in Script
    BY <1>2, <2>1 DEF Calm, RecordsOK
  <2>3. Running(c) # Absent /\ Running(c).status = "running" /\ Running(c).proc = c
    BY DEF Running, Absent
  <2>4. CASE mainPc = "console" /\ Leave("quit")
    <3>1. dict["main"][s] = Running(c)
      BY <2>2, <2>3, <2>4 DEF PlacesOK, TrackedOK, NoLostChild
    <3>2. dict'["main"][s] = Running(c) /\ s \in todo'
      BY <2>2, <2>3, <2>4, <3>1 DEF Leave, Entries
    <3> QED BY <2>2, <3>2
  <2>5. CASE mainPc = "shutdown" /\ cause = "quit"
    <3>1. dict["main"][s] = Running(c) /\ (s \in todo \/ job["main"].proc = c)
      BY <2>2, <2>5 DEF ExitOK
    <3>2. dict'["main"][s] = Running(c)
      BY <1>0, <1>2, <2>1, <2>2, <2>5, <3>1, HeldStep DEF MonitorEnd
    <3>3. ASSUME NEW v \in Script, ShutdownNext(v)
          PROVE  s \in todo' \/ job'["main"].proc = c
      <4>1. CASE v = s
        <5>1. job'["main"].proc = c
          BY <2>3, <3>1, <3>3, <4>1 DEF ShutdownNext, TypeOK, Thread
        <5> QED BY <5>1
      <4>2. CASE v # s
        <5>1. job["main"].proc # c
          BY <3>3, NoneAssumption DEF ShutdownNext, Idle
        <5> QED BY <3>1, <3>3, <4>2, <5>1 DEF ShutdownNext
      <4> QED BY <4>1, <4>2
    <3>4. ASSUME ~\E v \in Script : ShutdownNext(v)
          PROVE  s \in todo' \/ job'["main"].proc = c
      <4>1. todo' = todo
        BY <1>2, <2>5, <3>4, ExitMoves DEF BootInterrupt, InterruptAgain, ShutdownDone
      <4>2. CASE s \in todo
        BY <4>1, <4>2
      <4>3. CASE job["main"].proc = c /\ s \notin todo
        <5>1. job["main"] # Idle /\ job["main"].kind = "quit" /\ batch["main"] = {}
          <6>1. job["main"] # Idle
            BY <4>3, NoneAssumption DEF Idle
          <6> QED BY <2>5, <6>1 DEF PlacesOK
        <5>2. CASE job'["main"] = job["main"]
          BY <4>3, <5>2
        <5>3. CASE job'["main"] # job["main"]
          <6>1. \E t \in Thread : ThreadStep(t) /\ t = "main"
            <7>1. ASSUME ~\E t \in Thread : ThreadStep(t)
                  PROVE  job'["main"] = job["main"]
              BY <1>0, <1>2, <2>5, <3>4, <7>1 DEF Next, MainStep, MonitorStep, Environment,
                 BootStart, BootDone, DrainEvent, MonitorBegin, MonitorEnd, MonitorTorn, NoInput,
                 ShutdownDone, MonitorKeep, MonitorRestart, AdminCommand, Command, ConsoleCommand,
                 Quit, Interrupt, BootInterrupt, InterruptAgain, ChildExits, DrainSees, FileChanged,
                 DebounceEnds, vars, TypeOK
            <7> QED BY <1>0, <5>3, <7>1, OwnStep DEF Thread
          <6>2. StopTimeout("main") \/ StopDone("main")
            BY <5>1, <6>1 DEF ThreadStep, LaunchDone, ReloadNext
          <6> QED BY <2>2, <4>3, <5>3, <6>2 DEF StopTimeout, StopDone
        <5> QED BY <5>2, <5>3
      <4> QED BY <3>1, <4>2, <4>3
    <3> QED BY <2>2, <3>2, <3>3, <3>4
  <2> QED BY <1>2, <2>4, <2>5, ExitMoves DEF Leave, BootInterrupt, InterruptAgain, ShutdownDone,
     ShutdownNext, ExitOK
<1> QED BY <1>1, <1>2 DEF ExitOK
\* The engine exits through "quit" only after the last of the final stops.
LEMMA CleanExitStep ==
  ASSUME TypeOK, RecordsOK, PlacesOK, EraOK, ExitOK, CleanExit, [Next]_vars
  PROVE  CleanExit'
<1> USE DEF mainVars
<1> SUFFICES ASSUME mainPc' = "exited", cause' = "quit", NEW c \in Child,
                    child'[c].by = "main", child'[c].alive
             PROVE  FALSE
  BY DEF CleanExit
<1>0. "main" \in Thread
  BY DEF Thread
<1>1. Calm(c)
  <2>1. SUFFICES ASSUME ~Calm(c) PROVE FALSE
    OBVIOUS
  <2>2. CASE LaunchDone("main")
    BY <2>2 DEF LaunchDone, Up
  <2>3. CASE \E s : MonitorRestart(s)
    BY <2>3 DEF MonitorRestart
  <2> QED BY <1>0, <2>1, <2>2, <2>3, NewIsRecorded
<1>2. child[c].alive /\ child[c].by = "main"
  BY <1>1 DEF Calm
<1>3. CASE mainPc = "exited" /\ cause = "quit"
  BY <1>2, <1>3 DEF CleanExit
<1>4. CASE ShutdownDone
  <2>1. mainPc = "shutdown" /\ cause = "quit" /\ todo = {} /\ job["main"] = Idle
    BY <1>4 DEF ShutdownDone
  <2>2. job["main"].proc # c
    BY <2>1, NoneAssumption DEF Idle
  <2> QED BY <1>2, <2>1, <2>2 DEF ExitOK
<1> QED BY <1>3, <1>4, ExitMoves DEF Leave, BootInterrupt, InterruptAgain, ShutdownNext

-----------------------------------------------------------------------------
(* The theorems.                                                            *)

\* The invariant holds when the engine starts.
LEMMA InitInvariant == Init => IInv
<1> SUFFICES ASSUME Init PROVE IInv
  OBVIOUS
<1>1. TypeOK /\ RecordsOK
  BY InitType, InitRecords
<1>2. PlacesOK /\ EraOK
  BY DEF Init, PlacesOK, EraOK, Idle, Thread
<1>3. \A c \in Child : ~child[c].alive
  BY DEF Init
<1>4. TrackedOK /\ JobsOK
  BY <1>3 DEF Init, TrackedOK, NoLostChild, JobsOK, Mine, Idle
<1>5. ExitOK /\ OnePerLauncher /\ CleanExit
  BY <1>3 DEF Init, ExitOK, OnePerLauncher, CleanExit
<1>6. ConsoleStopSticks
  BY NoneAssumption DEF Init, ConsoleStopSticks
<1> QED BY <1>1, <1>2, <1>4, <1>5, <1>6 DEF IInv

\* Every step keeps it.
LEMMA StepInvariant == IInv /\ [Next]_vars => IInv'
<1> SUFFICES ASSUME IInv, [Next]_vars PROVE IInv'
  OBVIOUS
<1>0. /\ TypeOK /\ RecordsOK /\ PlacesOK /\ EraOK /\ TrackedOK /\ JobsOK /\ ExitOK
      /\ OnePerLauncher /\ CleanExit /\ ConsoleStopSticks
  BY DEF IInv
<1>1. TypeOK' /\ RecordsOK'
  BY <1>0, NextType, RecordsStep
<1>2. PlacesOK' /\ EraOK' /\ TrackedOK'
  BY <1>0, PlacesStep, EraStep, TrackedStep
<1>3. JobsOK' /\ OnePerLauncher'
  BY <1>0, <1>1, JobsStep, OnePerLauncherStep
<1>4. ExitOK' /\ CleanExit' /\ ConsoleStopSticks'
  BY <1>0, ExitStep, CleanExitStep, ConsoleStopStep
<1> QED BY <1>1, <1>2, <1>3, <1>4 DEF IInv

\* The strengthened invariant of the engine: the dict of each thread accounts
\* for the live processes that thread has launched, at every point of a stop, a
\* reload, a monitoring pass and the final stops.
THEOREM Invariance == Spec => []IInv
BY InitInvariant, StepInvariant, PTL DEF Spec

\* No live process of the main thread is forgotten (process_wrapper.py:168-244,
\* 350-373), for any scripts, policies and processes.
THEOREM ChildrenAreTracked == Spec => []NoLostChild
<1>1. IInv => NoLostChild
  BY DEF IInv, TrackedOK
<1> QED BY <1>1, Invariance, PTL

\* A thread never runs a script twice (main.py:121, watcher.py:259).
THEOREM OneProcessPerLauncher == Spec => []OnePerLauncher
<1>1. IInv => OnePerLauncher
  BY DEF IInv
<1> QED BY <1>1, Invariance, PTL

\* "quit", "exit" and the end of stdin leave no process of the main thread
\* behind (main.py:308-312).
THEOREM QuitIsClean == Spec => []CleanExit
<1>1. IInv => CleanExit
  BY DEF IInv
<1> QED BY <1>1, Invariance, PTL

\* What the console stopped is not restarted by the monitor, whatever its
\* policy (process_wrapper.py:287-338).
THEOREM ConsoleStopHolds == Spec => []ConsoleStopSticks
<1>1. IInv => ConsoleStopSticks
  BY DEF IInv
<1> QED BY <1>1, Invariance, PTL

-----------------------------------------------------------------------------
(* The engine is a keeper of scripts: what one step does to the processes   *)
(* that the abstract specification sees.                                    *)

Live == [t \in Thread |-> [s \in Script |-> Mine(t, s)]]

\* A launch adds one process to those of its thread and script.
LEMMA SpawnMine ==
  ASSUME TypeOK, NEW c \in Child, ~child[c].alive, NEW s \in Script,
         NEW who \in {"boot", "main", "admin"}, Spawn(c, s, who)
  PROVE  /\ who = "boot" => Live' = Live
         /\ who \in Thread => Live' = [Live EXCEPT ![who][s] = @ \cup {c}]
<1>1. \A p \in Child : p # c => child'[p] = child[p]
  BY SpawnMoves
<1>2. child'[c].script = s /\ child'[c].by = who /\ child'[c].alive
  BY SpawnMoves
<1>3. ASSUME NEW t \in Thread, NEW r \in Script
      PROVE  Mine(t, r)' = IF t = who /\ r = s THEN Mine(t, r) \cup {c} ELSE Mine(t, r)
  BY <1>1, <1>2 DEF Mine
<1>4. CASE who = "boot"
  <2>1. \A t \in Thread, r \in Script : Mine(t, r)' = Mine(t, r)
    BY <1>3, <1>4 DEF Thread
  <2> QED BY <1>4, <2>1 DEF Live, Thread
<1>5. CASE who \in Thread
  BY <1>3, <1>5 DEF Live, Thread
<1> QED BY <1>4, <1>5

\* A step in which a process dies leaves all else that is seen as it is: the
\* process exits by itself, a stop kills it, or a pass does.
LEMMA Deaths ==
  ASSUME TypeOK, RecordsOK, [Next]_vars, NEW c \in Child, child[c].alive, ~child'[c].alive
  PROVE  /\ \A p \in Child : p # c => child'[p] = child[p]
         /\ UNCHANGED <<halted, mainPc, cause>>
<1> USE DEF mainVars
<1>1. ASSUME NEW d \in Child, child' = Killed(d)
      PROVE  \A p \in Child : p # c => child'[p] = child[p]
  BY <1>1 DEF Killed, TypeOK
<1>2. ASSUME NEW t \in Thread, StopTimeout(t)
      PROVE  job[t].proc \in Child
  BY <1>2 DEF StopTimeout, RecordsOK, Waiting
<1>3. CASE \E t \in Thread : StopTimeout(t)
  BY <1>1, <1>2, <1>3 DEF StopTimeout
<1>4. ASSUME NEW s \in Script, MonitorKeep(s)
      PROVE  /\ \A p \in Child : p # c => child'[p] = child[p]
             /\ UNCHANGED <<halted, mainPc, cause>>
  <2>1. child' = Killed(dict["main"][s].proc) /\ dict["main"][s].proc \in Child
    BY <1>4 DEF MonitorKeep, RecordsOK, Thread
  <2> QED BY <1>1, <1>4, <2>1 DEF MonitorKeep
<1>5. ASSUME NEW d \in Child, ChildExits(d)
      PROVE  \A p \in Child : p # c => child'[p] = child[p]
  BY <1>5 DEF ChildExits, TypeOK
<1>6. CASE \E d \in Child : ChildExits(d)
  BY <1>5, <1>6 DEF ChildExits
<1>7. ASSUME NEW d \in Child, NEW s, NEW who, Free(d), Spawn(d, s, who)
      PROVE  FALSE
  BY <1>7 DEF Free, Spawn, TypeOK
<1>8. ASSUME NEW d \in Child, DrainSees(d)
      PROVE  FALSE
  BY <1>8 DEF DrainSees, TypeOK, Process
<1>9. CASE \/ \E s \in Script : BootStart(s) \/ MonitorRestart(s)
           \/ \E t \in Thread : LaunchDone(t)
  BY <1>7, <1>9 DEF BootStart, MonitorRestart, LaunchDone
<1>10. CASE \/ \E t \in Thread : StopDone(t) \/ \E s \in Script : ReloadNext(t, s)
            \/ BootDone \/ DrainEvent \/ MonitorBegin \/ MonitorEnd \/ MonitorTorn
            \/ NoInput \/ ShutdownDone \/ \E s \in Script : ShutdownNext(s)
            \/ AdminCommand \/ ConsoleCommand \/ Quit \/ Interrupt \/ BootInterrupt \/ InterruptAgain
            \/ \E s \in Script : FileChanged(s) \/ DebounceEnds(s)
            \/ UNCHANGED vars
  BY <1>10 DEF StopDone, ReloadNext, BootDone, DrainEvent, MonitorBegin, MonitorEnd,
     MonitorTorn, Leave, NoInput, ShutdownDone, ShutdownNext, AdminCommand, ConsoleCommand,
     Quit, Interrupt, BootInterrupt, InterruptAgain, FileChanged, DebounceEnds, vars
<1> QED BY <1>3, <1>4, <1>6, <1>8, <1>9, <1>10
        DEF Next, ThreadStep, MainStep, MonitorStep, Environment, StopTimeout, ChildExits

\* The exit of a process is one of the abstract specification, or of a process
\* that it does not see.
LEMMA DeathRefines ==
  ASSUME TypeOK, RecordsOK, [Next]_vars, NEW c \in Child, child[c].alive, ~child'[c].alive
  PROVE  Engine!Next \/ UNCHANGED Engine!vars
<1> DEFINE t == child[c].by
           s == child[c].script
<1>1. /\ \A p \in Child : p # c => child'[p] = child[p]
      /\ UNCHANGED <<halted, mainPc, cause>>
  BY Deaths
<1>2. UNCHANGED Phase
  BY <1>1 DEF Phase
<1>3. ASSUME NEW u \in Thread, NEW r \in Script
      PROVE  Mine(u, r)' = IF u = t /\ r = s THEN Mine(u, r) \ {c} ELSE Mine(u, r)
  <2>1. CASE u = t /\ r = s
    BY <1>1, <2>1 DEF Mine
  <2>2. CASE ~(u = t /\ r = s)
    <3>1. c \notin Mine(u, r) /\ c \notin Mine(u, r)'
      BY <2>2 DEF Mine
    <3> QED BY <1>1, <2>2, <3>1 DEF Mine
  <2> QED BY <2>1, <2>2
<1>4. s \in Script /\ t \in {"boot", "main", "admin"}
  BY DEF RecordsOK, TypeOK, Process
<1>5. c \in Mine(t, s)
  BY DEF Mine
<1>6. CASE t = "boot"
  <2>1. \A u \in Thread, r \in Script : Mine(u, r)' = Mine(u, r)
    BY <1>3, <1>6 DEF Thread
  <2>2. Live' = Live
    BY <2>1 DEF Live
  <2> QED BY <1>1, <1>2, <2>2 DEF Engine!vars, Live
<1>7. CASE t \in Thread
  <2>1. Live' = [Live EXCEPT ![t][s] = @ \ {c}] /\ c \in Live[t][s]
    BY <1>3, <1>4, <1>5, <1>7 DEF Live
  <2>2. Engine!Die(t, s)
    BY <1>1, <1>2, <2>1 DEF Engine!Die, Live
  <2> QED BY <1>4, <1>7, <2>2 DEF Engine!Next
<1> QED BY <1>4, <1>6, <1>7 DEF Thread

\* A launch by a command or a reload is one that was asked for.
LEMMA CommandedLaunch ==
  ASSUME IInv, [Next]_vars, NEW t \in Thread, NEW c \in Child, Free(c),
         LaunchDone(t), job[t].kind = "launch", job[t].script \in Script,
         Spawn(c, job[t].script, Launcher(t))
  PROVE  Engine!Next
<1> DEFINE s == job[t].script
<1>0. TypeOK /\ PlacesOK /\ JobsOK
  BY DEF IInv
<1>1. ~child[c].alive
  BY DEF Free
<1>2. Engine!Working(t) /\ UNCHANGED Phase /\ halted' = [halted EXCEPT ![s] = None]
  <2>1. mainPc # "exited" /\ (t = "main" => mainPc # "shutdown")
    BY <1>0 DEF LaunchDone, Up, PlacesOK, Idle
  <2>2. mainPc' = mainPc /\ cause' = cause
    BY DEF LaunchDone, mainVars
  <2> QED BY <2>1, <2>2 DEF Engine!Working, Phase, LaunchDone
<1>3. CASE shared
  <2>1. Live' = Live
    BY <1>0, <1>1, <1>3, SpawnMine DEF Launcher
  <2>2. Engine!Start(t, s)
    BY <1>2, <2>1 DEF Engine!Start, Live
  <2> QED BY <2>2 DEF Engine!Next
<1>4. CASE ~shared
  <2>1. Live' = [Live EXCEPT ![t][s] = @ \cup {c}]
    BY <1>0, <1>1, <1>4, SpawnMine DEF Launcher, Thread
  <2>2. Live[t][s] = {}
    BY <1>0 DEF JobsOK, Live
  <2>3. Live' = [Live EXCEPT ![t][s] = {c}]
    BY <2>1, <2>2
  <2>4. \A u \in Thread, r \in Script : c \notin Live[u][r]
    BY <1>1 DEF Live, Mine
  <2>5. Engine!Launch(t, s)
    BY <2>2, <2>3, <2>4 DEF Engine!Launch, Live
  <2>6. Engine!Start(t, s)
    BY <1>2, <2>5 DEF Engine!Start
  <2> QED BY <2>6 DEF Engine!Next
<1> QED BY <1>3, <1>4

\* A launch by a pass is a new attempt, of a script the console has not stopped.
LEMMA PassLaunch ==
  ASSUME IInv, [Next]_vars, NEW s \in Script, NEW c \in Child, Free(c),
         MonitorRestart(s), Spawn(c, s, Launcher("main"))
  PROVE  Engine!Next \/ UNCHANGED Engine!vars
<1>0. TypeOK /\ PlacesOK /\ TrackedOK /\ ConsoleStopSticks /\ "main" \in Thread
  BY DEF IInv, Thread
<1>1. ~child[c].alive
  BY DEF Free
<1>2. Engine!Working("main") /\ UNCHANGED <<Phase, halted>>
  BY DEF MonitorRestart, Engine!Working, Phase
<1>3. halted[s] # "main"
  BY <1>0 DEF ConsoleStopSticks, MonitorRestart, Health
<1>4. CASE shared
  <2>1. Live' = Live
    BY <1>0, <1>1, <1>4, SpawnMine DEF Launcher
  <2> QED BY <1>2, <2>1 DEF Engine!vars, Live
<1>5. CASE ~shared
  <2>1. Live' = [Live EXCEPT !["main"][s] = @ \cup {c}]
    BY <1>0, <1>1, <1>5, SpawnMine DEF Launcher, Thread
  <2>2. Live["main"][s] = {}
    BY <1>0, RestartFindsNone DEF Live
  <2>3. Live' = [Live EXCEPT !["main"][s] = {c}]
    BY <2>1, <2>2
  <2>4. \A u \in Thread, r \in Script : c \notin Live[u][r]
    BY <1>1 DEF Live, Mine
  <2>5. Engine!Launch("main", s)
    BY <2>2, <2>3, <2>4 DEF Engine!Launch, Live
  <2>6. Engine!Retry(s)
    BY <1>2, <1>3, <2>5 DEF Engine!Retry
  <2> QED BY <2>6 DEF Engine!Next
<1> QED BY <1>4, <1>5

\* Boot launches are not seen; all others are commands or new attempts.
LEMMA BirthRefines ==
  ASSUME IInv, [Next]_vars, NEW c \in Child, ~Calm(c)
  PROVE  Engine!Next \/ UNCHANGED Engine!vars
<1>0. TypeOK /\ RecordsOK /\ PlacesOK
  BY DEF IInv
<1>1. ASSUME NEW s \in Script, BootStart(s), Free(c), Spawn(c, s, "boot")
      PROVE  UNCHANGED Engine!vars
  <2>1. Live' = Live
    BY <1>0, <1>1, SpawnMine DEF Free
  <2> QED BY <1>1, <2>1 DEF BootStart, Engine!vars, Live, Phase
<1>2. ASSUME NEW t \in Thread, LaunchDone(t), job[t].kind = "launch", Free(c),
             job[t].script \in Script, Spawn(c, job[t].script, Launcher(t))
      PROVE  Engine!Next
  BY <1>2, CommandedLaunch
<1>3. ASSUME NEW s \in Script, MonitorRestart(s), Free(c), Spawn(c, s, Launcher("main"))
      PROVE  Engine!Next \/ UNCHANGED Engine!vars
  BY <1>3, PassLaunch
<1> QED BY <1>0, <1>1, <1>2, <1>3, Launches

\* Of the other steps the abstract specification sees the ends of stops and of
\* launches that failed, the beginning of the final stops, and the end.
LEMMA QuietRefines ==
  ASSUME IInv, [Next]_vars,
         \A c \in Child : Calm(c) /\ (child[c].alive => child'[c].alive)
  PROVE  Engine!Next \/ UNCHANGED Engine!vars
<1>0. /\ TypeOK /\ RecordsOK /\ PlacesOK /\ JobsOK /\ ExitOK
      /\ "main" \in Thread
  BY DEF IInv, Thread
<1>1. Live' = Live
  <2>1. \A t \in Thread, s \in Script : Mine(t, s)' = Mine(t, s)
    BY DEF Mine, Calm
  <2> QED BY <2>1 DEF Live
<1>2. ASSUME NEW t \in Thread, LaunchDone(t)
      PROVE  Engine!Next
  <2>1. job[t].kind = "launch" /\ job[t].script \in Script
    BY <1>0, <1>2 DEF LaunchDone, RecordsOK
  <2>2. mainPc # "exited" /\ (t = "main" => mainPc # "shutdown")
    BY <1>0, <1>2, <2>1 DEF LaunchDone, Up, PlacesOK, Idle
  <2>3. Engine!Working(t) /\ UNCHANGED Phase
    BY <1>2, <2>2 DEF Engine!Working, Phase, LaunchDone, mainVars
  <2>4. Engine!Start(t, job[t].script)
    BY <1>1, <1>2, <2>3 DEF Engine!Start, LaunchDone, Live
  <2> QED BY <2>1, <2>4 DEF Engine!Next
<1>3. ASSUME NEW t \in Thread, StopDone(t)
      PROVE  Engine!Next \/ UNCHANGED Engine!vars
  <2> DEFINE s == job[t].script
  <2>1. UNCHANGED Phase
    BY <1>3 DEF StopDone, mainVars, Phase
  <2>2. CASE job[t].kind # "stop"
    BY <1>1, <1>3, <2>1, <2>2 DEF StopDone, Engine!vars, Live
  <2>3. CASE job[t].kind = "stop"
    <3>1. s \in Script
      BY <1>0, <2>3 DEF RecordsOK, Waiting
    <3>2. Live[t][s] = {}
      <4>1. Mine(t, s) \subseteq {job[t].proc} /\ ~child[job[t].proc].alive
        BY <1>0, <1>3, <2>3 DEF JobsOK, StopDone
      <4> QED BY <3>1, <4>1 DEF Live, Mine
    <3>3. Engine!Working(t)
      BY <1>0, <1>3, <2>3 DEF StopDone, Up, PlacesOK, Idle, Engine!Working, Phase
    <3>4. halted' = [halted EXCEPT ![s] = t]
      BY <1>3, <2>3 DEF StopDone
    <3>5. Engine!Stop(t, s)
      BY <1>1, <2>1, <3>2, <3>3, <3>4 DEF Engine!Stop, Live
    <3> QED BY <3>1, <3>5 DEF Engine!Next
  <2> QED BY <2>2, <2>3
<1>4. CASE UNCHANGED halted
  <2>1. CASE UNCHANGED Phase
    BY <1>1, <1>4, <2>1 DEF Engine!vars, Live
  <2>2. ASSUME NEW why, Leave(why), mainPc \in {"drain", "monitor", "console"}
        PROVE  Engine!Next
    <3>1. Engine!Close
      BY <1>1, <1>4, <2>2 DEF Engine!Close, Leave, Phase, Live
    <3> QED BY <3>1 DEF Engine!Next
  <2>3. CASE BootInterrupt \/ InterruptAgain
    <3>1. Engine!Break
      BY <1>1, <1>4, <2>3 DEF Engine!Break, BootInterrupt, InterruptAgain, Phase, Live
    <3> QED BY <3>1 DEF Engine!Next
  <2>4. CASE ShutdownDone /\ cause' = "quit"
    <3>1. mainPc = "shutdown" /\ cause = "quit" /\ todo = {} /\ job["main"].proc = None
      BY <2>4 DEF ShutdownDone, Idle
    <3>2. \A s \in Script : Live["main"][s] = {}
      <4> SUFFICES ASSUME NEW s \in Script, NEW c \in Mine("main", s) PROVE FALSE
        BY <1>0 DEF Live
      <4>1. c \in Child /\ child[c].alive /\ child[c].by = "main"
        BY DEF Mine
      <4> QED BY <1>0, <3>1, <4>1, NoneAssumption DEF ExitOK
    <3>3. Phase = "closing" /\ Phase' = "clean"
      BY <2>4, <3>1 DEF ShutdownDone, Phase
    <3>4. Engine!EndInOrder
      BY <1>1, <1>4, <3>2, <3>3 DEF Engine!EndInOrder, Live
    <3> QED BY <3>4 DEF Engine!Next
  <2>5. CASE ShutdownDone /\ cause' # "quit"
    <3>1. Engine!Break
      BY <1>1, <1>4, <2>5 DEF Engine!Break, ShutdownDone, Phase, Live
    <3> QED BY <3>1 DEF Engine!Next
  <2>6. \/ UNCHANGED Phase
        \/ \E why : Leave(why) /\ mainPc \in {"drain", "monitor", "console"}
        \/ BootInterrupt \/ InterruptAgain \/ ShutdownDone
    BY <1>0, ExitMoves DEF Phase, ShutdownNext
  <2> QED BY <2>1, <2>2, <2>3, <2>4, <2>5, <2>6
<1> QED BY <1>2, <1>3, <1>4, HaltedKept

\* A step sees a process die, or one begin, or neither.
LEMMA StepRefines ==
  ASSUME IInv, [Next]_vars
  PROVE  [Engine!Next]_(Engine!vars)
<1>0. TypeOK /\ RecordsOK
  BY DEF IInv
<1>1. CASE \E c \in Child : child[c].alive /\ ~child'[c].alive
  BY <1>0, <1>1, DeathRefines
<1>2. CASE \E c \in Child : ~Calm(c)
  BY <1>2, BirthRefines
<1>3. CASE \A c \in Child : Calm(c) /\ (child[c].alive => child'[c].alive)
  BY <1>3, QuietRefines
<1> QED BY <1>1, <1>2, <1>3

\* The engine is a keeper of scripts, for any scripts, policies and processes:
\* no interleaving of commands, passes, exits and final stops launches what a
\* thread still runs, ends a stop too early or undoes one from the console
\* (main.py:121, watcher.py:259, process_wrapper.py:168-200, 287-338).
THEOREM EngineKeepsScripts == Spec => KeepsScripts
<1>1. Init => Engine!Init
  BY DEF Init, Engine!Init, Mine, Phase
<1>2. IInv /\ [Next]_vars => [Engine!Next]_(Engine!vars)
  BY StepRefines
<1> QED BY <1>1, <1>2, InitInvariant, StepInvariant, PTL DEF Spec, KeepsScripts, Engine!Spec
=============================================================================
