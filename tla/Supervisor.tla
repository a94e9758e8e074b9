----------------------------- MODULE Supervisor -----------------------------
(***************************************************************************)
(* The YuniScripts engine: main() of main.py supervises one operating      *)
(* system process per script, through the process records of              *)
(* engine/process_wrapper.py and the hot reload of engine/watcher.py.      *)
(*                                                                         *)
(* Four kinds of actor interleave:                                         *)
(*   - the main thread: boot, then a loop of "drain the file events",      *)
(*     "monitor every script", "serve one console command";                *)
(*   - the remote administration thread (udp_admin_server), which executes *)
(*     the same commands;                                                  *)
(*   - one drain thread per child, which sets the child's shutdown event   *)
(*     some time after the child has printed SHUTDOWN_COMPLETE;            *)
(*   - the children themselves, which exit whenever they like.             *)
(*                                                                         *)
(* The two command threads start out with ONE dict of process records.     *)
(* monitor_scripts returns a new dict, and main() rebinds its own name to  *)
(* it (main.py:276), so from the end of the first pass each thread has a   *)
(* dict of its own: "shared" says whether that has happened.               *)
(***************************************************************************)
EXTENDS Naturals, Sequences

CONSTANTS
  Script,       \* the registry: every discovered script
  Enabled,      \* those whose metadata has enabled = true
  Policy,       \* restart_policy of each script
  Child,        \* the pool of operating system processes
  None,         \* Python's None
  MaxEvents     \* bound of the file event queue

ASSUME EnabledAssumption == Enabled \subseteq Script
ASSUME PolicyAssumption  == Policy \in [Script -> {"never", "on-failure", "always"}]
ASSUME NoneAssumption    == None \notin Child /\ None \notin Script /\ None \notin {"main", "admin"}
ASSUME EventsAssumption  == MaxEvents \in Nat

VARIABLES
  child,     \* the processes, as the operating system and their pipes know them
  dict,      \* the dict of process records that each thread holds
  shared,    \* both threads still hold the same dict object
  mainPc,    \* where the main thread is
  todo,      \* scripts that the loop the main thread is in has not visited yet
  keys,      \* the keys of the dict when that loop began
  fresh,     \* new_running of monitor_scripts
  job,       \* the stop or launch each thread is in the middle of
  batch,     \* the scripts each thread still has to reload
  queue,     \* event_queue: file changes the watchers have reported
  recent,    \* the script was reloaded less than the debounce time ago
  halted,    \* history: the thread whose "stop" was the last command on the script
  cause      \* history: why the main thread left its loop

vars == <<child, dict, shared, mainPc, todo, keys, fresh, job, batch, queue,
          recent, halted, cause>>

mainVars == <<mainPc, todo, keys, fresh, cause>>

-----------------------------------------------------------------------------
(* Process records, and the operators the actions are made of.             *)

Thread == {"main", "admin"}

\* A process record is abstracted to its status, its Popen object and whether
\* its exit code is 0. A dict entry that does not exist has status "absent".
Absent     == [status |-> "absent",  proc |-> None, zero |-> FALSE]
CrashedNoCode == [status |-> "crashed", proc |-> None, zero |-> None]  \* mutant: no exit code
Crashed    == [status |-> "crashed", proc |-> None, zero |-> FALSE]
Running(c) == [status |-> "running", proc |-> c,    zero |-> FALSE]
Stopped(z) == [status |-> "stopped", proc |-> None, zero |-> z]

\* What a thread is doing outside its command loop: waiting for the process of
\* a stop, of the stop half of a reload or of the final stops, or launching.
Idle == [kind |-> "idle", script |-> None, proc |-> None]

Record == [status : {"absent", "crashed", "running", "stopped"},
           proc   : Child \cup {None},
           zero   : BOOLEAN]
Job == [kind   : {"idle", "stop", "reload", "launch", "quit"},
        script : Script \cup {None},
        proc   : Child \cup {None}]
Process == [script : Script \cup {None},
            alive  : BOOLEAN,
            ok     : BOOLEAN,      \* it exited with code 0
            seen   : BOOLEAN,      \* shutdown_event is set
            by     : {"boot", "main", "admin"}]

Entries(d) == {s \in Script : d[s].status # "absent"}

Busy(t) == job[t] # Idle \/ batch[t] # {}

\* The commands of a thread stop with the main thread: the others are daemons.
Up == mainPc # "exited"

\* running[s] = r executed by thread t.
Put(t, s, r) ==
  dict' = [u \in Thread |->
             IF u = t \/ shared THEN [dict[u] EXCEPT ![s] = r] ELSE dict[u]]

\* A process that no record, job or live program occupies.
Free(c) ==
  /\ ~child[c].alive
  /\ \A s \in Script : fresh[s].proc # c
  /\ \A t \in Thread : job[t].proc # c /\ \A s \in Script : dict[t][s].proc # c

\* Processes launched while the dict is shared are marked "boot".
Launcher(t) == IF shared THEN "boot" ELSE t

Spawn(c, s, who) ==
  child' = [child EXCEPT ![c] =
              [script |-> s, alive |-> TRUE, ok |-> FALSE, seen |-> FALSE, by |-> who]]

\* Mutant: the wait gives up and nobody kills.
KilledNot(c) == child

\* proc.kill() and the wait after it; a process that is gone keeps its code.
Killed(c) == [child EXCEPT ![c].alive = FALSE]

-----------------------------------------------------------------------------
(* Boot: start_all_enabled, before the watchers and the admin thread.      *)

Init ==
  /\ child  = [c \in Child |-> [script |-> None, alive |-> FALSE, ok |-> FALSE,
                                seen |-> FALSE, by |-> "boot"]]
  /\ dict   = [t \in Thread |-> [s \in Script |-> Absent]]
  /\ shared = TRUE
  /\ mainPc = "boot"
  /\ todo   = Enabled
  /\ keys   = {}
  /\ fresh  = [s \in Script |-> Absent]
  /\ job    = [t \in Thread |-> Idle]
  /\ batch  = [t \in Thread |-> {}]
  /\ queue  = <<>>
  /\ recent = [s \in Script |-> FALSE]
  /\ halted = [s \in Script |-> None]
  /\ cause  = "none"

BootStart(s) ==
  /\ mainPc = "boot" /\ s \in todo
  /\ todo' = todo \ {s}
  /\ \/ \E c \in Child : Free(c) /\ Spawn(c, s, "boot") /\ Put("main", s, Running(c))
     \/ Put("main", s, Crashed) /\ UNCHANGED child
  /\ UNCHANGED <<shared, mainPc, keys, fresh, job, batch, queue, recent, halted, cause>>

BootDone ==
  /\ mainPc = "boot" /\ todo = {}
  /\ mainPc' = "drain"
  /\ UNCHANGED <<child, dict, shared, todo, keys, fresh, job, batch, queue,
                 recent, halted, cause>>

-----------------------------------------------------------------------------
(* stop_script, start_script and reload_script, executed by either thread. *)

\* Mutant: stop_script waits for ever.
StopTimeoutNever(t) == FALSE /\ UNCHANGED vars

\* Mutant: only the final stops wait for ever.
StopTimeoutNotAtExit(t) ==
  /\ Up /\ job[t].kind \in {"stop", "reload"}
  /\ child[job[t].proc].alive
  /\ child' = Killed(job[t].proc)
  /\ UNCHANGED <<dict, shared, job, batch, queue, recent, halted>>
  /\ UNCHANGED mainVars

\* proc.wait() of stop_script times out: the process is killed.
StopTimeout(t) ==
  /\ Up /\ job[t].kind \in {"stop", "reload", "quit"}
  /\ child[job[t].proc].alive
  /\ child' = Killed(job[t].proc)
  /\ UNCHANGED <<dict, shared, job, batch, queue, recent, halted>>
  /\ UNCHANGED mainVars

\* The process is gone: stop_script returns a STOPPED record. The final stops
\* of main() drop it, a stop command stores it, a reload stores it and goes on.
StopDone(t) ==
  LET j == job[t]
      r == Stopped(child[j.proc].ok)
  IN
  /\ Up /\ j.kind \in {"stop", "reload", "quit"}
  /\ ~child[j.proc].alive
  /\ job' = [job EXCEPT ![t] = IF j.kind = "reload"
                               THEN [kind |-> "launch", script |-> j.script, proc |-> None]
                               ELSE Idle]
  /\ IF j.kind = "quit" THEN UNCHANGED dict ELSE Put(t, j.script, r)
  /\ halted' = IF j.kind = "stop" THEN [halted EXCEPT ![j.script] = t] ELSE halted
  /\ UNCHANGED <<child, shared, batch, queue, recent>>
  /\ UNCHANGED mainVars

\* start_script and the assignment of its result. The launch may fail. A reload
\* also stores its time stamp, taken before the stop: the debounce window may
\* already be over when it is stored.
LaunchDone(t) ==
  LET s == job[t].script IN
  /\ Up /\ job[t].kind = "launch"
  /\ \/ \E c \in Child :
          /\ Free(c)
          /\ Spawn(c, s, Launcher(t))
          /\ Put(t, s, Running(c))
     \/ Put(t, s, Crashed) /\ UNCHANGED child
  /\ job' = [job EXCEPT ![t] = Idle]
  /\ halted' = [halted EXCEPT ![s] = None]
  /\ \/ s \in batch[t] /\ s \in Enabled /\ recent' = [recent EXCEPT ![s] = TRUE]
     \/ UNCHANGED recent
  /\ batch' = [batch EXCEPT ![t] = @ \ {s}]
  /\ UNCHANGED <<shared, queue>>
  /\ UNCHANGED mainVars

\* Mutant: the reload launches without stopping what runs.
ReloadNextNoStop(t, s) ==
  /\ Up /\ s \in batch[t] /\ job[t] = Idle
  /\ IF recent[s]
     THEN batch' = [batch EXCEPT ![t] = @ \ {s}] /\ UNCHANGED job
     ELSE /\ job' = [job EXCEPT ![t] =
                       [kind |-> "launch", script |-> s, proc |-> None]]
          /\ UNCHANGED batch
  /\ UNCHANGED <<child, dict, shared, queue, recent, halted>>
  /\ UNCHANGED mainVars

\* reload_script up to its first blocking call: debounced, or a running script
\* is told to terminate, or the launch follows at once.
ReloadNext(t, s) ==
  LET r == dict[t][s] IN
  /\ Up /\ s \in batch[t] /\ job[t] = Idle
  /\ IF recent[s]
     THEN /\ batch' = [batch EXCEPT ![t] = @ \ {s}]
          /\ UNCHANGED job
     ELSE /\ job' = [job EXCEPT ![t] =
                       IF r.status = "running"
                       THEN [kind |-> "reload", script |-> s, proc |-> r.proc]
                       ELSE [kind |-> "launch", script |-> s, proc |-> None]]
          /\ UNCHANGED batch
  /\ UNCHANGED <<child, dict, shared, queue, recent, halted>>
  /\ UNCHANGED mainVars

\* Mutant: "start" does not look whether the script is running.
CommandAnyway(t) ==
  \/ /\ \E s \in Script :
          \/ job' = [job EXCEPT ![t] = [kind |-> "launch", script |-> s, proc |-> None]]
          \/ /\ dict[t][s].status = "running"
             /\ job' = [job EXCEPT ![t] =
                          [kind |-> "stop", script |-> s, proc |-> dict[t][s].proc]]
     /\ UNCHANGED batch
  \/ /\ \/ \E s \in Script : batch' = [batch EXCEPT ![t] = {s}]
        \/ batch' = [batch EXCEPT ![t] = Entries(dict[t])]
     /\ UNCHANGED job

\* handle_admin_command: "start" is refused for a running script, "stop" for
\* one that is not; "status" and "help" change nothing.
Command(t) ==
  \/ /\ \E s \in Script :
          \/ /\ dict[t][s].status # "running"
             /\ job' = [job EXCEPT ![t] =
                          [kind |-> "launch", script |-> s, proc |-> None]]
          \/ /\ dict[t][s].status = "running"
             /\ job' = [job EXCEPT ![t] =
                          [kind |-> "stop", script |-> s, proc |-> dict[t][s].proc]]
     /\ UNCHANGED batch
  \/ /\ \/ \E s \in Script : batch' = [batch EXCEPT ![t] = {s}]
        \/ batch' = [batch EXCEPT ![t] = Entries(dict[t])]
     /\ UNCHANGED job

-----------------------------------------------------------------------------
(* The remote administration thread. It is created with the dict main()    *)
(* holds at that moment and is never given another one.                    *)

AdminCommand ==
  /\ mainPc \notin {"boot", "exited"} /\ ~Busy("admin")
  /\ Command("admin")
  /\ UNCHANGED <<child, dict, shared, queue, recent, halted>>
  /\ UNCHANGED mainVars

-----------------------------------------------------------------------------
(* The main loop: drain the events, monitor, serve one console command.    *)

DrainEvent ==
  /\ mainPc = "drain" /\ ~Busy("main") /\ queue # <<>>
  /\ queue' = Tail(queue)
  /\ batch' = [batch EXCEPT !["main"] = IF recent[Head(queue)] THEN {} ELSE {Head(queue)}]
  /\ UNCHANGED <<child, dict, shared, job, recent, halted>>
  /\ UNCHANGED mainVars

MonitorBegin ==
  /\ mainPc = "drain" /\ ~Busy("main") /\ queue = <<>>
  /\ mainPc' = "monitor"
  /\ keys'   = Entries(dict["main"])
  /\ todo'   = Entries(dict["main"])
  /\ fresh'  = [s \in Script |-> Absent]
  /\ UNCHANGED <<child, dict, shared, job, batch, queue, recent, halted, cause>>

\* The dict changed size under the loop that iterates over it: Python raises.
Torn == Entries(dict["main"]) # keys

\* check_health. A set shutdown event wins over everything else (the process is
\* waited for, then killed); a process that is gone without it has crashed,
\* whatever its exit code.
Health(r) ==
  IF r.status # "running" THEN r
  ELSE IF child[r.proc].seen THEN Stopped(TRUE)
  ELSE IF child[r.proc].alive THEN r
  ELSE Crashed

\* What monitor_scripts puts in new_running for a record it does not restart.
Kept(s, r) ==
  IF r.status = "stopped" /\ (r.zero \/ Policy[s] # "always") THEN Absent ELSE r

\* check_health and apply_restart_policy where they start nothing: a script of
\* policy "never" that crashed is stopped; one that is to be restarted may still
\* be in its backoff delay and then stays crashed.
MonitorKeep(s) ==
  LET r == dict["main"][s]
      h == Health(r)
  IN
  /\ mainPc = "monitor" /\ s \in todo /\ ~Torn
  /\ todo' = todo \ {s}
  /\ child' = IF r.status = "running" /\ child[r.proc].seen
              THEN Killed(r.proc) ELSE child
  /\ fresh' = [fresh EXCEPT ![s] =
                 Kept(s, IF h.status = "crashed" /\ Policy[s] = "never"
                         THEN Stopped(FALSE) ELSE h)]
  /\ UNCHANGED <<dict, shared, mainPc, keys, job, batch, queue, recent, halted, cause>>

\* Mutant: "always" also restarts what was stopped with a non-zero exit code.
MonitorRestartStopped(s) ==
  LET h == Health(dict["main"][s]) IN
  /\ mainPc = "monitor" /\ s \in todo /\ ~Torn
  /\ \/ h.status = "crashed" /\ Policy[s] \in {"on-failure", "always"}
     \/ h.status = "stopped" /\ ~h.zero /\ Policy[s] = "always"
  /\ todo' = todo \ {s}
  /\ \E c \in Child :
       /\ Free(c)
       /\ Spawn(c, s, Launcher("main"))
       /\ fresh' = [fresh EXCEPT ![s] = Running(c)]
  /\ UNCHANGED <<dict, shared, mainPc, keys, job, batch, queue, recent, halted, cause>>

\* apply_restart_policy when the backoff delay is over: start_script again.
MonitorRestart(s) ==
  /\ mainPc = "monitor" /\ s \in todo /\ ~Torn
  /\ Health(dict["main"][s]).status = "crashed"
  /\ Policy[s] \in {"on-failure", "always"}
  /\ todo' = todo \ {s}
  /\ \/ \E c \in Child :
          /\ Free(c)
          /\ Spawn(c, s, Launcher("main"))
          /\ fresh' = [fresh EXCEPT ![s] = Running(c)]
     \/ fresh' = [fresh EXCEPT ![s] = Crashed] /\ UNCHANGED child
  /\ UNCHANGED <<dict, shared, mainPc, keys, job, batch, queue, recent, halted, cause>>

\* registry, running = monitor_scripts(registry, running): the name "running" of
\* main() now means the new dict; the admin thread keeps the one it has.
MonitorEnd ==
  /\ mainPc = "monitor" /\ todo = {} /\ ~Torn
  /\ mainPc' = "console"
  /\ dict'   = [dict EXCEPT !["main"] = fresh]
  /\ shared' = FALSE
  /\ fresh'  = [s \in Script |-> Absent]
  /\ keys'   = {}
  /\ UNCHANGED <<child, todo, job, batch, queue, recent, halted, cause>>

NoInput ==
  /\ mainPc = "console"
  /\ mainPc' = "drain"
  /\ UNCHANGED <<child, dict, shared, todo, keys, fresh, job, batch, queue,
                 recent, halted, cause>>

ConsoleCommand ==
  /\ mainPc = "console"
  /\ mainPc' = "drain"
  /\ Command("main")
  /\ UNCHANGED <<child, dict, shared, todo, keys, fresh, queue, recent, halted, cause>>

-----------------------------------------------------------------------------
(* The end of the main loop, and the finally block that follows it.        *)

\* What the main thread was doing is abandoned; "running" still is the dict it
\* had before the pass, whatever the pass has launched since.
Leave(why) ==
  /\ mainPc' = "shutdown"
  /\ cause'  = why
  /\ todo'   = Entries(dict["main"])
  /\ keys'   = Entries(dict["main"])
  /\ fresh'  = [s \in Script |-> Absent]
  /\ job'    = [job EXCEPT !["main"] = Idle]
  /\ batch'  = [batch EXCEPT !["main"] = {}]
  /\ UNCHANGED <<child, dict, shared, queue, recent, halted>>

\* "exit", "quit" or the end of stdin.
Quit == mainPc = "console" /\ Leave("quit")

\* KeyboardInterrupt, anywhere in the try block.
Interrupt == mainPc \in {"drain", "monitor", "console"} /\ Leave("interrupt")

\* RuntimeError of a loop over a dict the admin thread has added a key to.
MonitorTorn == mainPc = "monitor" /\ Torn /\ Leave("error")

\* Before the try block, an interrupt ends the engine with no cleanup at all.
BootInterrupt ==
  /\ mainPc = "boot"
  /\ mainPc' = "exited" /\ cause' = "interrupt" /\ todo' = {}
  /\ UNCHANGED <<child, dict, shared, keys, fresh, job, batch, queue, recent, halted>>

\* Mutant: the final stops do not wait for the processes they terminate.
ShutdownNextNoWait(s) ==
  /\ mainPc = "shutdown" /\ job["main"] = Idle /\ s \in todo /\ ~Torn
  /\ todo' = todo \ {s}
  /\ UNCHANGED <<child, dict, shared, mainPc, keys, fresh, job, batch, queue,
                 recent, halted, cause>>

\* stop_script ignores the records that are not running.
ShutdownNext(s) ==
  LET r == dict["main"][s] IN
  /\ mainPc = "shutdown" /\ job["main"] = Idle /\ s \in todo /\ ~Torn
  /\ todo' = todo \ {s}
  /\ job' = IF r.status = "running"
            THEN [job EXCEPT !["main"] = [kind |-> "quit", script |-> s, proc |-> r.proc]]
            ELSE job
  /\ UNCHANGED <<child, dict, shared, mainPc, keys, fresh, batch, queue,
                 recent, halted, cause>>

\* The interpreter exits and its daemon threads die with it.
ShutdownDone ==
  /\ mainPc = "shutdown" /\ job["main"] = Idle
  /\ todo = {} \/ Torn
  /\ mainPc' = "exited"
  /\ todo' = {} /\ keys' = {}
  /\ cause' = IF Torn THEN "error" ELSE cause
  /\ job'   = [t \in Thread |-> Idle]
  /\ batch' = [t \in Thread |-> {}]
  /\ UNCHANGED <<child, dict, shared, fresh, queue, recent, halted>>

\* A second interrupt ends the finally block, the stop it is waiting for included.
InterruptAgain ==
  /\ mainPc = "shutdown"
  /\ mainPc' = "exited" /\ cause' = "interrupt"
  /\ todo' = {} /\ keys' = {}
  /\ job'   = [t \in Thread |-> Idle]
  /\ batch' = [t \in Thread |-> {}]
  /\ UNCHANGED <<child, dict, shared, fresh, queue, recent, halted>>

-----------------------------------------------------------------------------
(* Children, drain threads, watchers and clocks.                           *)

ChildExits(c) ==
  /\ child[c].alive
  /\ \E ok \in BOOLEAN :
       child' = [child EXCEPT ![c] = [@ EXCEPT !.alive = FALSE, !.ok = ok]]
  /\ UNCHANGED <<dict, shared, job, batch, queue, recent, halted>>
  /\ UNCHANGED mainVars

\* The child has printed SHUTDOWN_COMPLETE, and _drain_pipe reads it now: at once,
\* or long after the child has exited. Nothing makes a child exit once it has
\* printed the marker, and nothing makes the drain thread faster than the monitor.
DrainSees(c) ==
  /\ Up /\ ~Free(c) /\ ~child[c].seen
  /\ child' = [child EXCEPT ![c].seen = TRUE]
  /\ UNCHANGED <<dict, shared, job, batch, queue, recent, halted>>
  /\ UNCHANGED mainVars

\* The watchers cover the scripts that were started at boot, and stay active
\* whatever happens to the script.
FileChanged(s) ==
  /\ mainPc \notin {"boot", "exited"} /\ s \in Enabled /\ Len(queue) < MaxEvents
  /\ queue' = Append(queue, s)
  /\ UNCHANGED <<child, dict, shared, job, batch, recent, halted>>
  /\ UNCHANGED mainVars

DebounceEnds(s) ==
  /\ Up /\ recent[s]
  /\ recent' = [recent EXCEPT ![s] = FALSE]
  /\ UNCHANGED <<child, dict, shared, job, batch, queue, halted>>
  /\ UNCHANGED mainVars

-----------------------------------------------------------------------------
(* The specification.                                                      *)

ThreadStep(t) ==
  \/ StopTimeout(t) \/ StopDone(t) \/ LaunchDone(t)
  \/ \E s \in Script : ReloadNext(t, s)

MonitorStep ==
  \/ MonitorBegin \/ MonitorEnd \/ MonitorTorn
  \/ \E s \in Script : MonitorKeep(s) \/ MonitorRestart(s)

MainStep ==
  \/ \E s \in Script : BootStart(s) \/ ShutdownNext(s)
  \/ BootDone \/ DrainEvent \/ MonitorStep \/ NoInput \/ ShutdownDone

Environment ==
  \/ AdminCommand \/ ConsoleCommand \/ Quit \/ Interrupt \/ InterruptAgain \/ BootInterrupt
  \/ \E c \in Child : ChildExits(c) \/ DrainSees(c)
  \/ \E s \in Script : FileChanged(s) \/ DebounceEnds(s)

Next == MainStep \/ Environment \/ \E t \in Thread : ThreadStep(t)

\* The engine's own threads keep running; operators, children, file changes
\* and interrupts come whenever they like, or never.
Fairness ==
  /\ WF_vars(MainStep \/ ThreadStep("main"))
  /\ WF_vars(ThreadStep("admin"))

Spec     == Init /\ [][Next]_vars
FairSpec == Spec /\ Fairness

-----------------------------------------------------------------------------
(* Properties.                                                             *)

TypeOK ==
  /\ child  \in [Child -> Process]
  /\ dict   \in [Thread -> [Script -> Record]]
  /\ shared \in BOOLEAN
  /\ mainPc \in {"boot", "drain", "monitor", "console", "shutdown", "exited"}
  /\ todo   \subseteq Script
  /\ keys   \subseteq Script
  /\ fresh  \in [Script -> Record]
  /\ job    \in [Thread -> Job]
  /\ batch  \in [Thread -> SUBSET Script]
  /\ queue  \in Seq(Script) /\ Len(queue) <= MaxEvents
  /\ recent \in [Script -> BOOLEAN]
  /\ halted \in [Script -> Thread \cup {None}]
  /\ cause  \in {"none", "quit", "interrupt", "error"}

\* A live process that the main thread launched after its first monitoring pass
\* is in main()'s dict, or in the dict the pass under way is building, as
\* "running": no stop, reload, restart, failed launch or shutdown marker makes
\* the engine forget a process that is still there (process_wrapper.py:168-244,
\* 350-373, watcher.py:254-264).
NoLostChild ==
  \A c \in Child :
    child[c].alive /\ child[c].by = "main" /\ mainPc \notin {"shutdown", "exited"} =>
      Running(c) \in {dict["main"][child[c].script], fresh[child[c].script]}

\* When the engine ends through "quit", "exit" or the end of stdin, no process
\* that the main thread launched after its first pass survives it: the finally
\* block (main.py:308-312) reaches every one of them, stubborn ones included.
CleanExit ==
  mainPc = "exited" /\ cause = "quit" =>
    \A c \in Child : child[c].by = "main" => ~child[c].alive

\* Each thread has at most one live process per script among those it launched
\* after the dicts parted: the "already running" check of "start"
\* (main.py:121) and the stop half of reload_script (watcher.py:259) hold
\* against everything the same thread has done before. Two live processes of a
\* script always come from two different threads.
OnePerLauncher ==
  \A c1, c2 \in Child :
    /\ child[c1].alive /\ child[c2].alive
    /\ child[c1].script = child[c2].script
    /\ child[c1].by = child[c2].by /\ child[c1].by # "boot"
    => c1 = c2

\* A script that the console stopped is not started by anything but a later
\* start, reload or file change: after "stop", the monitoring passes neither
\* restart it nor believe it crashed (process_wrapper.py:168-200, 287-338).
ConsoleStopSticks ==
  \A s \in Script :
    halted[s] = "main" =>
      {dict["main"][s].status, fresh[s].status} \cap {"running", "crashed"} = {}

\* The live processes that thread t launched for script s since the dicts parted
Mine(t, s) == {c \in Child : child[c].alive /\ child[c].by = t /\ child[c].script = s}

\* The same of a script that the remote administration port stopped: once main()
\* has rebound its dict (main.py:276) and as long as no later command concerns
\* the script, no step gives it a new process.
RemoteStopSticks ==
  [][ \A s \in Script :
        ~shared /\ halted[s] = "admin" /\ halted'[s] = "admin" =>
          Mine("main", s)' \subseteq Mine("main", s) ]_vars

\* What the outside sees of the engine's course
Phase ==
  IF mainPc = "exited" THEN IF cause = "quit" THEN "clean" ELSE "broken"
  ELSE IF mainPc = "shutdown" THEN "closing" ELSE "up"

\* Seen from outside, the engine is a keeper of scripts: whatever is recorded
\* where, and however commands, passes and exits interleave, no thread launches a
\* script it has a live process of, a stop is over only when that process is,
\* nothing but a request undoes a stop from the console, and the main thread
\* launches nothing once it has begun its final stops.
Engine ==
  INSTANCE Keeper WITH
    live  <- [t \in Thread |-> [s \in Script |-> Mine(t, s)]],
    phase <- Phase

KeepsScripts == Engine!Spec

\* Every stop and every reload that a thread has begun comes to an end, even
\* when the child ignores SIGTERM: stop_script kills after its timeout.
CommandsEnd == \A t \in Thread : Busy(t) ~> ~Busy(t)

\* Once main() has left its loop, for whatever reason, the engine exits.
ShutdownEnds == mainPc = "shutdown" ~> mainPc = "exited"

=============================================================================
