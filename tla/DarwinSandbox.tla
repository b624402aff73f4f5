--------------------------- MODULE DarwinSandbox ---------------------------
(***************************************************************************)
(* A sandbox on macOS (platform/darwin/mod.rs and the macOS half of        *)
(* process.rs): launch(), the memory monitor and the parent watchdog it    *)
(* starts, which know the sandboxed process by its number only, and        *)
(* wait(), with its detour through `log show`, cleanup() and Drop.         *)
(***************************************************************************)
EXTENDS Integers

CONSTANTS MacConfigs, \* what a caller asks for, and what the child will do
          LogPipe     \* lines the pipe of `log show` holds

ASSUME LogPipeHolds == LogPipe \in Nat \ {0}
ASSUME LimitOrNone == \A m \in MacConfigs : m.limit \in BOOLEAN

VARIABLES
    mac,      \* the configuration
    main,     \* where the launching thread is
    held,     \* what launch() or the handle owns: "tmp", "master", "slave"
    child,    \* the sandboxed process
    kin,      \* a descendant of it, in its process group
    number,   \* who has the child's number
    monitor,  \* the thread of start_memory_monitor
    cancel,   \* monitor_cancel
    watchdog, \* the thread of start_parent_watchdog
    parents,  \* getppid() when the watchdog started, and now
    log,      \* `log show`: its state, lines to write, lines in its pipe
    told,     \* NetworkBlocked events emitted
    stray     \* threads whose signal hit another process's group

launched == <<mac, held, child, kin, number, parents, stray>>
threads == <<monitor, cancel, watchdog>>
audit == <<log, told>>
macVars == <<main, launched, threads, audit>>

Ended == {"err", "done", "killed"}
Exists == number # "free"                    \* kill(pid, 0) == 0
LogOff == [st |-> "off", left |-> 0, pipe |-> 0]

MacTypeOK ==
    /\ mac \in MacConfigs /\ held \subseteq {"tmp", "master", "slave"}
    /\ child \in {"none", "live", "zombie", "reaped"} /\ kin \in {"none", "live", "dead"}
    /\ number \in {"free", "child", "other"}
    /\ monitor \in {"off", "sleep", "alive", "ps", "kill", "ended"} /\ cancel \in BOOLEAN
    /\ watchdog \in {"off", "sleep", "alive", "kill", "ended"}
    /\ parents \in [at : {"none", "parent", "launchd"}, now : {"parent", "launchd"}]
    /\ log.pipe \in 0..LogPipe /\ told \in 0..mac.denials
    /\ stray \subseteq {"monitor", "watchdog"}

MacInit ==
    /\ mac \in MacConfigs /\ main = "init" /\ held = {}
    /\ child = "none" /\ kin = "none" /\ number = "free"
    /\ monitor = "off" /\ cancel = FALSE /\ watchdog = "off"
    /\ parents = [at |-> "none", now |-> "parent"]
    /\ log = LogOff /\ told = 0 /\ stray = {}

-----------------------------------------------------------------------------
(***************************************************************************)
(* launch().  An error returns through TmpDirGuard, which removes the      *)
(* directory if it can; the PTY's descriptors are plain numbers, closed by *)
(* hand where the spawn fails and nowhere else.                            *)
(***************************************************************************)
ReturnErr ==
    /\ main' = "err"
    /\ held' \in {held \ {"tmp"}, held}
    /\ UNCHANGED <<mac, child, kin, number, parents, stray, threads, audit>>

Onward(from, to) == main = from /\ main' = to

(* The validation, and the events up to the layers; only a mandatory sink  *)
(* makes a failing event an error.                                         *)
LaunchInit ==
    /\ Onward("init", "tmp")
    /\ UNCHANGED <<launched, threads, audit>>

MakeTmpDir ==
    /\ Onward("tmp", "profile")
    /\ held' = held \cup {"tmp"}
    /\ UNCHANGED <<mac, child, kin, number, parents, stray, threads, audit>>

(* The paths of the Seatbelt profile, and the profile itself.              *)
GenerateProfile ==
    /\ Onward("profile", "env")
    /\ UNCHANGED <<launched, threads, audit>>

(* sandbox-exec, the wrapper, the environment and its EnvPolicy event, and *)
(* the caller's descriptors.                                               *)
BuildCommand ==
    /\ Onward("env", "stdio")
    /\ UNCHANGED <<launched, threads, audit>>

(* openpty, or the redirection of the standard streams.                    *)
SetupStdio ==
    /\ Onward("stdio", "ready")
    /\ ~(mac.tty /\ mac.redirect)
    /\ held' = IF mac.tty THEN held \cup {"master", "slave"} ELSE held
    /\ UNCHANGED <<mac, child, kin, number, parents, stray, threads, audit>>

EmitReady ==
    /\ Onward("ready", "spawn")
    /\ UNCHANGED <<launched, threads, audit>>

(* A step of launch() fails: validation, a file system operation, the      *)
(* search for sandbox-exec, openpty or dup; or an event of a mandatory     *)
(* sink, after the PTY was made as well.                                   *)
LaunchFails ==
    /\ \/ main \in {"init", "tmp", "profile", "env", "stdio"}
       \/ main = "ready" /\ mac.sink = "mandatory"
    /\ ReturnErr

(* The spawn, setsid() and the remapping of descriptors in pre_exec        *)
(* included; std reports an error of the child and reaps it.               *)
Spawn ==
    /\ Onward("spawn", "monitor")
    /\ child' = "live" /\ number' = "child"
    /\ held' = held \ {"slave"}
    /\ UNCHANGED <<mac, kin, parents, stray, threads, audit>>

SpawnFails ==
    /\ main = "spawn" /\ main' = "err"
    /\ held' \in {{}, {"tmp"}}
    /\ UNCHANGED <<mac, child, kin, number, parents, stray, threads, audit>>

StartMonitor ==
    /\ Onward("monitor", "watchdog")
    /\ monitor' = IF mac.limit THEN "sleep" ELSE "off"
    /\ UNCHANGED <<launched, cancel, watchdog, audit>>

StartWatchdog ==
    /\ Onward("watchdog", "ok")
    /\ watchdog' = "sleep"
    /\ parents' = [parents EXCEPT !.at = parents.now]
    /\ UNCHANGED <<mac, held, child, kin, number, stray, monitor, cancel, audit>>

-----------------------------------------------------------------------------
(***************************************************************************)
(* The threads.  A signal to a process group reaches every member; the     *)
(* number of a group that has members is not given away.                   *)
(***************************************************************************)
KillGroup(thread) ==
    /\ child' = IF child = "live" THEN "zombie" ELSE child
    /\ kin' = IF kin = "live" THEN "dead" ELSE kin
    /\ stray' = IF number = "other" THEN stray \cup {thread} ELSE stray
    /\ UNCHANGED <<mac, held, number, parents>>

MonitorWake ==
    /\ monitor = "sleep"
    /\ monitor' = IF cancel THEN "ended" ELSE "alive"
    /\ UNCHANGED <<main, launched, cancel, watchdog, audit>>

MonitorAlive ==
    /\ monitor = "alive"
    /\ monitor' = IF Exists THEN "ps" ELSE "ended"
    /\ UNCHANGED <<main, launched, cancel, watchdog, audit>>

(* ps answers for whoever has the number by now; a zombie has no memory,   *)
(* and ps may fail.                                                        *)
MonitorPs ==
    /\ monitor = "ps"
    /\ \/ monitor' = "sleep"
       \/ /\ number = "other" \/ (child = "live" /\ mac.hungry)
          /\ monitor' = "kill"
    /\ UNCHANGED <<main, launched, cancel, watchdog, audit>>

MonitorKill ==
    /\ monitor = "kill" /\ monitor' = "ended"
    /\ KillGroup("monitor")
    /\ UNCHANGED <<main, cancel, watchdog, audit>>

WatchdogWake ==
    /\ watchdog = "sleep"
    /\ watchdog' = IF parents.now # parents.at THEN "kill" ELSE "alive"
    /\ UNCHANGED <<main, launched, monitor, cancel, audit>>

WatchdogKill ==
    /\ watchdog = "kill" /\ watchdog' = "ended"
    /\ KillGroup("watchdog")
    /\ UNCHANGED <<main, monitor, cancel, audit>>

WatchdogAliveOnce ==
    /\ watchdog = "alive"
    /\ watchdog' = "ended"
    /\ UNCHANGED <<main, launched, monitor, cancel, audit>>

WatchdogAlive ==
    /\ watchdog = "alive"
    /\ watchdog' = IF Exists THEN "sleep" ELSE "ended"
    /\ UNCHANGED <<main, launched, monitor, cancel, audit>>

-----------------------------------------------------------------------------
(***************************************************************************)
(* The handle: wait() and cleanup(), or Drop of a handle that was not      *)
(* waited for.  Both stop the monitor before the number can be given away. *)
(***************************************************************************)
Use(how) == main = "ok" /\ mac.use = how

(* waitid(WNOWAIT) leaves the zombie, which keeps the number.              *)
WaitIdReaps ==
    /\ Use("wait")
    /\ mac.limit => child = "zombie"
    /\ child' = IF mac.limit THEN "reaped" ELSE child
    /\ number' = IF mac.limit THEN "free" ELSE number
    /\ main' = IF mac.limit THEN "cancel" ELSE "reap"
    /\ UNCHANGED <<mac, held, kin, parents, stray, threads, audit>>

WaitId ==
    /\ Use("wait")
    /\ mac.limit => child = "zombie"
    /\ main' = IF mac.limit THEN "cancel" ELSE "reap"
    /\ UNCHANGED <<launched, threads, audit>>

DropHandle ==
    /\ Use("drop")
    /\ main' = IF mac.limit THEN "cancel" ELSE "kill"
    /\ UNCHANGED <<launched, threads, audit>>

CancelMonitor ==
    /\ Onward("cancel", "join")
    /\ cancel' = TRUE
    /\ UNCHANGED <<launched, monitor, watchdog, audit>>

JoinMonitor ==
    /\ main = "join" /\ monitor = "ended"
    /\ main' = IF mac.use = "wait" THEN "reap" ELSE "kill"
    /\ UNCHANGED <<launched, threads, audit>>

Reaped ==
    /\ child = "zombie" /\ child' = "reaped"
    /\ number' = "free"
    /\ UNCHANGED <<mac, kin, parents, stray, threads, audit>>

Reap == Onward("reap", "denials") /\ Reaped /\ UNCHANGED held

(* read_seatbelt_denials: only for an audited sandbox without a network.   *)
ShowLog ==
    /\ main = "denials"
    /\ \/ main' = "exited" /\ UNCHANGED log
       \/ /\ mac.sink # "none" /\ ~mac.network
          /\ main' = "log"
          /\ log' = [st |-> "runs", left |-> mac.denials, pipe |-> 0]
    /\ UNCHANGED <<launched, threads, told>>

LogWrites ==
    /\ log.st = "runs" /\ log.left > 0 /\ log.pipe < LogPipe
    /\ log' = [log EXCEPT !.left = @ - 1, !.pipe = @ + 1]
    /\ UNCHANGED <<main, launched, threads, told>>

LogExits ==
    /\ log.st = "runs" /\ log.left = 0
    /\ log' = [log EXCEPT !.st = "exited"]
    /\ UNCHANGED <<main, launched, threads, told>>

(* The output is read only after `log show` has exited.                    *)
ReadLog ==
    /\ Onward("log", "exited") /\ log.st = "exited"
    /\ told' = log.pipe /\ log' = LogOff
    /\ UNCHANGED <<launched, threads>>

(* After ten seconds it is killed, and its output is dropped; one that     *)
(* does not fit the pipe never exits before that.                          *)
LogTimeoutNever == FALSE /\ UNCHANGED macVars

LogTimeout ==
    /\ Onward("log", "exited") /\ log.st = "runs"
    /\ log' = LogOff
    /\ UNCHANGED <<launched, threads, told>>

(* ProcessExited and ResourceUsage, whose errors are only logged.          *)
TellExit ==
    /\ Onward("exited", "waited")
    /\ UNCHANGED <<launched, threads, audit>>

Cleanup ==
    /\ Onward("waited", "done") /\ held' \in {{}, {"tmp"}}
    /\ UNCHANGED <<mac, child, kin, number, parents, stray, threads, audit>>

DropKills ==
    /\ Onward("kill", "dropped")
    /\ child' = IF child = "live" THEN "zombie" ELSE child
    /\ UNCHANGED <<mac, held, kin, number, parents, stray, threads, audit>>

DropEnds == Onward("dropped", "done") /\ Reaped /\ held' \in {{}, {"tmp"}}

-----------------------------------------------------------------------------
(***************************************************************************)
(* Around the handle: the sandboxed process and its group, the parent of   *)
(* the launching process, that process itself, and the kernel, which gives *)
(* a free number to somebody else.                                         *)
(***************************************************************************)
World(other) == UNCHANGED <<mac, held, threads, audit>> /\ UNCHANGED other

ChildExits ==
    /\ child = "live" /\ child' = "zombie"
    /\ World(<<main, kin, number, parents, stray>>)

KinStarts ==
    /\ child = "live" /\ kin = "none" /\ kin' = "live"
    /\ World(<<main, child, number, parents, stray>>)

KinExits ==
    /\ kin = "live" /\ kin' = "dead"
    /\ World(<<main, child, number, parents, stray>>)

ParentDies ==
    /\ parents.now = "parent" /\ parents' = [parents EXCEPT !.now = "launchd"]
    /\ World(<<main, child, kin, number, stray>>)

NumberReused ==
    /\ child = "reaped" /\ kin # "live"
    /\ number' = IF number = "free" THEN "other" ELSE "free"
    /\ World(<<main, child, kin, parents, stray>>)

(* A kill of the launching process ends its threads, not the sandbox.      *)
LauncherDies ==
    /\ main \notin Ended /\ main' = "killed"
    /\ monitor' = "ended" /\ watchdog' = "ended" /\ log' = LogOff
    /\ UNCHANGED <<launched, cancel, told>>

-----------------------------------------------------------------------------
LaunchStep ==
    \/ LaunchInit \/ MakeTmpDir \/ GenerateProfile \/ BuildCommand \/ SetupStdio
    \/ EmitReady \/ LaunchFails \/ Spawn \/ SpawnFails \/ StartMonitor \/ StartWatchdog
HandleStep ==
    \/ WaitId \/ DropHandle \/ CancelMonitor \/ JoinMonitor \/ Reap \/ ShowLog
    \/ ReadLog \/ LogTimeout \/ TellExit \/ Cleanup \/ DropKills \/ DropEnds
MonitorStep == MonitorWake \/ MonitorAlive \/ MonitorPs \/ MonitorKill
WatchdogStep == WatchdogWake \/ WatchdogKill \/ WatchdogAlive
WorldStep ==
    \/ LogWrites \/ LogExits \/ ChildExits \/ KinStarts \/ KinExits \/ ParentDies
    \/ NumberReused \/ LauncherDies

MacNext == LaunchStep \/ HandleStep \/ MonitorStep \/ WatchdogStep \/ WorldStep

-----------------------------------------------------------------------------
(* The memory monitor never signals a process group that took over the     *)
(* child's number: wait() and Drop cancel and join it while the child is   *)
(* at most a zombie, however long its ps takes.                            *)
MonitorHitsOwn == "monitor" \notin stray

(* A handle comes to its end once the child has: neither the join of the   *)
(* monitor nor a `log show` that is stuck on its full pipe lasts.          *)
HandleEnds == child = "zombie" ~> main \in Ended

(* When the parent of the launching process dies, the sandboxed process    *)
(* ends, if the parent was there when the watchdog started and if the      *)
(* launching process, whose thread the watchdog is, lives.                 *)
OrphanEnds ==
    parents = [at |-> "parent", now |-> "launchd"] ~> child # "live" \/ main = "killed"
=============================================================================
