------------------------------ MODULE VmStore ------------------------------
(***************************************************************************)
(* One persistent micro-VM's directory and the `arapuca vm` commands that  *)
(* work on it at the same time (vm/state.rs, vm/mod.rs, vm/daemon.rs and   *)
(* the vm_* functions of bin/arapuca.rs).                                  *)
(*                                                                         *)
(* Each command is a process of its own; nothing but the lock file orders  *)
(* them.  One step is one system call on shared state, or a run of calls   *)
(* that no other command can tell from one.  A flock belongs to an open    *)
(* file description: the one a start opens is shared by its CLI process    *)
(* (fd) and by the daemon it forks (dfd), and is released by the last      *)
(* close.  Names of commands double as names of sessions: config = s means *)
(* that vm.json holds the nonce and the passt PID of start s.              *)
(***************************************************************************)
EXTENDS Naturals, FiniteSets

CONSTANTS
    Starts, Stops, Lists, Removes, Prunes, Resets,   \* one per subcommand
    Forced,          \* the stops given --force
    Interruptible,   \* the commands that may be killed from outside
    MaxTries,        \* timeout_secs * 10, the polls of one stop
    None

Cmds == Starts \cup Stops \cup Lists \cup Removes \cup Prunes \cup Resets

ASSUME CmdsAssumption ==
    /\ None \notin Cmds
    /\ Starts \cap (Stops \cup Lists \cup Removes \cup Prunes \cup Resets) = {}
    /\ Stops \cap (Lists \cup Removes \cup Prunes \cup Resets) = {}
    /\ Lists \cap (Removes \cup Prunes \cup Resets) = {}
    /\ Removes \cap (Prunes \cup Resets) = {}
    /\ Prunes \cap Resets = {}
ASSUME TriesAssumption == MaxTries \in Nat
ASSUME SetsAssumption == Forced \subseteq Stops /\ Interruptible \subseteq Cmds

VARIABLES
    dir,      \* the VM directory: "absent" or "present"
    ino,      \* the inode of its vm.lock, 0 when there is none
    inodes,   \* how many vm.lock inodes were ever created
    text,     \* what vm.lock holds: a PID, or None
    config,   \* vm.json: the session that wrote it, or None
    overlay,  \* disk.qcow2: "none", "fresh" or "used" (a guest wrote to it)
    sock,     \* agent.sock: the session whose VM made it, or None
    fd,       \* fd[c]: the inode the CLI process c has open, or 0
    dfd,      \* dfd[s]: the inode the daemon of s has open, or 0
    locked,   \* locked[c]: the inode c's open file description locks, or 0
    dmn,      \* dmn[s]: the daemon that start s forked
    passt,    \* passt[s]: the passt process of start s
    doomed,   \* processes with a fatal signal pending
    pc, probe,            \* of every command; probe is inside is_running()
    target, tries, todo,  \* locals of the stops and lists, and of the removes
    watch     \* history: the session that held the lock at a stop's first
              \* probe; None when another probe held it

files == <<dir, ino, inodes, text, config, overlay, sock>>
kernel == <<dmn, passt, doomed>>
locals == <<target, tries, todo, watch>>
vars == <<files, fd, dfd, locked, kernel, pc, probe, locals>>

Cli(c) == <<"cli", c>>
Vm(s) == <<"vm", s>>
Pids == {Cli(c) : c \in Cmds} \cup {Vm(s) : s \in Starts}
Entries == {"vm.lock", "vm.json", "disk.qcow2", "agent.sock"}

ProbePoints == {"s_probe", "t_probe", "t_wait", "t_again", "t_final",
                "l_probe", "r_probe", "p_probe", "x_probe"}
Ended == {"done", "failed", "killed"}
PcValues == ProbePoints \cup Ended \cup
    {"s_image", "s_mknew", "s_mkold", "s_overlay", "s_mkoverlay", "s_lock",
     "s_flock", "s_passt", "s_save", "s_fork", "s_poll",
     "t_pid", "t_signal", "t_passt", "l_pid", "r_list", "r_unlink",
     "p_dir", "p_passt", "p_sock", "p_trunc", "x_load", "x_rm", "x_mk"}

VmTypeOK ==
    /\ dir \in {"absent", "present"}
    /\ ino \in Nat /\ inodes \in Nat
    /\ text \in Pids \cup {None}
    /\ config \in Starts \cup {None}
    /\ overlay \in {"none", "fresh", "used"}
    /\ sock \in Starts \cup {None}
    /\ fd \in [Cmds -> Nat] /\ dfd \in [Starts -> Nat]
    /\ locked \in [Cmds -> Nat]
    /\ dmn \in [Starts -> {"none", "forked", "booting", "running", "dead"}]
    /\ passt \in [Starts -> {"none", "running", "dead"}]
    /\ doomed \subseteq Pids
    /\ pc \in [Cmds -> PcValues]
    /\ probe \in [Cmds -> {"idle", "opened", "locked", "yes", "no"}]
    /\ target \in [Stops \cup Lists -> Pids \cup {None}]
    /\ tries \in [Stops -> 0..MaxTries]
    /\ todo \in [Removes -> SUBSET Entries]
    /\ watch \in [Stops -> Cmds \cup {None}]

FirstPc(c) ==
    CASE c \in Starts -> "s_image" [] c \in Stops -> "t_probe"
      [] c \in Lists -> "l_probe" [] c \in Removes -> "r_probe"
      [] c \in Prunes -> "p_dir" [] OTHER -> "x_probe"

(* Nothing of the VM exists, and nobody has done anything.                 *)
NoVm ==
    /\ dir = "absent" /\ ino = 0 /\ inodes = 0 /\ text = None
    /\ config = None /\ overlay = "none" /\ sock = None
    /\ fd = [c \in Cmds |-> 0] /\ dfd = [s \in Starts |-> 0]
    /\ locked = [c \in Cmds |-> 0]
    /\ dmn = [s \in Starts |-> "none"] /\ passt = [s \in Starts |-> "none"]
    /\ doomed = {}
    /\ probe = [c \in Cmds |-> "idle"]
    /\ target = [c \in Stops \cup Lists |-> None]
    /\ tries = [c \in Stops |-> 0] /\ todo = [c \in Removes |-> {}]
    /\ watch = [c \in Stops |-> None]

Init == NoVm /\ pc = [c \in Cmds |-> FirstPc(c)]

-----------------------------------------------------------------------------
(***************************************************************************)
(* Steps every command takes.                                              *)
(***************************************************************************)
Live(c) == pc[c] \notin Ended /\ Cli(c) \notin doomed
At(c, l) == pc[c] = l /\ Cli(c) \notin doomed
Goto(c, l) == pc' = [pc EXCEPT ![c] = l]

VmAlive(s) == dmn[s] \in {"forked", "booting", "running"}
PidAlive(p) == \/ \E c \in Cmds : p = Cli(c) /\ pc[c] \notin Ended
               \/ \E s \in Starts : p = Vm(s) /\ VmAlive(s)
Unlocked(i) == \A c \in Cmds : locked[c] # i

(* Mutant: the parent of the daemon unlocks the shared description.        *)
ExitUnlocks(c, l) ==
    /\ Goto(c, l)
    /\ fd' = [fd EXCEPT ![c] = 0]
    /\ locked' = [locked EXCEPT ![c] = 0]

(* The process exits: its descriptor closes, and with it the lock, unless  *)
(* the daemon still has the description open.                              *)
Exit(c, l) ==
    /\ Goto(c, l)
    /\ fd' = [fd EXCEPT ![c] = 0]
    /\ locked' = IF c \in Starts /\ dfd[c] # 0 THEN locked
                 ELSE [locked EXCEPT ![c] = 0]

(* is_running(): open vm.lock, try to lock it, unlock it.                  *)
ProbeOpen(c) ==
    /\ Live(c) /\ pc[c] \in ProbePoints /\ probe[c] = "idle"
    /\ \/ ino = 0 /\ probe' = [probe EXCEPT ![c] = "no"] /\ UNCHANGED fd
       \/ /\ ino # 0
          /\ probe' = [probe EXCEPT ![c] = "opened"]
          /\ fd' = [fd EXCEPT ![c] = ino]
    /\ UNCHANGED <<files, dfd, locked, kernel, pc, locals>>

ProbeLock(c) ==
    /\ Live(c) /\ probe[c] = "opened"
    /\ \/ /\ Unlocked(fd[c])
          /\ locked' = [locked EXCEPT ![c] = fd[c]]
          /\ probe' = [probe EXCEPT ![c] = "locked"]
          /\ UNCHANGED <<fd, watch>>
       \/ \E h \in Cmds :
          /\ locked[h] = fd[c]
          /\ probe' = [probe EXCEPT ![c] = "yes"]
          /\ fd' = [fd EXCEPT ![c] = 0]
          /\ watch' = IF pc[c] = "t_probe" /\ probe[h] # "locked"
                      THEN [watch EXCEPT ![c] = h] ELSE watch
          /\ UNCHANGED locked
    /\ UNCHANGED <<files, dfd, kernel, pc, target, tries, todo>>

ProbeUnlock(c) ==
    /\ Live(c) /\ probe[c] = "locked"
    /\ locked' = [locked EXCEPT ![c] = 0]
    /\ fd' = [fd EXCEPT ![c] = 0]
    /\ probe' = [probe EXCEPT ![c] = "no"]
    /\ UNCHANGED <<files, dfd, kernel, pc, locals>>

(* The caller at l has the probe's answer, as old as it may be by now.     *)
Answer(c, l, a) ==
    At(c, l) /\ probe[c] = a /\ probe' = [probe EXCEPT ![c] = "idle"]

(* A fatal signal, from a stop or from outside, ends the CLI process.      *)
CliDies(c) ==
    /\ pc[c] \notin Ended
    /\ Cli(c) \in doomed \/ c \in Interruptible
    /\ Exit(c, "killed")
    /\ doomed' = doomed \ {Cli(c)}
    /\ probe' = [probe EXCEPT ![c] = "idle"]
    /\ UNCHANGED <<files, dfd, dmn, passt, locals>>

-----------------------------------------------------------------------------
(***************************************************************************)
(* vm start: vm_start(), vm::start(), daemonize() and the daemon.          *)
(***************************************************************************)
(* An early return of start() drops the PasstHandle, which kills passt.    *)
StartError(s) ==
    /\ Exit(s, "failed")
    /\ passt' = [passt EXCEPT ![s] = IF @ = "running" THEN "dead" ELSE @]
    /\ UNCHANGED <<dfd, dmn, doomed, locals>>

(* Without --image the image comes from the vm.json of an existing VM.     *)
StartImage(s) ==
    /\ At(s, "s_image")
    /\ \/ Goto(s, "s_probe") /\ UNCHANGED <<fd, dfd, locked, kernel, locals>>
       \/ (dir = "absent" \/ config = None) /\ StartError(s)
    /\ UNCHANGED <<files, probe>>

StartProbed(s) ==
    /\ \/ Answer(s, "s_probe", "yes") /\ StartError(s)
       \/ /\ Answer(s, "s_probe", "no")
          /\ Goto(s, IF dir = "present" THEN "s_mkold" ELSE "s_mknew")
          /\ UNCHANGED <<fd, dfd, locked, kernel, locals>>
    /\ UNCHANGED files

StartMkdir(s) ==
    /\ \/ /\ At(s, "s_mkold") \/ (At(s, "s_mknew") /\ dir = "absent")
          /\ dir' = "present"
          /\ Goto(s, "s_overlay")
          /\ UNCHANGED <<fd, dfd, locked, kernel, locals>>
       \/ /\ At(s, "s_mknew") /\ dir = "present"
          /\ StartError(s)
          /\ UNCHANGED dir
    /\ UNCHANGED <<ino, inodes, text, config, overlay, sock, probe>>

StartOverlay(s) ==
    /\ At(s, "s_overlay")
    /\ Goto(s, IF overlay = "none" THEN "s_mkoverlay" ELSE "s_lock")
    /\ UNCHANGED <<files, fd, dfd, locked, kernel, probe, locals>>

(* create_overlay(): create_dir_all, then qemu-img create.                 *)
StartMkOverlay(s) ==
    /\ At(s, "s_mkoverlay")
    /\ dir' = "present" /\ overlay' = "fresh"
    /\ Goto(s, "s_lock")
    /\ UNCHANGED <<ino, inodes, text, config, sock>>
    /\ UNCHANGED <<fd, dfd, locked, kernel, probe, locals>>

(* Mutant: vm.json is written before the lock is held.                     *)
StartOpenLockSaves(s) ==
    /\ At(s, "s_lock") /\ dir = "present"
    /\ \/ ino # 0 /\ UNCHANGED <<ino, inodes, text>>
       \/ /\ ino = 0
          /\ ino' = inodes + 1 /\ inodes' = inodes + 1 /\ text' = None
    /\ fd' = [fd EXCEPT ![s] = ino']
    /\ config' = s
    /\ Goto(s, "s_flock")
    /\ UNCHANGED <<dir, overlay, sock, dfd, locked, kernel, probe, locals>>

(* acquire_lock(): open with O_CREAT, flock without waiting, write the PID *)
(* over what the file held; an error closes it.                            *)
StartOpenLock(s) ==
    /\ At(s, "s_lock")
    /\ \/ dir = "absent" /\ StartError(s) /\ UNCHANGED files
       \/ /\ dir = "present"
          /\ \/ ino # 0 /\ UNCHANGED <<ino, inodes, text>>
             \/ /\ ino = 0
                /\ ino' = inodes + 1 /\ inodes' = inodes + 1 /\ text' = None
          /\ fd' = [fd EXCEPT ![s] = ino']
          /\ Goto(s, "s_flock")
          /\ UNCHANGED <<dir, config, overlay, sock>>
          /\ UNCHANGED <<dfd, locked, kernel, locals>>
    /\ UNCHANGED probe

StartFlock(s) ==
    /\ At(s, "s_flock")
    /\ \/ ~Unlocked(fd[s]) /\ StartError(s) /\ UNCHANGED text
       \/ /\ Unlocked(fd[s]) /\ StartError(s)
          /\ text' = IF fd[s] = ino THEN None ELSE text
       \/ /\ Unlocked(fd[s])
          /\ locked' = [locked EXCEPT ![s] = fd[s]]
          /\ text' = IF fd[s] = ino THEN Cli(s) ELSE text
          /\ Goto(s, "s_passt")
          /\ UNCHANGED <<fd, dfd, kernel, locals>>
    /\ UNCHANGED <<dir, ino, inodes, config, overlay, sock, probe>>

(* passt is started for --net; a VM whose passt fails goes on without it.  *)
StartPasst(s) ==
    /\ At(s, "s_passt")
    /\ \E p \in {"none", "running"} : passt' = [passt EXCEPT ![s] = p]
    /\ Goto(s, "s_save")
    /\ UNCHANGED <<files, fd, dfd, locked, dmn, doomed, probe, locals>>

StartSave(s) ==
    /\ At(s, "s_save")
    /\ \/ dir = "absent" /\ StartError(s) /\ UNCHANGED config
       \/ /\ dir = "present" /\ config' = s
          /\ Goto(s, "s_fork")
          /\ UNCHANGED <<fd, dfd, locked, kernel, locals>>
    /\ UNCHANGED <<dir, ino, inodes, text, overlay, sock, probe>>

(* The stale socket is removed and daemonize() forks twice.  When setsid   *)
(* or the second fork fails no PID comes back, and daemonize() still says  *)
(* Ok, with PID 0; from here on passt is forgotten, not dropped.           *)
StartFork(s) ==
    /\ At(s, "s_fork")
    /\ sock' = None
    /\ \/ dmn' = [dmn EXCEPT ![s] = "forked"] /\ dfd' = [dfd EXCEPT ![s] = fd[s]]
       \/ UNCHANGED <<dmn, dfd>>
    /\ Goto(s, "s_poll")
    /\ UNCHANGED <<dir, ino, inodes, text, config, overlay>>
    /\ UNCHANGED <<fd, locked, passt, doomed, probe, locals>>

(* Mutant: the parent waits for the agent without a time limit.            *)
StartReturnWaits(s) ==
    /\ At(s, "s_poll")
    /\ IF dmn[s] = "running" /\ sock = s THEN Exit(s, "done")
       ELSE UNCHANGED <<fd, locked, pc>>
    /\ UNCHANGED <<files, dfd, kernel, probe, locals>>

(* poll_agent_ready() succeeds or gives up after 30 s; both return Ok.     *)
StartReturn(s) ==
    /\ At(s, "s_poll")
    /\ Exit(s, "done")
    /\ UNCHANGED <<files, dfd, kernel, probe, locals>>

(* Any other call of start() that can fail before the fork.                *)
StartFails(s) ==
    /\ \E l \in {"s_mknew", "s_mkold", "s_overlay", "s_mkoverlay", "s_lock",
                 "s_flock", "s_passt", "s_save", "s_fork"} : At(s, l)
    /\ StartError(s)
    /\ UNCHANGED <<files, probe>>

(* The daemon's descriptor is closed, and with it the lock, unless vm      *)
(* start, which still waits, has the description open.                     *)
DaemonCloses(s) ==
    /\ dfd' = [dfd EXCEPT ![s] = 0]
    /\ locked' = IF fd[s] # 0 THEN locked ELSE [locked EXCEPT ![s] = 0]

(* The daemon truncates the lock file it inherited, writes its PID and     *)
(* boots.  When one of the calls fails the File is dropped, which closes   *)
(* the descriptor; start() ignores the error and boots without the lock.   *)
DaemonUpdate(s) ==
    /\ dmn[s] = "forked" /\ Vm(s) \notin doomed
    /\ dmn' = [dmn EXCEPT ![s] = "booting"]
    /\ \/ /\ text' = IF dfd[s] = ino THEN Vm(s) ELSE text
          /\ UNCHANGED <<dfd, locked>>
       \/ /\ text' \in IF dfd[s] = ino THEN {text, None} ELSE {text}
          /\ DaemonCloses(s)
    /\ UNCHANGED <<dir, ino, inodes, config, overlay, sock>>
    /\ UNCHANGED <<fd, passt, doomed, pc, probe, locals>>

(* The VM opens the overlay and binds the agent socket.                    *)
DaemonRuns(s) ==
    /\ dmn[s] = "booting" /\ Vm(s) \notin doomed
    /\ dir = "present" /\ overlay # "none"
    /\ dmn' = [dmn EXCEPT ![s] = "running"]
    /\ overlay' = "used" /\ sock' = s
    /\ UNCHANGED <<dir, ino, inodes, text, config>>
    /\ UNCHANGED <<fd, dfd, locked, passt, doomed, pc, probe, locals>>

(* It ends when the guest powers off, its lifetime is over, it fails to    *)
(* boot, crashes or is killed; the socket, vm.json and passt stay behind.  *)
DaemonDies(s) ==
    /\ VmAlive(s)
    /\ dmn' = [dmn EXCEPT ![s] = "dead"]
    /\ DaemonCloses(s)
    /\ doomed' = doomed \ {Vm(s)}
    /\ UNCHANGED <<files, fd, passt, pc, probe, locals>>

(* passt ends by itself once nobody has the other end of its socket.       *)
PasstExits(s) ==
    /\ passt[s] = "running" /\ pc[s] \in Ended /\ ~VmAlive(s)
    /\ passt' = [passt EXCEPT ![s] = "dead"]
    /\ UNCHANGED <<files, fd, dfd, locked, dmn, doomed, pc, probe, locals>>

-----------------------------------------------------------------------------
(***************************************************************************)
(* vm stop and vm list.                                                    *)
(***************************************************************************)

(* read_lock_pid(): some process that has vm.lock open, whether or not it  *)
(* holds the lock; when /proc shows none, the PID in the file.             *)
Openers == {Cli(c) : c \in {d \in Cmds : fd[d] = ino}} \cup
           {Vm(s) : s \in {t \in Starts : dfd[t] = ino}}

ReadLockPid == IF ino = 0 THEN {None}
               ELSE IF Openers = {} THEN {text} ELSE Openers

StopProbed(c) ==
    /\ \/ Answer(c, "t_probe", "no") /\ Goto(c, "failed")
       \/ Answer(c, "t_probe", "yes") /\ Goto(c, "t_pid")
    /\ UNCHANGED <<files, fd, dfd, locked, kernel, locals>>

StopReadPid(c) ==
    /\ At(c, "t_pid")
    /\ \E p \in ReadLockPid :
          /\ target' = [target EXCEPT ![c] = p]
          /\ Goto(c, IF p = None THEN "t_passt" ELSE "t_signal")
    /\ UNCHANGED <<files, fd, dfd, locked, kernel, probe, tries, todo, watch>>

(* Without --force the polling loop is followed by a second look.          *)
AfterWait(c) == IF c \in Forced THEN "t_passt" ELSE "t_again"

(* pidfd_open fails for a dead process; a VMM may survive SIGTERM.         *)
StopSignal(c) ==
    /\ At(c, "t_signal")
    /\ \/ /\ ~PidAlive(target[c])
          /\ Goto(c, "t_passt")
          /\ UNCHANGED doomed
       \/ /\ PidAlive(target[c])
          /\ Goto(c, IF MaxTries = 0 THEN AfterWait(c) ELSE "t_wait")
          /\ \/ doomed' = doomed \cup {target[c]}
             \/ /\ c \notin Forced /\ \E s \in Starts : target[c] = Vm(s)
                /\ UNCHANGED doomed
    /\ UNCHANGED <<files, fd, dfd, locked, dmn, passt, probe, locals>>

StopWait(c) ==
    /\ \/ /\ Answer(c, "t_wait", "no")
          /\ Goto(c, AfterWait(c))
          /\ UNCHANGED tries
       \/ /\ Answer(c, "t_wait", "yes") /\ tries[c] < MaxTries
          /\ tries' = [tries EXCEPT ![c] = @ + 1]
          /\ Goto(c, IF tries[c] + 1 < MaxTries THEN "t_wait" ELSE AfterWait(c))
    /\ UNCHANGED <<files, fd, dfd, locked, kernel, target, todo, watch>>

(* SIGKILL goes through the pidfd opened at first: a process started since *)
(* cannot get it.                                                          *)
StopAgain(c) ==
    /\ \/ Answer(c, "t_again", "no") /\ UNCHANGED doomed
       \/ /\ Answer(c, "t_again", "yes")
          /\ doomed' = IF PidAlive(target[c]) THEN doomed \cup {target[c]}
                       ELSE doomed
    /\ Goto(c, "t_passt")
    /\ UNCHANGED <<files, fd, dfd, locked, dmn, passt, locals>>

(* The passt of whatever session vm.json describes by now is killed.       *)
KillPasst ==
    passt' = [s \in Starts |-> IF s = config /\ passt[s] = "running"
                               THEN "dead" ELSE passt[s]]

StopPasst(c) ==
    /\ At(c, "t_passt")
    /\ KillPasst
    /\ Goto(c, "t_final")
    /\ UNCHANGED <<files, fd, dfd, locked, dmn, doomed, probe, locals>>

(* Mutant: the last probe is left out.                                     *)
StopFinalTrusting(c) ==
    /\ At(c, "t_final") /\ probe[c] = "idle" /\ UNCHANGED probe
    /\ Goto(c, "done")
    /\ UNCHANGED <<files, fd, dfd, locked, kernel, locals>>

StopFinal(c) ==
    /\ \/ Answer(c, "t_final", "yes") /\ Goto(c, "failed")
       \/ Answer(c, "t_final", "no") /\ Goto(c, "done")
    /\ UNCHANGED <<files, fd, dfd, locked, kernel, locals>>

ListProbed(c) ==
    /\ \/ Answer(c, "l_probe", "no") /\ Goto(c, "done")
       \/ Answer(c, "l_probe", "yes") /\ Goto(c, "l_pid")
    /\ UNCHANGED <<files, fd, dfd, locked, kernel, locals>>

ListReadPid(c) ==
    /\ At(c, "l_pid")
    /\ \E p \in ReadLockPid : target' = [target EXCEPT ![c] = p]
    /\ Goto(c, "done")
    /\ UNCHANGED <<files, fd, dfd, locked, kernel, probe, tries, todo, watch>>

-----------------------------------------------------------------------------
(***************************************************************************)
(* vm rm, vm prune and vm reset.                                           *)
(***************************************************************************)

(* remove_dir_all() lists the directory, unlinks what it listed and then   *)
(* removes the directory, which fails when something new is in it.         *)
Present == {e \in Entries :
    \/ e = "vm.lock" /\ ino # 0
    \/ e = "vm.json" /\ config # None
    \/ e = "disk.qcow2" /\ overlay # "none"
    \/ e = "agent.sock" /\ sock # None}

RemoveProbed(c) ==
    /\ \/ Answer(c, "r_probe", "yes") /\ Goto(c, "failed")
       \/ Answer(c, "r_probe", "no") /\ Goto(c, "r_list")
    /\ UNCHANGED <<files, fd, dfd, locked, kernel, locals>>

RemoveList(c) ==
    /\ At(c, "r_list")
    /\ todo' = [todo EXCEPT ![c] = Present]
    /\ Goto(c, IF dir = "absent" THEN "done" ELSE "r_unlink")
    /\ UNCHANGED <<files, fd, dfd, locked, kernel, probe, target, tries, watch>>

RemoveEntry(c, e) ==
    /\ At(c, "r_unlink") /\ e \in todo[c]
    /\ todo' = [todo EXCEPT ![c] = @ \ {e}]
    /\ ino' = IF e = "vm.lock" THEN 0 ELSE ino
    /\ text' = IF e = "vm.lock" THEN None ELSE text
    /\ config' = IF e = "vm.json" THEN None ELSE config
    /\ overlay' = IF e = "disk.qcow2" THEN "none" ELSE overlay
    /\ sock' = IF e = "agent.sock" THEN None ELSE sock
    /\ UNCHANGED <<dir, inodes, fd, dfd, locked, kernel, pc, probe>>
    /\ UNCHANGED <<target, tries, watch>>

RemoveDir(c) ==
    /\ At(c, "r_unlink") /\ todo[c] = {}
    /\ \/ Present # {} /\ Goto(c, "failed") /\ UNCHANGED dir
       \/ Present = {} /\ Goto(c, "done") /\ dir' = "absent"
    /\ UNCHANGED <<ino, inodes, text, config, overlay, sock>>
    /\ UNCHANGED <<fd, dfd, locked, kernel, probe, locals>>

PruneList(c) ==
    /\ At(c, "p_dir")
    /\ Goto(c, IF dir = "absent" THEN "done" ELSE "p_probe")
    /\ UNCHANGED <<files, fd, dfd, locked, kernel, probe, locals>>

PruneProbed(c) ==
    /\ \/ Answer(c, "p_probe", "yes") /\ Goto(c, "done")
       \/ Answer(c, "p_probe", "no") /\ Goto(c, "p_passt")
    /\ UNCHANGED <<files, fd, dfd, locked, kernel, locals>>

PrunePasst(c) ==
    /\ At(c, "p_passt")
    /\ KillPasst
    /\ Goto(c, "p_sock")
    /\ UNCHANGED <<files, fd, dfd, locked, dmn, doomed, probe, locals>>

PruneSock(c) ==
    /\ At(c, "p_sock")
    /\ sock' = None
    /\ Goto(c, "p_trunc")
    /\ UNCHANGED <<dir, ino, inodes, text, config, overlay>>
    /\ UNCHANGED <<fd, dfd, locked, kernel, probe, locals>>

PruneTruncate(c) ==
    /\ At(c, "p_trunc")
    /\ text' = None
    /\ Goto(c, "done")
    /\ UNCHANGED <<dir, ino, inodes, config, overlay, sock>>
    /\ UNCHANGED <<fd, dfd, locked, kernel, probe, locals>>

ResetProbed(c) ==
    /\ \/ Answer(c, "x_probe", "yes") /\ Goto(c, "failed")
       \/ Answer(c, "x_probe", "no") /\ Goto(c, "x_load")
    /\ UNCHANGED <<files, fd, dfd, locked, kernel, locals>>

(* No vm.json, or an image that cannot be resolved, ends the reset.        *)
ResetLoad(c) ==
    /\ At(c, "x_load")
    /\ \/ Goto(c, "failed")
       \/ config # None /\ Goto(c, "x_rm")
    /\ UNCHANGED <<files, fd, dfd, locked, kernel, probe, locals>>

ResetRemove(c) ==
    /\ At(c, "x_rm")
    /\ overlay' = "none"
    /\ Goto(c, "x_mk")
    /\ UNCHANGED <<dir, ino, inodes, text, config, sock>>
    /\ UNCHANGED <<fd, dfd, locked, kernel, probe, locals>>

ResetCreate(c) ==
    /\ At(c, "x_mk")
    /\ \/ Goto(c, "failed") /\ UNCHANGED <<dir, overlay>>
       \/ Goto(c, "done") /\ dir' = "present" /\ overlay' = "fresh"
    /\ UNCHANGED <<ino, inodes, text, config, sock>>
    /\ UNCHANGED <<fd, dfd, locked, kernel, probe, locals>>

-----------------------------------------------------------------------------
ProbeStep(c) == ProbeOpen(c) \/ ProbeLock(c) \/ ProbeUnlock(c)

StartStep(s) ==
    \/ StartImage(s) \/ StartProbed(s) \/ StartMkdir(s) \/ StartOverlay(s)
    \/ StartMkOverlay(s) \/ StartOpenLock(s) \/ StartFlock(s) \/ StartPasst(s)
    \/ StartSave(s) \/ StartFork(s) \/ StartReturn(s)

DaemonStep(s) == DaemonUpdate(s) \/ DaemonRuns(s)

StopStep(c) ==
    \/ StopProbed(c) \/ StopReadPid(c) \/ StopSignal(c) \/ StopWait(c)
    \/ StopAgain(c) \/ StopPasst(c) \/ StopFinal(c)

ListStep(c) == ListProbed(c) \/ ListReadPid(c)

RemoveStep(c) ==
    \/ RemoveProbed(c) \/ RemoveList(c) \/ RemoveDir(c)
    \/ \E e \in Entries : RemoveEntry(c, e)

PruneStep(c) ==
    \/ PruneList(c) \/ PruneProbed(c) \/ PrunePasst(c) \/ PruneSock(c)
    \/ PruneTruncate(c)

ResetStep(c) ==
    ResetProbed(c) \/ ResetLoad(c) \/ ResetRemove(c) \/ ResetCreate(c)

(* Every command has ended and no VM runs.                                 *)
Quiet ==
    /\ \A c \in Cmds : pc[c] \in Ended
    /\ \A s \in Starts : ~VmAlive(s)
    /\ UNCHANGED vars

Next ==
    \/ \E c \in Cmds : ProbeStep(c) \/ CliDies(c)
    \/ \E s \in Starts : StartStep(s) \/ StartFails(s) \/ DaemonStep(s)
                         \/ DaemonDies(s) \/ PasstExits(s)
    \/ \E c \in Stops : StopStep(c)
    \/ \E c \in Lists : ListStep(c)
    \/ \E c \in Removes : RemoveStep(c)
    \/ \E c \in Prunes : PruneStep(c)
    \/ \E c \in Resets : ResetStep(c)
    \/ Quiet

Spec == Init /\ [][Next]_vars

(* The scheduler runs every process; a fatal signal takes effect.          *)
Runs(c) ==
    \/ ProbeStep(c)
    \/ c \in Starts /\ StartStep(c)
    \/ c \in Stops /\ StopStep(c)
    \/ c \in Lists /\ ListStep(c)
    \/ c \in Removes /\ RemoveStep(c)
    \/ c \in Prunes /\ PruneStep(c)
    \/ c \in Resets /\ ResetStep(c)

Fairness ==
    /\ \A c \in Cmds : WF_vars(Runs(c)) /\ WF_vars(CliDies(c) /\ Cli(c) \in doomed)
    /\ \A s \in Starts : WF_vars(DaemonDies(s) /\ Vm(s) \in doomed)

FairSpec == Spec /\ Fairness

-----------------------------------------------------------------------------
(***************************************************************************)
(* Properties.                                                             *)
(***************************************************************************)

(* A VM that has kept its lock.  One whose update_lock_pid() failed runs   *)
(* without it, and the properties below except it: a second VM of its name *)
(* may start beside it, and vm stop does not see it.                       *)
KeepsLock(s) == VmAlive(s) /\ dfd[s] # 0

(* A vm.lock file serves one session: no two VMs that keep their lock live *)
(* on the same one, whatever races with their starts (acquire_lock,        *)
(* daemonize's keep_fds, update_lock_pid).                                 *)
OneVmPerLockFile ==
    \A s, t \in Starts : KeepsLock(s) /\ KeepsLock(t) /\ dfd[s] = dfd[t] => s = t

(* Without a concurrent vm rm, at most one VM of the name is alive with    *)
(* its lock: the second start is turned away by its probe or by            *)
(* acquire_lock.                                                           *)
OneVm == \A s, t \in Starts : KeepsLock(s) /\ KeepsLock(t) => s = t

(* As long as a VM is alive with its lock vm.json is its own, so that vm   *)
(* exec finds its nonce: start() takes the lock before it writes vm.json,  *)
(* and a failed or late start leaves the file alone.                       *)
ConfigOfLiveVm == \A s \in Starts : KeepsLock(s) => config = s

(* vm stop says "stopped" only when the session that held the lock at its  *)
(* first probe is over: its CLI process has ended, and its daemon too,     *)
(* unless it had lost the lock, even if another session has started since  *)
(* (the last is_running() of vm_stop).                                     *)
StopMeansStopped ==
    \A c \in Stops : pc[c] = "done" /\ watch[c] \in Starts =>
        pc[watch[c]] \in Ended /\ ~KeepsLock(watch[c])

(* A VM that got its fatal signal gives the lock back, although the start  *)
(* that forked it shares the lock (the parent returns from vm start).      *)
KilledVmUnlocks == \A s \in Starts : Vm(s) \in doomed ~> locked[s] = 0

(* A start has a session from the moment its flock succeeds until its last *)
(* process closes the lock file; a probe's lock is no session.             *)
Sessions == {s \in Starts : locked[s] # 0 /\ probe[s] # "locked"}

Contract == INSTANCE VmContract WITH
    owners <- Sessions, conf <- config, up <- {s \in Starts : KeepsLock(s)}

(* Without a concurrent vm rm, the commands implement VmContract: sessions *)
(* follow each other, vm.json is written by the session that has the name, *)
(* and the name is not given back under a VM that has its lock (start,     *)
(* daemonize, update_lock_pid).                                            *)
SessionsAreSerial == Contract!Spec

=============================================================================
