# Formal models of arapuca

arapuca runs a command in a sandbox. The library's `launch()` prepares a
temporary directory, pipes, a cgroup and helper processes, spawns a
*wrapper* that confines itself layer by layer and becomes the target, and
returns a handle. Around it are a command-line front end, an audit trail,
helpers that carry network traffic, and micro-VMs with an image cache and an
agent in the guest. The properties that matter are spread over processes that
are joined only by pipes, sockets, signals and files, and most failures leave
some of them in the middle of a step. That is what these modules model, what
TLC explores and what the proofs are about.

## 1. Inventory of the system

| part | source (`src/src/`) | concurrency, failures | model |
|---|---|---|---|
| Linux launch | `platform/linux.rs` | spawns processes, reads pipes to end of file, may be killed | `Launch` |
| wrapper | `bin/arapuca.rs` main, `selfexec.rs`, `wrapper.rs` | any layer may fail, may be killed | `Wrapper` |
| PID namespace relay | `pidns.rs` | fork, host PID, report, reap, orphans | `Wrapper` |
| Landlock, rlimits | `landlock.rs`, `rlimit.rs` | apply or fail | one step each of `Wrapper` |
| seccomp | `seccomp.rs`, filters of `bridge.rs`, `unotify.rs` | filters stack up and bind arapuca's own steps; a signal handler shared by threads | `SeccompFilters`, `Seccomp` |
| unotify supervisor | `unotify.rs` | answers notified calls, writes audit lines | life cycle in `Wrapper`, loop in `AuditTrail` |
| bridge, CONNECT proxy | `bridge.rs` | a thread per connection and direction, limits, timeouts | life cycle in `Wrapper`, `Launch`; connections in `Relay`; DNS thread in `AuditTrail` |
| cgroup manager | `cgroup.rs` | bounded retries | as `launch()` uses it in `Launch`; destroy in `ProcessHandle` |
| audit | `audit.rs` | mandatory and best-effort sinks | `EmitFails` in `Launch` |
| process handle | `process.rs` | wait, drains, signals, clean-up, drop | `ProcessHandle`, `AuditTrail`, `DarwinSandbox`, `WindowsSandbox` |
| front end | `bin/arapuca.rs` run, PTY loop, `terminal.rs` | signal handlers, timeout thread, poll loop | `PtyLoop`, `RunCommand` |
| VM state and commands | `vm/state.rs`, `vm/mod.rs`, `vm/daemon.rs`, `bin/arapuca.rs` vm_* | several processes, one lock file per VM | `VmStore` |
| VM agent, `vm exec` | `bin/arapuca-agent.rs`, `vm/exec.rs`, `vm/protocol.rs` | two poll loops over one socket, blocking writes | `ExecSession` |
| image cache | `images/*.rs` | concurrent commands without a lock, kills | `ImageCache` |
| VM launch | `platform/microvm.rs`, `platform/microvm_net.rs` | forked VM, passt, kills | `MicroVm` |
| macOS, Windows launch | `platform/darwin/mod.rs`, `platform/windows.rs` | threads that know a PID; shared DACLs | `DarwinSandbox`, `WindowsSandbox`, `Platforms` |
| DNS codec, validation, FFI, ... | `dns.rs`, `validate.rs`, `ffi.rs` | string work or bindings | not modelled |

The hazards found while reading are listed, with their lines, in
`PROJECT.json`.

## 2. Modules

Launch on Linux:

* `SandboxState` - the state all processes of a launch share and what the
  kernel does with it: process states, pending SIGKILLs (`doomed`), armed
  parent-death signals (`pdeath`), the holders of each pipe's write end
  (`wends`; end of file is `wends[q] = {}`), one-shot messages, the layers
  of each process, the cgroup.
* `Wrapper` - the wrapper from exec to the target, the relay, the
  namespace's init and the three helpers. One action per step of the code;
  `SelfExec` selects the order `selfexec.rs` uses.
* `Launch` - `Linux::launch()` as actions of the orchestrator, its crash,
  the whole specification, its fairness and its properties.
* `LaunchContract` - the abstract specification: what a caller of
  `launch()` may rely on. `Launch` implements it under the mapping at the
  end of `Launch`.
* `LaunchProofs`, `LaunchReturnProofs` - theorems;
  `MCLaunch` - configurations for TLC.

Confinement, and traffic under it:

* `SeccompFilters` - every program as a set of rules over calls, and the
  kernel's verdict of a stack of programs. A call is its number and the
  features of its arguments that some rule or the kernel tells apart, bits
  above the argument's C type included. A group of numbers that all filters
  treat alike has one representative.
* `Seccomp` - a process that puts these programs on itself: the wrapper up to
  execve, its program (which may fork, exec and add filters), or a helper
  with its threads and the SIGSYS handler, whose three shared cells are
  separate steps.
* `Relay` (extends `Seccomp`) - connections of the bridge and the proxy from
  accept to the end of both copies, each with its peers. Every step needs the
  calls it makes to pass the process's filters. `SeccompProofs`,
  `RelayProofs`, `MCRelay`.

Handle, front end, audit trail:

* `ProcessHandle` - what comes after a launch: `Process::wait`, `cleanup`,
  `Drop` and `CgroupManager::destroy`, the sandbox's processes, and the
  kernel's part: parent-death signals, the collapse of a PID namespace,
  process groups, and the reuse of a PID (`foreign`) as soon as its number is
  free. A signal is a pair in `pend`; one that reaches `"other"` hit a
  process that has nothing to do with the sandbox.
* `PtyLoop` - raw mode and the poll loop of `arapuca run -t`. Data is counted
  in units; a step of the loop is one of its four handlers. `slave` is the set
  of processes that have the terminal open: the target's descendants inherit
  it, and the master hangs up when the last of them has closed it.
* `RunCommand` - `arapuca run` around both: set-up of signal forwarding, the
  timeout thread, the handlers (which run on either thread, between any two
  steps of it), the exit code, and the program that uses the library
  instead. `RunProofs`, `MCRunCommand`.
* `AuditTrail` - a notified call from the caller through the supervisor's
  loop to the line in the pipe, the same for DNS queries, and the drains of
  both pipes in `wait()`. Pipes are bounded, writers are non-blocking and
  count drops, and either end may die. Another thread may rewrite the
  arguments of a held call (`Rewrites`): what the supervisor reads and what the
  kernel then runs may differ. `WatchProofs`, `MCAuditTrail`.

Micro-VMs:

* `VmStore` - the directory of one persistent micro-VM and any number of
  `arapuca vm` commands (start, stop, list, rm, prune, reset) on it, each a
  process of its own. A step is one system call on shared state. The state
  is the directory's files (`dir`, `ino`, `text`, `config`, `overlay`,
  `sock`), the open file descriptions and their locks (`fd` and `dfd` of a
  start's CLI process and of its daemon, `locked`), the processes, and each
  command's place and locals. `is_running()` is three steps (`ProbeOpen`,
  `ProbeLock`, `ProbeUnlock`), because two other commands can act in between.
* `VmContract` - the abstract life of a VM's name: sessions one after
  another, each the owner of the lock. `VmStore` implements it as long as no
  `vm rm` runs.
* `VmStoreProofs` - theorems; `MCVmStore`.
* `ExecSession` - a client of `vm exec` and the agent's thread for it, from
  connect to close: nonce, request, both poll loops with and without a
  terminal, end of input, status, and the agent's counters. The command is a
  filter that reads and writes through bounded pipes. `ExecProofs`,
  `MCExecSession`.
* `ImageCache` - the files of one image and one setup layer (names, inodes,
  blocks, open descriptors) under pull, pull --check, pull --force, rm and
  setup. A step is one file operation, which may fail; a write is at the
  writer's own offset.
* `MicroVm` (extends `ImageCache`) - `launch()` of a micro-VM, the forked
  child up to the guest's command, passt, and `vm run` and `image setup`
  around it. `MCMicroVm`.

Other platforms:

* `DarwinSandbox` - `launch()`, the memory monitor and the parent watchdog
  (which know a process by its number), `wait()` with its `log show`,
  `cleanup()` and `Drop`; around them the child, a descendant, the parent,
  PID reuse and a kill of the launching process.
* `WindowsSandbox` - any number of launches over shared DACLs, each system
  call a step that may fail; roll-back, the end of a handle, a kill. `dacl` has
  each path's own entries. The list that is read and saved (`ListOf`) has the
  inherited ones too: grants are inheritable, and `Tree` says which path is
  below which.
* `Platforms` - one of the two per behaviour, as `platform::new()` has it.
  `WatchProofs`, `MCPlatforms`.

## 3. Runs

| run | question | distinct states |
|---|---|---|
| `launch` | every interleaving with every fault and a crash at any point: confinement (`FailClosed`), a truthful report (`OkMeansConfined`), the cgroup (`CgroupCoversSandbox`), orphans (`OrphansDoomed`), release on error (`ErrGivesBack`) | 1,446,178 |
| `launch_live` | end of the sandbox after a crash, the target's start, and the contract with its promise that `launch()` returns | 71,823 |
| `vm` | three crews - two starts with a stop, two starts with an rm, a start with a stop and a prune - and an `update_lock_pid` that may fail: a truthful "stopped", and one VM per lock *file*, although the file may be replaced | 706,272 |
| `vm_live` | three crews - an interruptible start with a forced stop and a reset, the same with a list, two starts with a prune: serial sessions (refinement of `VmContract`), and a killed VM gives the lock back | 169,758 |
| `run` | a `Process` under `arapuca run` or a library caller: no signal to a stranger, terminal restored, nothing left; timeout and second signal end it unless a descendant keeps the terminal, the PTY never gets stuck and shows all output | 382,344 |
| `audit` | what runs is on record, what is enforced does not run as it was read, drops are counted and a drain to end of file is complete; neither the sandbox nor `wait()` blocks for good | 214,256 |
| `exec` | the agent's counters, complete input and output with the true status, each side learns of the other's end | 193,531 |
| `microvm` | two commands on the unlocked cache: images, layers and sidecars whole and in agreement, repair by --force, and every command ends and leaves nothing behind but what its error paths miss | 111,812 |
| `relay` | programs confined by every filter, arapuca's own steps not, exact reports of the SIGSYS handler, only allowed hosts dialled, true ends of data, slots exact and given back | 53,312 |
| `platforms` | macOS: the monitor signals nobody else, a handle ends, an orphaned sandbox is killed. Windows: a process has the access it was granted, its own or inherited, and nothing of a container is left | 327,201 |
| `doc_*` | one sentence of a document or a comment each, that the code does not keep | |

The type invariants (`TypeOK` and its like in each module) are in no run;
the two of `SandboxState` and `VmStore` are proved.

A conditional property names its condition in its comment. The conditions are
where the code gives no guarantee; section 5 lists them.

### Bounds

* *Launch.* One launch; each message and each pipe occurs once in the code, so
  no counter is bounded. Each switch that changes control (PID namespace,
  network namespace, bridge, DNS capture, supervisor, limits, TTY, kind of
  sink) is on in some configurations and off in some, and the ones that
  interact are on together. Proofs cover all of them.
* *VmStore.* The commands: two starts are enough for a conflict over the
  lock, and each crew adds the commands whose check-then-act it is about.
  `MaxTries`, the polls of a stop, is 1; the loop's body is the same each time.
* *RunCommand.* Two descendants (each in the group or in a session of its
  own), up to two signals, two of the three rounds of `destroy()`
  (`MaxTries`), and queues and water marks (`InCap`, `OutCap`, `Low`, `High`,
  `Chunk`) of one to three units, so that three units of typed input fill the
  input queue, the output queue and the buffer at once.
* *AuditTrail.* One thread and one orphan that outlives the child, a pipe of
  2 lines (`PipeCap`), reads of 2 (`Chunk`), a drain limit of 3 (`MaxDrain`),
  batches up to one beyond MAX_SENDMMSG_INSPECT (`Inspected` = 2): every
  limit is met and passed. In two configurations held calls are rewritten.
* *ExecSession.* Two clients, one slot (`MaxConns` = `MaxSessions` = 1), socket
  buffers of 2 frames and pipes of 1 unit; input up to 3 units, output from
  none to more than the pipes hold, a background job, a command that quits, a
  probe, a stale nonce, a client that is killed, and the agent's idle timeout.
* *MicroVm.* Two commands in eleven pairings, a mirror that publishes one newer
  build, an image of 2 blocks (a torn write and an overlapping one are then
  distinct), two partition tables. `Inodes` is enough for every file that can
  be in use, and a number is used again when its file is gone.
* *Relay.* Eleven configurations; two processes, two threads with two traps
  each, one filter of the program's own; two connections for one slot, up to
  two chunks through buffers of one. `MaxOwn`, `MaxTraps`, `Cap` name them.
* *Platforms.* macOS: twelve configurations, `log show` with none, as many and
  more lines than its pipe holds (`LogPipe` = 2). Windows: two sandboxes that
  share a path, that share a name, one with a path in both lists, and a
  directory and a path below it, of one sandbox in either order and of two.

### Fairness

Weak fairness for each process or thread (the scheduler runs a runnable one)
and for the delivery of each pending SIGKILL; one condition per sequential
program, never one per action. Faults, crashes, the OOM killer, signals from
the user and the end of the target are never forced. That time passes is: the
timer's sleep, the monitor's and the watchdog's, the timeouts of a relay, of
passt and of `log show` end. A peer of a relayed connection need not do
anything. The target of a PTY, and the command of `vm exec`, read their input
and write their answer when they can, and a user of `vm exec` gives the input
there is. A system call that blocks (read to end of file, poll, a notified execve)
is an action that is not enabled until it returns.

`CHECK_DEADLOCK FALSE` is in the configurations in which a behaviour may end
by a crash or with a process that nobody needs to continue.

## 4. What is proved

Each theorem holds for every value of the constants that the named `ASSUME`s
of its module admit (shapes of records, sizes that are not zero), so for any
number of processes, commands, connections or sandboxes. TLC evaluates the same
assumptions on each run. A safety property is seldom inductive by itself; below
it stands what the inductive invariant adds. An invariant was checked by TLC
before it was proved. Leaves are for Zenon, and those with arithmetic for Z3.

**`LaunchProofs`** - every set of configurations and faults, both wrappers.

* `TypeCorrect`: `Spec => []TypeOK`.
* `TargetConfined`: `FailClosed`. It only speaks of the target; `StageInv`
  says which layers each place of the wrapper and of the namespace's init
  demands, that init is a fork of a wrapper past Landlock and the bridge, and
  where each process can be.
* `NoOrphans`: `OrphansDoomed`. `OrphanInv` adds that a process that has
  passed its parent check has armed its parent-death signal, and that a live
  process is at some place of its program.
* `CgroupCovers`: `CgroupCoversSandbox`. `CgroupInv` adds why the wrapper may
  trust the sync byte: the pipe is made only for a cgroup, which stays until
  `add_pid`; the byte follows a successful `add_pid`; nothing of the sandbox
  is alive before the spawn. What the wrapper forks later inherits its
  membership.

**`LaunchReturnProofs`** - what a return of `launch()` means.

* `OkConfined`: `OkMeansConfined`. The property speaks of the moment of the
  return; `ReportInv` says why the end of file is not seen before: whoever is
  on its way to the target holds the write end of the audit pipe until it has
  applied the last layer.
* `ErrReturns`: `ErrGivesBack`. `GiveInv` says what there is to give back at
  each stage of `launch()`.
* `LaunchContractMet`: each step of `Launch` is a step of `LaunchContract` or
  leaves its variables alone (`ImplementsContract`, the safety part of
  `FairContract`, which `launch_live` checks). The hypothesis, that no sink is
  mandatory, is the one of the run: a mandatory sink turns a started target into
  an error. `RelayInv` adds that only the relay has an init beside it, so that
  one target at most is started.

**`VmStoreProofs`** - every set of commands on a VM.

* `VmTypeCorrect`: `Spec => []VmTypeOK`.
* `OneVmPerLockFileHolds`: `OneVmPerLockFile`, for the VMs that keep their
  lock (`KeepsLock`): one whose `update_lock_pid` failed has closed it and runs
  on, and no property of locks can speak of it. `LockInv` says, for each
  command by itself, what its descriptor and its lock may be at each place of
  its program (`Fits`), and that no two descriptions lock one file
  (`Exclusive`). Each step is first put in one of a few classes by what it
  does to descriptors and locks (`StepKinds`).
* With the hypothesis `Removes = {}`: `OneVmHolds`, `ConfigOfLiveVmHolds`,
  `StopMeansStoppedHolds` and the refinement `Implements`. `NameInv` adds that
  every descriptor and lock is one on the current vm.lock (`OneFile`) and
  that a start past its write of vm.json is the one described there
  (`Recorded`); `WatchInv` follows the session a stop first found. The
  hypothesis is needed: `vm rm` unlinks vm.lock and a later start locks
  another file.

**`RunProofs`** - every command line, every set of failing calls, any number of
signals, every size of the PTY's queues.

* `TerminalHolds`: `TerminalRestored`. `TermInv` ties raw mode to the places
  where `restore_termios()` is armed.
* `NoStrayHolds`: `NoStraySignal`, which is about signals to a single process
  by pidfd; the kill of the group goes by number. `ProcInv` says that the timer and the
  handlers start when the PID and the pidfd have been stored, and `AimInv` who
  may have loaded the bare number of a child.
* `NothingLeftHolds`: `NothingLeft`. `LeftInv` follows the handle: where the
  child has been reaped, which processes a SIGKILL has reached after the kill
  of the group, of the cgroup and after the collapse of the namespace;
  `ProxyInv` says who ends the proxy.
* `OutputShown`: when the loop leaves on a hang-up, nothing the target wrote is
  unread.

**`SeccompProofs`, `RelayProofs`** - any number of processes, threads,
connections and units; every allowlist, every answer of the resolver.

* `ConfinementHolds`: `ProgramConfined`. `StackInv` says which filters each
  phase goes with.
* `ReportedOnce`, the safety part of `ReportsExact`: a number below 512 is
  printed at most once. `HandlerInv` says that one thread at a time is past
  HANDLER_ACTIVE, and that who is about to print has just set the bit.
* `RelayConfined`: `Relay` implements `Seccomp`, so that all this holds of a
  helper with its connections; `OwnStepsHold`: `OwnStepsPass`.
* `EndsWhole`: `EndMeansAll`. `DirInv` says, for each direction, how what was
  read, what is in the thread's hands and what was written add up.
* `DialledAllowed`: `OnlyAllowedDialled`. `DialInv` says that what was judged
  is what is dialled.
* `SlotsCounted`, the safety part of `SlotComesBack`: the counter is the number
  of connections that hold a slot and does not pass MAX_CONNECTIONS. The accept
  loop adds first and takes back when it refuses, one thread in one step here.

**`ExecProofs`** - any number of clients, every size of every buffer.

* `SlotsHold`: `SlotsExact`. `PlaceOK` says where clients and threads are, and
  `Counted` counts them by place.

**`WatchProofs`** - the supervisor, macOS and Windows.

* `NotedHolds`: `RunMeansNoted`, and `BlockedHolds`: `BlockedNeverRuns`. Both
  speak of the last call that was let run; `NoteInv` counts, for the call that
  the supervisor is about, the lines written and dropped against those still to
  write, and carries that a call let run was not read as one that `Refused`
  holds of, and runs as it was read unless another thread rewrote it.
* `MonitorHitsOwnHolds`: `MonitorHitsOwn`. `MonitorInv` says that the child is
  reaped only after the monitor has ended, or where no limit asked for one
  (`JoinedFirst`), and that the child's number is given to another process only
  after the reaping.
* `GrantsHold`: `GrantsExact`, for any number of sandboxes over any tree of
  paths.
  `WinInv` has four parts: how far the list of saved DACLs has got at each
  stage (`WinTypeOK`); that the paths in use by a sandbox that is not `mixed`
  are in use by no other (`ApartInv`); that each path's own entries of such a
  sandbox are those of its grants so far, that what it saved has none of them
  if it grants no path after itself or a directory above it, and that nothing
  another sandbox has read and may still write has any (`EntriesInv`);
  and what the end of a handle closes (`EndInv`).

Model-checked only:

* all leads-to properties and everything under fairness, which the prover
  cannot reason about: `launch_live`, `vm_live`, and the properties of the other
  runs whose names say that something ends, is told, cleaned or comes back;
* `NoSilentDrop`, which adds up the numbers in the lines of a pipe, and what a
  sum over a sequence is takes induction over data;
* `SessionTrue`, which relates two byte streams through four buffers of an exec
  session, and `CachedIntact` and `ForceRepairs`, which are about the blocks of
  the files of the image cache: for these no inductive invariant was worked out.

## 5. Findings

The `doc_*` runs show sentences of the documentation or comments that the
code does not keep; `PROJECT.json` quotes them under `findings`. Smaller
disagreements, and the places where a property needs a hypothesis because the
code gives no guarantee, without a run of their own:

Launch and handle

* a failed supervisor is reported as a failed layer and the target runs
  (`bin/arapuca.rs:252`, against the README's fail-closed paragraph);
* a report cut short after its first lines passes for a success
  (`platform/linux.rs:1346`);
* ARAPUCA_PID_NS is set although the report pipe could not be made
  (`platform/linux.rs:698`);
* the relay's guard pidfd can be closed before `launch()` opens its own
  (`pidns.rs:173`);
* fail_proxy does not wait for the proxy it kills (`bridge.rs:1930`);
* an early error leaves the two PTY descriptors open
  (`platform/linux.rs:456`);
* `pidfd_open` in the front end is called on the number of a namespaced target,
  which the relay may have reaped (`bin/arapuca.rs:3261`): `NoStraySignal`
  speaks of direct children;
* kills of the process group go by number, in `wait()`'s clean-up too, and may
  be late: `NoStraySignal` is about signals to one process;
* `run_pty_loop` leaves on a hang-up only: a descendant that outlives the
  target and keeps the terminal open keeps `run -t` beyond its `--timeout`
  (the README's lines 185 and 197): `RunEnds` excepts it;
* `cleanup()` reports the cgroup as destroyed although `destroy()` gave up
  (`cgroup.rs:219`).

Audit trail

* the DNS thread sets its drop counter to zero whether or not the summary was
  written (`bridge.rs:990`), so `NoSilentDrop` counts the supervisor's drops
  only;
* the supervisor takes ENOENT, which also a caller's death between
  notification and receipt gives, for the end of the filter
  (`unotify.rs:873`);
* a call whose caller's memory cannot be opened is let run without a line and
  without enforcement (`unotify.rs:408`): both proved properties except it;
* the supervisor reads the arguments from the caller's memory and lets the
  kernel read them again (`unotify.rs:571`, which calls the check defense in
  depth): a call that another thread rewrote in between may run with other
  arguments, and `BlockedNeverRuns` and `RunMeansNoted` except it;
* the last drop count is lost when the supervisor is killed before its final
  flush (`unotify.rs:883`).

Micro-VMs

* two probes of a VM at once make one of them say "running"
  (`vm/state.rs:182`), the process that vm stop signals is the first that
  has the lock file open (`vm/state.rs:199`), and a start whose second fork
  fails returns Ok with PID 0 (`vm/daemon.rs:73`);
* an error of `update_lock_pid` closes the lock (`vm/state.rs:146`), and the
  daemon ignores it and boots (`vm/mod.rs:159`), although "The lock is held for
  the VM's lifetime" (`vm/state.rs:98`): a second VM of the name can start, and
  vm stop does not see the first. The properties of `VmStore` are about VMs
  that keep their lock;
* `remove_vm`, "Remove a stopped VM's directory." (`vm/state.rs:485`), acts on
  a probe made earlier and can remove the files of a VM started since;
* the agent writes a command's input with a blocking write
  (`bin/arapuca-agent.rs:717`): with more input than the pipe holds and a
  command that writes before it reads, the loop stops, and "Client
  disconnected - kill child." (`:726`) is not reached. `EndIsTold` and
  `GoneIsCleaned` have the hypothesis `InputFits`;
* input that a command did not read makes its client return 125; a client
  that is silent for 30 s is closed; a stdin larger than one read that hangs up
  is cut (`vm/exec.rs:194`); on a terminal, input that does not fit is
  dropped;
* on a PTY the agent leaves five seconds after the command has ended: what a
  background job writes later is not forwarded, and `SessionTrue` promises the
  command's own output there;
* MAX_SESSIONS (32) is larger than MAX_CONNECTIONS (16) and never reached;
* two downloads at once share `.partial` and `.tmp` (`images/cache.rs:60`), and
  an rm beside a pull can remove the new sidecar: `CachedIntact` assumes that
  no two downloads overlapped;
* a store cut short after its rename leaves a torn sidecar, an error until
  `--force` or rm (`images/cache.rs:62`);
* a store that fails leaves its `.tmp` behind (`images/cache.rs:59`; the error
  paths at `images/fedora.rs:126` and `images/centos.rs:110` remove `.partial`
  alone), and image setup exits with 125 past its clean-up when `wait()` itself
  fails (`bin/arapuca.rs:2208`): `NothingRunsOn` says that nothing else stays;
* a probe that fails on a complete image stores the provider's default root
  partition (`images/fedora.rs:104`), which `ForceRepairs` allows;
* the digest of a download is that of the stream, not of the file;
* the README's line 252, "Future vm run uses the setup layer", is about a
  lookup that `vm run` does not make;
* the VM's child arms its parent-death signal without comparing getppid()
  afterwards (`platform/microvm.rs:388`): `NothingRunsOn` leaves that window
  out.

Seccomp and relays

* with the audit of the network alone, execve does not wait for the supervisor
  and may close the only copy of the listener (`bin/arapuca.rs:449`);
* a thread that traps while another reports loses its report, and numbers from
  512 on are reported each time (`seccomp.rs:964`);
* an error of a read, a reset for one, shuts the other side down as an end of
  data does (`bridge.rs:853`, `:864`): `EndMeansAll` is about ends that the
  peer sent;
* the counter of connections passes its limit for a moment when one is refused
  (`bridge.rs:922`, `:1301`);
* when a relay's second thread cannot be spawned the first copies on; timeouts
  are for reads and for each direction by itself, so a quiet direction is cut
  while the other is busy, and a write waits for as long as its peer does
  (`bridge.rs:916`): `SlotComesBack` is about connections whose peers are gone.

macOS and Windows

* the parent watchdog is neither cancelled nor joined and may signal a number
  that was given away; it does not notice a parent that was dead before it
  started, and it dies with the launching process, whose sandbox then runs on;
* more denials than the pipe of `log show` holds always cost ten seconds and
  are lost (`process.rs:735`);
* LayerApplied for the memory monitor is emitted without a memory limit
  (`platform/darwin/mod.rs:729`), and an error of the last events of
  `launch()` leaves the PTY's descriptors open;
* a restored DACL is written as protected: the path no longer inherits
  (`platform/windows.rs:990`);
* two sandboxes of one task id in one process have one container
  (`platform/windows.rs:1131`, "unique"), and two with a common path write
  stale DACLs back: `GrantsExact` leaves both out;
* a path granted after a directory above it is saved with the inherited entry
  (`platform/windows.rs:161`, `:186`), and the restore makes that entry the
  path's own: with the directory in read_paths and the path in write_paths it
  stays. `GrantsExact` leaves that out, as it does a path listed twice;
* a kill leaves entries, profile and directory behind.

## 6. Not modelled

* The stale clean-up and the controller files of the cgroup manager
  (`cgroup.rs:353`): directory walks without a partner in this code. It kills
  what is in any `arapuca-*` cgroup of its scope, also that of an orchestrator
  which runs at the same time, although its comment says "from previous
  sessions".
* Renumbering of passed descriptors (`platform/fd.rs`): straight-line code
  between fork and exec. Its effect is part of `Launch`.
* Strings: the DNS codec, environment filters, validation, the text of the
  Seatbelt profile, argument quoting on Windows, event wording, argument
  parsing of the front end.
* Rule sets over paths and ports of Landlock, and the numbers of rlimits, which
  are handed to the kernel.
* Resize and Shutdown of the agent, its start-up in the guest, and a thread
  that cannot be spawned there.
* External image providers (one child whose answer is parsed) and images given
  as a path.
* libkrun, the guest's kernel, HTTP, qemu-img, `ps`, `log show` and the
  system calls themselves are external: modelled by what the code expects of
  them, failures included.
* The C bindings, the disk quota and the namespace probes have no state.
