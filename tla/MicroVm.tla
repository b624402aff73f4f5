------------------------------ MODULE MicroVm -------------------------------
(***************************************************************************)
(* The life of an ephemeral micro-VM: MicroVm::launch and launch_vm        *)
(* (platform/microvm.rs), passt (platform/microvm_net.rs), and what vm run *)
(* and image setup do with the VM (bin/arapuca.rs), on top of the image    *)
(* cache, whose files the VM's overlay is backed by.  The forked child     *)
(* that becomes the VM runs beside the command that waits for it.          *)
(***************************************************************************)
EXTENDS ImageCache

VARIABLE vm     \* of each command: its VM and what belongs to it

vars == <<cacheVars, vm>>

NoVm == [tmp |-> FALSE, passt |-> "none", sock |-> FALSE, child |-> "none",
         pdeathsig |-> FALSE, did |-> 0, code |-> 0]

Lives(c) == vm[c].child \in {"forked", "armed", "up", "command"}
Launches(c) == Does(c) \in {"run", "setup"}

(* What dropping the guards of launch() does: the temporary directory is   *)
(* removed, passt is killed and reaped and its socket closed.              *)
DropGuards(c) ==
    /\ vm' = [vm EXCEPT ![c] = NoVm]
    /\ fd' = [fd EXCEPT ![c].disk = None]
    /\ data' = Swept(dir, fd', data)
    /\ UNCHANGED dir

LaunchError(c) ==
    /\ DropGuards(c)
    /\ Goto(c, "fail")
    /\ loc' = [loc EXCEPT ![c] = Local]

(* make_tmp_dir, then resolve() once more for image setup.                 *)
MakeTmpDir(c) ==
    /\ pc[c] = "tmpdir"
    /\ \/ /\ vm' = [vm EXCEPT ![c].tmp = TRUE]
          /\ Goto(c, "look")
          /\ UNCHANGED <<loc, Files>>
       \/ Fault("setup") /\ LaunchError(c)
    /\ UNCHANGED <<cfg, mirror, ghost>>

ResolveFailed(c) ==
    /\ Launches(c) /\ pc[c] = "lost"
    /\ LaunchError(c)
    /\ UNCHANGED <<cfg, mirror, ghost>>

(* create_overlay records the path of the template.                        *)
CreateOverlay(c) ==
    /\ Launches(c) /\ pc[c] = "have" /\ vm[c].tmp
    /\ \/ /\ dir["image"] # None
          /\ LET i == Min(Inodes \ Held(dir, fd))
             IN  fd' = [fd EXCEPT ![c].disk = i]
          /\ Goto(c, "datasource")
          /\ UNCHANGED <<vm, loc, dir, data>>
       \/ (Fault("setup") \/ dir["image"] = None) /\ LaunchError(c)
    /\ UNCHANGED <<cfg, mirror, ghost>>

(* generate_datasource writes two files into the temporary directory.      *)
GenerateDatasource(c) ==
    /\ pc[c] = "datasource"
    /\ \/ Goto(c, "events") /\ UNCHANGED <<vm, loc, Files>>
       \/ Fault("setup") /\ LaunchError(c)
    /\ UNCHANGED <<cfg, mirror, ghost>>

(* The audit events of the layers: a mandatory sink that fails ends the    *)
(* launch.  image setup always asks for the network.                       *)
EmitEvents(c) ==
    /\ pc[c] = "events"
    /\ \/ /\ Goto(c, IF cfg.net \/ Does(c) = "setup" THEN "pair" ELSE "fork")
          /\ UNCHANGED <<vm, loc, Files>>
       \/ Fault("setup") /\ LaunchError(c)
    /\ UNCHANGED <<cfg, mirror, ghost>>

(* start_passt: without passt the VM has no network.                       *)
StartPasst(c) ==
    /\ pc[c] = "pair"
    /\ \/ /\ vm' = [vm EXCEPT ![c].passt = "up", ![c].sock = TRUE]
          /\ Goto(c, "dhcp")
       \/ Fault("passt") /\ Goto(c, "fork") /\ UNCHANGED vm
    /\ UNCHANGED <<cfg, mirror, loc, ghost, Files>>

(* What passt says on its standard error, within 5 seconds; otherwise it   *)
(* is killed and its socket closed.                                        *)
ParseDhcp(c) ==
    /\ pc[c] = "dhcp"
    /\ \/ UNCHANGED vm
       \/ /\ Fault("passt")
          /\ vm' = [vm EXCEPT ![c].passt = "none", ![c].sock = FALSE]
    /\ Goto(c, "fork")
    /\ UNCHANGED <<cfg, mirror, loc, ghost, Files>>

Fork(c) ==
    /\ pc[c] = "fork"
    /\ \/ /\ vm' = [vm EXCEPT ![c].child = "forked"]
          /\ Goto(c, "wait")
          /\ UNCHANGED <<loc, Files>>
       \/ Fault("setup") /\ LaunchError(c)
    /\ UNCHANGED <<cfg, mirror, ghost>>

(* The end of the child: its descriptors close, and the overlay holds what *)
(* the guest wrote over the base it had open.                              *)
ChildDies(c, code) ==
    LET b == fd[c].base
    IN  /\ vm' = [vm EXCEPT ![c].child = "dead", ![c].code = code,
                            ![c].pdeathsig = FALSE, ![c].did = 0]
        /\ fd' = [fd EXCEPT ![c].base = None]
        /\ data' = Swept(dir, fd',
                     IF b = None \/ fd[c].disk = None THEN data
                     ELSE [data EXCEPT ![fd[c].disk].blocks =
                             [i \in DOMAIN data[b].blocks |->
                                 data[b].blocks[i] + (IF code = 0 THEN 10 ELSE 20)]])
        /\ UNCHANGED dir

(* Without prctl(PR_SET_PDEATHSIG).                                        *)
ChildArmsNot(c) ==
    /\ vm[c].child = "forked"
    /\ vm' = [vm EXCEPT ![c].child = "armed"]
    /\ UNCHANGED <<cfg, mirror, pc, loc, ghost, Files>>

(* setsid, the parent-death signal, no_new_privs, the descriptors.         *)
ChildArms(c) ==
    /\ vm[c].child = "forked"
    /\ \/ /\ vm' = [vm EXCEPT ![c].child = "armed", ![c].pdeathsig = TRUE]
          /\ UNCHANGED Files
       \/ Fault("setup") /\ ChildDies(c, 1)
    /\ UNCHANGED <<cfg, mirror, pc, loc, ghost>>

(* exec_vm_inner: the overlay and its template are opened by path.         *)
ChildBoots(c) ==
    /\ vm[c].child = "armed"
    /\ \/ /\ dir["image"] # None
          /\ vm' = [vm EXCEPT ![c].child = "up"]
          /\ fd' = [fd EXCEPT ![c].base = dir["image"]]
          /\ UNCHANGED <<dir, data>>
       \/ (Fault("setup") \/ dir["image"] = None) /\ ChildDies(c, 1)
    /\ UNCHANGED <<cfg, mirror, pc, loc, ghost>>

(* The init script mounts the pseudo file systems, the datasource and the  *)
(* shares, configures the network that passt gave, writes the files and    *)
(* then runs the command; with set -e, a step that fails is its last.      *)
InitScript(c) ==
    <<"pseudo", "cidata", "shares">>
      \o (IF vm[c].passt = "up" THEN <<"network">> ELSE <<>>) \o <<"files">>

GuestInit(c) ==
    /\ vm[c].child = "up"
    /\ \/ /\ vm' = [vm EXCEPT ![c].did = @ + 1,
                            ![c].child = IF vm[c].did + 1 = Len(InitScript(c))
                                         THEN "command" ELSE "up"]
          /\ UNCHANGED Files
       \/ Fault("guest") /\ ChildDies(c, 1)
    /\ UNCHANGED <<cfg, mirror, pc, loc, ghost>>

(* The guest's command ends, or the VM is killed by the timeout or by a    *)
(* forwarded signal.                                                       *)
GuestEnds(c) ==
    /\ vm[c].child = "command"
    /\ \/ ChildDies(c, 0)
       \/ Fault("guest") /\ ChildDies(c, 1)
    /\ UNCHANGED <<cfg, mirror, pc, loc, ghost>>

(* wait() reaps the child; image setup stores the overlay of a script that *)
(* succeeded, with the digest of the file.                                 *)
Wait(c) ==
    /\ pc[c] = "wait" /\ vm[c].child = "dead"
    /\ vm' = [vm EXCEPT ![c].child = "none"]
    /\ IF Does(c) = "setup" /\ vm[c].code = 0
       THEN /\ Goto(c, "copy")
            /\ loc' = [loc EXCEPT ![c].to = "layer",
                                  ![c].sha = data[fd[c].disk].blocks]
       ELSE /\ Goto(c, "cleanup")
            /\ loc' = [loc EXCEPT ![c].err = vm[c].code # 0]
    /\ UNCHANGED <<cfg, mirror, ghost, Files>>

(* wait() fails: with SIGCHLD inherited as ignored, the kernel has reaped  *)
(* the child and waitpid has nothing to report.  vm run goes on to         *)
(* cleanup(); image setup calls exit() at once, which runs no destructor:  *)
(* its directory stays.                                                    *)
WaitFails(c) ==
    /\ pc[c] = "wait" /\ vm[c].child = "dead" /\ Fault("wait")
    /\ \/ /\ Does(c) = "run"
          /\ vm' = [vm EXCEPT ![c].child = "none"]
          /\ loc' = [loc EXCEPT ![c].err = TRUE]
          /\ Goto(c, "cleanup") /\ UNCHANGED Files
       \/ /\ Does(c) = "setup"
          /\ vm' = [vm EXCEPT ![c].child = "none", ![c].sock = FALSE, ![c].code = 0]
          /\ loc' = [loc EXCEPT ![c] = Local]
          /\ fd' = [fd EXCEPT ![c].disk = None]
          /\ data' = Swept(dir, fd', data)
          /\ Goto(c, "exit") /\ UNCHANGED dir
    /\ UNCHANGED <<cfg, mirror, ghost>>

(* cleanup() removes the directory and drops the handle, passt included.   *)
Cleanup(c) ==
    /\ pc[c] = "cleanup"
    /\ DropGuards(c)
    /\ Goto(c, IF loc[c].err THEN "fail" ELSE "done")
    /\ loc' = [loc EXCEPT ![c] = Local]
    /\ UNCHANGED <<cfg, mirror, ghost>>

(* passt ends when the last copy of the other end of its socket is closed: *)
(* the command's and the VM's.                                             *)
PasstEof(c) ==
    /\ vm[c].passt = "up" /\ ~vm[c].sock
    /\ ~Lives(c)
    /\ vm' = [vm EXCEPT ![c].passt = "none"]
    /\ UNCHANGED cacheVars

(* The command is killed: its files close, and the parent-death signal     *)
(* ends a child that has asked for it.                                     *)
Crash(c) ==
    /\ Fault("crash") /\ Active(c)
    /\ Goto(c, "killed")
    /\ LET lives == Lives(c) /\ ~vm[c].pdeathsig
           kept == IF lives THEN {"disk", "base"} ELSE {}
       IN  /\ vm' = [vm EXCEPT ![c].sock = FALSE, ![c].code = 0,
                               ![c].pdeathsig = FALSE,
                               ![c].did = IF lives THEN @ ELSE 0,
                               ![c].child = IF lives THEN @ ELSE "none"]
           /\ fd' = [fd EXCEPT ![c] = [s \in Slots |-> IF s \in kept
                                                       THEN fd[c][s] ELSE None]]
           /\ ghost' = [ghost EXCEPT !.cut = @ \/ Halfway(c),
                                     !.unarmed = @ \/ vm[c].child = "forked"]
    /\ data' = Swept(dir, fd', data)
    /\ loc' = [loc EXCEPT ![c] = Local]
    /\ UNCHANGED <<cfg, mirror, dir>>

Launch(c) ==
    \/ MakeTmpDir(c) \/ ResolveFailed(c) \/ CreateOverlay(c)
    \/ GenerateDatasource(c) \/ EmitEvents(c) \/ StartPasst(c)
    \/ ParseDhcp(c) \/ Fork(c) \/ Wait(c) \/ WaitFails(c) \/ Cleanup(c)

Child(c) == ChildArms(c) \/ ChildBoots(c) \/ GuestInit(c)

Command(c) == (ImageStep(c) /\ UNCHANGED vm) \/ Launch(c)


Init == ImageInit /\ vm = [c \in Commands |-> NoVm]

Next ==
    \/ \E c \in Commands :
            Command(c) \/ Child(c) \/ GuestEnds(c) \/ PasstEof(c) \/ Crash(c)
    \/ Publish /\ UNCHANGED vm

Spec == Init /\ [][Next]_vars

(* Commands, children and passt are processes; nothing makes a guest end.  *)
FairSpec ==
    /\ Spec
    /\ \A c \in Commands :
          WF_vars(Command(c)) /\ WF_vars(Child(c)) /\ WF_vars(PasstEof(c))

-----------------------------------------------------------------------------
(* The types.                                                              *)
MicroVmTypeOK ==
    /\ cfg \in Configs /\ mirror \in {1, 2}
    /\ DOMAIN dir = Names /\ \A n \in Names : dir[n] \in Inodes \cup {None}
    /\ \A n, m \in Names : dir[n] = dir[m] => n = m \/ dir[n] = None
    /\ \A c \in Commands, s \in Slots : fd[c][s] \in Inodes \cup {None}
    /\ \A i \in Inodes : data[i].blocks \in
          UNION {[1..k -> 0..22] : k \in 0..Size}
    /\ \A c \in Commands :
          /\ loc[c].off \in 0..Size
          /\ vm[c] \in [tmp : BOOLEAN, passt : {"none", "up"}, sock : BOOLEAN,
                        child : {"none", "forked", "armed", "up", "command", "dead"},
                        pdeathsig : BOOLEAN, did : 0..5,
                        code : {0, 1}]

Whole(i) == data[i].blocks \in {Filled(1), Filled(2)}

(* The digest of the image or of the layer, and its root partition.        *)
Describes(to) ==
    LET m == data[dir[Sidecar(to)]]
        b == data[dir[to]].blocks
    IN  /\ m.sha = b
        /\ to = "image" /\ m.layout # 0 => Tables[b[1]][m.layout].isRoot

(* Unless two downloads overlapped, the image that has its name in the     *)
(* cache, or that a running VM has open, is complete and of one build:     *)
(* store() copies to .tmp and renames, so that neither a command that is   *)
(* killed nor a pull beside a running VM leaves or causes a partial image. *)
(* A setup layer is the complete disk of a VM whose script succeeded on    *)
(* such a base: image_setup stores it after wait() and before cleanup(),   *)
(* and only for exit status 0.  Outside a store, and when none was cut     *)
(* short between the rename and the end of the sidecar's write, by a kill  *)
(* or an error, a sidecar that can be read describes the file beside it.   *)
CachedIntact ==
    ~ghost.overlap =>
        /\ dir["image"] # None => Whole(dir["image"])
        /\ \A c \in Commands : fd[c].base # None => Whole(fd[c].base)
        /\ dir["layer"] # None => data[dir["layer"]].blocks \in {Filled(11), Filled(12)}
        /\ \A to \in {"image", "layer"} :
              /\ ~ghost.cut /\ dir[to] # None /\ Readable(Sidecar(to))
              /\ \A c \in Commands : Halfway(c) => loc[c].to # to
              => Describes(to)

(* A pull --force that nothing runs beside leaves a complete image and a   *)
(* sidecar that describes it, whatever earlier commands left behind: a     *)
(* torn or foreign sidecar, part of a download or of a copy, the old       *)
(* build.  The sidecar's root partition is the image's, or the provider's  *)
(* default when the probe of the complete image failed.                    *)
ForceRepairs ==
    \A c \in ghost.alone :
        Does(c) = "force" /\ pc[c] = "have" =>
            /\ dir["image"] # None /\ Whole(dir["image"])
            /\ Readable("meta") /\ Describes("image")

(* Every command ends or waits for its guest's command: no step of a pull, *)
(* a setup or a launch, the wait for passt's answer included, lasts.  One  *)
(* that ends by itself leaves no temporary directory, VM or passt, on      *)
(* every error path of launch() too; only image setup, when wait() itself  *)
(* fails, exits with 125 past its cleanup() and leaves its directory.      *)
(* When none was killed and none is active, the cache holds no .partial,   *)
(* and a .tmp only where the last store of that name failed after opening  *)
(* it: the error paths remove .partial alone.  After one that was killed,  *)
(* or that exits so, its VM and its passt end: the child asks for the      *)
(* parent-death signal, and passt ends with the last copy of its socket.   *)
(* A command killed before its child has asked for the signal is left out. *)
NothingRunsOn ==
    /\ \A c \in Commands : Active(c) ~> ~Active(c) \/ vm[c].child = "command"
    /\ \A c \in Commands :
          pc[c] \in Over ~> \/ ~Lives(c) /\ vm[c].passt = "none"
                           \/ Active(c) \/ ghost.unarmed
    /\ [](\A c \in Commands : pc[c] \in {"done", "fail"} => vm[c] = NoVm)
    /\ []((\A c \in Commands : ~Active(c) /\ pc[c] # "killed") =>
             \A n \in {"partial", "tmp", "ltmp"} \ ghost.left : dir[n] = None)
=============================================================================
