---------------------------- MODULE LaunchProofs ----------------------------
(***************************************************************************)
(* Proofs about module Launch, for every set of configurations, every set  *)
(* of faults and both wrappers.                                            *)
(***************************************************************************)
EXTENDS Launch, TLAPS

(* A leaf goes to Zenon unless it names another prover.                    *)
USE Zenon

PcValues == OrchPc \cup WrapperPc \cup HelperPc

AppliedLayers == Layers \cup {"ConnectProxy", "Netns", "Cgroup", "Pty"}

LiveStates == {"none", "alive", "zombie", "reaped"}

-----------------------------------------------------------------------------
(* Type correctness.  The big enumerations are opened here and nowhere     *)
(* else.                                                                   *)

LEMMA Names ==
    /\ "orch" \in Procs /\ "wrap" \in Procs /\ "proxy" \in Procs
    /\ "inner" \in Procs /\ "sup" \in Procs /\ "bridge" \in Procs
    /\ "wrap" \in Wrappers /\ "inner" \in Wrappers
    /\ "sup" \in Helpers /\ "bridge" \in Helpers /\ "proxy" \in Helpers
    /\ Wrappers \subseteq Procs /\ Helpers \subseteq Procs
BY DEF Procs, Wrappers, Helpers

LEMMA LayerNames ==
    /\ "Pdeathsig" \in Layers /\ "NoNewPrivs" \in Layers
    /\ "ResolvConf" \in Layers /\ "Landlock" \in Layers
    /\ "Bridge" \in Layers /\ "PidNs" \in Layers /\ "Seccomp" \in Layers
    /\ "Unotify" \in Layers /\ "Rlimit" \in Layers
BY DEF Layers

LEMMA OrchPlaces ==
    /\ "proxy" \in PcValues /\ "proxywait" \in PcValues
    /\ "setup" \in PcValues /\ "pipes" \in PcValues /\ "cgroup" \in PcValues
    /\ "spawn" \in PcValues /\ "spawning" \in PcValues
    /\ "addpid" \in PcValues /\ "audit" \in PcValues /\ "pid" \in PcValues
    /\ "started" \in PcValues /\ "done" \in PcValues /\ "sync" \in PcValues
BY DEF PcValues, OrchPc

LEMMA WrapPlaces ==
    /\ "preexec" \in PcValues /\ "ppid" \in PcValues /\ "sync" \in PcValues
    /\ "pdeath" \in PcValues /\ "nnp" \in PcValues /\ "resolv" \in PcValues
    /\ "sup" \in PcValues /\ "landlock" \in PcValues
    /\ "bridge" \in PcValues /\ "bridgewait" \in PcValues
    /\ "pidns" \in PcValues /\ "hostpid" \in PcValues /\ "arm" \in PcValues
    /\ "aliveness" \in PcValues /\ "seccomp" \in PcValues
    /\ "filter" \in PcValues /\ "rlimit" \in PcValues
    /\ "closefds" \in PcValues /\ "exec" \in PcValues
    /\ "target" \in PcValues /\ "relay_host" \in PcValues
    /\ "relay_pid" \in PcValues /\ "relay_close" \in PcValues
    /\ "relay_wait" \in PcValues
BY DEF PcValues, WrapperPc

LEMMA HelperPlaces ==
    /\ "h_close" \in PcValues /\ "h_arm" \in PcValues
    /\ "h_check" \in PcValues /\ "h_init" \in PcValues
    /\ "listen" \in PcValues /\ "serve" \in PcValues
BY DEF PcValues, HelperPc

LEMMA MessageNames ==
    /\ "spawn_error" \in Messages /\ "sync" \in Messages /\ "pid" \in Messages
    /\ "hostpid" \in Messages /\ "listener" \in Messages
    /\ \A h \in Helpers : Ready(h) \in Messages
BY DEF Messages, Ready

LEMMA ResourceNames ==
    /\ Pipes \subseteq Resources
    /\ "tmpdir" \in Resources /\ "proxydir" \in Resources
    /\ "ptymaster" \in Resources /\ "ptyslave" \in Resources
BY DEF Resources

(* The initial state is well-typed.                                        *)
LEMMA TypeInit == Init => TypeOK
<1> SUFFICES ASSUME Init PROVE TypeOK OBVIOUS
<1> USE DEF Init
<1>1. pc \in [Procs -> PcValues]
    BY DEF PcValues, OrchPc, WrapperPc
<1>2. live \in [Procs -> {"none", "alive", "zombie", "reaped"}]
    OBVIOUS
<1>3. /\ wends \in [Pipes -> SUBSET Procs]
      /\ layers \in [Procs -> SUBSET Layers]
      /\ report \subseteq Layers \X {"applied", "failed"}
    OBVIOUS
<1> QED BY <1>1, <1>2, <1>3 DEF TypeOK, SandboxTypeOK, PcValues

-----------------------------------------------------------------------------
(* What the pieces that actions are made of do to the types.               *)

LEMMA TypeGoto ==
    ASSUME TypeOK, NEW p \in Procs, NEW l \in PcValues, Goto(p, l)
    PROVE  pc' \in [Procs -> PcValues]
BY DEF Goto, TypeOK, PcValues

LEMMA TypeGotoBoth ==
    ASSUME TypeOK, NEW p \in Procs, NEW c \in Procs,
           NEW l \in PcValues, NEW k \in PcValues,
           pc' = [pc EXCEPT ![p] = l, ![c] = k]
    PROVE  pc' \in [Procs -> PcValues]
BY DEF TypeOK, PcValues

LEMMA TypeConfine ==
    ASSUME TypeOK, NEW p \in Procs, NEW k \in Layers, Confine(p, k)
    PROVE  layers' \in [Procs -> SUBSET Layers]
BY DEF Confine, TypeOK, SandboxTypeOK

LEMMA TypeLog ==
    ASSUME TypeOK, NEW k \in Layers, NEW s \in {"applied", "failed"}, Log(k, s)
    PROVE  report' \subseteq Layers \X {"applied", "failed"}
BY SMT DEF Log, TypeOK, SandboxTypeOK

LEMMA TypeArm ==
    ASSUME TypeOK, NEW p \in Procs, Arm(p)
    PROVE  pdeath' \subseteq Procs
BY DEF Arm, TypeOK, SandboxTypeOK

LEMMA TypeExits ==
    ASSUME TypeOK, NEW p \in Procs, Exits(p)
    PROVE  /\ live' \in [Procs -> LiveStates]
           /\ wends' \in [Pipes -> SUBSET Procs]
           /\ doomed' \subseteq Procs
BY DEF TypeOK, SandboxTypeOK, Exits, Bereaved, LiveStates

LEMMA TypeFork ==
    ASSUME TypeOK, NEW p \in Procs, NEW c \in Procs, Fork(p, c)
    PROVE  /\ live' \in [Procs -> LiveStates]
           /\ wends' \in [Pipes -> SUBSET Procs]
           /\ pdeath' \subseteq Procs
           /\ members' \subseteq Procs
BY DEF TypeOK, SandboxTypeOK, Fork, LiveStates

(* A step that only moves its process on.                                  *)
LEMMA TypeSkips ==
    ASSUME TypeOK, NEW p \in Procs, NEW l \in PcValues, Skips(p, l)
    PROVE  TypeOK'
BY DEF TypeOK, SandboxTypeOK, Skips, Goto, launchVars, PcValues

(* A step that applies and reports a layer.                                *)
LEMMA TypeApplies ==
    ASSUME TypeOK, NEW p \in Procs, NEW l \in PcValues, NEW k \in Layers,
           Applies(p, k, l)
    PROVE  TypeOK'
<1>1. pc' \in [Procs -> PcValues]
    BY TypeGoto DEF Applies
<1>2. layers' \in [Procs -> SUBSET Layers]
    BY TypeConfine DEF Applies
<1>3. report' \subseteq Layers \X {"applied", "failed"}
    BY TypeLog DEF Applies
<1> QED BY <1>1, <1>2, <1>3
        DEF Applies, TypeOK, SandboxTypeOK, launchVars, PcValues

(* The end of a process.                                                   *)
LEMMA TypeFailsSilently ==
    ASSUME TypeOK, NEW p \in Procs, FailsSilently(p)
    PROVE  TypeOK'
<1>1. /\ live' \in [Procs -> LiveStates]
      /\ wends' \in [Pipes -> SUBSET Procs]
      /\ doomed' \subseteq Procs
    BY TypeExits DEF FailsSilently
<1> QED BY <1>1
        DEF FailsSilently, TypeOK, SandboxTypeOK, launchVars, LiveStates

LEMMA TypeLogsAndExits ==
    ASSUME TypeOK, NEW p \in Procs, NEW k \in Layers,
           NEW s \in {"applied", "failed"}, Exits(p), Log(k, s),
           UNCHANGED <<launchVars, pc, pdeath, made, msg, layers, cgroup,
                       members>>
    PROVE  TypeOK'
<1>1. /\ live' \in [Procs -> LiveStates]
      /\ wends' \in [Pipes -> SUBSET Procs]
      /\ doomed' \subseteq Procs
    BY TypeExits
<1>2. report' \subseteq Layers \X {"applied", "failed"}
    BY TypeLog
<1> QED BY <1>1, <1>2 DEF TypeOK, SandboxTypeOK, launchVars, LiveStates

LEMMA TypeFailsReported ==
    ASSUME TypeOK, NEW p \in Procs, NEW k \in Layers, FailsReported(p, k)
    PROVE  TypeOK'
BY TypeLogsAndExits DEF FailsReported

(* The error returns of launch().                                          *)
LEMMA TypeReturnEarly ==
    ASSUME TypeOK, ReturnEarly, cgroup' \in {"absent", "present"},
           UNCHANGED members
    PROVE  TypeOK'
<1>1. live' \in [Procs -> LiveStates]
    BY Names DEF TypeOK, SandboxTypeOK, ReturnEarly, ProxyReaped, LiveStates
<1>2. doomed' \subseteq Procs
    BY Names DEF TypeOK, SandboxTypeOK, ReturnEarly, Signalled
<1>3. pc' \in [Procs -> PcValues]
    BY TypeGoto, Names, OrchPlaces DEF ReturnEarly
<1>4. wends' \in [Pipes -> SUBSET Procs]
    BY DEF TypeOK, SandboxTypeOK, ReturnEarly
<1> QED BY <1>1, <1>2, <1>3, <1>4
        DEF TypeOK, SandboxTypeOK, ReturnEarly, PcValues, LiveStates

(* ... with the cgroup as it was.                                          *)
LEMMA TypeReturnsEarly ==
    ASSUME TypeOK, ReturnEarly, UNCHANGED <<cgroup, members>>
    PROVE  TypeOK'
<1>1. cgroup' \in {"absent", "present"}
    BY DEF TypeOK, SandboxTypeOK
<1> QED BY <1>1, TypeReturnEarly

LEMMA TypeTearDown ==
    ASSUME TypeOK, TearDown, events' \subseteq Events
    PROVE  TypeOK'
<1>1. live' \in [Procs -> LiveStates]
    BY Names DEF TypeOK, SandboxTypeOK, TearDown, ProxyReaped, LiveStates
<1>2. doomed' \subseteq Procs
    BY Names DEF TypeOK, SandboxTypeOK, TearDown, Victims, Bereaved
<1>3. pc' \in [Procs -> PcValues]
    BY TypeGoto, Names, OrchPlaces DEF TearDown
<1>4. cgroup' \in {"absent", "present"}
    BY DEF TypeOK, SandboxTypeOK, TearDown
<1>5. wends' \in [Pipes -> SUBSET Procs]
    BY DEF TypeOK, SandboxTypeOK, TearDown
<1> QED BY <1>1, <1>2, <1>3, <1>4, <1>5
        DEF TypeOK, SandboxTypeOK, TearDown, PcValues, LiveStates

-----------------------------------------------------------------------------
(* The steps of the orchestrator preserve the types.                       *)
LEMMA TypeOrchStep == TypeOK /\ OrchStep => TypeOK'
<1> SUFFICES ASSUME TypeOK, OrchStep PROVE TypeOK' OBVIOUS
<1>a. ASSUME NEW l \in PcValues, Goto("orch", l)
      PROVE  pc' \in [Procs -> PcValues]
    BY <1>a, TypeGoto, Names
<1>b. ASSUME NEW ls \in SUBSET AppliedLayers, LayerEvents(ls)
      PROVE  applied' \subseteq AppliedLayers
    BY <1>b DEF LayerEvents, TypeOK, AppliedLayers
<1>c. ASSUME NEW e \in Events, Emits(e)
      PROVE  events' \subseteq Events
    BY <1>c DEF Emits, TypeOK
<1>d. /\ "SandboxInit" \in Events /\ "SandboxReady" \in Events
      /\ "ProcessStarted" \in Events /\ "LayerFailed" \in Events
    BY DEF Events
<1>1. CASE Begin
  <2>1. CASE ReturnEarly /\ UNCHANGED <<cgroup, members>>
    BY <2>1, TypeReturnsEarly
  <2>2. CASE ~(ReturnEarly /\ UNCHANGED <<cgroup, members>>)
    <3>1. pc' \in [Procs -> PcValues]
      BY <1>1, <2>2, <1>a, OrchPlaces DEF Begin
    <3>2. held' \subseteq Resources
      BY <1>1, <2>2, ResourceNames DEF Begin
    <3>3. events' \subseteq Events
      BY <1>1, <2>2, <1>c, <1>d DEF Begin
    <3>4. {"Landlock", "Rlimit", "NoNewPrivs", "Seccomp"} \in SUBSET AppliedLayers
      BY LayerNames DEF AppliedLayers
    <3>5. applied' \subseteq AppliedLayers
      BY <1>1, <2>2, <1>b, <3>4 DEF Begin
    <3> QED BY <1>1, <2>2, <3>1, <3>2, <3>3, <3>5
          DEF Begin, TypeOK, SandboxTypeOK, PcValues, AppliedLayers
  <2> QED BY <2>1, <2>2
<1>2. CASE ForkConnectProxy
  <2>1. CASE ReturnEarly /\ UNCHANGED <<cgroup, members>>
    BY <2>1, TypeReturnsEarly
  <2>2. CASE /\ Fork("orch", "proxy")
             /\ pc' = [pc EXCEPT !["orch"] = "proxywait", !["proxy"] = "h_close"]
             /\ held' = held \cup {"proxydir"}
             /\ UNCHANGED <<cfg, doomed, made, msg, report, layers, cgroup,
                            applied, events, pidfd, result>>
    <3>1. pc' \in [Procs -> PcValues]
      BY <2>2, TypeGotoBoth, Names, OrchPlaces, HelperPlaces
    <3>2. held' \subseteq Resources
      BY <2>2, ResourceNames DEF TypeOK
    <3>3. /\ live' \in [Procs -> LiveStates]
          /\ wends' \in [Pipes -> SUBSET Procs]
          /\ pdeath' \subseteq Procs
          /\ members' \subseteq Procs
      BY <2>2, TypeFork, Names
    <3> QED BY <2>2, <3>1, <3>2, <3>3
          DEF TypeOK, SandboxTypeOK, PcValues, LiveStates
  <2>3. CASE Skips("orch", "setup")
    BY <2>3, TypeSkips, Names, OrchPlaces
  <2> QED BY <1>2, <2>1, <2>2, <2>3 DEF ForkConnectProxy, Skips
<1>3. CASE WaitForProxy
  <2>1. CASE ReturnEarly /\ UNCHANGED <<cgroup, members>>
    BY <2>1, TypeReturnsEarly
  <2>2. CASE Skips("orch", "setup")
    BY <2>2, TypeSkips, Names, OrchPlaces
  <2> QED BY <1>3, <2>1, <2>2 DEF WaitForProxy, Skips
<1>4. CASE Setup
  <2>1. CASE ReturnEarly /\ UNCHANGED <<cgroup, members>>
    BY <2>1, TypeReturnsEarly
  <2>2. CASE ~(ReturnEarly /\ UNCHANGED <<cgroup, members>>)
    <3> DEFINE ls == (IF UseNetns THEN {"Netns"} ELSE {})
                \cup (IF cfg.hosts THEN {"ConnectProxy"} ELSE {})
                \cup (IF BridgeWanted THEN {"Bridge"} ELSE {})
    <3>1. pc' \in [Procs -> PcValues]
      BY <1>4, <2>2, <1>a, OrchPlaces DEF Setup
    <3>2. held' \subseteq Resources
      BY <1>4, <2>2, ResourceNames DEF Setup, TypeOK
    <3>3. ls \in SUBSET AppliedLayers
      BY LayerNames DEF AppliedLayers
    <3>4. LayerEvents(ls)
      BY <1>4, <2>2 DEF Setup
    <3> HIDE DEF ls
    <3>5. applied' \subseteq AppliedLayers
      BY <1>b, <3>3, <3>4
    <3> QED BY <1>4, <2>2, <3>1, <3>2, <3>5
          DEF Setup, TypeOK, SandboxTypeOK, PcValues, AppliedLayers
  <2> QED BY <2>1, <2>2
<1>5. CASE MakePipes
  <2>1. CASE ReturnEarly /\ UNCHANGED <<cgroup, members>>
    BY <2>1, TypeReturnsEarly
  <2>2. CASE ~(EmitFails /\ ReturnEarly /\ UNCHANGED <<cgroup, members>>)
    <3> DEFINE ls(ps) == (IF "dns" \in ps THEN {"Bridge"} ELSE {})
                  \cup (IF "unotify" \in ps THEN {"Unotify"} ELSE {})
    <3>1. PICK ps \in SUBSET WantedPipes :
            /\ made' = ps
            /\ wends' = [q \in Pipes |-> IF q \in ps THEN {"orch"} ELSE {}]
            /\ held' = held \cup ps
            /\ LayerEvents(ls(ps))
            /\ Goto("orch", "cgroup")
            /\ UNCHANGED <<cfg, live, doomed, pdeath, msg, report, layers,
                           cgroup, members, events, pidfd, result>>
      BY <1>5, <2>2 DEF MakePipes
    <3>2. WantedPipes \subseteq Pipes
      BY DEF WantedPipes, Pipes
    <3>3. pc' \in [Procs -> PcValues]
      BY <3>1, <1>a, OrchPlaces
    <3>4. wends' \in [Pipes -> SUBSET Procs]
      BY <3>1, Names
    <3>5. held' \subseteq Resources /\ made' \subseteq Pipes
      BY <3>1, <3>2, ResourceNames DEF TypeOK
    <3>6. ls(ps) \in SUBSET AppliedLayers
      BY LayerNames DEF AppliedLayers
    <3> HIDE DEF ls
    <3>7. applied' \subseteq AppliedLayers
      BY <3>1, <3>6, <1>b
    <3> QED BY <3>1, <3>3, <3>4, <3>5, <3>7
          DEF TypeOK, SandboxTypeOK, PcValues, AppliedLayers
  <2> QED BY <2>1, <2>2
<1>6. CASE MakeCgroup
  <2>1. CASE ReturnEarly /\ UNCHANGED members
             /\ (cgroup' = cgroup \/ cgroup' = "present")
    <3>1. cgroup' \in {"absent", "present"}
      BY <2>1 DEF TypeOK, SandboxTypeOK
    <3> QED BY <2>1, <3>1, TypeReturnEarly
  <2>2. CASE Skips("orch", "sync")
    BY <2>2, TypeSkips, Names, OrchPlaces
  <2>3. CASE /\ cgroup' = "present"
             /\ LayerEvents({"Cgroup"})
             /\ Goto("orch", "sync")
             /\ UNCHANGED <<cfg, live, doomed, pdeath, made, wends, msg,
                            report, layers, members, held, events, pidfd,
                            result>>
    <3>1. pc' \in [Procs -> PcValues]
      BY <2>3, <1>a, OrchPlaces
    <3>2. {"Cgroup"} \in SUBSET AppliedLayers
      BY DEF AppliedLayers
    <3>3. applied' \subseteq AppliedLayers
      BY <2>3, <1>b, <3>2
    <3> QED BY <2>3, <3>1, <3>3
          DEF TypeOK, SandboxTypeOK, PcValues, AppliedLayers
  <2> QED BY <1>6, <2>1, <2>2, <2>3 DEF MakeCgroup, Skips
<1>7. CASE MakeSyncPipe
  <2>1. CASE ReturnEarly /\ UNCHANGED <<cgroup, members>>
    BY <2>1, TypeReturnsEarly
  <2>2. CASE ~(EmitFails /\ ReturnEarly /\ UNCHANGED <<cgroup, members>>)
    <3> DEFINE ls == {"Pdeathsig"}
                  \cup (IF "pid" \in made THEN {"PidNs"} ELSE {})
                  \cup (IF cfg.tty THEN {"Pty"} ELSE {})
    <3>1. PICK ps \in SUBSET (IF HasCgroup THEN {"sync"} ELSE {}) :
            /\ made' = made \cup ps
            /\ wends' = [q \in Pipes |->
                            IF q \in ps THEN {"orch"} ELSE wends[q]]
            /\ held' = held \cup ps
            /\ LayerEvents(ls)
            /\ Emits("SandboxReady")
            /\ Goto("orch", "spawn")
            /\ UNCHANGED <<cfg, live, doomed, pdeath, msg, report, layers,
                           cgroup, members, pidfd, result>>
      BY <1>7, <2>2 DEF MakeSyncPipe
    <3>2. ps \subseteq Pipes
      BY DEF Pipes
    <3>3. pc' \in [Procs -> PcValues]
      BY <3>1, <1>a, OrchPlaces
    <3>4. wends' \in [Pipes -> SUBSET Procs]
      BY <3>1, Names DEF TypeOK, SandboxTypeOK
    <3>5. held' \subseteq Resources /\ made' \subseteq Pipes
      BY <3>1, <3>2, ResourceNames DEF TypeOK, SandboxTypeOK
    <3>6. ls \in SUBSET AppliedLayers
      BY LayerNames DEF AppliedLayers
    <3> HIDE DEF ls
    <3>7. applied' \subseteq AppliedLayers
      BY <3>1, <3>6, <1>b
    <3>8. events' \subseteq Events
      BY <3>1, <1>c, <1>d
    <3> QED BY <3>1, <3>3, <3>4, <3>5, <3>7, <3>8
          DEF TypeOK, SandboxTypeOK, PcValues, AppliedLayers
  <2> QED BY <2>1, <2>2
<1>8. CASE Spawn
  <2>1. pc' \in [Procs -> PcValues]
    BY <1>8, TypeGotoBoth, Names, OrchPlaces, WrapPlaces DEF Spawn
  <2>2. /\ live' \in [Procs -> LiveStates]
        /\ wends' \in [Pipes -> SUBSET Procs]
        /\ pdeath' \subseteq Procs
        /\ members' \subseteq Procs
    BY <1>8, TypeFork, Names DEF Spawn
  <2> QED BY <1>8, <2>1, <2>2
        DEF Spawn, TypeOK, SandboxTypeOK, PcValues, LiveStates, launchVars
<1>9. CASE SpawnReturns
  <2>1. CASE Emits("LayerFailed") /\ TearDown
    BY <2>1, <1>c, <1>d, TypeTearDown
  <2>2. CASE ~(Emits("LayerFailed") /\ TearDown)
    <3>1. pc' \in [Procs -> PcValues]
      BY <1>9, <2>2, <1>a, OrchPlaces DEF SpawnReturns
    <3> QED BY <1>9, <2>2, <3>1
          DEF SpawnReturns, TypeOK, SandboxTypeOK, PcValues
  <2> QED BY <2>1, <2>2
<1>e. ASSUME TearDown, UNCHANGED events PROVE TypeOK'
  <2>1. events' \subseteq Events
    BY <1>e DEF TypeOK
  <2> QED BY <1>e, <2>1, TypeTearDown
<1>10. CASE AddPid
  <2>1. CASE TearDown /\ UNCHANGED events
    BY <2>1, <1>e
  <2>2. CASE ~(TearDown /\ UNCHANGED events)
    <3>1. pc' \in [Procs -> PcValues]
      BY <1>10, <2>2, <1>a, OrchPlaces DEF AddPid
    <3>2. wends' \in [Pipes -> SUBSET Procs]
      BY SMT, <1>10, <2>2 DEF AddPid, TypeOK, SandboxTypeOK
    <3>3. members' \subseteq Procs /\ msg' \subseteq Messages
      BY <1>10, <2>2, Names, MessageNames DEF AddPid, TypeOK, SandboxTypeOK
    <3> QED BY <1>10, <2>2, <3>1, <3>2, <3>3
          DEF AddPid, TypeOK, SandboxTypeOK, PcValues
  <2> QED BY <2>1, <2>2
<1>11. CASE ReadReport
  <2>1. CASE TearDown /\ UNCHANGED events
    BY <2>1, <1>e
  <2>2. CASE ~(TearDown /\ UNCHANGED events)
    <3>1. pc' \in [Procs -> PcValues]
      BY <1>11, <2>2, <1>a, OrchPlaces DEF ReadReport
    <3> QED BY <1>11, <2>2, <3>1
          DEF ReadReport, TypeOK, SandboxTypeOK, PcValues
  <2> QED BY <2>1, <2>2
<1>12. CASE ReadPidReport
  <2>1. pc' \in [Procs -> PcValues]
    BY <1>12, <1>a, OrchPlaces DEF ReadPidReport
  <2>2. pidfd' \in {"none", "wrap", "inner", "other"}
    BY <1>12 DEF ReadPidReport, TargetPidfds, TypeOK
  <2>3. wends' \in [Pipes -> SUBSET Procs]
    BY <1>12 DEF ReadPidReport, TypeOK, SandboxTypeOK
  <2> QED BY <1>12, <2>1, <2>2, <2>3
        DEF ReadPidReport, TypeOK, SandboxTypeOK, PcValues
<1>13. CASE Started
  <2>1. CASE ReturnEarly /\ UNCHANGED <<cgroup, members>>
    BY <2>1, TypeReturnsEarly
  <2>2. CASE ~(ReturnEarly /\ UNCHANGED <<cgroup, members>>)
    <3>1. pc' \in [Procs -> PcValues]
      BY <1>13, <2>2, <1>a, OrchPlaces DEF Started
    <3>2. events' \subseteq Events
      BY <1>13, <2>2, <1>c, <1>d DEF Started
    <3> QED BY <1>13, <2>2, <3>1, <3>2
          DEF Started, TypeOK, SandboxTypeOK, PcValues
  <2> QED BY <2>1, <2>2
<1> QED BY <1>1, <1>2, <1>3, <1>4, <1>5, <1>6, <1>7, <1>8, <1>9, <1>10,
           <1>11, <1>12, <1>13 DEF OrchStep

-----------------------------------------------------------------------------
(* The steps from seccomp to the target preserve the types.                *)
LEMMA TypeExecStep ==
    ASSUME TypeOK, NEW p \in Wrappers, ExecStep(p)
    PROVE  TypeOK'
<1>a. p \in Procs
    BY Names
<1>b. ASSUME NEW l \in PcValues, Goto(p, l)
      PROVE  pc' \in [Procs -> PcValues]
    BY <1>a, <1>b, TypeGoto
<1>c. ASSUME FailsSilently(p) PROVE TypeOK'
    BY <1>a, <1>c, TypeFailsSilently
<1>d. ASSUME NEW k \in Layers, FailsReported(p, k) PROVE TypeOK'
    BY <1>a, <1>d, TypeFailsReported
<1>e. ASSUME NEW k \in Layers, NEW l \in PcValues, Applies(p, k, l)
      PROVE  TypeOK'
    BY <1>a, <1>e, TypeApplies
<1>1. CASE ApplySeccomp(p)
    BY <1>1, <1>d, <1>e, WrapPlaces, LayerNames DEF ApplySeccomp
<1>2. CASE InstallUnotifyFilter(p)
  <2>1. CASE FailsSilently(p)
    BY <2>1, <1>c
  <2>2. CASE Skips(p, "rlimit")
    BY <2>2, <1>a, TypeSkips, WrapPlaces
  <2>3. CASE ~(FailsSilently(p) \/ Skips(p, "rlimit"))
    <3>1. pc' \in [Procs -> PcValues]
      BY <1>2, <1>b, <2>3, WrapPlaces DEF InstallUnotifyFilter
    <3>2. /\ Confine(p, "Unotify") \/ UNCHANGED layers
          /\ msg' = msg \cup {"listener"} \/ UNCHANGED msg
          /\ wends' = [wends EXCEPT !["sp"] = @ \ {p}]
          /\ UNCHANGED <<launchVars, live, doomed, pdeath, made, report,
                         cgroup, members>>
      BY <1>2, <2>3 DEF InstallUnotifyFilter
    <3>3. layers' \in [Procs -> SUBSET Layers]
      BY <3>2, <1>a, TypeConfine, LayerNames DEF TypeOK, SandboxTypeOK
    <3>4. wends' \in [Pipes -> SUBSET Procs]
      BY <3>2 DEF TypeOK, SandboxTypeOK
    <3>5. msg' \subseteq Messages
      BY <3>2, MessageNames DEF TypeOK, SandboxTypeOK
    <3> QED BY <3>1, <3>2, <3>3, <3>4, <3>5
          DEF TypeOK, SandboxTypeOK, launchVars, PcValues
  <2> QED BY <2>1, <2>2, <2>3
<1>3. CASE ApplyRlimits(p)
    BY <1>3, <1>d, <1>e, WrapPlaces, LayerNames DEF ApplyRlimits
<1>4. CASE CloseAuditFds(p)
  <2>1. wends' \in [Pipes -> SUBSET Procs]
    BY <1>4 DEF CloseAuditFds, TypeOK, SandboxTypeOK
  <2>2. pc' \in [Procs -> PcValues]
    BY <1>4, <1>b, WrapPlaces DEF CloseAuditFds
  <2> QED BY <1>4, <2>1, <2>2
        DEF CloseAuditFds, TypeOK, SandboxTypeOK, launchVars, PcValues
<1>5. CASE ExecTarget(p)
  <2>1. CASE FailsSilently(p)
    BY <2>1, <1>c
  <2>2. CASE ~FailsSilently(p)
    <3>1. wends' \in [Pipes -> SUBSET Procs]
      BY SMT, <1>5, <2>2 DEF ExecTarget, TypeOK, SandboxTypeOK
    <3>2. pc' \in [Procs -> PcValues]
      BY <1>5, <1>b, <2>2, WrapPlaces DEF ExecTarget
    <3> QED BY <1>5, <2>2, <3>1, <3>2
          DEF ExecTarget, TypeOK, SandboxTypeOK, launchVars, PcValues
  <2> QED BY <2>1, <2>2
<1> QED BY <1>1, <1>2, <1>3, <1>4, <1>5 DEF ExecStep

(* The other steps of the wrapper and of the namespace's init preserve the *)
(* types.                                                                  *)
LEMMA TypeChildStep == TypeOK /\ (ChildStep \/ InnerStep) => TypeOK'
<1> SUFFICES ASSUME TypeOK, ChildStep \/ InnerStep PROVE TypeOK' OBVIOUS
<1>a. ASSUME NEW p \in Wrappers, NEW l \in PcValues, Goto(p, l)
      PROVE  pc' \in [Procs -> PcValues]
    BY <1>a, TypeGoto, Names
<1>b. ASSUME NEW p \in Wrappers, FailsSilently(p) PROVE TypeOK'
    BY <1>b, TypeFailsSilently, Names
<1>c. ASSUME NEW p \in Wrappers, NEW l \in PcValues, Skips(p, l) PROVE TypeOK'
    BY <1>c, TypeSkips, Names
<1>d. ASSUME NEW k \in Layers, FailsReported("wrap", k) PROVE TypeOK'
    BY <1>d, TypeFailsReported, Names
<1>e. ASSUME NEW k \in Layers, NEW l \in PcValues, Applies("wrap", k, l)
      PROVE  TypeOK'
    BY <1>e, TypeApplies, Names
<1>f. ASSUME NEW k \in Layers, NEW l \in PcValues, Log(k, "failed"),
             Goto("wrap", l),
             UNCHANGED <<launchVars, live, doomed, pdeath, made, wends, msg,
                         layers, cgroup, members>>
      PROVE  TypeOK'
  <2>1. report' \subseteq Layers \X {"applied", "failed"}
    BY <1>f, TypeLog
  <2>2. pc' \in [Procs -> PcValues]
    BY <1>f, <1>a, Names
  <2> QED BY <1>f, <2>1, <2>2 DEF TypeOK, SandboxTypeOK, launchVars, PcValues
<1>g. ASSUME ChildFails PROVE TypeOK'
  <2>1. /\ live' \in [Procs -> LiveStates]
        /\ wends' \in [Pipes -> SUBSET Procs]
        /\ doomed' \subseteq Procs
    BY <1>g, TypeExits, Names DEF ChildFails
  <2>2. msg' \subseteq Messages
    BY <1>g, MessageNames DEF ChildFails, TypeOK, SandboxTypeOK
  <2> QED BY <1>g, <2>1, <2>2
        DEF ChildFails, TypeOK, SandboxTypeOK, launchVars, LiveStates
<1>1. CASE PreExecArm
  <2>1. CASE ~ChildFails
    <3>1. pc' \in [Procs -> PcValues] /\ pdeath' \subseteq Procs
      BY <1>1, <2>1, <1>a, TypeArm, Names, WrapPlaces DEF PreExecArm
    <3> QED BY <1>1, <2>1, <3>1
          DEF PreExecArm, TypeOK, SandboxTypeOK, launchVars, PcValues
  <2> QED BY <2>1, <1>g
<1>2. CASE PreExecRest
  <2>1. CASE ~ChildFails /\ ~FailsSilently("wrap")
    <3>1. wends' \in [Pipes -> SUBSET Procs]
      BY <1>2, <2>1 DEF PreExecRest, TypeOK, SandboxTypeOK
    <3>2. pc' \in [Procs -> PcValues]
      BY <1>2, <2>1, <1>a, Names, WrapPlaces DEF PreExecRest
    <3> QED BY <1>2, <2>1, <3>1, <3>2
          DEF PreExecRest, TypeOK, SandboxTypeOK, launchVars, PcValues
  <2> QED BY <2>1, <1>b, <1>g, Names
<1>3. CASE WaitForCgroup
    BY <1>3, <1>b, <1>c, Names, WrapPlaces DEF WaitForCgroup
<1>4. CASE SetPdeathsig
  <2>1. CASE ~FailsSilently("wrap")
    <3>1. pc' \in [Procs -> PcValues] /\ pdeath' \subseteq Procs
      BY <1>4, <2>1, <1>a, TypeArm, Names, WrapPlaces DEF SetPdeathsig
    <3>2. layers' \in [Procs -> SUBSET Layers]
      BY <1>4, <2>1, TypeConfine, Names, LayerNames DEF SetPdeathsig
    <3>3. report' \subseteq Layers \X {"applied", "failed"}
      BY <1>4, <2>1, TypeLog, LayerNames DEF SetPdeathsig
    <3> QED BY <1>4, <2>1, <3>1, <3>2, <3>3
          DEF SetPdeathsig, TypeOK, SandboxTypeOK, launchVars, PcValues
  <2> QED BY <2>1, <1>b, Names
<1>5. CASE SetNoNewPrivs
  <2>1. CASE ~FailsSilently("wrap")
    <3>1. (IF SelfExec THEN "sup" ELSE "resolv") \in PcValues
      BY WrapPlaces
    <3>2. pc' \in [Procs -> PcValues]
      BY <1>5, <2>1, <3>1, <1>a, Names DEF SetNoNewPrivs
    <3>3. layers' \in [Procs -> SUBSET Layers]
      BY <1>5, <2>1, TypeConfine, Names, LayerNames DEF SetNoNewPrivs
    <3> QED BY <1>5, <2>1, <3>2, <3>3
          DEF SetNoNewPrivs, TypeOK, SandboxTypeOK, launchVars, PcValues
  <2> QED BY <2>1, <1>b, Names
<1>6. CASE OverrideResolvConf
  <2> DEFINE next == IF SelfExec THEN "landlock" ELSE "sup"
  <2>1. next \in PcValues
    BY WrapPlaces
  <2>2. \/ Skips("wrap", next)
        \/ Applies("wrap", "ResolvConf", next)
        \/ /\ Log("ResolvConf", "failed")
           /\ Goto("wrap", next)
           /\ UNCHANGED <<launchVars, live, doomed, pdeath, made, wends, msg,
                          layers, cgroup, members>>
    BY <1>6 DEF OverrideResolvConf
  <2> HIDE DEF next
  <2> QED BY <2>1, <2>2, <1>c, <1>e, <1>f, Names, LayerNames
<1>7. CASE ForkSupervisor
  <2> DEFINE next == IF SelfExec THEN "resolv" ELSE "landlock"
  <2>1. next \in PcValues
    BY WrapPlaces
  <2>2. CASE Skips("wrap", next)
    BY <2>1, <2>2, <1>c, Names
  <2>3. CASE Log("Unotify", "failed") /\ Goto("wrap", next)
             /\ UNCHANGED <<launchVars, live, doomed, pdeath, made, wends,
                            msg, layers, cgroup, members>>
    BY <2>1, <2>3, <1>f, LayerNames
  <2>4. CASE /\ live' = [live EXCEPT !["sup"] = "alive"]
             /\ wends' = [q \in Pipes |->
                    IF q = "sp" THEN {"wrap"}
                    ELSE IF "wrap" \in wends[q] THEN wends[q] \cup {"sup"}
                    ELSE wends[q]]
             /\ members' = IF "wrap" \in members
                           THEN members \cup {"sup"} ELSE members
             /\ pc' = [pc EXCEPT !["wrap"] = next, !["sup"] = "h_close"]
             /\ Log("Unotify", "applied")
             /\ UNCHANGED <<launchVars, doomed, pdeath, made, msg, layers,
                            cgroup>>
    <3> HIDE DEF next
    <3>1. pc' \in [Procs -> PcValues]
      BY <2>1, <2>4, Names, HelperPlaces DEF TypeOK, PcValues
    <3>2. wends' \in [Pipes -> SUBSET Procs]
      BY <2>4, Names DEF TypeOK, SandboxTypeOK
    <3>3. live' \in [Procs -> LiveStates]
      BY <2>4, Names DEF TypeOK, SandboxTypeOK, LiveStates
    <3>4. members' \subseteq Procs
      BY <2>4, Names DEF TypeOK, SandboxTypeOK
    <3>5. report' \subseteq Layers \X {"applied", "failed"}
      BY <2>4, TypeLog, LayerNames
    <3> QED BY <2>4, <3>1, <3>2, <3>3, <3>4, <3>5
          DEF TypeOK, SandboxTypeOK, launchVars, PcValues, LiveStates
  <2> QED BY <1>7, <2>2, <2>3, <2>4 DEF ForkSupervisor
<1>8. CASE ApplyLandlock
    BY <1>8, <1>d, <1>e, WrapPlaces, LayerNames DEF ApplyLandlock
<1>9. CASE ForkBridge
  <2>1. CASE Fork("wrap", "bridge")
             /\ pc' = [pc EXCEPT !["wrap"] = "bridgewait",
                                 !["bridge"] = "h_close"]
             /\ UNCHANGED <<launchVars, doomed, made, msg, report, layers,
                            cgroup>>
    <3>1. pc' \in [Procs -> PcValues]
      BY <2>1, Names, WrapPlaces, HelperPlaces DEF TypeOK, PcValues
    <3>2. /\ live' \in [Procs -> LiveStates]
          /\ wends' \in [Pipes -> SUBSET Procs]
          /\ pdeath' \subseteq Procs
          /\ members' \subseteq Procs
      BY <2>1, TypeFork, Names
    <3> QED BY <2>1, <3>1, <3>2
          DEF TypeOK, SandboxTypeOK, launchVars, PcValues, LiveStates
  <2>2. CASE Skips("wrap", "pidns")
    BY <2>2, <1>c, Names, WrapPlaces
  <2>3. CASE FailsReported("wrap", "Bridge")
    BY <2>3, <1>d, LayerNames
  <2> QED BY <1>9, <2>1, <2>2, <2>3 DEF ForkBridge
<1>10. CASE WaitForBridge
  <2>1. CASE ~Applies("wrap", "Bridge", "pidns")
    <3>1. wends' \in [Pipes -> SUBSET Procs]
      BY SMT, <1>10, <2>1 DEF WaitForBridge, TypeOK, SandboxTypeOK
    <3>2. live' \in [Procs -> LiveStates]
      BY <1>10, <2>1, Names DEF WaitForBridge, TypeOK, SandboxTypeOK, LiveStates
    <3>3. doomed' \subseteq Procs
      BY <1>10, <2>1, Names DEF WaitForBridge, Bereaved, TypeOK, SandboxTypeOK
    <3>4. report' \subseteq Layers \X {"applied", "failed"}
      BY <1>10, <2>1, TypeLog, LayerNames DEF WaitForBridge
    <3> QED BY <1>10, <2>1, <3>1, <3>2, <3>3, <3>4
          DEF WaitForBridge, TypeOK, SandboxTypeOK, launchVars, LiveStates
  <2> QED BY <2>1, <1>e, WrapPlaces, LayerNames
<1>11. CASE EnterPidns
  <2>1. CASE /\ Exits("wrap") /\ Log("PidNs", "applied")
             /\ UNCHANGED <<launchVars, pc, pdeath, made, msg, layers, cgroup,
                            members>>
    BY <2>1, TypeLogsAndExits, Names, LayerNames
  <2>2. CASE /\ Fork("wrap", "inner") /\ Log("PidNs", "applied")
             /\ layers' = [layers EXCEPT !["inner"] =
                    (layers["wrap"] \ {"Pdeathsig"}) \cup {"PidNs"}]
             /\ pc' = [pc EXCEPT !["wrap"] = "relay_host",
                                 !["inner"] = "hostpid"]
             /\ UNCHANGED <<launchVars, doomed, made, msg, cgroup>>
    <3>1. pc' \in [Procs -> PcValues]
      BY <2>2, Names, WrapPlaces DEF TypeOK, PcValues
    <3>2. layers' \in [Procs -> SUBSET Layers]
      BY <2>2, Names, LayerNames DEF TypeOK, SandboxTypeOK
    <3>3. /\ live' \in [Procs -> LiveStates]
          /\ wends' \in [Pipes -> SUBSET Procs]
          /\ pdeath' \subseteq Procs
          /\ members' \subseteq Procs
      BY <2>2, TypeFork, Names
    <3>4. report' \subseteq Layers \X {"applied", "failed"}
      BY <2>2, TypeLog, LayerNames
    <3> QED BY <2>2, <3>1, <3>2, <3>3, <3>4
          DEF TypeOK, SandboxTypeOK, launchVars, PcValues, LiveStates
  <2>3. CASE Skips("wrap", "seccomp")
    BY <2>3, <1>c, Names, WrapPlaces
  <2>4. CASE FailsReported("wrap", "PidNs")
    BY <2>4, <1>d, LayerNames
  <2> QED BY <1>11, <2>1, <2>2, <2>3, <2>4 DEF EnterPidns
<1>12. CASE RelayHostPid
  <2>1. pc' \in [Procs -> PcValues]
    BY <1>12, <1>a, Names, WrapPlaces DEF RelayHostPid
  <2>2. msg' \subseteq Messages
    BY <1>12, MessageNames DEF RelayHostPid, TypeOK, SandboxTypeOK
  <2> QED BY <1>12, <2>1, <2>2
        DEF RelayHostPid, TypeOK, SandboxTypeOK, launchVars, PcValues
<1>13. CASE RelayReportPid
  <2>1. wends' \in [Pipes -> SUBSET Procs]
    BY <1>13 DEF RelayReportPid, TypeOK, SandboxTypeOK
  <2>2. msg' \subseteq Messages
    BY <1>13, MessageNames DEF RelayReportPid, TypeOK, SandboxTypeOK
  <2>3. pc' \in [Procs -> PcValues]
    BY <1>13, <1>a, Names, WrapPlaces DEF RelayReportPid
  <2> QED BY <1>13, <2>1, <2>2, <2>3
        DEF RelayReportPid, TypeOK, SandboxTypeOK, launchVars, PcValues
<1>14. CASE RelayClose
  <2>1. wends' \in [Pipes -> SUBSET Procs]
    BY <1>14 DEF RelayClose, TypeOK, SandboxTypeOK
  <2>2. pc' \in [Procs -> PcValues]
    BY <1>14, <1>a, Names, WrapPlaces DEF RelayClose
  <2> QED BY <1>14, <2>1, <2>2
        DEF RelayClose, TypeOK, SandboxTypeOK, launchVars, PcValues
<1>15. CASE RelayReap
  <2>1. wends' \in [Pipes -> SUBSET Procs]
    BY <1>15 DEF RelayReap, TypeOK, SandboxTypeOK
  <2>2. live' \in [Procs -> LiveStates]
    BY <1>15, Names DEF RelayReap, TypeOK, SandboxTypeOK, LiveStates
  <2>3. doomed' \subseteq Procs
    BY <1>15 DEF RelayReap, Bereaved, TypeOK, SandboxTypeOK
  <2> QED BY <1>15, <2>1, <2>2, <2>3
        DEF RelayReap, TypeOK, SandboxTypeOK, launchVars, LiveStates
<1>16. CASE ReadHostPid
  <2>1. CASE ~Skips("inner", "arm")
    <3>1. wends' \in [Pipes -> SUBSET Procs]
      BY <1>16, <2>1 DEF ReadHostPid, TypeOK, SandboxTypeOK
    <3> QED BY <1>16, <2>1, <3>1
          DEF ReadHostPid, TypeOK, SandboxTypeOK, launchVars
  <2> QED BY <2>1, <1>c, Names, WrapPlaces
<1>17. CASE RearmPdeathsig
  <2>1. CASE ~FailsSilently("inner")
    <3>1. pc' \in [Procs -> PcValues] /\ pdeath' \subseteq Procs
      BY <1>17, <2>1, <1>a, TypeArm, Names, WrapPlaces DEF RearmPdeathsig
    <3>2. layers' \in [Procs -> SUBSET Layers]
      BY <1>17, <2>1, TypeConfine, Names, LayerNames DEF RearmPdeathsig
    <3> QED BY <1>17, <2>1, <3>1, <3>2
          DEF RearmPdeathsig, TypeOK, SandboxTypeOK, launchVars, PcValues
  <2> QED BY <2>1, <1>b, Names
<1>18. CASE CheckParentLiveness
    BY <1>18, <1>b, <1>c, Names, WrapPlaces DEF CheckParentLiveness
<1>19. CASE ExecStep("wrap") \/ ExecStep("inner")
    BY <1>19, Names, TypeExecStep
<1> QED BY <1>1, <1>2, <1>3, <1>4, <1>5, <1>6, <1>7, <1>8, <1>9, <1>10,
           <1>11, <1>12, <1>13, <1>14, <1>15, <1>16, <1>17, <1>18, <1>19
        DEF ChildStep, WrapStep, InnerStep

(* The steps of the helpers preserve the types.                            *)
LEMMA TypeHelperStep ==
    ASSUME TypeOK, NEW h \in Helpers, HelperStep(h)
    PROVE  TypeOK'
<1>a. h \in Procs
    BY Names
<1>b. ASSUME NEW l \in PcValues, Goto(h, l)
      PROVE  pc' \in [Procs -> PcValues]
    BY <1>a, <1>b, TypeGoto
<1>1. CASE HelperCloseFds(h)
  <2>1. wends' \in [Pipes -> SUBSET Procs]
    BY <1>1 DEF HelperCloseFds, TypeOK, SandboxTypeOK
  <2>2. pc' \in [Procs -> PcValues]
    BY <1>1, <1>b, HelperPlaces DEF HelperCloseFds
  <2> QED BY <1>1, <2>1, <2>2
        DEF HelperCloseFds, TypeOK, SandboxTypeOK, launchVars, PcValues
<1>2. CASE HelperArm(h)
  <2>1. pc' \in [Procs -> PcValues] /\ pdeath' \subseteq Procs
    BY <1>2, <1>a, <1>b, TypeArm, HelperPlaces DEF HelperArm
  <2> QED BY <1>2, <2>1
        DEF HelperArm, TypeOK, SandboxTypeOK, launchVars, PcValues
<1>3. CASE HelperCheck(h)
    BY <1>3, <1>a, HelperPlaces, TypeSkips, TypeFailsSilently DEF HelperCheck
<1>4. CASE HelperReady(h)
  <2>1. (IF h = "sup" THEN "listen" ELSE "serve") \in PcValues
    BY HelperPlaces
  <2>2. pc' \in [Procs -> PcValues]
    BY <1>4, <1>b, <2>1 DEF HelperReady
  <2>3. msg' \subseteq Messages
    BY <1>4, MessageNames DEF HelperReady, TypeOK, SandboxTypeOK
  <2> QED BY <1>4, <2>2, <2>3
        DEF HelperReady, TypeOK, SandboxTypeOK, launchVars, PcValues
<1> QED BY <1>1, <1>2, <1>3, <1>4 DEF HelperStep

(* Every step preserves the types.                                         *)
LEMMA TypeNext == TypeOK /\ [Next]_vars => TypeOK'
<1> SUFFICES ASSUME TypeOK, [Next]_vars PROVE TypeOK' OBVIOUS
<1>a. ASSUME NEW p \in Procs, Exits(p),
             UNCHANGED <<launchVars, pc, pdeath, made, msg, report, layers,
                         cgroup, members>>
      PROVE  TypeOK'
    BY <1>a, TypeFailsSilently DEF FailsSilently
<1>1. CASE OrchStep
    BY <1>1, TypeOrchStep
<1>2. CASE ChildStep \/ InnerStep
    BY <1>2, TypeChildStep
<1>3. CASE SupStep
    BY <1>3, Names, HelperPlaces, TypeHelperStep, TypeSkips,
       TypeFailsSilently DEF SupStep, TakeListener
<1>4. CASE HelperStep("bridge") \/ HelperStep("proxy")
    BY <1>4, TypeHelperStep, Names
<1>5. CASE \E p \in Procs : Die(p)
    BY <1>5, <1>a DEF Die
<1>6. CASE Environment
    BY <1>6, <1>a, Names, TypeFailsSilently
        DEF Environment, Crash, TargetExits, Killed, HelperDies
<1>7. CASE Settled \/ UNCHANGED vars
    BY <1>7 DEF Settled, vars, launchVars, TypeOK, SandboxTypeOK
<1> QED BY <1>1, <1>2, <1>3, <1>4, <1>5, <1>6, <1>7 DEF Next

(* Every reachable state of a launch is well-typed.                        *)
THEOREM TypeCorrect == Spec => []TypeOK
<1>1. Init => TypeOK
    BY TypeInit
<1>2. TypeOK /\ [Next]_vars => TypeOK'
    BY TypeNext
<1> QED BY <1>1, <1>2, PTL DEF Spec

-----------------------------------------------------------------------------
(* The target only runs confined.  FailClosed speaks of the target only;   *)
(* the inductive invariant says which layers a process has at every place  *)
(* on its way there, that the wrapper itself gets past the PID namespace   *)
(* only when none is wanted, and that the pipes are made before the spawn, *)
(* which keeps BridgeForked as it was when the wrapper looked at it.       *)

Late == {"seccomp", "filter", "rlimit", "closefds", "exec", "target"}
AfterLandlock ==
    {"bridge", "bridgewait", "pidns", "hostpid", "arm", "aliveness"} \cup Late
AfterNoNewPrivs == {"resolv", "sup", "landlock"} \cup AfterLandlock
AfterPdeathsig == (AfterNoNewPrivs \ {"hostpid", "arm"}) \cup {"nnp"}
AfterSpawn == {"spawning", "addpid", "audit", "pid", "started", "done"}

(* The layers that the place of process p demands.                         *)
Staged(p) ==
    /\ pc[p] \in AfterPdeathsig => "Pdeathsig" \in layers[p]
    /\ pc[p] \in AfterNoNewPrivs => "NoNewPrivs" \in layers[p]
    /\ pc[p] \in AfterLandlock => "Landlock" \in layers[p]
    /\ pc[p] \in AfterLandlock \ {"bridge", "bridgewait"} /\ BridgeForked
          => "Bridge" \in layers[p]
    /\ pc[p] \in Late \ {"seccomp"} => "Seccomp" \in layers[p]
    /\ pc[p] \in Late \ {"seccomp", "filter", "rlimit"}
          => "Rlimit" \in layers[p]

StageInv ==
    /\ \A p \in Wrappers : Staged(p)
    /\ pc["wrap"] \in Late => ~cfg.pidns
    /\ pc["inner"] # "off" => "PidNs" \in layers["inner"] /\ pc["wrap"] # "off"
    /\ pc["wrap"] # "off" => pc["orch"] \in AfterSpawn

LEMMA StageInit == Init => StageInv
BY DEF Init, StageInv, Staged, Wrappers, Procs, AfterPdeathsig, AfterNoNewPrivs,
       AfterLandlock, Late

LEMMA StageFailClosed == StageInv => FailClosed
BY DEF StageInv, Staged, FailClosed, Mandatory, Wrappers, AfterPdeathsig,
       AfterNoNewPrivs, AfterLandlock, Late

(* A step that leaves the two wrapper processes where they are.            *)
LEMMA StageFrame ==
    ASSUME StageInv,
           \A p \in Wrappers : pc'[p] = pc[p] /\ layers'[p] = layers[p],
           cfg' = cfg,
           made' = made \/ pc["wrap"] = "off",
           pc["orch"] \in AfterSpawn => pc'["orch"] \in AfterSpawn
    PROVE  StageInv'
<1>1. "wrap" \in Wrappers /\ "inner" \in Wrappers
    BY DEF Wrappers
<1>2. CASE pc["wrap"] = "off"
    BY <1>1, <1>2 DEF StageInv, Staged, AfterPdeathsig, AfterNoNewPrivs,
        AfterLandlock,
        Late, Wrappers
<1>3. CASE made' = made
  <2>1. BridgeForked' = BridgeForked
    BY <1>3 DEF BridgeForked, BridgeWanted, UseNetns
  <2> QED BY <1>1, <1>3, <2>1 DEF StageInv, Staged
<1> QED BY <1>2, <1>3

(* A step of the orchestrator: only the spawn touches the wrapper's place. *)
LEMMA StageOrch ==
    ASSUME TypeOK, StageInv, OrchStep
    PROVE  StageInv'
<1>a. pc \in [Procs -> PcValues]
    BY DEF TypeOK, PcValues
<1>b. /\ "orch" \in Procs /\ "proxy" \in Procs /\ Wrappers \subseteq Procs
      /\ "orch" \notin Wrappers /\ "proxy" \notin Wrappers
      /\ "wrap" \in Wrappers
    BY DEF Procs, Wrappers
<1>c. ASSUME NEW l, Goto("orch", l)
      PROVE  pc'["orch"] = l /\ \A p \in Wrappers : pc'[p] = pc[p]
    BY <1>a, <1>b, <1>c DEF Goto
<1>d. ASSUME ReturnEarly PROVE StageInv'
    BY <1>b, <1>c, <1>d, StageFrame DEF ReturnEarly, AfterSpawn
<1>e. ASSUME TearDown PROVE StageInv'
    BY <1>b, <1>c, <1>e, StageFrame DEF TearDown, AfterSpawn
<1>f. pc["orch"] \notin AfterSpawn => pc["wrap"] = "off"
    BY DEF StageInv
<1> USE DEF launchVars
<1>1. CASE Begin
    BY <1>1, <1>b, <1>c, <1>d, StageFrame DEF Begin, At, AfterSpawn
<1>2. CASE ForkConnectProxy
  <2>1. CASE pc' = [pc EXCEPT !["orch"] = "proxywait", !["proxy"] = "h_close"]
             /\ UNCHANGED <<cfg, doomed, made, msg, report, layers, cgroup,
                         applied, events, pidfd, result>>
    <3>1. \A p \in Wrappers : pc'[p] = pc[p]
      BY <1>a, <1>b, <2>1
    <3>2. pc["orch"] = "proxy"
      BY <1>2 DEF ForkConnectProxy, At
    <3> QED BY <2>1, <3>1, <3>2, StageFrame DEF AfterSpawn
  <2> QED BY <1>2, <1>c, <1>d, <2>1, StageFrame
        DEF ForkConnectProxy, At, AfterSpawn
<1>3. CASE WaitForProxy
    BY <1>3, <1>c, <1>d, StageFrame DEF WaitForProxy, At, AfterSpawn
<1>4. CASE Setup
    BY <1>4, <1>c, <1>d, StageFrame DEF Setup, At, AfterSpawn
<1>5. CASE MakePipes
    BY <1>5, <1>c, <1>d, <1>f, StageFrame DEF MakePipes, At, AfterSpawn
<1>6. CASE MakeCgroup
    BY <1>6, <1>c, <1>d, StageFrame DEF MakeCgroup, At, AfterSpawn
<1>7. CASE MakeSyncPipe
    BY <1>7, <1>c, <1>d, <1>f, StageFrame DEF MakeSyncPipe, At, AfterSpawn
<1>8. CASE Spawn
  <2>1. /\ pc'["wrap"] = "preexec" /\ pc'["orch"] = "spawning"
        /\ pc'["inner"] = pc["inner"]
        /\ pc["wrap"] = "off"
    BY <1>8, <1>a, <1>f DEF Spawn, At, Procs, AfterSpawn
  <2> QED BY <1>8, <2>1 DEF Spawn, StageInv, Staged, Wrappers, AfterPdeathsig,
        AfterNoNewPrivs, AfterLandlock, Late, AfterSpawn
<1>9. CASE SpawnReturns
    BY <1>9, <1>c, <1>e, StageFrame DEF SpawnReturns, At, AfterSpawn
<1>10. CASE AddPid
    BY <1>10, <1>c, <1>e, StageFrame DEF AddPid, At, AfterSpawn
<1>11. CASE ReadReport
    BY <1>11, <1>c, <1>e, StageFrame DEF ReadReport, At, AfterSpawn
<1>12. CASE ReadPidReport
    BY <1>12, <1>c, StageFrame DEF ReadPidReport, At, AfterSpawn
<1>13. CASE Started
    BY <1>13, <1>c, <1>d, StageFrame DEF Started, At, AfterSpawn
<1> QED BY <1>1, <1>2, <1>3, <1>4, <1>5, <1>6, <1>7, <1>8, <1>9, <1>10,
           <1>11, <1>12, <1>13 DEF OrchStep

(* A step of one wrapper process p, which moves from l to m and may gain   *)
(* layers: it is enough to look at what m demands and l did not.           *)
LEMMA StageMove ==
    ASSUME TypeOK, StageInv, NEW p \in Wrappers, NEW l, NEW m,
           pc[p] = l, Goto(p, m), UNCHANGED <<cfg, made>>,
           l # "off", m # "off",
           \/ layers' = layers
           \/ \E k : layers' = [layers EXCEPT ![p] = @ \cup {k}],
           m \in AfterPdeathsig =>
              l \in AfterPdeathsig \/ "Pdeathsig" \in layers'[p],
           m \in AfterNoNewPrivs =>
              l \in AfterNoNewPrivs \/ "NoNewPrivs" \in layers'[p],
           m \in AfterLandlock =>
              l \in AfterLandlock \/ "Landlock" \in layers'[p],
           m \in AfterLandlock \ {"bridge", "bridgewait"} =>
              \/ l \in AfterLandlock \ {"bridge", "bridgewait"}
              \/ BridgeForked => "Bridge" \in layers'[p],
           m \in Late \ {"seccomp"} =>
              l \in Late \ {"seccomp"} \/ "Seccomp" \in layers'[p],
           m \in Late \ {"seccomp", "filter", "rlimit"} =>
              \/ l \in Late \ {"seccomp", "filter", "rlimit"}
              \/ "Rlimit" \in layers'[p],
           m \in Late => l \in Late \/ p = "inner" \/ ~cfg.pidns
    PROVE  StageInv'
<1>1. pc' \in [Procs -> PcValues \cup {m}] /\ pc'[p] = m
      /\ \A q \in Procs : q # p => pc'[q] = pc[q]
    BY DEF TypeOK, PcValues, Goto, Wrappers, Procs
<1>2. \A q \in Procs : layers[q] \subseteq layers'[q]
    BY DEF TypeOK, SandboxTypeOK
<1>3. BridgeForked' = BridgeForked
    BY DEF BridgeForked, BridgeWanted, UseNetns
<1>4. Wrappers \subseteq Procs /\ "orch" \in Procs \ Wrappers
      /\ "wrap" \in Wrappers /\ "inner" \in Wrappers
    BY DEF Wrappers, Procs
<1>5. \A q \in Wrappers : Staged(q)'
  <2> SUFFICES ASSUME NEW q \in Wrappers PROVE Staged(q)'
    OBVIOUS
  <2>1. CASE q = p
    BY <1>1, <1>2, <1>3, <1>4, <2>1 DEF StageInv, Staged
  <2>2. CASE q # p
    BY <1>1, <1>2, <1>3, <1>4, <2>2 DEF StageInv, Staged
  <2> QED BY <2>1, <2>2
<1>6. /\ pc'["wrap"] \in Late => ~cfg'.pidns
      /\ pc'["inner"] # "off" =>
            "PidNs" \in layers'["inner"] /\ pc'["wrap"] # "off"
      /\ pc'["wrap"] # "off" => pc'["orch"] \in AfterSpawn
    BY <1>1, <1>2, <1>4 DEF StageInv, Wrappers
<1> QED BY <1>5, <1>6 DEF StageInv

(* A process that exits, however it does, leaves the stages alone.         *)
LEMMA StageStill ==
    ASSUME StageInv, UNCHANGED <<cfg, pc, made, layers>>
    PROVE  StageInv'
BY StageFrame

LEMMA StageSkips ==
    ASSUME TypeOK, NEW p \in Wrappers, NEW m, Skips(p, m)
    PROVE  Goto(p, m) /\ UNCHANGED <<cfg, made, layers>>
BY DEF Skips, launchVars

LEMMA StageApplies ==
    ASSUME TypeOK, NEW p \in Wrappers, NEW k, NEW m, Applies(p, k, m)
    PROVE  /\ Goto(p, m) /\ UNCHANGED <<cfg, made>>
           /\ layers' = [layers EXCEPT ![p] = @ \cup {k}]
           /\ k \in layers'[p]
BY DEF Applies, Confine, launchVars, TypeOK, SandboxTypeOK, Wrappers, Procs

LEMMA StageExec ==
    ASSUME TypeOK, StageInv, NEW p \in Wrappers, ExecStep(p)
    PROVE  StageInv'
<1> USE DEF AfterPdeathsig, AfterNoNewPrivs, AfterLandlock, Late
<1>a. ASSUME FailsSilently(p) PROVE StageInv'
    BY <1>a, StageStill DEF FailsSilently, launchVars
<1>b. ASSUME NEW k, FailsReported(p, k) PROVE StageInv'
    BY <1>b, StageStill DEF FailsReported, launchVars
<1>1. CASE ApplySeccomp(p)
    BY <1>1, <1>b, StageApplies, StageMove DEF ApplySeccomp, At
<1>2. CASE InstallUnotifyFilter(p)
  <2>1. CASE FailsSilently(p)
    BY <1>a, <2>1
  <2>2. CASE ~FailsSilently(p)
    <3>1. pc[p] = "filter" /\ Goto(p, "rlimit") /\ UNCHANGED <<cfg, made>>
      BY <1>2, <2>2, StageSkips DEF InstallUnotifyFilter, At, launchVars
    <3>2. \/ layers' = layers
          \/ \E k : layers' = [layers EXCEPT ![p] = @ \cup {k}]
      BY <1>2, <2>2, StageSkips DEF InstallUnotifyFilter, Confine
    <3> QED BY <3>1, <3>2, StageMove
  <2> QED BY <2>1, <2>2
<1>3. CASE ApplyRlimits(p)
    BY SMT, <1>3, <1>b, StageApplies, StageMove DEF ApplyRlimits, At
<1>4. CASE CloseAuditFds(p)
    BY <1>4, StageMove DEF CloseAuditFds, At, launchVars
<1>5. CASE ExecTarget(p)
    BY <1>5, <1>a, StageMove DEF ExecTarget, At, launchVars
<1> QED BY <1>1, <1>2, <1>3, <1>4, <1>5 DEF ExecStep

LEMMA StageChild ==
    ASSUME TypeOK, StageInv, ChildStep \/ InnerStep
    PROVE  StageInv'
<1> USE DEF AfterPdeathsig, AfterNoNewPrivs, AfterLandlock, Late, launchVars
<1>a. ASSUME NEW p \in Wrappers, FailsSilently(p) PROVE StageInv'
    BY <1>a, StageStill DEF FailsSilently
<1>b. ASSUME NEW k, FailsReported("wrap", k) PROVE StageInv'
    BY <1>b, StageStill DEF FailsReported
<1>c. ASSUME ChildFails PROVE StageInv'
    BY <1>c, StageStill DEF ChildFails
<1>d. "wrap" \in Wrappers /\ "inner" \in Wrappers
    BY DEF Wrappers
<1>e. ASSUME NEW p \in Wrappers, NEW k, Confine(p, k)
      PROVE  /\ layers' = [layers EXCEPT ![p] = @ \cup {k}]
             /\ k \in layers'[p]
    BY <1>e DEF Confine, TypeOK, SandboxTypeOK, Wrappers, Procs
<1>1. CASE PreExecArm
    BY SMT, <1>1, <1>c, <1>d, StageMove DEF PreExecArm, At
<1>2. CASE PreExecRest
    BY SMT, <1>2, <1>a, <1>c, <1>d, StageMove DEF PreExecRest, At
<1>3. CASE WaitForCgroup
    BY SMT, <1>3, <1>a, <1>d, StageSkips, StageMove DEF WaitForCgroup, At
<1>4. CASE SetPdeathsig
  <2>1. CASE ~FailsSilently("wrap")
    <3>1. /\ pc["wrap"] = "pdeath" /\ Goto("wrap", "nnp")
          /\ UNCHANGED <<cfg, made>>
      BY <1>4, <2>1 DEF SetPdeathsig, At
    <3>2. /\ layers' = [layers EXCEPT !["wrap"] = @ \cup {"Pdeathsig"}]
          /\ "Pdeathsig" \in layers'["wrap"]
      BY <1>4, <1>d, <1>e, <2>1 DEF SetPdeathsig
    <3>3. "nnp" \notin AfterNoNewPrivs /\ "nnp" \notin AfterLandlock
          /\ "nnp" \notin Late
      OBVIOUS
    <3> HIDE DEF AfterPdeathsig, AfterNoNewPrivs, AfterLandlock, Late
    <3> QED BY <3>1, <3>2, <3>3, <1>d, StageMove
  <2> QED BY <1>a, <1>d, <2>1
<1>5. CASE SetNoNewPrivs
  <2>1. CASE SelfExec
    BY <1>5, <1>a, <1>d, <1>e, <2>1, StageMove DEF SetNoNewPrivs, At
  <2>2. CASE ~SelfExec
    BY <1>5, <1>a, <1>d, <1>e, <2>2, StageMove DEF SetNoNewPrivs, At
  <2> QED BY <2>1, <2>2
<1>6. CASE OverrideResolvConf
  <2> DEFINE next == IF SelfExec THEN "landlock" ELSE "sup"
  <2>1. pc["wrap"] = "resolv" /\ Goto("wrap", next) /\ UNCHANGED <<cfg, made>>
    BY <1>6, <1>d, StageSkips, StageApplies DEF OverrideResolvConf, At
  <2>2. \/ layers' = layers
        \/ \E k : layers' = [layers EXCEPT !["wrap"] = @ \cup {k}]
    BY <1>6, <1>d, StageSkips, StageApplies DEF OverrideResolvConf
  <2>3. next \in {"landlock", "sup"}
    OBVIOUS
  <2> HIDE DEF next
  <2> QED BY <2>1, <2>2, <2>3, <1>d, StageMove
<1>7. CASE ForkSupervisor
  <2> DEFINE next == IF SelfExec THEN "resolv" ELSE "landlock"
  <2>1. pc["wrap"] = "sup" /\ UNCHANGED <<cfg, made, layers>>
    BY <1>7, <1>d, StageSkips DEF ForkSupervisor, At
  <2>2. \/ Goto("wrap", next)
        \/ pc' = [pc EXCEPT !["wrap"] = next, !["sup"] = "h_close"]
    BY <1>7, <1>d, StageSkips DEF ForkSupervisor
  <2>3. next \in {"landlock", "resolv"}
    OBVIOUS
  <2> HIDE DEF next
  <2>4. /\ pc'["wrap"] = next /\ pc'["inner"] = pc["inner"]
        /\ pc'["orch"] = pc["orch"]
    BY <2>2 DEF Goto, TypeOK, Procs
  <2>5. BridgeForked' = BridgeForked
    BY <2>1 DEF BridgeForked, BridgeWanted, UseNetns
  <2> QED BY <2>1, <2>3, <2>4, <2>5 DEF StageInv, Staged, Wrappers
<1>8. CASE ApplyLandlock
  <2>1. CASE Applies("wrap", "Landlock", "bridge")
    <3>1. pc["wrap"] = "landlock"
      BY <1>8 DEF ApplyLandlock, At
    <3>2. /\ "landlock" \in AfterPdeathsig /\ "landlock" \in AfterNoNewPrivs
          /\ "bridge" \notin Late
      OBVIOUS
    <3> HIDE DEF AfterPdeathsig, AfterNoNewPrivs, AfterLandlock, Late
    <3> QED BY <2>1, <3>1, <3>2, <1>d, StageApplies, StageMove
  <2> QED BY <1>8, <1>b, <2>1 DEF ApplyLandlock
<1>9. CASE ForkBridge
  <2>1. CASE BridgeForked /\ ~FailsReported("wrap", "Bridge")
    <3>1. /\ pc["wrap"] = "bridge" /\ UNCHANGED <<cfg, made, layers>>
          /\ pc' = [pc EXCEPT !["wrap"] = "bridgewait", !["bridge"] = "h_close"]
      BY <1>9, <2>1 DEF ForkBridge, At
    <3>2. /\ pc'["wrap"] = "bridgewait" /\ pc'["inner"] = pc["inner"]
          /\ pc'["orch"] = pc["orch"]
      BY <3>1 DEF TypeOK, Procs
    <3>3. BridgeForked' = BridgeForked
      BY <3>1 DEF BridgeForked, BridgeWanted, UseNetns
    <3> QED BY <3>1, <3>2, <3>3 DEF StageInv, Staged, Wrappers
  <2>2. CASE ~BridgeForked
    BY <1>9, <2>2, <1>d, StageSkips, StageMove DEF ForkBridge, At
  <2> QED BY <1>b, <2>1, <2>2
<1>10. CASE WaitForBridge
  <2>1. CASE Applies("wrap", "Bridge", "pidns")
    BY SMT, <1>10, <2>1, <1>d, StageApplies, StageMove DEF WaitForBridge, At
  <2> QED BY <1>10, <2>1, StageStill DEF WaitForBridge
<1>11. CASE EnterPidns
  <2>1. CASE ~cfg.pidns /\ Skips("wrap", "seccomp")
    BY <1>11, <2>1, <1>d, StageSkips, StageMove DEF EnterPidns, At
  <2>2. CASE UNCHANGED <<pc, layers, cfg, made>>
    BY <2>2, StageStill
  <2>3. CASE /\ layers' = [layers EXCEPT !["inner"] =
                    (layers["wrap"] \ {"Pdeathsig"}) \cup {"PidNs"}]
             /\ pc' = [pc EXCEPT !["wrap"] = "relay_host",
                                 !["inner"] = "hostpid"]
             /\ UNCHANGED <<cfg, made>>
    <3>1. /\ pc["wrap"] = "pidns" /\ pc'["wrap"] = "relay_host"
          /\ pc'["inner"] = "hostpid" /\ pc'["orch"] = pc["orch"]
      BY <1>11, <2>3 DEF EnterPidns, At, TypeOK, Procs
    <3>2. layers'["inner"] = (layers["wrap"] \ {"Pdeathsig"}) \cup {"PidNs"}
      BY <2>3 DEF TypeOK, SandboxTypeOK, Procs
    <3>3. BridgeForked' = BridgeForked
      BY <2>3 DEF BridgeForked, BridgeWanted, UseNetns
    <3> QED BY <2>3, <3>1, <3>2, <3>3 DEF StageInv, Staged, Wrappers
  <2> QED BY <1>11, <1>b, <2>1, <2>2, <2>3 DEF EnterPidns
<1>12. CASE RelayHostPid \/ RelayReportPid \/ RelayClose
    BY SMT, <1>12, <1>d, StageMove DEF RelayHostPid, RelayReportPid, RelayClose, At
<1>13. CASE RelayReap
    BY <1>13, StageStill DEF RelayReap
<1>14. CASE ReadHostPid
    BY <1>14, <1>d, StageSkips, StageMove, StageStill DEF ReadHostPid, At
<1>15. CASE RearmPdeathsig
    BY <1>15, <1>a, <1>d, <1>e, StageMove DEF RearmPdeathsig, At
<1>16. CASE CheckParentLiveness
    BY <1>16, <1>a, <1>d, StageSkips, StageMove DEF CheckParentLiveness, At
<1>17. CASE ExecStep("wrap") \/ ExecStep("inner")
    BY <1>17, <1>d, StageExec
<1> QED BY <1>1, <1>2, <1>3, <1>4, <1>5, <1>6, <1>7, <1>8, <1>9, <1>10,
           <1>11, <1>12, <1>13, <1>14, <1>15, <1>16, <1>17
        DEF ChildStep, WrapStep, InnerStep

LEMMA StageNext == TypeOK /\ StageInv /\ [Next]_vars => StageInv'
<1> SUFFICES ASSUME TypeOK, StageInv, [Next]_vars PROVE StageInv' OBVIOUS
<1> USE DEF launchVars
<1>a. ASSUME NEW h \in Helpers, NEW l, Goto(h, l),
             UNCHANGED <<cfg, made, layers>>
      PROVE  StageInv'
  <2>1. /\ \A p \in Wrappers : pc'[p] = pc[p]
        /\ pc'["orch"] = pc["orch"]
    BY <1>a DEF Goto, TypeOK, Procs, Wrappers, Helpers
  <2> QED BY <1>a, <2>1, StageFrame
<1>b. ASSUME NEW h \in Helpers, HelperStep(h) PROVE StageInv'
    BY <1>a, <1>b, StageStill
        DEF HelperStep, HelperCloseFds, HelperArm, HelperCheck, HelperReady,
            Skips, FailsSilently
<1>1. CASE OrchStep
    BY <1>1, StageOrch
<1>2. CASE ChildStep \/ InnerStep
    BY <1>2, StageChild
<1>3. CASE TakeListener
  <2>1. CASE FailsSilently("sup")
    <3>1. UNCHANGED <<cfg, pc, made, layers>>
      BY <2>1 DEF FailsSilently
    <3> QED BY <3>1, StageStill
  <2>2. CASE ~FailsSilently("sup")
    <3>1. "sup" \in Helpers /\ UNCHANGED <<cfg, made, layers>>
      BY <1>3, <2>2 DEF TakeListener, Skips, Helpers
    <3>2. \E l : Goto("sup", l)
      BY <1>3, <2>2 DEF TakeListener, Skips
    <3> QED BY <3>1, <3>2, <1>a
  <2> QED BY <2>1, <2>2
<1>4. CASE HelperStep("sup") \/ HelperStep("bridge") \/ HelperStep("proxy")
    BY <1>4, <1>b DEF Helpers
<1>5. CASE Environment \/ (\E p \in Procs : Die(p)) \/ Settled
           \/ UNCHANGED vars
  <2>1. UNCHANGED <<cfg, pc, made, layers>>
    BY <1>5 DEF Environment, Crash, TargetExits, Killed, HelperDies,
        FailsSilently, Die, Settled, vars
  <2> QED BY <2>1, StageStill
<1> QED BY <1>1, <1>2, <1>3, <1>4, <1>5 DEF Next, SupStep

(* Whatever fails, is killed or times out on the way: a process that has   *)
(* exec'd the target has every mandatory layer (main in bin/arapuca.rs,    *)
(* run_wrapper_path in selfexec.rs).                                       *)
THEOREM TargetConfined == Spec => []FailClosed
<1>1. Init => TypeOK /\ StageInv
    BY TypeInit, StageInit
<1>2. TypeOK /\ StageInv /\ [Next]_vars => (TypeOK /\ StageInv)'
    BY TypeNext, StageNext
<1>3. StageInv => FailClosed
    BY StageFailClosed
<1> QED BY <1>1, <1>2, <1>3, PTL DEF Spec

-----------------------------------------------------------------------------
(* No crash leaves a process behind.  A process that has passed its check  *)
(* for the parent must have armed the signal before, or the parent's death *)
(* would go unnoticed: that is what the inductive invariant adds.          *)

NotArmed == {"off", "preexec", "hostpid", "arm", "h_close", "h_arm"}

Attached(c) ==
    Alive(c) =>
        /\ pc[c] # "off"
        /\ pc[c] \notin NotArmed => c \in pdeath
        /\ ParentGone(c) => c \in doomed \/ pc[c] \in Unchecked

OrphanInv == \A c \in Procs \ {"orch"} : Attached(c)

LEMMA Parents ==
    /\ ParentOf["proxy"] = "orch" /\ ParentOf["wrap"] = "orch"
    /\ ParentOf["inner"] = "wrap" /\ ParentOf["sup"] = "wrap"
    /\ ParentOf["bridge"] = "wrap"
    /\ \A c \in Procs \ {"orch"} : ParentOf[c] \in {"orch", "wrap"}
BY DEF ParentOf, Procs

LEMMA OrphanInit == Init => OrphanInv
BY DEF Init, OrphanInv, Attached, Alive, Procs

LEMMA OrphanInvDoomed == OrphanInv => OrphansDoomed
BY DEF OrphanInv, Attached, OrphansDoomed

(* A process that does not move and, when its parent dies under an armed   *)
(* signal, is killed.                                                      *)
LEMMA AttachedStill ==
    ASSUME NEW c \in Procs \ {"orch"}, Attached(c), pc'[c] = pc[c],
           Alive(c)' => Alive(c),
           c \in pdeath => c \in pdeath',
           Alive(c)' /\ c \in doomed => c \in doomed',
           Alive(c)' /\ Alive(ParentOf[c]) /\ c \in pdeath
              => Alive(ParentOf[c])' \/ c \in doomed'
    PROVE  Attached(c)'
BY DEF Attached, ParentGone, Unchecked, NotArmed, Alive

(* The end of a process.                                                   *)
LEMMA OrphanExits ==
    ASSUME TypeOK, OrphanInv, NEW p \in Procs, Exits(p),
           UNCHANGED <<pc, pdeath>>
    PROVE  OrphanInv'
<1> SUFFICES ASSUME NEW c \in Procs \ {"orch"} PROVE Attached(c)'
    BY DEF OrphanInv
<1>1. Attached(c)
    BY DEF OrphanInv
<1>2. (Alive(c)' => Alive(c) /\ c # p) /\ ParentOf[c] \in Procs
    BY Parents DEF Exits, Alive, TypeOK, SandboxTypeOK, Procs
<1>3. Alive(c)' /\ c \in doomed => c \in doomed'
    BY <1>2 DEF Exits
<1>4. Alive(c)' /\ Alive(ParentOf[c]) /\ c \in pdeath
              => Alive(ParentOf[c])' \/ c \in doomed'
  <2>1. CASE ParentOf[c] = p
    BY <1>2, <2>1 DEF Exits, Bereaved
  <2>2. CASE ParentOf[c] # p
    BY <1>2, <2>2 DEF Exits, Alive, TypeOK, SandboxTypeOK
  <2> QED BY <2>1, <2>2
<1> QED BY <1>1, <1>2, <1>3, <1>4, AttachedStill

(* A process moves on.                                                     *)
LEMMA OrphanMove ==
    ASSUME TypeOK, OrphanInv, NEW p \in Procs, NEW m, Goto(p, m),
           UNCHANGED <<live, doomed>>, pdeath \subseteq pdeath',
           p # "orch" =>
              /\ m # "off"
              /\ m \in NotArmed \/ pc[p] \notin NotArmed \/ p \in pdeath'
              /\ m \in Unchecked \/ pc[p] \notin Unchecked \/ ~ParentGone(p)
    PROVE  OrphanInv'
<1> SUFFICES ASSUME NEW c \in Procs \ {"orch"} PROVE Attached(c)'
    BY DEF OrphanInv
<1>1. Attached(c)
    BY DEF OrphanInv
<1>2. (Alive(c)' <=> Alive(c)) /\ (ParentGone(c)' <=> ParentGone(c))
    BY DEF Alive, ParentGone
<1>3. CASE c = p
  <2>1. pc'[c] = m
    BY <1>3 DEF Goto, TypeOK
  <2> QED BY <1>1, <1>2, <1>3, <2>1 DEF Attached
<1>4. CASE c # p
  <2>1. pc'[c] = pc[c]
    BY <1>4 DEF Goto, TypeOK
  <2> QED BY <1>1, <1>2, <2>1 DEF Attached
<1> QED BY <1>3, <1>4

(* A process p forks c, which starts at m, and itself goes to l.           *)
LEMMA OrphanFork ==
    ASSUME TypeOK, OrphanInv, NEW p \in {"orch", "wrap"},
           NEW c \in Procs \ {"orch"}, ParentOf[c] = p, Alive(p), c # p,
           NEW l, NEW m, pc' = [pc EXCEPT ![p] = l, ![c] = m],
           live' = [live EXCEPT ![c] = "alive"], UNCHANGED doomed,
           pdeath \ {c} \subseteq pdeath',
           m \in {"preexec", "hostpid", "h_close"},
           p # "orch" => /\ l # "off" /\ l \notin NotArmed
                         /\ pc[p] \notin NotArmed
                         /\ pc[p] \notin Unchecked
    PROVE  OrphanInv'
<1> SUFFICES ASSUME NEW d \in Procs \ {"orch"} PROVE Attached(d)'
    BY DEF OrphanInv
<1>1. Attached(d) /\ p \in Procs /\ ParentOf[d] \in Procs
    BY Parents DEF OrphanInv, Procs
<1>2. CASE d = c
  <2>1. pc'[d] = m
    BY <1>1, <1>2 DEF TypeOK
  <2> QED BY <2>1 DEF Attached, Unchecked, NotArmed
<1>3. CASE d # c
  <2>1. (Alive(d)' <=> Alive(d)) /\ (ParentGone(d)' => ParentGone(d))
    BY <1>1, <1>3 DEF Alive, ParentGone, TypeOK, SandboxTypeOK
  <2>2. d # p => pc'[d] = pc[d]
    BY <1>1, <1>3 DEF TypeOK
  <2>3. d = p => pc'[d] = l
    BY <1>1, <1>3 DEF TypeOK
  <2>4. d \in pdeath => d \in pdeath'
    BY <1>3
  <2> QED BY <1>1, <1>3, <2>1, <2>2, <2>3, <2>4 DEF Attached
<1> QED BY <1>2, <1>3

LEMMA OrphanOrch ==
    ASSUME TypeOK, OrphanInv, OrchStep
    PROVE  OrphanInv'
<1> USE DEF launchVars
<1>a. /\ "orch" \in Procs /\ "wrap" \in Procs \ {"orch"}
      /\ "proxy" \in Procs \ {"orch"}
    BY DEF Procs
<1>b. Alive("orch")
  <2>1. \A l : At("orch", l) => Alive("orch")
    BY DEF At, CanRun
  <2>2. CASE Begin \/ ForkConnectProxy \/ WaitForProxy \/ Setup
    BY <2>1, <2>2 DEF Begin, ForkConnectProxy, WaitForProxy, Setup
  <2>3. CASE MakePipes \/ MakeCgroup \/ MakeSyncPipe
    BY <2>1, <2>3 DEF MakePipes, MakeCgroup, MakeSyncPipe
  <2>4. CASE Spawn \/ SpawnReturns \/ AddPid
    BY <2>1, <2>4 DEF Spawn, SpawnReturns, AddPid
  <2>5. CASE ReadReport \/ ReadPidReport \/ Started
    BY <2>1, <2>5 DEF ReadReport, ReadPidReport, Started
  <2> QED BY <2>2, <2>3, <2>4, <2>5 DEF OrchStep
<1>c. ASSUME NEW l, Goto("orch", l), UNCHANGED <<live, doomed, pdeath>>
      PROVE  OrphanInv'
    BY <1>a, <1>c, OrphanMove
<1>d. ASSUME NEW c \in Procs \ {"orch"}, Goto("orch", "done")
      PROVE  pc'[c] = pc[c] /\ Attached(c)
    BY <1>d DEF Goto, TypeOK, OrphanInv
<1>e. ASSUME ReturnEarly PROVE OrphanInv'
  <2> SUFFICES ASSUME NEW c \in Procs \ {"orch"} PROVE Attached(c)'
      BY DEF OrphanInv
  <2>1. Attached(c) /\ pc'[c] = pc[c]
    BY <1>d, <1>e DEF ReturnEarly
  <2>2. \A q \in Procs : Alive(q)' <=> Alive(q)
    BY <1>e DEF ReturnEarly, ProxyReaped, Alive, TypeOK, SandboxTypeOK
  <2>3. doomed \subseteq doomed' /\ pdeath' = pdeath
    BY <1>e DEF ReturnEarly, Signalled
  <2>4. ParentOf[c] \in Procs
    BY Parents DEF Procs
  <2> QED BY <2>1, <2>2, <2>3, <2>4, AttachedStill
<1>f. ASSUME TearDown PROVE OrphanInv'
  <2> SUFFICES ASSUME NEW c \in Procs \ {"orch"} PROVE Attached(c)'
      BY DEF OrphanInv
  <2>1. Attached(c) /\ pc'[c] = pc[c]
    BY <1>d, <1>f DEF TearDown
  <2>2. /\ \A q \in Procs : Alive(q)' <=> Alive(q) /\ q # "wrap"
        /\ pdeath' = pdeath
    BY <1>f DEF TearDown, ProxyReaped, Alive, TypeOK, SandboxTypeOK
  <2>3. Alive(c)' /\ c \in doomed => c \in doomed'
    <3>1. doomed' = (doomed \cup {q \in Victims : Alive(q)}) \ {"wrap"}
      BY <1>f DEF TearDown
    <3>2. Alive(c)' => c # "wrap"
      BY <2>2
    <3> QED BY <3>1, <3>2
  <2>4. Alive(c)' /\ ParentOf[c] = "wrap" /\ c \in pdeath => c \in doomed'
    BY <1>f, <2>2 DEF TearDown, Victims, Bereaved
  <2>5. ParentOf[c] \in {"orch", "wrap"} /\ Alive("orch")'
    BY <1>a, <1>b, <2>2, Parents DEF Procs
  <2> QED BY <2>1, <2>2, <2>3, <2>4, <2>5, AttachedStill
<1>1. CASE Begin
    BY <1>1, <1>c, <1>e DEF Begin
<1>2. CASE ForkConnectProxy
  <2>1. CASE Fork("orch", "proxy") /\ UNCHANGED doomed
             /\ pc' = [pc EXCEPT !["orch"] = "proxywait", !["proxy"] = "h_close"]
    BY <1>a, <1>b, <2>1, OrphanFork, Parents DEF Fork
  <2> QED BY <1>2, <1>c, <1>e, <2>1 DEF ForkConnectProxy
<1>3. CASE WaitForProxy \/ Setup \/ MakePipes \/ MakeCgroup \/ MakeSyncPipe
           \/ Started
    BY <1>3, <1>c, <1>e
        DEF WaitForProxy, Setup, MakePipes, MakeCgroup, MakeSyncPipe, Started
<1>4. CASE Spawn
    BY <1>4, <1>a, <1>b, OrphanFork, Parents DEF Spawn, Fork
<1>5. CASE SpawnReturns \/ AddPid \/ ReadReport \/ ReadPidReport
    BY <1>5, <1>c, <1>f DEF SpawnReturns, AddPid, ReadReport, ReadPidReport
<1> QED BY <1>1, <1>2, <1>3, <1>4, <1>5 DEF OrchStep

LEMMA OrphanExec ==
    ASSUME TypeOK, OrphanInv, NEW p \in Wrappers, ExecStep(p)
    PROVE  OrphanInv'
<1> USE DEF launchVars
<1>a. p \in Procs
    BY DEF Wrappers, Procs
<1>b. ASSUME FailsSilently(p) \/ \E k : FailsReported(p, k) PROVE OrphanInv'
    BY <1>a, <1>b, OrphanExits DEF FailsSilently, FailsReported
<1>c. ASSUME NEW m \in Late, Goto(p, m), UNCHANGED <<live, doomed, pdeath>>,
             pc[p] \in Late
      PROVE  OrphanInv'
    BY <1>a, <1>c, OrphanMove DEF Late, NotArmed, Unchecked
<1>1. CASE ApplySeccomp(p) \/ ApplyRlimits(p)
    BY <1>1, <1>b, <1>c DEF ApplySeccomp, ApplyRlimits, Applies, At, Late
<1>2. CASE InstallUnotifyFilter(p)
    BY <1>2, <1>b, <1>c DEF InstallUnotifyFilter, Skips, At, Late
<1>3. CASE CloseAuditFds(p)
  <2>1. /\ pc[p] \in Late /\ "exec" \in Late /\ Goto(p, "exec")
        /\ UNCHANGED <<live, doomed, pdeath>>
    BY <1>3 DEF CloseAuditFds, At, Late
  <2> QED BY <2>1, <1>c
<1>4. CASE ExecTarget(p)
  <2>1. CASE FailsSilently(p)
    BY <2>1, <1>b
  <2>2. CASE ~FailsSilently(p)
    <3>1. /\ pc[p] \in Late /\ "target" \in Late /\ Goto(p, "target")
          /\ UNCHANGED <<live, doomed, pdeath>>
      BY <1>4, <2>2 DEF ExecTarget, At, Late
    <3> QED BY <3>1, <1>c
  <2> QED BY <2>1, <2>2
<1> QED BY <1>1, <1>2, <1>3, <1>4 DEF ExecStep

LEMMA OrphanChild ==
    ASSUME TypeOK, OrphanInv, ChildStep \/ InnerStep
    PROVE  OrphanInv'
<1> USE DEF launchVars
<1>a. /\ "wrap" \in Procs /\ "inner" \in Procs
      /\ {"inner", "sup", "bridge"} \subseteq Procs \ {"orch"}
    BY DEF Procs
<1>b. ASSUME NEW p \in Wrappers, FailsSilently(p) PROVE OrphanInv'
    BY <1>a, <1>b, OrphanExits DEF FailsSilently, Wrappers
<1>c. ASSUME NEW k, FailsReported("wrap", k) PROVE OrphanInv'
    BY <1>a, <1>c, OrphanExits DEF FailsReported
<1>d. ASSUME ChildFails PROVE OrphanInv'
    BY <1>a, <1>d, OrphanExits DEF ChildFails
<1>e. ASSUME NEW m, Goto("wrap", m), UNCHANGED <<live, doomed>>,
             pdeath \subseteq pdeath',
             pc["wrap"] \notin NotArmed \cup Unchecked, m # "off"
      PROVE  OrphanInv'
    BY <1>a, <1>e, OrphanMove
<1>f. "wrap" \in Wrappers /\ "inner" \in Wrappers
    BY DEF Wrappers
<1>1. CASE PreExecArm
  <2>1. CASE ~ChildFails
    <3>1. /\ Goto("wrap", "ppid") /\ UNCHANGED <<live, doomed>>
          /\ pdeath' = pdeath \cup {"wrap"}
      BY <1>1, <2>1 DEF PreExecArm, Arm
    <3> QED BY <3>1, <1>a, OrphanMove DEF Unchecked
  <2> QED BY <1>d, <2>1
<1>2. CASE PreExecRest
  <2>1. CASE ~ChildFails /\ ~FailsSilently("wrap")
    <3>1. /\ Goto("wrap", "sync") /\ UNCHANGED <<live, doomed, pdeath>>
          /\ pc["wrap"] = "ppid" /\ ~ParentGone("wrap")
      BY <1>2, <2>1 DEF PreExecRest, At
    <3> QED BY <3>1, <1>a, OrphanMove DEF NotArmed
  <2> QED BY <1>b, <1>d, <1>f, <2>1
<1>3. CASE WaitForCgroup \/ SetPdeathsig \/ SetNoNewPrivs
    BY <1>3, <1>b, <1>e, <1>f
        DEF WaitForCgroup, SetPdeathsig, SetNoNewPrivs, Skips, Arm, At,
            NotArmed, Unchecked
<1>4. CASE OverrideResolvConf
    BY <1>4, <1>e DEF OverrideResolvConf, Skips, Applies, At, NotArmed,
        Unchecked
<1>5. CASE ForkSupervisor
  <2> DEFINE next == IF SelfExec THEN "resolv" ELSE "landlock"
  <2>1. CASE Goto("wrap", next) /\ UNCHANGED <<live, doomed, pdeath>>
    BY <1>5, <1>e, <2>1 DEF ForkSupervisor, At, NotArmed, Unchecked
  <2>2. CASE live' = [live EXCEPT !["sup"] = "alive"]
             /\ pc' = [pc EXCEPT !["wrap"] = next, !["sup"] = "h_close"]
             /\ UNCHANGED <<doomed, pdeath>>
    <3>1. Alive("wrap") /\ pc["wrap"] = "sup"
      BY <1>5 DEF ForkSupervisor, At, CanRun
    <3>2. next # "off" /\ next \notin NotArmed
      BY DEF NotArmed
    <3> HIDE DEF next
    <3> QED BY <1>a, <2>2, <3>1, <3>2, OrphanFork, Parents
          DEF NotArmed, Unchecked
  <2> QED BY <1>5, <2>1, <2>2 DEF ForkSupervisor, Skips
<1>6. CASE ApplyLandlock
    BY <1>6, <1>c, <1>e DEF ApplyLandlock, Applies, At, NotArmed, Unchecked
<1>7. CASE ForkBridge
  <2>1. CASE Fork("wrap", "bridge") /\ UNCHANGED doomed
          /\ pc' = [pc EXCEPT !["wrap"] = "bridgewait", !["bridge"] = "h_close"]
    <3>1. Alive("wrap") /\ pc["wrap"] = "bridge"
      BY <1>7 DEF ForkBridge, At, CanRun
    <3> QED BY <1>a, <2>1, <3>1, OrphanFork, Parents
          DEF Fork, NotArmed, Unchecked
  <2> QED BY <1>7, <1>c, <1>e, <2>1
        DEF ForkBridge, Skips, At, NotArmed, Unchecked
<1>8. CASE WaitForBridge
  <2>1. CASE Applies("wrap", "Bridge", "pidns")
    BY <1>8, <2>1, <1>e DEF WaitForBridge, Applies, At, NotArmed, Unchecked
  <2>2. CASE ~Applies("wrap", "Bridge", "pidns")
    <3> SUFFICES ASSUME NEW c \in Procs \ {"orch"} PROVE Attached(c)'
        BY DEF OrphanInv
    <3>1. /\ Attached(c) /\ pc' = pc /\ pdeath' = pdeath
          /\ doomed \subseteq doomed' /\ Bereaved("wrap") \subseteq doomed'
      BY <1>8, <2>2 DEF WaitForBridge, OrphanInv
    <3>2. \A q \in Procs : Alive(q)' <=> Alive(q) /\ q # "wrap"
      BY SMT, <1>8, <2>2 DEF WaitForBridge, Alive, TypeOK, SandboxTypeOK
    <3>3. ParentOf[c] \in {"orch", "wrap"} /\ "orch" \in Procs
      BY Parents DEF Procs
    <3>4. Alive(c)' /\ ParentOf[c] = "wrap" /\ c \in pdeath => c \in doomed'
      BY <3>1, <3>2 DEF Bereaved
    <3> QED BY <3>1, <3>2, <3>3, <3>4, AttachedStill
  <2> QED BY <2>1, <2>2
<1>9. CASE EnterPidns
  <2>1. CASE Skips("wrap", "seccomp")
    BY <1>9, <2>1, <1>e DEF EnterPidns, Skips, At, NotArmed, Unchecked
  <2>2. CASE Exits("wrap") /\ UNCHANGED <<pc, pdeath>>
    BY <2>2, <1>a, OrphanExits
  <2>3. CASE Fork("wrap", "inner") /\ UNCHANGED doomed
          /\ pc' = [pc EXCEPT !["wrap"] = "relay_host", !["inner"] = "hostpid"]
    <3>1. Alive("wrap") /\ pc["wrap"] = "pidns"
      BY <1>9 DEF EnterPidns, At, CanRun
    <3> QED BY <1>a, <2>3, <3>1, OrphanFork, Parents
          DEF Fork, NotArmed, Unchecked
  <2> QED BY <1>9, <1>c, <2>1, <2>2, <2>3 DEF EnterPidns
<1>10. CASE RelayHostPid \/ RelayReportPid \/ RelayClose
    BY <1>10, <1>e DEF RelayHostPid, RelayReportPid, RelayClose, At, NotArmed,
        Unchecked
<1>11. CASE RelayReap
  <2> SUFFICES ASSUME NEW c \in Procs \ {"orch"} PROVE Attached(c)'
      BY DEF OrphanInv
  <2>1. /\ Attached(c) /\ pc' = pc /\ pdeath' = pdeath
        /\ doomed \subseteq doomed' /\ Bereaved("wrap") \subseteq doomed'
    BY <1>11 DEF RelayReap, OrphanInv
  <2>2. \A q \in Procs : Alive(q)' <=> Alive(q) /\ q # "wrap"
    BY <1>11 DEF RelayReap, Alive, TypeOK, SandboxTypeOK
  <2>3. ParentOf[c] \in {"orch", "wrap"} /\ "orch" \in Procs
    BY Parents DEF Procs
  <2>4. Alive(c)' /\ ParentOf[c] = "wrap" /\ c \in pdeath => c \in doomed'
    BY <2>1, <2>2 DEF Bereaved
  <2> QED BY <2>1, <2>2, <2>3, <2>4, AttachedStill
<1>12. CASE ReadHostPid
  <2>1. CASE Skips("inner", "arm")
    BY <2>1, <1>a, OrphanMove DEF Skips, NotArmed, Unchecked
  <2>2. CASE UNCHANGED <<pc, live, doomed, pdeath>>
    BY <2>2 DEF OrphanInv, Attached, Alive, ParentGone
  <2> QED BY <1>12, <2>1, <2>2 DEF ReadHostPid
<1>13. CASE RearmPdeathsig
  <2>1. CASE ~FailsSilently("inner")
    <3>1. /\ Goto("inner", "aliveness") /\ UNCHANGED <<live, doomed>>
          /\ pdeath' = pdeath \cup {"inner"}
      BY <1>13, <2>1 DEF RearmPdeathsig, Arm
    <3> QED BY <3>1, <1>a, OrphanMove DEF Unchecked
  <2> QED BY <1>b, <1>f, <2>1
<1>14. CASE CheckParentLiveness
  <2>1. CASE Alive("wrap") /\ Skips("inner", "seccomp")
    BY <1>14, <2>1, <1>a, OrphanMove, Parents
        DEF CheckParentLiveness, Skips, At, NotArmed, ParentGone
  <2> QED BY <1>14, <1>b, <1>f, <2>1 DEF CheckParentLiveness
<1>15. CASE ExecStep("wrap") \/ ExecStep("inner")
    BY <1>15, <1>f, OrphanExec
<1> QED BY <1>1, <1>2, <1>3, <1>4, <1>5, <1>6, <1>7, <1>8, <1>9, <1>10,
           <1>11, <1>12, <1>13, <1>14, <1>15
        DEF ChildStep, WrapStep, InnerStep

LEMMA OrphanHelper ==
    ASSUME TypeOK, OrphanInv, NEW h \in Helpers, HelperStep(h)
    PROVE  OrphanInv'
<1> USE DEF launchVars
<1>a. h \in Procs \ {"orch"}
    BY DEF Helpers, Procs
<1>1. CASE HelperCloseFds(h)
    BY <1>1, <1>a, OrphanMove DEF HelperCloseFds, At, NotArmed, Unchecked
<1>2. CASE HelperArm(h)
    BY <1>2, <1>a, OrphanMove DEF HelperArm, Arm, At, NotArmed, Unchecked
<1>3. CASE HelperCheck(h)
  <2>1. CASE FailsSilently(h)
    BY <2>1, <1>a, OrphanExits DEF FailsSilently
  <2>2. CASE ~FailsSilently(h)
    BY <1>3, <2>2, <1>a, OrphanMove DEF HelperCheck, Skips, At, NotArmed
  <2> QED BY <2>1, <2>2
<1>4. CASE HelperReady(h)
  <2> DEFINE m == IF h = "sup" THEN "listen" ELSE "serve"
  <2>1. m # "off" /\ pc[h] = "h_init" /\ Goto(h, m)
        /\ UNCHANGED <<live, doomed, pdeath>>
    BY <1>4 DEF HelperReady, At
  <2> HIDE DEF m
  <2> QED BY <2>1, <1>a, OrphanMove DEF NotArmed, Unchecked
<1> QED BY <1>1, <1>2, <1>3, <1>4 DEF HelperStep

LEMMA OrphanNext == TypeOK /\ OrphanInv /\ [Next]_vars => OrphanInv'
<1> SUFFICES ASSUME TypeOK, OrphanInv, [Next]_vars PROVE OrphanInv' OBVIOUS
<1> USE DEF launchVars
<1>a. ASSUME NEW p \in Procs, FailsSilently(p) PROVE OrphanInv'
    BY <1>a, OrphanExits DEF FailsSilently
<1>b. /\ Wrappers \subseteq Procs /\ Helpers \subseteq Procs
      /\ "orch" \in Procs /\ "sup" \in Procs
    BY DEF Wrappers, Helpers, Procs
<1>1. CASE OrchStep
    BY <1>1, OrphanOrch
<1>2. CASE ChildStep \/ InnerStep
    BY <1>2, OrphanChild
<1>3. CASE TakeListener
    BY <1>3, <1>a, <1>b, OrphanMove
        DEF TakeListener, Skips, At, NotArmed, Unchecked
<1>4. CASE HelperStep("sup") \/ HelperStep("bridge") \/ HelperStep("proxy")
    BY <1>4, OrphanHelper DEF Helpers
<1>5. CASE \E p \in Procs : Die(p)
    BY <1>5, OrphanExits DEF Die
<1>6. CASE Environment
    BY <1>6, <1>a, <1>b, OrphanExits
        DEF Environment, Crash, TargetExits, Killed, HelperDies
<1>7. CASE Settled \/ UNCHANGED vars
    BY <1>7 DEF Settled, vars, OrphanInv, Attached, Alive, ParentGone
<1> QED BY <1>1, <1>2, <1>3, <1>4, <1>5, <1>6, <1>7 DEF Next, SupStep

(* A process that outlives its parent has a SIGKILL pending or has yet to  *)
(* check for its parent, however the deaths and the steps between fork,    *)
(* prctl and the check interleave (pre_exec in platform/linux.rs,          *)
(* check_parent_liveness in pidns.rs, the helpers' getppid checks).        *)
THEOREM NoOrphans == Spec => []OrphansDoomed
<1>1. Init => TypeOK /\ OrphanInv
    BY TypeInit, OrphanInit
<1>2. TypeOK /\ OrphanInv /\ [Next]_vars => (TypeOK /\ OrphanInv)'
    BY TypeNext, OrphanNext
<1>3. OrphanInv => OrphansDoomed
    BY OrphanInvDoomed
<1> QED BY <1>1, <1>2, <1>3, PTL DEF Spec

-----------------------------------------------------------------------------
(* The cgroup covers the sandbox from its first own step, for every        *)
(* configuration, every set of faults and both wrappers.                   *)

Contained == {"wrap", "inner", "sup", "bridge"}

(* The places of the wrapper before the sync byte lets it go on.           *)
Waiting == {"preexec", "ppid", "sync"}

BeforeSync ==
    {"start", "proxy", "proxywait", "setup", "pipes", "cgroup", "sync"}
AfterAddPid == {"audit", "pid", "started", "done"}

Covered(p) == Alive(p) /\ pc[p] \notin Waiting => p \in members

(* CgroupCoversSandbox says nothing of how the wrapper is let go.  The     *)
(* invariant adds the argument: the sync pipe is made only for a cgroup,   *)
(* which stays until add_pid; the byte is written only by add_pid's        *)
(* success; and nothing of the sandbox lives before the spawn, so that no  *)
(* wrapper that was not put into the cgroup can find the byte.             *)
CgroupInv ==
    /\ "sync" \in made => \A p \in Contained : Covered(p)
    /\ pc["orch"] \in BeforeSync => "sync" \notin made
    /\ pc["orch"] \in BeforeSync \cup {"spawn"} =>
          \A p \in Contained : ~Alive(p)
    /\ "sync" \in made /\ pc["orch"] \notin AfterAddPid => cgroup = "present"
    /\ "sync" \in msg => pc["orch"] \in AfterAddPid
    /\ "sync" \in made /\ "sync" \in msg /\ Alive("wrap") => "wrap" \in members

LEMMA CgroupInit == Init => CgroupInv
BY DEF Init, CgroupInv, Contained, Alive, Procs, BeforeSync, AfterAddPid

LEMMA CgroupInvCovers == CgroupInv => CgroupCoversSandbox
BY DEF CgroupInv, CgroupCoversSandbox, Contained, Covered, Waiting

-----------------------------------------------------------------------------
(* The steps of the others.                                                *)

(* A step that leaves the orchestrator, the pipes and the cgroup's         *)
(* directory alone; only a living wrapper brings new processes to life.    *)
LEMMA CgroupFrame ==
    ASSUME CgroupInv, pc'["orch"] = pc["orch"], UNCHANGED <<made, cgroup>>,
           members \subseteq members',
           "sync" \in msg' => "sync" \in msg,
           \A p \in Contained :
              Alive(p)' => Alive(p) \/ (p # "wrap" /\ Alive("wrap")),
           "sync" \in made => \A p \in Contained : Covered(p)'
    PROVE  CgroupInv'
<1>1. "wrap" \in Contained
    BY DEF Contained
<1> QED BY <1>1 DEF CgroupInv

(* Process p moves from one place to the next.                             *)
LEMMA CgroupMove ==
    ASSUME TypeOK, CgroupInv, NEW p \in Procs \ {"orch"}, NEW m, Goto(p, m),
           UNCHANGED <<live, made, cgroup, members>>,
           "sync" \in msg' => "sync" \in msg,
           \/ m \in Waiting
           \/ pc[p] \notin Waiting
           \/ "sync" \in made /\ Alive(p) => p \in members
    PROVE  CgroupInv'
<1>1. /\ "orch" \in Procs /\ pc'[p] = m
      /\ \A q \in Procs : q # p => pc'[q] = pc[q]
    BY DEF Goto, TypeOK, Procs
<1>2. \A q \in Contained : Alive(q)' <=> Alive(q)
    BY DEF Alive
<1>3. "sync" \in made => \A q \in Contained : Covered(q)'
    BY <1>1, <1>2 DEF CgroupInv, Covered, Contained, Procs
<1> QED BY <1>1, <1>2, <1>3, CgroupFrame

(* Processes end.                                                          *)
LEMMA CgroupEnds ==
    ASSUME CgroupInv, UNCHANGED <<pc, made, cgroup, members>>,
           "sync" \in msg' => "sync" \in msg,
           \A p \in Contained : Alive(p)' => Alive(p)
    PROVE  CgroupInv'
<1>1. "sync" \in made => \A p \in Contained : Covered(p)'
    BY DEF CgroupInv, Covered
<1> QED BY <1>1, CgroupFrame

LEMMA CgroupExits ==
    ASSUME TypeOK, CgroupInv, NEW p \in Procs, Exits(p),
           UNCHANGED <<pc, made, cgroup, members>>,
           "sync" \in msg' => "sync" \in msg
    PROVE  CgroupInv'
<1>1. \A q \in Contained : Alive(q)' => Alive(q)
    BY DEF Exits, Alive, TypeOK, SandboxTypeOK, Contained, Procs
<1> QED BY <1>1, CgroupEnds

(* The wrapper, past its wait, forks c: the child is in the cgroup because *)
(* the wrapper is.                                                         *)
LEMMA CgroupFork ==
    ASSUME TypeOK, CgroupInv, NEW c \in {"inner", "sup", "bridge"},
           Alive("wrap"), pc["wrap"] \notin Waiting,
           NEW l, NEW m, pc' = [pc EXCEPT !["wrap"] = l, ![c] = m],
           live' = [live EXCEPT ![c] = "alive"],
           members' = IF "wrap" \in members THEN members \cup {c} ELSE members,
           UNCHANGED <<made, cgroup, msg>>
    PROVE  CgroupInv'
<1>1. /\ pc'["orch"] = pc["orch"]
      /\ \A q \in Contained : q \notin {"wrap", c} => pc'[q] = pc[q]
    BY DEF TypeOK, Contained, Procs
<1>2. \A q \in Contained : q # c => (Alive(q)' <=> Alive(q))
    BY DEF Alive, TypeOK, SandboxTypeOK, Contained, Procs
<1>3. "sync" \in made => "wrap" \in members
    BY DEF CgroupInv, Covered, Contained
<1>4. "sync" \in made => \A q \in Contained : Covered(q)'
    BY <1>1, <1>2, <1>3 DEF CgroupInv, Covered
<1>5. \A q \in Contained :
        Alive(q)' => Alive(q) \/ (q # "wrap" /\ Alive("wrap"))
    BY <1>2
<1> QED BY <1>1, <1>4, <1>5, CgroupFrame

LEMMA CgroupExec ==
    ASSUME TypeOK, CgroupInv, NEW p \in Wrappers, ExecStep(p)
    PROVE  CgroupInv'
<1> USE DEF launchVars
<1>a. p \in Procs \ {"orch"}
    BY DEF Wrappers, Procs
<1>b. ASSUME FailsSilently(p) \/ \E k : FailsReported(p, k) PROVE CgroupInv'
    BY <1>a, <1>b, CgroupExits DEF FailsSilently, FailsReported
<1>c. ASSUME NEW m, Goto(p, m), UNCHANGED <<live, made, cgroup, members>>,
             "sync" \in msg' => "sync" \in msg, pc[p] \notin Waiting
      PROVE  CgroupInv'
    BY <1>a, <1>c, CgroupMove
<1>1. CASE ApplySeccomp(p) \/ ApplyRlimits(p)
    BY <1>1, <1>b, <1>c DEF ApplySeccomp, ApplyRlimits, Applies, At, Waiting
<1>2. CASE InstallUnotifyFilter(p)
    BY <1>2, <1>b, <1>c DEF InstallUnotifyFilter, Skips, At, Waiting
<1>3. CASE CloseAuditFds(p)
    BY <1>3, <1>c DEF CloseAuditFds, At, Waiting
<1>4. CASE ExecTarget(p)
    BY <1>4, <1>b, <1>c DEF ExecTarget, At, Waiting
<1> QED BY <1>1, <1>2, <1>3, <1>4 DEF ExecStep

LEMMA CgroupChild ==
    ASSUME TypeOK, CgroupInv, ChildStep \/ InnerStep
    PROVE  CgroupInv'
<1> USE DEF launchVars
<1>a. /\ "wrap" \in Procs \ {"orch"} /\ "inner" \in Procs \ {"orch"}
      /\ "wrap" \in Wrappers /\ "inner" \in Wrappers
    BY DEF Procs, Wrappers
<1>b. ASSUME NEW p \in Wrappers, FailsSilently(p) PROVE CgroupInv'
    BY <1>a, <1>b, CgroupExits DEF FailsSilently, Wrappers
<1>c. ASSUME NEW k, FailsReported("wrap", k) PROVE CgroupInv'
    BY <1>a, <1>c, CgroupExits DEF FailsReported
<1>d. ASSUME ChildFails PROVE CgroupInv'
    BY <1>a, <1>d, CgroupExits DEF ChildFails
<1>e. ASSUME NEW p \in Wrappers, NEW m, Goto(p, m),
             UNCHANGED <<live, made, cgroup, members>>,
             "sync" \in msg' => "sync" \in msg,
             pc[p] \notin Waiting \/ m \in Waiting
      PROVE  CgroupInv'
    BY <1>a, <1>e, CgroupMove DEF Wrappers
<1>1. CASE PreExecArm \/ PreExecRest
    BY <1>1, <1>a, <1>b, <1>d, <1>e DEF PreExecArm, PreExecRest, Waiting
<1>2. CASE WaitForCgroup
  <2>1. CASE ("sync" \in made => "sync" \in msg) /\ Skips("wrap", "pdeath")
    <3>1. "sync" \in made /\ Alive("wrap") => "wrap" \in members
      BY <2>1 DEF CgroupInv
    <3> QED BY <2>1, <3>1, <1>a, CgroupMove DEF Skips
  <2> QED BY <1>2, <1>a, <1>b, <2>1 DEF WaitForCgroup
<1>3. CASE SetPdeathsig \/ SetNoNewPrivs \/ OverrideResolvConf
    BY <1>3, <1>a, <1>b, <1>e
        DEF SetPdeathsig, SetNoNewPrivs, OverrideResolvConf, Skips, Applies,
            At, Waiting
<1>4. CASE ForkSupervisor
  <2> DEFINE next == IF SelfExec THEN "resolv" ELSE "landlock"
  <2>1. Alive("wrap") /\ pc["wrap"] \notin Waiting
    BY <1>4 DEF ForkSupervisor, At, CanRun, Waiting
  <2>2. CASE Goto("wrap", next) /\ UNCHANGED <<live, made, cgroup, members, msg>>
    BY <2>1, <2>2, <1>a, <1>e
  <2>3. CASE /\ live' = [live EXCEPT !["sup"] = "alive"]
             /\ members' = IF "wrap" \in members
                           THEN members \cup {"sup"} ELSE members
             /\ pc' = [pc EXCEPT !["wrap"] = next, !["sup"] = "h_close"]
             /\ UNCHANGED <<made, cgroup, msg>>
    <3> HIDE DEF next
    <3> QED BY <2>1, <2>3, CgroupFork
  <2> QED BY <1>4, <2>2, <2>3 DEF ForkSupervisor, Skips
<1>5. CASE ApplyLandlock
    BY <1>5, <1>a, <1>c, <1>e DEF ApplyLandlock, Applies, At, Waiting
<1>6. CASE ForkBridge
  <2>1. Alive("wrap") /\ pc["wrap"] \notin Waiting
    BY <1>6 DEF ForkBridge, At, CanRun, Waiting
  <2>2. CASE /\ Fork("wrap", "bridge") /\ UNCHANGED <<made, cgroup, msg>>
             /\ pc' = [pc EXCEPT !["wrap"] = "bridgewait",
                                 !["bridge"] = "h_close"]
    BY <2>1, <2>2, CgroupFork DEF Fork
  <2> QED BY <1>6, <1>a, <1>c, <1>e, <2>1, <2>2 DEF ForkBridge, Skips
<1>7. CASE WaitForBridge
  <2>1. CASE Applies("wrap", "Bridge", "pidns")
    BY <1>7, <2>1, <1>a, <1>e DEF WaitForBridge, Applies, At, Waiting
  <2>2. CASE ~Applies("wrap", "Bridge", "pidns")
    <3>1. /\ live' = [live EXCEPT !["wrap"] = "zombie"]
          /\ UNCHANGED <<pc, made, msg, cgroup, members>>
      BY <1>7, <2>2 DEF WaitForBridge
    <3>2. \A q \in Contained : Alive(q)' => Alive(q)
      BY <3>1 DEF Alive, TypeOK, SandboxTypeOK, Contained, Procs
    <3> QED BY <3>1, <3>2, CgroupEnds
  <2> QED BY <2>1, <2>2
<1>8. CASE EnterPidns
  <2>1. Alive("wrap") /\ pc["wrap"] \notin Waiting
    BY <1>8 DEF EnterPidns, At, CanRun, Waiting
  <2>2. CASE /\ Fork("wrap", "inner") /\ UNCHANGED <<made, cgroup, msg>>
             /\ pc' = [pc EXCEPT !["wrap"] = "relay_host",
                                 !["inner"] = "hostpid"]
    BY <2>1, <2>2, CgroupFork DEF Fork
  <2>3. CASE Exits("wrap") /\ UNCHANGED <<pc, made, msg, cgroup, members>>
    BY <2>3, <1>a, CgroupExits
  <2> QED BY <1>8, <1>a, <1>c, <1>e, <2>1, <2>2, <2>3 DEF EnterPidns, Skips
<1>9. CASE RelayHostPid \/ RelayReportPid \/ RelayClose
    BY <1>9, <1>a, <1>e DEF RelayHostPid, RelayReportPid, RelayClose, At,
        Waiting
<1>10. CASE RelayReap
  <2>1. \A q \in Contained : Alive(q)' => Alive(q)
    BY <1>10 DEF RelayReap, Alive, TypeOK, SandboxTypeOK, Contained, Procs
  <2> QED BY <1>10, <2>1, CgroupEnds DEF RelayReap
<1>11. CASE ReadHostPid
  <2>1. CASE Skips("inner", "arm")
    BY <1>11, <2>1, <1>a, <1>e DEF ReadHostPid, Skips, At, Waiting
  <2>2. CASE UNCHANGED <<pc, live, made, msg, cgroup, members>>
    BY <2>2, CgroupEnds DEF Alive
  <2> QED BY <1>11, <2>1, <2>2 DEF ReadHostPid
<1>12. CASE RearmPdeathsig \/ CheckParentLiveness
    BY <1>12, <1>a, <1>b, <1>e
        DEF RearmPdeathsig, CheckParentLiveness, Skips, At, Waiting
<1>13. CASE ExecStep("wrap") \/ ExecStep("inner")
    BY <1>13, <1>a, CgroupExec
<1> QED BY <1>1, <1>2, <1>3, <1>4, <1>5, <1>6, <1>7, <1>8, <1>9, <1>10,
           <1>11, <1>12, <1>13 DEF ChildStep, WrapStep, InnerStep

LEMMA CgroupHelper ==
    ASSUME TypeOK, CgroupInv, NEW h \in Helpers,
           HelperStep(h) \/ (h = "sup" /\ TakeListener)
    PROVE  CgroupInv'
<1> USE DEF launchVars
<1>a. h \in Procs \ {"orch"}
    BY DEF Helpers, Procs
<1>b. ASSUME FailsSilently(h) PROVE CgroupInv'
    BY <1>a, <1>b, CgroupExits DEF FailsSilently
<1>c. ASSUME NEW m, Goto(h, m), UNCHANGED <<live, made, cgroup, members>>,
             "sync" \in msg' => "sync" \in msg, pc[h] \notin Waiting
      PROVE  CgroupInv'
    BY <1>a, <1>c, CgroupMove
<1>1. CASE HelperCloseFds(h) \/ HelperArm(h)
    BY <1>1, <1>c DEF HelperCloseFds, HelperArm, At, Waiting
<1>2. CASE HelperCheck(h)
    BY <1>2, <1>b, <1>c DEF HelperCheck, Skips, At, Waiting
<1>3. CASE HelperReady(h)
    BY <1>3, <1>c DEF HelperReady, Ready, At, Waiting
<1>4. CASE h = "sup" /\ TakeListener
    BY <1>4, <1>b, <1>c DEF TakeListener, Skips, At, Waiting
<1> QED BY <1>1, <1>2, <1>3, <1>4 DEF HelperStep

-----------------------------------------------------------------------------
(* The orchestrator's steps.                                               *)

(* The orchestrator goes on to l; the others stay where they are.          *)
LEMMA CgroupOrchMove ==
    ASSUME TypeOK, CgroupInv, NEW l, Goto("orch", l),
           \A p \in Contained : Alive(p)' => Alive(p),
           "sync" \in msg' => "sync" \in msg,
           UNCHANGED members,
           "sync" \in made' => "sync" \in made,
           "sync" \in made' /\ l \notin AfterAddPid => cgroup' = "present",
           l \in BeforeSync => pc["orch"] \in BeforeSync,
           l = "spawn" => pc["orch"] \in BeforeSync,
           pc["orch"] \in AfterAddPid => l \in AfterAddPid
    PROVE  CgroupInv'
<1>1. pc'["orch"] = l /\ \A p \in Contained : pc'[p] = pc[p]
    BY DEF Goto, TypeOK, Contained, Procs
<1>2. "sync" \in made' => \A p \in Contained : Covered(p)'
    BY <1>1 DEF CgroupInv, Covered
<1>3. "wrap" \in Contained
    BY DEF Contained
<1> QED BY <1>1, <1>2, <1>3 DEF CgroupInv

LEMMA CgroupOrch ==
    ASSUME TypeOK, CgroupInv, OrchStep
    PROVE  CgroupInv'
<1> USE DEF launchVars
<1>a. "proxy" \notin Contained /\ Contained \subseteq Procs
    BY DEF Contained, Procs
<1>b. "done" \in AfterAddPid /\ "done" \notin BeforeSync
    BY DEF AfterAddPid, BeforeSync
<1>c. ASSUME ReturnEarly, UNCHANGED members PROVE CgroupInv'
  <2>1. \A p \in Contained : Alive(p)' => Alive(p)
    BY <1>a, <1>c DEF ReturnEarly, ProxyReaped, Alive, TypeOK, SandboxTypeOK
  <2> QED BY <1>b, <1>c, <2>1, CgroupOrchMove DEF ReturnEarly
<1>d. ASSUME TearDown PROVE CgroupInv'
  <2>1. \A p \in Contained : Alive(p)' => Alive(p)
    BY <1>a, <1>d DEF TearDown, ProxyReaped, Alive, TypeOK, SandboxTypeOK
  <2>2. Goto("orch", "done") /\ UNCHANGED <<made, msg, members>>
    BY <1>d DEF TearDown
  <2> QED BY <1>b, <2>1, <2>2, CgroupOrchMove
<1>e. ASSUME NEW l, Goto("orch", l), UNCHANGED <<live, msg, members, made>>,
             l \notin AfterAddPid /\ "sync" \in made => cgroup' = "present",
             l \in BeforeSync => pc["orch"] \in BeforeSync,
             l # "spawn",
             pc["orch"] \in AfterAddPid => l \in AfterAddPid
      PROVE  CgroupInv'
    BY <1>e, CgroupOrchMove DEF Alive
<1>1. CASE Begin \/ WaitForProxy \/ Setup
  <2>1. CASE ReturnEarly /\ UNCHANGED members
    BY <1>c, <2>1
  <2>2. CASE ~ReturnEarly
    <3>1. /\ pc["orch"] \in {"start", "proxywait", "setup"}
          /\ UNCHANGED <<live, msg, members, made, cgroup>>
          /\ \E l \in {"proxy", "setup", "pipes"} : Goto("orch", l)
      BY <1>1, <2>2 DEF Begin, WaitForProxy, Setup, At
    <3>2. "sync" \notin made
      BY <3>1 DEF CgroupInv, BeforeSync
    <3> QED BY <3>1, <3>2, <1>e DEF BeforeSync, AfterAddPid
  <2> QED BY <1>1, <2>1, <2>2 DEF Begin, WaitForProxy, Setup
<1>2. CASE ForkConnectProxy
  <2>1. CASE ~cfg.hosts
    BY <1>2, <2>1, <1>e DEF ForkConnectProxy, At, BeforeSync, AfterAddPid,
        CgroupInv
  <2>2. CASE Fork("orch", "proxy") /\ UNCHANGED <<made, msg, cgroup>>
             /\ pc' = [pc EXCEPT !["orch"] = "proxywait", !["proxy"] = "h_close"]
    <3>1. pc["orch"] = "proxy"
      BY <1>2 DEF ForkConnectProxy, At
    <3>2. pc'["orch"] = "proxywait"
      BY <2>2 DEF TypeOK, Procs
    <3>3. \A p \in Contained : Alive(p)' => Alive(p)
      BY <1>a, <2>2 DEF Fork, Alive, TypeOK, SandboxTypeOK
    <3> QED BY <2>2, <3>1, <3>2, <3>3 DEF CgroupInv, BeforeSync, AfterAddPid,
          Contained
  <2> QED BY <1>2, <1>c, <2>1, <2>2 DEF ForkConnectProxy
<1>3. CASE MakePipes
  <2>1. CASE ReturnEarly /\ UNCHANGED members
    BY <1>c, <2>1
  <2>2. CASE ~ReturnEarly
    <3>1. /\ pc["orch"] = "pipes" /\ Goto("orch", "cgroup")
          /\ made' \subseteq WantedPipes /\ UNCHANGED <<live, msg, members>>
      BY <1>3, <2>2 DEF MakePipes, At
    <3>2. "sync" \notin made'
      BY <3>1 DEF WantedPipes
    <3> QED BY <3>1, <3>2, CgroupOrchMove DEF Alive, BeforeSync, AfterAddPid
  <2> QED BY <1>3, <2>1, <2>2 DEF MakePipes
<1>4. CASE MakeCgroup
  <2>1. CASE ReturnEarly /\ UNCHANGED members
    BY <1>c, <2>1
  <2>2. CASE ~ReturnEarly
    <3>1. /\ pc["orch"] = "cgroup" /\ Goto("orch", "sync")
          /\ UNCHANGED <<live, msg, members, made>>
      BY <1>4, <2>2 DEF MakeCgroup, At
    <3>2. "sync" \notin made
      BY <3>1 DEF CgroupInv, BeforeSync
    <3> QED BY <3>1, <3>2, <1>e DEF BeforeSync, AfterAddPid
  <2> QED BY <1>4, <2>1, <2>2 DEF MakeCgroup
<1>5. CASE MakeSyncPipe
  <2>1. CASE ReturnEarly /\ UNCHANGED members
    BY <1>c, <2>1
  <2>2. CASE ~ReturnEarly
    <3>1. /\ pc["orch"] = "sync" /\ Goto("orch", "spawn")
          /\ UNCHANGED <<live, msg, members, cgroup>>
          /\ "sync" \in made' => "sync" \in made \/ cgroup = "present"
      BY <1>5, <2>2 DEF MakeSyncPipe, At, HasCgroup
    <3>2. /\ "sync" \notin made /\ "sync" \notin msg
          /\ \A p \in Contained : ~Alive(p)'
      BY <3>1 DEF CgroupInv, BeforeSync, AfterAddPid, Alive
    <3>3. pc'["orch"] = "spawn" /\ "wrap" \in Contained
      BY <3>1 DEF Goto, TypeOK, Procs, Contained
    <3> QED BY <3>1, <3>2, <3>3 DEF CgroupInv, Covered, BeforeSync
  <2> QED BY <1>5, <2>1, <2>2 DEF MakeSyncPipe
<1>6. CASE Spawn
  <2>1. /\ pc["orch"] = "spawn" /\ pc'["orch"] = "spawning"
        /\ pc'["wrap"] = "preexec" /\ UNCHANGED <<made, msg, cgroup>>
    BY <1>6 DEF Spawn, At, TypeOK, Procs
  <2>2. \A p \in Contained : p # "wrap" => ~Alive(p)'
    BY <1>6, <1>a, <2>1 DEF Spawn, Fork, CgroupInv, Alive, TypeOK,
        SandboxTypeOK
  <2>3. "sync" \notin msg
    BY <2>1 DEF CgroupInv, AfterAddPid
  <2> QED BY <2>1, <2>2, <2>3 DEF CgroupInv, Covered, Waiting, BeforeSync,
        AfterAddPid
<1>7. CASE SpawnReturns
    BY <1>7, <1>d, <1>e DEF SpawnReturns, At, CgroupInv, BeforeSync,
        AfterAddPid
<1>8. CASE AddPid
  <2>1. CASE ~TearDown
    <3>1. /\ pc["orch"] = "addpid" /\ Goto("orch", "audit")
          /\ UNCHANGED <<live, made, cgroup>>
          /\ members' = IF HasCgroup /\ Alive("wrap")
                        THEN members \cup {"wrap"} ELSE members
      BY <1>8, <2>1 DEF AddPid, At
    <3>2. /\ pc'["orch"] = "audit"
          /\ \A p \in Contained : pc'[p] = pc[p]
      BY <1>a, <3>1 DEF Goto, TypeOK, Procs, Contained
    <3>3. "sync" \in made => HasCgroup
      BY <3>1 DEF CgroupInv, AfterAddPid, HasCgroup
    <3>4. "sync" \in made /\ Alive("wrap")' => "wrap" \in members'
      BY <3>1, <3>3 DEF Alive
    <3>5. \A p \in Contained : Covered(p) => Covered(p)'
      BY <3>1, <3>2 DEF Covered, Alive
    <3> QED BY <3>1, <3>2, <3>4, <3>5 DEF CgroupInv, BeforeSync, AfterAddPid
  <2> QED BY <1>d, <2>1
<1>9. CASE ReadReport \/ ReadPidReport
    BY <1>9, <1>d, <1>e DEF ReadReport, ReadPidReport, At, BeforeSync,
        AfterAddPid
<1>10. CASE Started
    BY <1>10, <1>b, <1>c, <1>e DEF Started
<1> QED BY <1>1, <1>2, <1>3, <1>4, <1>5, <1>6, <1>7, <1>8, <1>9, <1>10
        DEF OrchStep

-----------------------------------------------------------------------------

LEMMA CgroupNext == TypeOK /\ CgroupInv /\ [Next]_vars => CgroupInv'
<1> SUFFICES ASSUME TypeOK, CgroupInv, [Next]_vars PROVE CgroupInv' OBVIOUS
<1> USE DEF launchVars
<1>a. ASSUME NEW p \in Procs, FailsSilently(p) PROVE CgroupInv'
    BY <1>a, CgroupExits DEF FailsSilently
<1>1. CASE OrchStep
    BY <1>1, CgroupOrch
<1>2. CASE ChildStep \/ InnerStep
    BY <1>2, CgroupChild
<1>3. CASE SupStep \/ HelperStep("bridge") \/ HelperStep("proxy")
    BY <1>3, CgroupHelper, Names DEF SupStep
<1>4. CASE \E p \in Procs : Die(p)
    BY <1>4, CgroupExits DEF Die
<1>5. CASE Environment
    BY <1>5, <1>a, CgroupExits, Names
        DEF Environment, Crash, TargetExits, Killed, HelperDies
<1>6. CASE Settled \/ UNCHANGED vars
    BY <1>6, CgroupEnds DEF Settled, vars, Alive
<1> QED BY <1>1, <1>2, <1>3, <1>4, <1>5, <1>6 DEF Next

(* With the sync pipe, the wrapper and everything it forks are in the      *)
(* cgroup from their first own step, however the spawn, add_pid, deaths    *)
(* and failures interleave (launch in platform/linux.rs, the wait for      *)
(* ARAPUCA_CGROUP_SYNC_FD in bin/arapuca.rs and selfexec.rs).              *)
THEOREM CgroupCovers == Spec => []CgroupCoversSandbox
<1>1. Init => TypeOK /\ CgroupInv
    BY TypeInit, CgroupInit
<1>2. TypeOK /\ CgroupInv /\ [Next]_vars => (TypeOK /\ CgroupInv)'
    BY TypeNext, CgroupNext
<1>3. CgroupInv => CgroupCoversSandbox
    BY CgroupInvCovers
<1> QED BY <1>1, <1>2, <1>3, PTL DEF Spec
=============================================================================
