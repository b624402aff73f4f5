------------------------- MODULE LaunchReturnProofs -------------------------
(***************************************************************************)
(* What a return of launch() means, Ok or an error, and that launch()      *)
(* implements its contract, proved by induction.                           *)
(***************************************************************************)
EXTENDS LaunchProofs

(* A leaf goes to Zenon unless it names another prover.                    *)
USE Zenon

-----------------------------------------------------------------------------
(* What the end of the report means, and what an error gives back.         *)

(* The places of a wrapper process that has closed its audit descriptor,   *)
(* or is the relay.                                                        *)
Past == {"exec", "target"} \cup Relaying

(* OkMeansConfined speaks of the moment launch() returns.  The invariant   *)
(* says why the end of file is not seen before: a process on its way to    *)
(* the target holds the write end of the audit pipe, which it has from its *)
(* parent, until it has applied the last layer.                            *)
ReportInv ==
    /\ \A p \in Wrappers : "audit" \in made /\ Alive(p) /\ pc[p] \notin Past
                              => p \in wends["audit"]
    /\ Alive("orch") /\ pc["orch"] \in {"cgroup", "sync", "spawn"} /\ "audit" \in made
          => "orch" \in wends["audit"]
    /\ "audit" \in made /\ (pc["orch"] \in {"pid", "started"} \/ result = "ok")
          => \A p \in Wrappers : Alive(p) => pc[p] \in Past
    /\ result # "pending" => pc["orch"] = "done"

(* For an error: what there is to give back at each stage of launch().     *)
BeforeCgroup == {"start", "proxy", "proxywait", "setup", "pipes", "cgroup"}

GiveInv ==
    /\ pc["orch"] \in BeforeSync \cup {"spawn"} => live["wrap"] = "none" /\ members = {}
    /\ pc["orch"] \in BeforeCgroup => cgroup = "absent"
    /\ result # "pending" => pc["orch"] = "done"
    /\ ErrGivesBack

LEMMA ReportInit == Init => ReportInv
BY DEF Init, ReportInv, Alive, Wrappers, Procs

(* What is left at the end of a process.                                   *)
LEMMA ReportStill ==
    ASSUME TypeOK, ReportInv, UNCHANGED <<pc, made, result>>,
           \A p \in Procs : Alive(p)' =>
              Alive(p) /\ (p \in wends["audit"] => p \in wends'["audit"])
    PROVE  ReportInv'
<1>1. Wrappers \subseteq Procs /\ "orch" \in Procs
    BY DEF Wrappers, Procs
<1> QED BY <1>1 DEF ReportInv

LEMMA ReportExits ==
    ASSUME TypeOK, ReportInv, UNCHANGED <<pc, made, result>>, NEW p \in Procs, Exits(p)
    PROVE  ReportInv'
<1>1. \A r \in Procs : Alive(r)' => Alive(r) /\ r # p
    BY DEF Exits, Alive, TypeOK, SandboxTypeOK
<1>2. wends'["audit"] = wends["audit"] \ {p}
    BY DEF Exits, Pipes
<1> QED BY <1>1, <1>2, ReportStill

(* A process other than the orchestrator moves on.                         *)
LEMMA ReportMove ==
    ASSUME TypeOK, ReportInv, UNCHANGED <<made, live, result>>,
           NEW p \in Procs \ {"orch"}, NEW m, Goto(p, m),
           wends["audit"] \ {p} \subseteq wends'["audit"],
           p \in Wrappers => \/ m \in Past
                             \/ pc[p] \notin Past /\ wends'["audit"] = wends["audit"]
    PROVE  ReportInv'
<1>1. pc'[p] = m /\ \A r \in Procs : r # p => pc'[r] = pc[r]
    BY DEF Goto, TypeOK
<1>2. \A r \in Procs : Alive(r)' <=> Alive(r)
    BY DEF Alive
<1> QED BY <1>1, <1>2 DEF ReportInv, Wrappers, Procs

(* The wrapper forks c, a helper or the namespace's init.                  *)
LEMMA ReportFork ==
    ASSUME TypeOK, ReportInv, UNCHANGED <<made, result>>,
           NEW c \in {"inner", "sup", "bridge"}, NEW l, NEW m,
           Alive("wrap"), pc["wrap"] \notin Past,
           pc' = [pc EXCEPT !["wrap"] = l, ![c] = m],
           live' = [live EXCEPT ![c] = "alive"],
           wends["audit"] \subseteq wends'["audit"],
           "wrap" \in wends["audit"] => c \in wends'["audit"]
    PROVE  ReportInv'
<1>1. pc'["wrap"] = l /\ pc'[c] = m /\ \A r \in Procs \ {"wrap", c} : pc'[r] = pc[r]
    BY DEF TypeOK, Procs
<1>2. \A r \in Procs \ {c} : Alive(r)' <=> Alive(r)
    BY DEF Alive, TypeOK, SandboxTypeOK
<1> QED BY <1>1, <1>2 DEF ReportInv, Wrappers, Procs

LEMMA ReportExec ==
    ASSUME TypeOK, ReportInv, NEW p \in Wrappers, ExecStep(p)
    PROVE  ReportInv'
<1> USE DEF launchVars
<1>a. p \in Procs \ {"orch"} /\ "audit" \in Pipes
    BY DEF Wrappers, Procs, Pipes
<1>b. ASSUME FailsSilently(p) \/ \E k : FailsReported(p, k) PROVE ReportInv'
    BY <1>a, <1>b, ReportExits DEF FailsSilently, FailsReported
<1>c. ASSUME NEW m, Goto(p, m), UNCHANGED <<made, live, result>>,
             \/ pc[p] \notin Past /\ wends'["audit"] = wends["audit"]
             \/ m \in Past /\ wends["audit"] \ {p} \subseteq wends'["audit"]
      PROVE  ReportInv'
    BY <1>a, <1>c, ReportMove
<1>1. CASE ApplySeccomp(p) \/ ApplyRlimits(p)
    BY <1>1, <1>b, <1>c DEF ApplySeccomp, ApplyRlimits, Applies, At, Past, Relaying
<1>2. CASE InstallUnotifyFilter(p)
  <2>1. wends' = [wends EXCEPT !["sp"] = @ \ {p}] => wends'["audit"] = wends["audit"]
    BY <1>a DEF TypeOK, SandboxTypeOK
  <2> QED BY <1>2, <1>b, <1>c, <2>1 DEF InstallUnotifyFilter, Skips, At, Past, Relaying
<1>3. CASE CloseAuditFds(p) \/ ExecTarget(p)
    BY <1>3, <1>a, <1>b, <1>c DEF CloseAuditFds, ExecTarget, At, Past
<1> QED BY <1>1, <1>2, <1>3 DEF ExecStep

LEMMA ReportChild ==
    ASSUME TypeOK, ReportInv, ChildStep \/ InnerStep
    PROVE  ReportInv'
<1> USE DEF launchVars
<1>a. /\ Wrappers = {"wrap", "inner"} /\ "audit" \in Pipes
      /\ {"wrap", "inner", "sup", "bridge"} \subseteq Procs \ {"orch"}
    BY DEF Wrappers, Procs, Pipes
<1>b. ASSUME NEW p \in Wrappers, FailsSilently(p) \/ \E k : FailsReported(p, k)
      PROVE  ReportInv'
    BY <1>a, <1>b, ReportExits DEF FailsSilently, FailsReported
<1>c. ASSUME NEW p \in Wrappers, NEW m, Goto(p, m), UNCHANGED <<made, live, result>>,
             wends'["audit"] = wends["audit"], pc[p] \notin Past
      PROVE  ReportInv'
    BY <1>a, <1>c, ReportMove
<1>d. ASSUME ChildFails PROVE ReportInv'
    BY <1>a, <1>d, ReportExits DEF ChildFails
<1>e. ASSUME NEW q \in Pipes \ {"audit"}, NEW p, wends' = [wends EXCEPT ![q] = @ \ {p}]
      PROVE  wends'["audit"] = wends["audit"]
    BY <1>a, <1>e DEF TypeOK, SandboxTypeOK
<1>1. CASE PreExecArm \/ PreExecRest
    BY <1>1, <1>a, <1>b, <1>c, <1>d, <1>e DEF PreExecArm, PreExecRest, At, Past, Relaying, Pipes
<1>2. CASE WaitForCgroup \/ SetPdeathsig \/ SetNoNewPrivs
    BY <1>2, <1>a, <1>b, <1>c DEF WaitForCgroup, SetPdeathsig, SetNoNewPrivs, Skips, At, Past, Relaying
<1>3. CASE OverrideResolvConf \/ ApplyLandlock
    BY <1>3, <1>a, <1>b, <1>c DEF OverrideResolvConf, ApplyLandlock, Skips, Applies, At, Past, Relaying
<1>4. CASE ForkSupervisor
  <2>1. pc["wrap"] = "sup" /\ Alive("wrap") /\ UNCHANGED <<made, result>>
    BY <1>4 DEF ForkSupervisor, Skips, At, CanRun
  <2>2. CASE (\E m : Goto("wrap", m)) /\ UNCHANGED <<live, wends>>
    BY <1>a, <1>c, <2>1, <2>2 DEF Past, Relaying
  <2>3. CASE /\ live' = [live EXCEPT !["sup"] = "alive"]
             /\ \E m : pc' = [pc EXCEPT !["wrap"] = m, !["sup"] = "h_close"]
             /\ wends["audit"] \subseteq wends'["audit"]
             /\ "wrap" \in wends["audit"] => "sup" \in wends'["audit"]
    BY <1>a, <2>1, <2>3, ReportFork DEF Past, Relaying
  <2> QED BY <1>4, <1>a, <2>2, <2>3 DEF ForkSupervisor, Skips
<1>5. CASE ForkBridge
  <2>1. CASE Fork("wrap", "bridge") /\ UNCHANGED <<made, result>>
          /\ pc' = [pc EXCEPT !["wrap"] = "bridgewait", !["bridge"] = "h_close"]
    BY <1>5, <1>a, <2>1, ReportFork DEF ForkBridge, Fork, At, CanRun, Past, Relaying
  <2> QED BY <1>5, <1>a, <1>b, <1>c, <2>1 DEF ForkBridge, Skips, At, Past, Relaying
<1>6. CASE WaitForBridge \/ RelayReap
  <2>1. CASE WaitForBridge /\ Applies("wrap", "Bridge", "pidns")
    BY <2>1, <1>a, <1>c DEF WaitForBridge, Applies, At, Past, Relaying
  <2>2. CASE ~(WaitForBridge /\ Applies("wrap", "Bridge", "pidns"))
    <3>1. /\ UNCHANGED <<pc, made, result>> /\ wends'["audit"] = wends["audit"] \ {"wrap"}
          /\ \A r \in Procs : Alive(r)' => Alive(r) /\ r # "wrap"
      BY <1>6, <1>a, <2>2 DEF WaitForBridge, RelayReap, Alive, TypeOK, SandboxTypeOK
    <3> QED BY <3>1, ReportStill
  <2> QED BY <2>1, <2>2
<1>7. CASE EnterPidns
  <2>1. CASE Fork("wrap", "inner") /\ UNCHANGED <<made, result>>
          /\ pc' = [pc EXCEPT !["wrap"] = "relay_host", !["inner"] = "hostpid"]
    BY <1>7, <1>a, <2>1, ReportFork DEF EnterPidns, Fork, At, CanRun, Past, Relaying
  <2>2. CASE Exits("wrap") /\ UNCHANGED <<pc, made, result>>
    BY <1>a, <2>2, ReportExits
  <2> QED BY <1>7, <1>a, <1>b, <1>c, <2>1, <2>2 DEF EnterPidns, Skips, At, Past, Relaying
<1>8. CASE RelayHostPid \/ RelayReportPid \/ RelayClose
  <2>1. /\ UNCHANGED <<made, live, result>>
        /\ \E m \in Past : Goto("wrap", m)
        /\ wends["audit"] \ {"wrap"} \subseteq wends'["audit"]
    BY <1>8, <1>a, <1>e DEF RelayHostPid, RelayReportPid, RelayClose, Past, Relaying, Pipes
  <2> QED BY <1>a, <2>1, ReportMove
<1>9. CASE ReadHostPid
  <2>1. CASE Skips("inner", "arm")
    BY <1>9, <2>1, <1>a, <1>c DEF ReadHostPid, Skips, At, Past, Relaying
  <2>2. CASE ~Skips("inner", "arm")
    BY SMT, <1>9, <2>2, <1>a, <1>e, ReportStill DEF ReadHostPid, Pipes, Alive
  <2> QED BY <2>1, <2>2
<1>10. CASE RearmPdeathsig \/ CheckParentLiveness
    BY <1>10, <1>a, <1>b, <1>c DEF RearmPdeathsig, CheckParentLiveness, Skips, At, Past, Relaying
<1>11. CASE ExecStep("wrap") \/ ExecStep("inner")
    BY <1>11, <1>a, ReportExec
<1> QED BY <1>1, <1>2, <1>3, <1>4, <1>5, <1>6, <1>7, <1>8, <1>9, <1>10, <1>11
        DEF ChildStep, WrapStep, InnerStep

(* A step of the orchestrator other than a fork.                           *)
LEMMA ReportOrchMove ==
    ASSUME TypeOK, ReportInv, NEW l, Goto("orch", l),
           \A p \in Wrappers : Alive(p)' =>
              Alive(p) /\ (p \in wends["audit"] => p \in wends'["audit"]),
           made' = made \/ \A p \in Wrappers : ~Alive(p),
           l \in {"cgroup", "sync", "spawn"} /\ "audit" \in made' => "orch" \in wends'["audit"],
           "audit" \in made' /\ (l \in {"pid", "started"} \/ result' = "ok")
              => \A p \in Wrappers : Alive(p) => pc[p] \in Past,
           result' # "pending" => l = "done"
    PROVE  ReportInv'
<1>1. pc'["orch"] = l /\ \A p \in Wrappers : pc'[p] = pc[p]
    BY DEF Goto, TypeOK, Wrappers, Procs
<1> QED BY <1>1 DEF ReportInv

LEMMA ReportOrch ==
    ASSUME TypeOK, ReportInv, CgroupInv, OrchStep
    PROVE  ReportInv'
<1> USE DEF launchVars
<1>a. /\ Wrappers = {"wrap", "inner"} /\ "audit" \in Pipes
      /\ Wrappers \subseteq Procs \ {"orch", "proxy"}
    BY DEF Wrappers, Procs, Pipes
<1>b. pc["orch"] \in BeforeSync \cup {"spawn"} => \A p \in Wrappers : ~Alive(p)
    BY <1>a DEF CgroupInv, Contained
<1>c. ASSUME NEW l, Goto("orch", l), UNCHANGED <<live, result>>,
             pc["orch"] \in BeforeSync, l \notin {"pid", "started", "done"},
             l \in {"cgroup", "sync", "spawn"} /\ "audit" \in made' => "orch" \in wends'["audit"],
             result = "pending"
      PROVE  ReportInv'
    BY <1>b, <1>c, ReportOrchMove DEF Alive
<1>d. ASSUME ReturnEarly PROVE ReportInv'
  <2>1. /\ Goto("orch", "done") /\ made' = made /\ result' = "err"
        /\ wends'["audit"] = wends["audit"] \ {"orch"}
    BY <1>a, <1>d DEF ReturnEarly
  <2>2. \A p \in Wrappers : Alive(p)' => Alive(p)
    BY <1>a, <1>d DEF ReturnEarly, ProxyReaped, Alive, TypeOK, SandboxTypeOK
  <2> QED BY <1>a, <2>1, <2>2, ReportOrchMove
<1>e. ASSUME TearDown PROVE ReportInv'
  <2>1. /\ Goto("orch", "done") /\ made' = made /\ result' = "err"
        /\ wends'["audit"] = wends["audit"] \ {"orch", "wrap"}
    BY <1>a, <1>e DEF TearDown
  <2>2. \A p \in Wrappers : Alive(p)' => Alive(p) /\ p # "wrap"
    BY <1>a, <1>e DEF TearDown, ProxyReaped, Alive, TypeOK, SandboxTypeOK
  <2> QED BY <1>a, <2>1, <2>2, ReportOrchMove
<1>f. ASSUME NEW l, At("orch", l) PROVE Alive("orch") /\ pc["orch"] = l
    BY <1>f DEF At, CanRun
<1>g. pc["orch"] # "done" => result = "pending"
    BY DEF ReportInv
<1>1. CASE Begin \/ WaitForProxy \/ Setup
    BY SMT, <1>1, <1>c, <1>d, <1>f, <1>g DEF Begin, WaitForProxy, Setup, BeforeSync
<1>2. CASE ForkConnectProxy
  <2>1. CASE Fork("orch", "proxy") /\ UNCHANGED <<made, result>>
          /\ pc' = [pc EXCEPT !["orch"] = "proxywait", !["proxy"] = "h_close"]
    <3>1. pc["orch"] = "proxy"
      BY <1>2 DEF ForkConnectProxy, At
    <3>2. pc'["orch"] = "proxywait"
      BY <2>1 DEF TypeOK, Procs
    <3>3. \A p \in Wrappers : Alive(p)' => Alive(p)
      BY <1>a, <2>1 DEF Fork, Alive, TypeOK, SandboxTypeOK
    <3> QED BY <1>b, <1>g, <2>1, <3>1, <3>2, <3>3 DEF ReportInv, BeforeSync
  <2> QED BY SMT, <1>2, <1>c, <1>d, <1>f, <1>g, <2>1 DEF ForkConnectProxy, BeforeSync
<1>3. CASE MakePipes
  <2>1. CASE ReturnEarly
    BY <1>d, <2>1
  <2>2. CASE ~ReturnEarly
    <3>1. /\ pc["orch"] = "pipes" /\ Goto("orch", "cgroup") /\ UNCHANGED <<live, result>>
          /\ "audit" \in made' => "orch" \in wends'["audit"]
      <4>1. PICK ps \in SUBSET WantedPipes :
              /\ made' = ps /\ wends' = [q \in Pipes |-> IF q \in ps THEN {"orch"} ELSE {}]
              /\ Goto("orch", "cgroup") /\ UNCHANGED <<live, result>>
        BY <1>3, <2>2 DEF MakePipes
      <4> QED BY <1>3, <1>a, <1>f, <4>1 DEF MakePipes
    <3> QED BY <1>c, <1>g, <3>1 DEF BeforeSync
  <2> QED BY <2>1, <2>2
<1>4. CASE MakeCgroup
  <2>1. CASE ReturnEarly
    BY <1>d, <2>1
  <2>2. CASE ~ReturnEarly
    <3>1. /\ Alive("orch") /\ pc["orch"] = "cgroup" /\ Goto("orch", "sync")
          /\ UNCHANGED <<live, result, made, wends>>
      BY <1>4, <1>f, <2>2 DEF MakeCgroup
    <3>2. "audit" \in made => "orch" \in wends["audit"]
      BY <3>1 DEF ReportInv
    <3> QED BY <1>c, <1>g, <3>1, <3>2 DEF BeforeSync
  <2> QED BY <2>1, <2>2
<1>5. CASE MakeSyncPipe
  <2>1. CASE ReturnEarly
    BY <1>d, <2>1
  <2>2. CASE ~ReturnEarly
    <3>1. PICK ps \in SUBSET {"sync"} :
              /\ made' = made \cup ps
              /\ wends' = [q \in Pipes |-> IF q \in ps THEN {"orch"} ELSE wends[q]]
              /\ Goto("orch", "spawn") /\ UNCHANGED <<live, result>>
      BY <1>5, <2>2 DEF MakeSyncPipe
    <3>2. Alive("orch") /\ pc["orch"] = "sync"
      BY <1>5, <1>f DEF MakeSyncPipe
    <3>3. wends'["audit"] = wends["audit"] /\ ("audit" \in made' => "audit" \in made)
      BY <1>a, <3>1
    <3>4. "audit" \in made => "orch" \in wends["audit"]
      BY <3>2 DEF ReportInv
    <3> QED BY <1>c, <1>g, <3>1, <3>2, <3>3, <3>4 DEF BeforeSync
  <2> QED BY <2>1, <2>2
<1>6. CASE Spawn
  <2>1. /\ Alive("orch") /\ pc["orch"] = "spawn" /\ UNCHANGED <<made, result>>
    BY <1>6, <1>f DEF Spawn
  <2>2. /\ pc'["orch"] = "spawning" /\ pc'["wrap"] = "preexec"
    BY <1>6 DEF Spawn, TypeOK, Procs
  <2>3. ~Alive("inner")'
    BY <1>6, <1>a, <1>b, <2>1 DEF Spawn, Fork, Alive, TypeOK, SandboxTypeOK
  <2>4. "audit" \in made => "wrap" \in wends'["audit"]
    BY <1>6, <1>a, <2>1 DEF Spawn, Fork, ReportInv
  <2> QED BY <1>a, <1>g, <2>1, <2>2, <2>3, <2>4 DEF ReportInv
<1>7. ASSUME NEW l, Goto("orch", l), UNCHANGED <<live, made, result>>, pc["orch"] # "done",
             l \notin {"cgroup", "sync", "spawn", "pid", "started"}
                \/ (l \in {"pid", "started"} /\ ("audit" \in made =>
                        \A p \in Wrappers : Alive(p) => pc[p] \in Past)),
             wends["audit"] \ {"orch"} \subseteq wends'["audit"]
      PROVE  ReportInv'
    BY <1>7, <1>a, <1>g, ReportOrchMove DEF Alive
<1>8. CASE SpawnReturns
    BY SMT, <1>8, <1>e, <1>f, <1>7 DEF SpawnReturns
<1>9. CASE AddPid
    BY SMT, <1>9, <1>a, <1>e, <1>f, <1>7 DEF AddPid
<1>10. CASE ReadReport
  <2>1. CASE TearDown
    BY <1>e, <2>1
  <2>2. CASE ~TearDown
    <3>1. /\ pc["orch"] = "audit" /\ Goto("orch", "pid") /\ UNCHANGED <<live, made, result, wends>>
          /\ "audit" \in made => wends["audit"] = {}
      BY <1>10, <2>2, <1>f DEF ReadReport
    <3>2. "audit" \in made => \A p \in Wrappers : Alive(p) => pc[p] \in Past
      BY <3>1 DEF ReportInv
    <3> QED BY <1>7, <3>1, <3>2
  <2> QED BY <2>1, <2>2
<1>11. CASE ReadPidReport
  <2>1. /\ pc["orch"] = "pid" /\ Goto("orch", "started") /\ UNCHANGED <<live, made, result>>
        /\ wends'["audit"] = wends["audit"] \ {"orch"}
    BY <1>11, <1>a, <1>f DEF ReadPidReport
  <2>2. "audit" \in made => \A p \in Wrappers : Alive(p) => pc[p] \in Past
    BY <2>1 DEF ReportInv
  <2> QED BY <1>7, <2>1, <2>2
<1>12. CASE Started
  <2>1. CASE ReturnEarly
    BY <1>d, <2>1
  <2>2. CASE ~ReturnEarly
    <3>1. /\ pc["orch"] = "started" /\ Goto("orch", "done") /\ UNCHANGED <<live, made, wends>>
      BY <1>12, <2>2, <1>f DEF Started
    <3>2. "audit" \in made => \A p \in Wrappers : Alive(p) => pc[p] \in Past
      BY <3>1 DEF ReportInv
    <3> QED BY <3>1, <3>2, ReportOrchMove DEF Alive
  <2> QED BY <2>1, <2>2
<1> QED BY <1>1, <1>2, <1>3, <1>4, <1>5, <1>6, <1>8, <1>9, <1>10, <1>11, <1>12 DEF OrchStep

LEMMA ReportNext == TypeOK /\ CgroupInv /\ ReportInv /\ [Next]_vars => ReportInv'
<1> SUFFICES ASSUME TypeOK, CgroupInv, ReportInv, [Next]_vars PROVE ReportInv' OBVIOUS
<1> USE DEF launchVars
<1>a. Helpers \subseteq Procs \ ({"orch"} \cup Wrappers) /\ Wrappers \subseteq Procs /\ "audit" \in Pipes
      /\ Helpers = {"proxy", "sup", "bridge"} /\ "orch" \in Procs
    BY DEF Helpers, Wrappers, Procs, Pipes
<1>b. ASSUME NEW p \in Procs, FailsSilently(p) PROVE ReportInv'
    BY <1>b, ReportExits DEF FailsSilently
<1>c. ASSUME NEW h \in Helpers, NEW m, Goto(h, m), UNCHANGED <<made, live, result>>,
             wends["audit"] \ {h} \subseteq wends'["audit"]
      PROVE  ReportInv'
    BY <1>a, <1>c, ReportMove
<1>d. ASSUME NEW h \in Helpers, HelperStep(h) PROVE ReportInv'
    BY <1>a, <1>b, <1>c, <1>d
        DEF HelperStep, HelperCloseFds, HelperArm, HelperCheck, HelperReady, Skips
<1>1. CASE OrchStep
    BY <1>1, ReportOrch
<1>2. CASE ChildStep \/ InnerStep
    BY <1>2, ReportChild
<1>3. CASE SupStep \/ HelperStep("bridge") \/ HelperStep("proxy")
    BY <1>3, <1>a, <1>b, <1>c, <1>d DEF SupStep, TakeListener, Skips
<1>4. CASE Environment \/ (\E p \in Procs : Die(p))
    BY <1>4, <1>a, <1>b, ReportExits DEF Environment, Crash, TargetExits, Killed, HelperDies, Die
<1>5. CASE Settled \/ UNCHANGED vars
    BY <1>5, ReportStill DEF Settled, vars, Alive
<1> QED BY <1>1, <1>2, <1>3, <1>4, <1>5 DEF Next

(* The end of file on the audit pipe is not seen too early: when launch()  *)
(* has read the report to its end and returned Ok, no process on its way   *)
(* to the target lacks a mandatory layer, for every configuration, every   *)
(* set of faults and both wrappers.                                        *)
THEOREM OkConfined == Spec => []OkMeansConfined
<1> DEFINE I == TypeOK /\ StageInv /\ CgroupInv /\ ReportInv
<1>1. Init => I
    BY TypeInit, StageInit, CgroupInit, ReportInit
<1>2. I /\ [Next]_vars => I'
    BY TypeNext, StageNext, CgroupNext, ReportNext
<1>3. I => OkMeansConfined
  <2> SUFFICES ASSUME I, result = "ok", "audit" \in made,
                      NEW p \in Wrappers, Alive(p), pc[p] \notin Relaying
               PROVE  Mandatory \subseteq layers[p]
    BY DEF OkMeansConfined
  <2>1. pc[p] \in {"exec", "target"}
    BY DEF ReportInv, Past
  <2> QED BY <2>1 DEF StageInv, Staged, Mandatory, Wrappers, AfterPdeathsig, AfterNoNewPrivs,
                      AfterLandlock, Late
<1> QED BY <1>1, <1>2, <1>3, PTL DEF Spec

-----------------------------------------------------------------------------
(* What an error gives back.                                               *)

LEMMA GiveInit == Init => GiveInv
BY DEF Init, GiveInv, ErrGivesBack, Procs

(* A step of another process, once launch() has returned or before: it     *)
(* gives the orchestrator nothing, starts no proxy, and starts members of  *)
(* the cgroup only from a wrapper that runs.                               *)
LEMMA GiveOther ==
    ASSUME TypeOK, GiveInv, pc'["orch"] = pc["orch"],
           UNCHANGED <<cfg, held, cgroup, result>>,
           \A q \in Pipes : "orch" \in wends'[q] => "orch" \in wends[q],
           Alive("proxy")' => Alive("proxy") /\ ("proxy" \in doomed => "proxy" \in doomed'),
           live["wrap"] \in {"none", "reaped"} =>
              /\ live'["wrap"] = live["wrap"]
              /\ members' = members
              /\ \A p \in Procs :
                    /\ live[p] # "none" => live'[p] # "none"
                    /\ Alive(p)' => Alive(p) /\ (p \in doomed => p \in doomed')
    PROVE  GiveInv'
<1>1. members \subseteq Procs
    BY DEF TypeOK, SandboxTypeOK
<1> QED BY <1>1 DEF GiveInv, ErrGivesBack, HasCgroup

LEMMA GiveExits ==
    ASSUME TypeOK, GiveInv, NEW p \in Procs, Alive(p), Exits(p),
           UNCHANGED <<cfg, held, cgroup, result, pc, members>>
    PROVE  GiveInv'
<1>1. /\ \A q \in Pipes : "orch" \in wends'[q] => "orch" \in wends[q]
      /\ "proxy" \in Procs
    BY DEF Exits, Procs
<1>2. \A r \in Procs :
         /\ r # p => live'[r] = live[r]
         /\ r = p => live'[r] = "zombie"
         /\ r # p /\ r \in doomed => r \in doomed'
    BY DEF Exits, TypeOK, SandboxTypeOK
<1>3. live["wrap"] \in {"none", "reaped"} => p # "wrap"
    BY DEF Alive
<1>4. "wrap" \in Procs
    BY DEF Procs
<1> QED BY <1>1, <1>2, <1>3, <1>4, GiveOther DEF Alive

(* A process that runs has not been reaped.                                *)
LEMMA GiveMove ==
    ASSUME TypeOK, GiveInv, NEW p \in Procs \ {"orch"}, NEW m, Goto(p, m),
           UNCHANGED <<cfg, held, cgroup, result, live, doomed, members>>,
           \A q \in Pipes : "orch" \in wends'[q] => "orch" \in wends[q]
    PROVE  GiveInv'
<1>1. pc'["orch"] = pc["orch"]
    BY DEF Goto, TypeOK, Procs
<1> QED BY <1>1, GiveOther DEF Alive

LEMMA GiveExec ==
    ASSUME TypeOK, GiveInv, NEW p \in Wrappers, ExecStep(p)
    PROVE  GiveInv'
<1> USE DEF launchVars
<1>a. p \in Procs \ {"orch"} /\ p # "orch"
    BY DEF Wrappers, Procs
<1>b. Alive(p)
    BY DEF ExecStep, ApplySeccomp, InstallUnotifyFilter, ApplyRlimits, CloseAuditFds, ExecTarget,
           At, CanRun
<1>c. ASSUME FailsSilently(p) \/ \E k : FailsReported(p, k) PROVE GiveInv'
    BY <1>a, <1>b, <1>c, GiveExits DEF FailsSilently, FailsReported
<1>1. CASE ApplySeccomp(p) \/ ApplyRlimits(p)
    BY <1>1, <1>a, <1>c, GiveMove DEF ApplySeccomp, ApplyRlimits, Applies
<1>2. CASE InstallUnotifyFilter(p)
  <2>1. wends' = [wends EXCEPT !["sp"] = @ \ {p}]
           => \A q \in Pipes : "orch" \in wends'[q] => "orch" \in wends[q]
    BY DEF TypeOK, SandboxTypeOK
  <2> QED BY <1>2, <1>a, <1>c, <2>1, GiveMove DEF InstallUnotifyFilter, Skips
<1>3. CASE CloseAuditFds(p) \/ ExecTarget(p)
  <2>1. CASE FailsSilently(p)
    BY <1>c, <2>1
  <2>2. CASE ~FailsSilently(p)
    <3>1. \A q \in Pipes : "orch" \in wends'[q] => "orch" \in wends[q]
      BY <1>3, <2>2 DEF CloseAuditFds, ExecTarget
    <3>2. /\ \E m : Goto(p, m)
          /\ UNCHANGED <<cfg, held, cgroup, result, live, doomed, members>>
      BY <1>3, <2>2 DEF CloseAuditFds, ExecTarget
    <3> QED BY <1>a, <3>1, <3>2, GiveMove
  <2> QED BY <2>1, <2>2
<1> QED BY <1>1, <1>2, <1>3 DEF ExecStep

(* A step of the wrapper, which runs, that may fork.                       *)
LEMMA GiveWrap ==
    ASSUME TypeOK, GiveInv, Alive("wrap"), UNCHANGED <<cfg, held, cgroup, result>>,
           pc'["orch"] = pc["orch"],
           \A q \in Pipes : "orch" \in wends'[q] => "orch" \in wends[q],
           live'["proxy"] = live["proxy"], "proxy" \in doomed => "proxy" \in doomed'
    PROVE  GiveInv'
BY GiveOther DEF Alive

LEMMA GiveChild ==
    ASSUME TypeOK, GiveInv, ChildStep \/ InnerStep
    PROVE  GiveInv'
<1> USE DEF launchVars
<1>a. /\ Wrappers = {"wrap", "inner"} /\ {"orch", "proxy"} \subseteq Procs
      /\ {"wrap", "inner"} \subseteq Procs \ {"orch"}
    BY DEF Wrappers, Procs
<1>b. ASSUME NEW p \in Wrappers, CanRun(p), FailsSilently(p) \/ \E k : FailsReported(p, k)
      PROVE  GiveInv'
    BY <1>a, <1>b, GiveExits DEF FailsSilently, FailsReported, CanRun
<1>c. ASSUME CanRun("wrap"), ChildFails PROVE GiveInv'
    BY <1>a, <1>c, GiveExits DEF ChildFails, CanRun
<1>d. ASSUME NEW q \in Pipes, NEW p, wends' = [wends EXCEPT ![q] = @ \ {p}]
      PROVE  \A r \in Pipes : "orch" \in wends'[r] => "orch" \in wends[r]
    BY <1>d DEF TypeOK, SandboxTypeOK
<1>e. "sync" \in Pipes /\ "pid" \in Pipes
    BY DEF Pipes
<1>1. CASE PreExecArm \/ PreExecRest
    BY <1>1, <1>a, <1>b, <1>c, <1>d, <1>e, GiveMove DEF PreExecArm, PreExecRest, At
<1>2. CASE WaitForCgroup \/ SetPdeathsig \/ SetNoNewPrivs
    BY <1>2, <1>a, <1>b, GiveMove DEF WaitForCgroup, SetPdeathsig, SetNoNewPrivs, Skips, At
<1>3. CASE OverrideResolvConf \/ ApplyLandlock
    BY <1>3, <1>a, <1>b, GiveMove DEF OverrideResolvConf, ApplyLandlock, Skips, Applies, At
<1>4. CASE ForkSupervisor
  <2>1. /\ Alive("wrap") /\ UNCHANGED <<cfg, held, cgroup, result, doomed>>
        /\ pc'["orch"] = pc["orch"] /\ live'["proxy"] = live["proxy"]
    BY SMT, <1>4, <1>a DEF ForkSupervisor, Skips, At, CanRun, Goto, TypeOK, SandboxTypeOK
  <2>2. \A q \in Pipes : "orch" \in wends'[q] => "orch" \in wends[q]
    BY SMT, <1>4 DEF ForkSupervisor, Skips
  <2> QED BY <2>1, <2>2, GiveWrap
<1>5. CASE ForkBridge
  <2>1. CASE \E k : FailsReported("wrap", k)
    BY <1>5, <1>a, <1>b, <2>1 DEF ForkBridge, At
  <2>2. CASE ~\E k : FailsReported("wrap", k)
    <3>1. /\ Alive("wrap") /\ UNCHANGED <<cfg, held, cgroup, result, doomed>>
          /\ pc'["orch"] = pc["orch"] /\ live'["proxy"] = live["proxy"]
      BY SMT, <1>5, <1>a, <2>2 DEF ForkBridge, Fork, Skips, At, CanRun, Goto, TypeOK, SandboxTypeOK
    <3>2. \A q \in Pipes : "orch" \in wends'[q] => "orch" \in wends[q]
      BY <1>5, <2>2 DEF ForkBridge, Fork, Skips
    <3> QED BY <3>1, <3>2, GiveWrap
  <2> QED BY <2>1, <2>2
<1>6. CASE WaitForBridge \/ RelayReap
  <2>1. /\ Alive("wrap") /\ UNCHANGED <<cfg, held, cgroup, result>> /\ doomed \subseteq doomed'
        /\ pc'["orch"] = pc["orch"] /\ live'["proxy"] = live["proxy"]
    BY SMT, <1>6, <1>a DEF WaitForBridge, RelayReap, Applies, At, CanRun, Goto, TypeOK, SandboxTypeOK
  <2>2. \A q \in Pipes : "orch" \in wends'[q] => "orch" \in wends[q]
    BY <1>6 DEF WaitForBridge, RelayReap, Applies
  <2> QED BY <2>1, <2>2, GiveWrap
<1>7. CASE EnterPidns
  <2>1. CASE \E k : FailsReported("wrap", k)
    BY <1>7, <1>a, <1>b, <2>1 DEF EnterPidns, At
  <2>2. CASE Exits("wrap") /\ UNCHANGED <<pc, cfg, held, cgroup, result, members>>
    BY <1>7, <1>a, <2>2, GiveExits DEF EnterPidns, At, CanRun
  <2>3. CASE Skips("wrap", "seccomp")
    BY <1>a, <2>3, GiveMove DEF Skips
  <2>4. CASE Fork("wrap", "inner") /\ UNCHANGED <<cfg, held, cgroup, result, doomed>>
          /\ pc' = [pc EXCEPT !["wrap"] = "relay_host", !["inner"] = "hostpid"]
    <3>1. /\ Alive("wrap") /\ pc'["orch"] = pc["orch"] /\ live'["proxy"] = live["proxy"]
      BY <1>7, <1>a, <2>4 DEF EnterPidns, Fork, At, CanRun, TypeOK, SandboxTypeOK
    <3>2. \A q \in Pipes : "orch" \in wends'[q] => "orch" \in wends[q]
      BY <2>4 DEF Fork
    <3> QED BY <2>4, <3>1, <3>2, GiveWrap
  <2> QED BY <1>7, <2>1, <2>2, <2>3, <2>4 DEF EnterPidns
<1>8. CASE RelayHostPid \/ RelayReportPid \/ RelayClose
  <2>1. /\ \E m : Goto("wrap", m)
        /\ UNCHANGED <<cfg, held, cgroup, result, live, doomed, members>>
    BY <1>8 DEF RelayHostPid, RelayReportPid, RelayClose
  <2>2. \A q \in Pipes : "orch" \in wends'[q] => "orch" \in wends[q]
    BY <1>8, <1>d, <1>e DEF RelayHostPid, RelayReportPid, RelayClose
  <2> QED BY <1>a, <2>1, <2>2, GiveMove
<1>9. CASE ReadHostPid
  <2>1. CASE Skips("inner", "arm")
    BY <1>a, <2>1, GiveMove DEF Skips
  <2>2. CASE ~Skips("inner", "arm")
    BY <1>9, <1>d, <1>e, <2>2, GiveOther DEF ReadHostPid, Alive
  <2> QED BY <2>1, <2>2
<1>10. CASE RearmPdeathsig \/ CheckParentLiveness
    BY <1>10, <1>a, <1>b, GiveMove DEF RearmPdeathsig, CheckParentLiveness, Skips, At
<1>11. CASE ExecStep("wrap") \/ ExecStep("inner")
    BY <1>11, <1>a, GiveExec
<1> QED BY <1>1, <1>2, <1>3, <1>4, <1>5, <1>6, <1>7, <1>8, <1>9, <1>10, <1>11
        DEF ChildStep, WrapStep, InnerStep

(* A step of the orchestrator that does not return.                        *)
LEMMA GiveOn ==
    ASSUME TypeOK, GiveInv, NEW l, pc'["orch"] = l, pc["orch"] # "done", UNCHANGED result,
           l \in BeforeSync \cup {"spawn"} =>
              /\ pc["orch"] \in BeforeSync \cup {"spawn"}
              /\ live'["wrap"] = live["wrap"] /\ members' = members,
           l \in BeforeCgroup => pc["orch"] \in BeforeCgroup /\ cgroup' = cgroup
    PROVE  GiveInv'
<1>1. result = "pending"
    BY DEF GiveInv
<1> QED BY <1>1 DEF GiveInv, ErrGivesBack

(* An error return.                                                        *)
LEMMA GiveEarly ==
    ASSUME TypeOK, GiveInv, ReturnEarly, members' = members,
           cfg.sink # "mandatory" =>
              pc["orch"] \in BeforeCgroup /\ cgroup' = cgroup
    PROVE  GiveInv'
<1>1. /\ held \subseteq Resources /\ pc'["orch"] = "done" /\ result' = "err" /\ cfg' = cfg
      /\ live \in [Procs -> LiveStates] /\ "proxy" \in Procs /\ "wrap" \in Procs
    BY DEF TypeOK, SandboxTypeOK, ReturnEarly, Goto, Procs, LiveStates
<1>2. held' \subseteq {"ptymaster", "ptyslave"}
    BY <1>1 DEF ReturnEarly, Resources
<1>3. \A q \in Pipes : "orch" \notin wends'[q]
    BY DEF ReturnEarly
<1>4. live'["wrap"] = live["wrap"] /\ (Alive("proxy")' => Alive("proxy"))
    BY <1>1 DEF ReturnEarly, ProxyReaped, Alive
<1>5. Alive("proxy") => "proxy" \in doomed'
    BY DEF ReturnEarly, Signalled
<1>6. cfg.sink # "mandatory" => live["wrap"] = "none" /\ members = {} /\ cgroup' = "absent"
    BY DEF GiveInv, BeforeCgroup, BeforeSync
<1>7. "done" \notin BeforeSync \cup {"spawn"} /\ "done" \notin BeforeCgroup
    BY DEF BeforeCgroup, BeforeSync
<1> QED BY <1>1, <1>2, <1>3, <1>4, <1>5, <1>6, <1>7 DEF GiveInv, ErrGivesBack, HasCgroup

LEMMA GiveTearDown ==
    ASSUME TypeOK, GiveInv, TearDown
    PROVE  GiveInv'
<1>1. /\ pc'["orch"] = "done" /\ result' = "err" /\ held' = {} /\ members' = members
      /\ live \in [Procs -> LiveStates] /\ "proxy" \in Procs /\ "wrap" \in Procs
      /\ members \subseteq Procs
    BY DEF TypeOK, SandboxTypeOK, TearDown, Goto, Procs, LiveStates
<1>2. \A q \in Pipes : "orch" \notin wends'[q]
    BY DEF TearDown
<1>3. /\ live'["wrap"] = "reaped"
      /\ \A p \in Procs : (Alive(p)' <=> Alive(p) /\ p # "wrap")
    BY <1>1 DEF TearDown, ProxyReaped, Alive
<1>4. \A p \in members \cup {"proxy"} : Alive(p) /\ p # "wrap" => p \in doomed'
    BY DEF TearDown, Victims
<1>5. cgroup' = "present" => \E p \in members : p # "wrap" /\ Alive(p)
    BY DEF TearDown
<1>6. "done" \notin BeforeSync \cup {"spawn"} /\ "done" \notin BeforeCgroup
    BY DEF BeforeCgroup, BeforeSync
<1>7. cgroup' = "present" => \E p \in members : live'[p] # "none"
    BY <1>1, <1>3, <1>5 DEF Alive
<1> QED BY <1>1, <1>2, <1>3, <1>4, <1>6, <1>7 DEF GiveInv, ErrGivesBack, HasCgroup

LEMMA GiveOrch ==
    ASSUME TypeOK, GiveInv, OrchStep
    PROVE  GiveInv'
<1> USE DEF launchVars
<1>a. {"orch", "proxy", "wrap"} \subseteq Procs
    BY DEF Procs
<1>b. ASSUME NEW l, Goto("orch", l) PROVE pc'["orch"] = l
    BY <1>a, <1>b DEF Goto, TypeOK
<1>c. ASSUME NEW l, At("orch", l) PROVE pc["orch"] = l
    BY <1>c DEF At
<1>d. EmitFails => cfg.sink = "mandatory"
    BY DEF EmitFails
<1> USE DEF BeforeSync, BeforeCgroup
<1>1. CASE Begin \/ WaitForProxy \/ Setup
  <2>1. CASE ReturnEarly /\ UNCHANGED <<cgroup, members>>
    BY <1>1, <1>c, <2>1, GiveEarly DEF Begin, WaitForProxy, Setup
  <2>2. CASE ~(ReturnEarly /\ UNCHANGED <<cgroup, members>>)
    BY <1>1, <1>b, <1>c, <2>2, GiveOn DEF Begin, WaitForProxy, Setup
  <2> QED BY <2>1, <2>2
<1>2. CASE ForkConnectProxy
  <2>1. CASE ReturnEarly /\ UNCHANGED <<cgroup, members>>
    BY <1>2, <1>c, <2>1, GiveEarly DEF ForkConnectProxy
  <2>2. CASE Fork("orch", "proxy") /\ UNCHANGED <<cgroup, result>>
             /\ pc' = [pc EXCEPT !["orch"] = "proxywait", !["proxy"] = "h_close"]
    <3>1. pc["orch"] = "proxy" /\ pc'["orch"] = "proxywait"
      BY <1>2, <1>a, <1>c, <2>2 DEF ForkConnectProxy, TypeOK
    <3>2. live'["wrap"] = live["wrap"]
      BY <1>a, <2>2 DEF Fork, TypeOK, SandboxTypeOK
    <3>3. members = {}
      BY <3>1 DEF GiveInv
    <3> QED BY <2>2, <3>1, <3>2, <3>3, GiveOn DEF Fork
  <2>3. CASE Goto("orch", "setup") /\ UNCHANGED <<launchVars, live, cgroup, members>>
    BY <1>2, <1>b, <1>c, <2>3, GiveOn DEF ForkConnectProxy
  <2> QED BY <1>2, <2>1, <2>2, <2>3 DEF ForkConnectProxy
<1>3. CASE MakePipes
  <2>1. CASE ReturnEarly /\ UNCHANGED <<cgroup, members>>
    BY <1>3, <1>c, <2>1, GiveEarly DEF MakePipes
  <2>2. CASE Goto("orch", "cgroup") /\ UNCHANGED <<live, cgroup, members, result>>
    BY <1>3, <1>b, <1>c, <2>2, GiveOn DEF MakePipes
  <2> QED BY <1>3, <2>1, <2>2 DEF MakePipes
<1>4. CASE MakeCgroup
  <2>1. CASE ReturnEarly /\ UNCHANGED <<cgroup, members>>
    BY <1>4, <1>c, <2>1, GiveEarly DEF MakeCgroup
  <2>3. CASE EmitFails /\ ReturnEarly /\ members' = members
    BY <1>d, <2>3, GiveEarly
  <2>2. CASE Goto("orch", "sync") /\ UNCHANGED <<live, members, result>>
    BY <1>4, <1>b, <1>c, <2>2, GiveOn DEF MakeCgroup
  <2> QED BY <1>4, <2>1, <2>2, <2>3 DEF MakeCgroup
<1>5. CASE MakeSyncPipe
  <2>1. CASE EmitFails /\ ReturnEarly /\ members' = members
    BY <1>d, <2>1, GiveEarly
  <2>2. CASE Goto("orch", "spawn") /\ UNCHANGED <<live, members, result>>
    BY <1>5, <1>b, <1>c, <2>2, GiveOn DEF MakeSyncPipe
  <2> QED BY <1>5, <2>1, <2>2 DEF MakeSyncPipe
<1>6. CASE Spawn
  <2>1. pc["orch"] = "spawn" /\ pc'["orch"] = "spawning" /\ UNCHANGED result
    BY <1>6, <1>a, <1>c DEF Spawn, TypeOK
  <2> QED BY <2>1, GiveOn
<1>7. CASE SpawnReturns \/ AddPid \/ ReadReport \/ ReadPidReport
  <2>1. CASE TearDown
    BY <2>1, GiveTearDown
  <2>2. CASE ~TearDown
    BY <1>7, <1>b, <1>c, <2>2, GiveOn DEF SpawnReturns, AddPid, ReadReport, ReadPidReport
  <2> QED BY <2>1, <2>2
<1>8. CASE Started
  <2>1. CASE EmitFails /\ ReturnEarly /\ members' = members
    BY <1>d, <2>1, GiveEarly
  <2>2. CASE Goto("orch", "done") /\ result' = "ok"
    BY <1>b, <2>2 DEF GiveInv, ErrGivesBack
  <2> QED BY <1>8, <2>1, <2>2 DEF Started
<1> QED BY <1>1, <1>2, <1>3, <1>4, <1>5, <1>6, <1>7, <1>8 DEF OrchStep

LEMMA GiveNext == TypeOK /\ GiveInv /\ [Next]_vars => GiveInv'
<1> SUFFICES ASSUME TypeOK, GiveInv, [Next]_vars PROVE GiveInv' OBVIOUS
<1> USE DEF launchVars
<1>a. /\ Helpers \subseteq Procs \ {"orch"} /\ Helpers = {"proxy", "sup", "bridge"}
      /\ Wrappers \subseteq Procs /\ "orch" \in Procs
    BY DEF Helpers, Wrappers, Procs
<1>b. ASSUME NEW p \in Procs, Alive(p), FailsSilently(p) PROVE GiveInv'
    BY <1>b, GiveExits DEF FailsSilently
<1>c. ASSUME NEW h \in Helpers, HelperStep(h) PROVE GiveInv'
  <2>1. CASE HelperCloseFds(h)
    BY <1>a, <2>1, GiveMove DEF HelperCloseFds
  <2>2. CASE HelperArm(h) \/ HelperCheck(h) \/ HelperReady(h)
    BY <1>a, <1>b, <2>2, GiveMove DEF HelperArm, HelperCheck, HelperReady, Skips, At, CanRun
  <2> QED BY <1>c, <2>1, <2>2 DEF HelperStep
<1>1. CASE OrchStep
    BY <1>1, GiveOrch
<1>2. CASE ChildStep \/ InnerStep
    BY <1>2, GiveChild
<1>3. CASE SupStep \/ HelperStep("bridge") \/ HelperStep("proxy")
    BY <1>3, <1>a, <1>b, <1>c, GiveMove DEF SupStep, TakeListener, Skips, At, CanRun
<1>4. CASE Environment \/ (\E p \in Procs : Die(p))
    BY <1>4, <1>a, <1>b, GiveExits
        DEF Environment, Crash, TargetExits, Killed, HelperDies, Die, At, CanRun
<1>5. CASE Settled \/ UNCHANGED vars
    BY <1>5, GiveOther DEF Settled, vars, Alive
<1> QED BY <1>1, <1>2, <1>3, <1>4, <1>5 DEF Next

(* An error from any point of launch() removes the directories, closes     *)
(* every pipe end it holds and kills the proxy; unless a mandatory sink    *)
(* may have caused it, it leaves no sandbox behind either.                 *)
THEOREM ErrReturns == Spec => []ErrGivesBack
<1>1. Init => TypeOK /\ GiveInv
    BY TypeInit, GiveInit
<1>2. TypeOK /\ GiveInv /\ [Next]_vars => (TypeOK /\ GiveInv)'
    BY TypeNext, GiveNext
<1>3. GiveInv => ErrGivesBack
    BY DEF GiveInv
<1> QED BY <1>1, <1>2, <1>3, PTL DEF Spec

-----------------------------------------------------------------------------
(* launch() implements its contract.                                       *)

(* Only the relay has a namespace's init beside it, so that one of the two *)
(* wrapper processes at most gets to the target.                           *)
RelayInv == pc["inner"] # "off" => pc["wrap"] \in Relaying

(* A step that starts no target and lets none run on that has ended.       *)
Calm ==
    \A p \in Wrappers :
        /\ pc'[p] = "target" <=> pc[p] = "target"
        /\ Running(p)' => Running(p)

LEMMA CalmMove ==
    ASSUME TypeOK, StageInv, RelayInv, NEW p \in Procs, NEW m, Goto(p, m),
           UNCHANGED <<live, doomed>>, p \in Wrappers => m # "target" /\ pc[p] # "target",
           p = "wrap" => (pc[p] \in Relaying => m \in Relaying),
           p = "inner" => pc[p] # "off"
    PROVE  Calm /\ RelayInv'
<1>1. pc'[p] = m /\ \A r \in Procs : r # p => pc'[r] = pc[r]
    BY DEF Goto, TypeOK
<1> QED BY <1>1 DEF Calm, RelayInv, Running, CanRun, Alive, Wrappers, Procs

LEMMA CalmStill ==
    ASSUME TypeOK, RelayInv, pc' = pc,
           \A p \in Wrappers : Alive(p)' => Alive(p) /\ (p \in doomed => p \in doomed')
    PROVE  Calm /\ RelayInv'
BY DEF Calm, RelayInv, Running, CanRun

LEMMA CalmExits ==
    ASSUME TypeOK, RelayInv, NEW p \in Procs, Exits(p), pc' = pc
    PROVE  Calm /\ RelayInv'
<1>1. \A r \in Wrappers : Alive(r)' => Alive(r) /\ (r \in doomed => r \in doomed')
    BY DEF Exits, Alive, TypeOK, SandboxTypeOK, Wrappers, Procs
<1> QED BY <1>1, CalmStill

(* The wrapper forks c and goes on to l.                                   *)
LEMMA CalmFork ==
    ASSUME TypeOK, RelayInv, NEW c \in {"inner", "sup", "bridge"}, NEW l, NEW m,
           pc["wrap"] \notin Relaying \cup {"target"}, l # "target", m # "target",
           c = "inner" => l \in Relaying,
           pc' = [pc EXCEPT !["wrap"] = l, ![c] = m],
           live' = [live EXCEPT ![c] = "alive"], UNCHANGED doomed
    PROVE  Calm /\ RelayInv'
<1>1. pc'["wrap"] = l /\ pc'[c] = m /\ \A r \in Procs \ {"wrap", c} : pc'[r] = pc[r]
    BY DEF TypeOK, Procs
<1>2. pc["inner"] = "off"
    BY DEF RelayInv
<1> QED BY <1>1, <1>2 DEF Calm, RelayInv, Running, Wrappers, Procs

LEMMA CalmExec ==
    ASSUME TypeOK, StageInv, RelayInv, NEW p \in Wrappers, ExecStep(p),
           ~(ExecTarget(p) /\ Goto(p, "target"))
    PROVE  Calm /\ RelayInv'
<1> USE DEF launchVars
<1>a. p \in Procs
    BY DEF Wrappers, Procs
<1>b. ASSUME FailsSilently(p) \/ \E k : FailsReported(p, k) PROVE Calm /\ RelayInv'
    BY <1>a, <1>b, CalmExits DEF FailsSilently, FailsReported
<1>1. CASE ApplySeccomp(p) \/ ApplyRlimits(p)
    BY <1>1, <1>a, <1>b, CalmMove DEF ApplySeccomp, ApplyRlimits, Applies, At, Relaying
<1>2. CASE InstallUnotifyFilter(p)
    BY <1>2, <1>a, <1>b, CalmMove DEF InstallUnotifyFilter, Skips, At, Relaying
<1>3. CASE CloseAuditFds(p)
  <2>1. pc[p] = "closefds" /\ Goto(p, "exec") /\ UNCHANGED <<live, doomed>>
    BY <1>3 DEF CloseAuditFds, At
  <2> QED BY <1>a, <2>1, CalmMove DEF Relaying
<1>4. CASE ExecTarget(p)
    BY <1>4, <1>b DEF ExecTarget
<1> QED BY <1>1, <1>2, <1>3, <1>4 DEF ExecStep

LEMMA CalmChild ==
    ASSUME TypeOK, StageInv, RelayInv, ChildStep \/ InnerStep,
           ~\E p \in Wrappers : ExecTarget(p) /\ Goto(p, "target")
    PROVE  Calm /\ RelayInv'
<1> USE DEF launchVars
<1>a. Wrappers = {"wrap", "inner"} /\ {"wrap", "inner"} \subseteq Procs
    BY DEF Wrappers, Procs
<1>b. ASSUME NEW p \in Wrappers, FailsSilently(p) \/ \E k : FailsReported(p, k)
      PROVE  Calm /\ RelayInv'
    BY <1>a, <1>b, CalmExits DEF FailsSilently, FailsReported
<1>c. ASSUME ChildFails PROVE Calm /\ RelayInv'
    BY <1>a, <1>c, CalmExits DEF ChildFails
<1>1. CASE PreExecArm \/ PreExecRest
    BY <1>1, <1>a, <1>b, <1>c, CalmMove DEF PreExecArm, PreExecRest, At, Relaying
<1>2. CASE WaitForCgroup \/ SetPdeathsig \/ SetNoNewPrivs
    BY <1>2, <1>a, <1>b, CalmMove DEF WaitForCgroup, SetPdeathsig, SetNoNewPrivs, Skips, At, Relaying
<1>3. CASE OverrideResolvConf \/ ApplyLandlock
    BY <1>3, <1>a, <1>b, CalmMove DEF OverrideResolvConf, ApplyLandlock, Skips, Applies, At, Relaying
<1>4. CASE ForkSupervisor
  <2>1. pc["wrap"] = "sup" /\ UNCHANGED doomed
    BY <1>4 DEF ForkSupervisor, Skips, At
  <2>2. CASE (\E m \in {"resolv", "landlock"} : Goto("wrap", m)) /\ UNCHANGED live
    BY <1>a, <2>1, <2>2, CalmMove DEF Relaying
  <2>3. CASE /\ live' = [live EXCEPT !["sup"] = "alive"]
             /\ \E m \in {"resolv", "landlock"} :
                    pc' = [pc EXCEPT !["wrap"] = m, !["sup"] = "h_close"]
    BY <2>1, <2>3, CalmFork DEF Relaying
  <2> QED BY <1>4, <2>2, <2>3 DEF ForkSupervisor, Skips
<1>5. CASE ForkBridge
  <2>1. CASE Fork("wrap", "bridge") /\ UNCHANGED doomed
          /\ pc' = [pc EXCEPT !["wrap"] = "bridgewait", !["bridge"] = "h_close"]
    BY <1>5, <2>1, CalmFork DEF ForkBridge, Fork, At, Relaying
  <2> QED BY <1>5, <1>a, <1>b, <2>1, CalmMove DEF ForkBridge, Skips, At, Relaying
<1>6. CASE WaitForBridge
  <2>1. CASE Applies("wrap", "Bridge", "pidns")
    BY <1>6, <2>1, <1>a, CalmMove DEF WaitForBridge, Applies, At, Relaying
  <2>2. CASE ~Applies("wrap", "Bridge", "pidns")
    <3>1. pc' = pc /\ doomed \subseteq doomed' /\ \A p \in Wrappers : Alive(p)' => Alive(p)
      BY <1>6, <1>a, <2>2 DEF WaitForBridge, Alive, TypeOK, SandboxTypeOK
    <3> QED BY <3>1, CalmStill
  <2> QED BY <2>1, <2>2
<1>7. CASE EnterPidns
  <2>1. CASE Fork("wrap", "inner") /\ UNCHANGED doomed
          /\ pc' = [pc EXCEPT !["wrap"] = "relay_host", !["inner"] = "hostpid"]
    BY <1>7, <2>1, CalmFork DEF EnterPidns, Fork, At, Relaying
  <2>2. CASE Exits("wrap") /\ UNCHANGED pc
    BY <1>a, <2>2, CalmExits
  <2> QED BY <1>7, <1>a, <1>b, <2>1, <2>2, CalmMove DEF EnterPidns, Skips, At, Relaying
<1>8. CASE RelayHostPid \/ RelayReportPid \/ RelayClose
  <2>1. UNCHANGED <<live, doomed>> /\ (\E m \in Relaying : Goto("wrap", m)) /\ pc["wrap"] \in Relaying
    BY <1>8 DEF RelayHostPid, RelayReportPid, RelayClose, Relaying, At
  <2> QED BY <1>a, <2>1, CalmMove DEF Relaying
<1>9. CASE RelayReap
  <2>1. pc' = pc /\ doomed \subseteq doomed' /\ \A p \in Wrappers : Alive(p)' => Alive(p)
    BY <1>9, <1>a DEF RelayReap, Alive, TypeOK, SandboxTypeOK
  <2> QED BY <2>1, CalmStill
<1>10. CASE ReadHostPid
  <2>1. CASE Skips("inner", "arm")
    BY <1>10, <2>1, <1>a, CalmMove DEF ReadHostPid, Skips, At
  <2>2. CASE ~Skips("inner", "arm")
    BY <1>10, <2>2, CalmStill DEF ReadHostPid, Alive
  <2> QED BY <2>1, <2>2
<1>11. CASE RearmPdeathsig \/ CheckParentLiveness
    BY <1>11, <1>a, <1>b, CalmMove DEF RearmPdeathsig, CheckParentLiveness, Skips, At
<1>12. CASE ExecStep("wrap") \/ ExecStep("inner")
    BY <1>12, <1>a, CalmExec
<1> QED BY <1>1, <1>2, <1>3, <1>4, <1>5, <1>6, <1>7, <1>8, <1>9, <1>10, <1>11, <1>12
        DEF ChildStep, WrapStep, InnerStep

LEMMA CalmOrch ==
    ASSUME TypeOK, StageInv, RelayInv, OrchStep
    PROVE  Calm /\ RelayInv'
<1> USE DEF launchVars
<1>a. {"orch", "proxy", "wrap", "inner"} \subseteq Procs /\ Wrappers = {"wrap", "inner"}
    BY DEF Wrappers, Procs
<1>b. ASSUME NEW l, Goto("orch", l), UNCHANGED <<live, doomed>> PROVE Calm /\ RelayInv'
    BY <1>a, <1>b, CalmMove
<1>c. ASSUME NEW l, Goto("orch", l),
             \A p \in Wrappers : Alive(p)' => Alive(p) /\ (p \in doomed => p \in doomed')
      PROVE  Calm /\ RelayInv'
  <2>1. \A p \in Wrappers : pc'[p] = pc[p]
    BY <1>a, <1>c DEF Goto, TypeOK
  <2> QED BY <1>a, <1>c, <2>1 DEF Calm, RelayInv, Running, CanRun
<1>d. ASSUME ReturnEarly PROVE Calm /\ RelayInv'
  <2>1. \A p \in Wrappers : Alive(p)' => Alive(p) /\ (p \in doomed => p \in doomed')
    BY <1>a, <1>d DEF ReturnEarly, Signalled, ProxyReaped, Alive, TypeOK, SandboxTypeOK
  <2> QED BY <1>c, <1>d, <2>1 DEF ReturnEarly
<1>e. ASSUME TearDown PROVE Calm /\ RelayInv'
  <2>1. \A p \in Wrappers : Alive(p)' => Alive(p) /\ (p \in doomed => p \in doomed')
    BY <1>a, <1>e DEF TearDown, ProxyReaped, Alive, TypeOK, SandboxTypeOK
  <2> QED BY <1>c, <1>e, <2>1 DEF TearDown
<1>1. CASE Begin \/ WaitForProxy \/ Setup \/ MakePipes
    BY <1>1, <1>b, <1>d DEF Begin, WaitForProxy, Setup, MakePipes
<1>2. CASE MakeCgroup \/ MakeSyncPipe \/ Started
    BY <1>2, <1>b, <1>d DEF MakeCgroup, MakeSyncPipe, Started
<1>3. CASE SpawnReturns \/ AddPid \/ ReadReport \/ ReadPidReport
    BY <1>3, <1>b, <1>e DEF SpawnReturns, AddPid, ReadReport, ReadPidReport
<1>4. CASE ForkConnectProxy
  <2>1. CASE Fork("orch", "proxy") /\ UNCHANGED doomed
          /\ pc' = [pc EXCEPT !["orch"] = "proxywait", !["proxy"] = "h_close"]
    <3>1. \A p \in Wrappers : pc'[p] = pc[p] /\ live'[p] = live[p]
      BY <1>a, <2>1 DEF Fork, TypeOK, SandboxTypeOK
    <3> QED BY <1>a, <2>1, <3>1 DEF Calm, RelayInv, Running, CanRun, Alive
  <2> QED BY <1>4, <1>b, <1>d, <2>1 DEF ForkConnectProxy
<1>5. CASE Spawn
  <2>1. pc["orch"] = "spawn" /\ pc'["wrap"] = "preexec" /\ pc'["inner"] = pc["inner"]
        /\ live'["inner"] = live["inner"] /\ UNCHANGED doomed
    BY <1>5, <1>a DEF Spawn, Fork, At, TypeOK, SandboxTypeOK
  <2>2. pc["wrap"] = "off" /\ pc["inner"] = "off"
    BY <2>1 DEF StageInv, RelayInv, AfterSpawn, Relaying
  <2> QED BY <1>a, <2>1, <2>2 DEF Calm, RelayInv, Running
<1> QED BY <1>1, <1>2, <1>3, <1>4, <1>5 DEF OrchStep

LEMMA CalmNext ==
    ASSUME TypeOK, StageInv, RelayInv, [Next]_vars,
           ~\E p \in Wrappers : ExecTarget(p) /\ Goto(p, "target")
    PROVE  Calm /\ RelayInv'
<1> USE DEF launchVars
<1>a. /\ Helpers \subseteq Procs \ Wrappers /\ Wrappers \subseteq Procs
      /\ Helpers = {"proxy", "sup", "bridge"} /\ "orch" \in Procs \ Wrappers
      /\ Wrappers = {"wrap", "inner"}
    BY DEF Helpers, Wrappers, Procs
<1>b. ASSUME NEW p \in Procs, FailsSilently(p) PROVE Calm /\ RelayInv'
    BY <1>b, CalmExits DEF FailsSilently
<1>c. ASSUME NEW h \in Helpers, NEW m, Goto(h, m), UNCHANGED <<live, doomed>>
      PROVE  Calm /\ RelayInv'
    BY <1>a, <1>c, CalmMove
<1>d. ASSUME NEW h \in Helpers, HelperStep(h) PROVE Calm /\ RelayInv'
    BY <1>a, <1>b, <1>c, <1>d
        DEF HelperStep, HelperCloseFds, HelperArm, HelperCheck, HelperReady, Skips
<1>1. CASE OrchStep
    BY <1>1, CalmOrch
<1>2. CASE ChildStep \/ InnerStep
    BY <1>2, CalmChild
<1>3. CASE SupStep \/ HelperStep("bridge") \/ HelperStep("proxy")
    BY <1>3, <1>a, <1>b, <1>c, <1>d DEF SupStep, TakeListener, Skips
<1>4. CASE Environment \/ (\E p \in Procs : Die(p))
    BY <1>4, <1>a, <1>b, CalmExits DEF Environment, Crash, TargetExits, Killed, HelperDies, Die
<1>5. CASE Settled \/ UNCHANGED vars
    BY <1>5, CalmStill DEF Settled, vars, Alive
<1> QED BY <1>1, <1>2, <1>3, <1>4, <1>5 DEF Next

(* The step from exec to the target.                                       *)
LEMMA TargetStep ==
    ASSUME TypeOK, StageInv, RelayInv, NEW p \in Wrappers, ExecTarget(p), Goto(p, "target")
    PROVE  /\ RelayInv' /\ Running(p)' /\ \A r \in Wrappers : pc[r] # "target"
           /\ UNCHANGED <<live, doomed, result>> /\ pc[p] = "exec" /\ CanRun(p)
<1>1. pc'[p] = "target" /\ pc[p] = "exec" /\ CanRun(p) /\ p \in Procs
      /\ \A r \in Procs \ {p} : pc'[r] = pc[r]
    BY DEF Goto, ExecTarget, At, TypeOK, Wrappers, Procs
<1>2. UNCHANGED <<live, doomed, result>>
  <2>1. pc'[p] # pc[p]
    BY <1>1
  <2> QED BY <2>1 DEF ExecTarget, FailsSilently, launchVars
<1>3. p = "wrap" => pc["inner"] = "off"
    BY <1>1 DEF RelayInv, Relaying
<1>4. p = "inner" => pc["wrap"] \in Relaying
    BY <1>1 DEF RelayInv
<1> QED BY <1>1, <1>2, <1>3, <1>4 DEF RelayInv, Relaying, Running, CanRun, Alive, Wrappers, Procs

LEMMA RelayNext == TypeOK /\ StageInv /\ RelayInv /\ [Next]_vars => RelayInv'
BY CalmNext, TargetStep

-----------------------------------------------------------------------------
(* The mapping.                                                            *)

LEMMA MappedValue ==
    ASSUME StageInv
    PROVE  MappedTarget = IF \E p \in Wrappers : Running(p) THEN "confined"
                          ELSE IF \E p \in Wrappers : pc[p] = "target" THEN "gone" ELSE "absent"
<1>1. \A p \in Wrappers : Running(p) => Mandatory \subseteq layers[p]
    BY StageFailClosed DEF FailClosed, Running
<1> QED BY <1>1 DEF MappedTarget

LEMMA CalmTarget ==
    ASSUME StageInv, StageInv', Calm
    PROVE  \/ MappedTarget' = MappedTarget
           \/ MappedTarget = "confined" /\ MappedTarget' = "gone"
<1>1. MappedTarget' = IF \E p \in Wrappers : Running(p)' THEN "confined"
                ELSE IF \E p \in Wrappers : pc'[p] = "target" THEN "gone" ELSE "absent"
  <2>1. \A p \in Wrappers : Running(p)' => (Mandatory \subseteq layers[p])'
    <3>1. StageInv' => FailClosed'
      BY StageFailClosed, PTL
    <3> QED BY <3>1 DEF FailClosed, Running
  <2> QED BY <2>1 DEF MappedTarget
<1>2. \A p \in Wrappers : Running(p) => pc[p] = "target"
    BY DEF Running
<1> QED BY <1>1, <1>2, MappedValue DEF Calm

(* After an error nothing of the sandbox gets further on its way.          *)
LEMMA ErrStops ==
    ASSUME ErrGivesBack, OrphanInv, cfg.sink # "mandatory", result = "err",
           NEW p \in Wrappers, CanRun(p)
    PROVE  pc[p] \in Unchecked
<1>1. live["wrap"] \in {"none", "reaped"}
    BY DEF ErrGivesBack
<1>2. p = "inner" /\ p \in Procs \ {"orch"}
    BY <1>1 DEF CanRun, Alive, Wrappers, Procs
<1>3. ParentGone(p)
    BY <1>1, <1>2, Parents DEF ParentGone, Alive
<1> QED BY <1>2, <1>3 DEF OrphanInv, Attached, CanRun

LEMMA ErrNoTarget ==
    ErrGivesBack /\ OrphanInv /\ cfg.sink # "mandatory" /\ result = "err"
       => \A p \in Wrappers : ~Running(p)
BY ErrStops DEF Running, Unchecked

(* What a step does to the orchestrator: nothing, it ends it, or it is the *)
(* one that returns.                                                       *)
LEMMA OutcomeStep ==
    ASSUME TypeOK, GiveInv, [Next]_vars
    PROVE  \/ result' = result /\ (Alive("orch")' => Alive("orch"))
           \/ /\ Alive("orch") /\ Alive("orch")' /\ result = "pending" /\ result' = "err"
           \/ /\ Alive("orch") /\ Alive("orch")' /\ result = "pending" /\ result' = "ok"
              /\ UNCHANGED <<live, doomed, layers, cfg, made>>
              /\ \A p \in Wrappers : pc'[p] = pc[p]
<1> USE DEF launchVars
<1>a. /\ {"orch", "proxy", "wrap", "inner", "sup", "bridge"} \subseteq Procs
      /\ Wrappers = {"wrap", "inner"} /\ Helpers = {"proxy", "sup", "bridge"}
    BY DEF Procs, Wrappers, Helpers
<1> DEFINE Same == result' = result /\ (Alive("orch")' => Alive("orch"))
<1>b. ASSUME NEW p \in Procs, Exits(p), UNCHANGED result PROVE Same
    BY <1>a, <1>b DEF Exits, Alive, TypeOK, SandboxTypeOK
<1>c. ASSUME UNCHANGED <<live, result>> PROVE Same
    BY <1>c DEF Alive
<1>d. ASSUME NEW p, NEW c \in Procs \ {"orch"}, Fork(p, c), UNCHANGED result PROVE Same
    BY <1>a, <1>d DEF Fork, Alive, TypeOK, SandboxTypeOK
<1>e. ASSUME NEW p \in Procs, FailsSilently(p) \/ \E k : FailsReported(p, k) PROVE Same
    BY <1>b, <1>e DEF FailsSilently, FailsReported
<1>1. CASE OrchStep
  <2>a. ASSUME NEW l, At("orch", l), l # "done" PROVE Alive("orch") /\ result = "pending"
    BY <2>a DEF At, CanRun, GiveInv
  <2>b. ASSUME ReturnEarly \/ TearDown, Alive("orch") PROVE Alive("orch")' /\ result' = "err"
    BY SMT, <1>a, <2>b DEF ReturnEarly, TearDown, ProxyReaped, Alive, TypeOK, SandboxTypeOK
  <2>1. CASE Begin \/ WaitForProxy \/ Setup \/ MakePipes
    BY <1>c, <2>1, <2>a, <2>b DEF Begin, WaitForProxy, Setup, MakePipes
  <2>2. CASE MakeCgroup \/ MakeSyncPipe
    BY <1>c, <2>2, <2>a, <2>b DEF MakeCgroup, MakeSyncPipe
  <2>3. CASE SpawnReturns \/ AddPid \/ ReadReport \/ ReadPidReport
    BY <1>c, <2>3, <2>a, <2>b DEF SpawnReturns, AddPid, ReadReport, ReadPidReport
  <2>4. CASE ForkConnectProxy \/ Spawn
    BY <1>a, <1>c, <1>d, <2>4, <2>a, <2>b DEF ForkConnectProxy, Spawn
  <2>5. CASE Started
    <3>1. CASE ReturnEarly
      BY <2>5, <2>a, <2>b, <3>1 DEF Started
    <3>2. CASE ~ReturnEarly
      <4>1. /\ Goto("orch", "done") /\ result' = "ok" /\ UNCHANGED <<live, doomed, layers, cfg, made>>
            /\ Alive("orch") /\ result = "pending"
        BY <2>5, <2>a, <3>2 DEF Started
      <4>2. \A p \in Wrappers : pc'[p] = pc[p]
        BY <1>a, <4>1 DEF Goto, TypeOK
      <4> QED BY <4>1, <4>2 DEF Alive
    <3> QED BY <3>1, <3>2
  <2> QED BY <1>1, <2>1, <2>2, <2>3, <2>4, <2>5 DEF OrchStep
<1>f. ASSUME NEW p \in Wrappers, ExecStep(p) PROVE Same
    BY <1>a, <1>c, <1>e, <1>f
        DEF ExecStep, ApplySeccomp, InstallUnotifyFilter, ApplyRlimits, CloseAuditFds, ExecTarget,
            Skips, Applies
<1>2. CASE PreExecArm \/ PreExecRest
    BY <1>2, <1>a, <1>b, <1>c, <1>e DEF PreExecArm, PreExecRest, ChildFails
<1>3. CASE WaitForCgroup \/ SetPdeathsig \/ SetNoNewPrivs \/ OverrideResolvConf \/ ApplyLandlock
    BY <1>3, <1>a, <1>c, <1>e
        DEF WaitForCgroup, SetPdeathsig, SetNoNewPrivs, OverrideResolvConf, ApplyLandlock,
            Skips, Applies
<1>4. CASE ForkSupervisor \/ WaitForBridge \/ RelayReap
    <2>1. CASE ForkSupervisor
        BY SMT, <2>1, <1>a DEF ForkSupervisor, Skips, Alive, TypeOK, SandboxTypeOK
    <2>2. CASE WaitForBridge
        BY SMT, <2>2, <1>a DEF WaitForBridge, Applies, Alive, TypeOK, SandboxTypeOK
    <2>3. CASE RelayReap
        BY <2>3, <1>a DEF RelayReap, Alive, TypeOK, SandboxTypeOK
    <2> QED BY <1>4, <2>1, <2>2, <2>3
<1>5. CASE ForkBridge \/ EnterPidns
    BY <1>5, <1>a, <1>b, <1>c, <1>d, <1>e DEF ForkBridge, EnterPidns, Skips
<1>6. CASE RelayHostPid \/ RelayReportPid \/ RelayClose
    BY <1>6, <1>c DEF RelayHostPid, RelayReportPid, RelayClose
<1>7. CASE ReadHostPid \/ RearmPdeathsig \/ CheckParentLiveness
    BY <1>7, <1>a, <1>c, <1>e DEF ReadHostPid, RearmPdeathsig, CheckParentLiveness, Skips
<1>8. ASSUME NEW h \in Helpers, HelperStep(h) PROVE Same
    BY <1>8, <1>a, <1>c, <1>e
        DEF HelperStep, HelperCloseFds, HelperArm, HelperCheck, HelperReady, Skips
<1>9. CASE TakeListener
    BY <1>9, <1>a, <1>c, <1>e DEF TakeListener, Skips
<1>10. CASE Environment \/ (\E p \in Procs : Die(p))
    BY <1>10, <1>a, <1>b, <1>e DEF Environment, Crash, TargetExits, Killed, HelperDies, Die
<1>11. CASE Settled \/ UNCHANGED vars
    BY <1>11, <1>c DEF Settled, vars
<1>12. CASE ExecStep("wrap") \/ ExecStep("inner") \/ HelperStep("sup") \/ HelperStep("bridge")
            \/ HelperStep("proxy")
    BY <1>12, <1>8, <1>f, <1>a
<1> QED BY <1>1, <1>2, <1>3, <1>4, <1>5, <1>6, <1>7, <1>9, <1>10, <1>11, <1>12
        DEF Next, ChildStep, WrapStep, InnerStep, SupStep

(* What the steps of launch() are mapped under: the invariants proved so   *)
(* far, together.                                                          *)
ContractInv == TypeOK /\ StageInv /\ OrphanInv /\ GiveInv /\ RelayInv

LEMMA ContractStep ==
    ASSUME \A c \in Configs : c.sink # "mandatory",
           ContractInv, ContractInv', [Next]_vars
    PROVE  Contract!ContractNext \/ UNCHANGED Contract!contractVars
<1> USE DEF ContractInv
<1>a. cfg.sink # "mandatory" /\ cfg'.sink # "mandatory"
    BY DEF TypeOK, SandboxTypeOK
<1>b. ErrGivesBack /\ ErrGivesBack'
    BY DEF GiveInv
<1>1. CASE \E p \in Wrappers : ExecTarget(p) /\ Goto(p, "target")
  <2>1. PICK p \in Wrappers : ExecTarget(p) /\ Goto(p, "target")
    BY <1>1
  <2>2. /\ Running(p)' /\ \A r \in Wrappers : pc[r] # "target"
        /\ UNCHANGED <<live, doomed, result>> /\ pc[p] = "exec" /\ CanRun(p)
    BY <2>1, TargetStep
  <2>3. result # "err"
    BY <1>a, <1>b, <2>2, ErrStops DEF Unchecked
  <2>4. MappedTarget = "absent"
    BY <2>2, MappedValue DEF Running
  <2>5. MappedTarget' = "confined"
    <3>1. FailClosed'
      BY StageFailClosed, PTL
    <3> QED BY <2>2, <3>1 DEF MappedTarget, FailClosed, Running
  <2>6. MappedOutcome' = MappedOutcome /\ MappedOutcome # "err"
    BY <2>2, <2>3 DEF MappedOutcome, Alive, TypeOK
  <2> QED BY <2>4, <2>5, <2>6 DEF Contract!ContractNext, Contract!Start
<1>2. CASE ~\E p \in Wrappers : ExecTarget(p) /\ Goto(p, "target")
  <2>1. \/ MappedTarget' = MappedTarget
        \/ MappedTarget = "confined" /\ MappedTarget' = "gone"
    BY <1>2, CalmNext, CalmTarget
  <2>2. CASE result' = result /\ (Alive("orch")' => Alive("orch"))
    <3>1. \/ MappedOutcome' = MappedOutcome
          \/ MappedOutcome \in {"pending", "ok"} /\ MappedOutcome' = "crashed"
      BY <2>2 DEF MappedOutcome, TypeOK
    <3> QED BY <2>1, <3>1 DEF Contract!ContractNext, Contract!contractVars, Contract!End,
                              Contract!StopTarget, Contract!CallerKilled
  <2>3. CASE /\ Alive("orch") /\ Alive("orch")' /\ result = "pending" /\ result' = "err"
    <3>1. MappedOutcome = "pending" /\ MappedOutcome' = "err"
      BY <2>3 DEF MappedOutcome
    <3>2. \A p \in Wrappers : ~Running(p)'
      <4>1. (ErrGivesBack /\ OrphanInv /\ cfg.sink # "mandatory" /\ result = "err")'
               => (\A p \in Wrappers : ~Running(p))'
        BY ErrNoTarget, PTL
      <4> QED BY <1>a, <1>b, <2>3, <4>1
    <3>3. MappedTarget' # "confined"
      BY <3>2 DEF MappedTarget
    <3> QED BY <2>1, <3>1, <3>3 DEF Contract!ContractNext, Contract!ReturnErr, Contract!StopTarget
  <2>4. CASE /\ Alive("orch") /\ Alive("orch")' /\ result = "pending" /\ result' = "ok"
             /\ UNCHANGED <<live, doomed, layers, cfg, made>>
             /\ \A p \in Wrappers : pc'[p] = pc[p]
    <3>1. MappedOutcome = "pending" /\ MappedOutcome' = "ok"
      BY <2>4 DEF MappedOutcome
    <3>2. \A p \in Wrappers : Running(p)' <=> Running(p)
      BY <2>4 DEF Running, CanRun, Alive
    <3>3. Mandatory' = Mandatory
      BY <2>4 DEF Mandatory, BridgeForked, BridgeWanted, UseNetns
    <3>4. MappedTarget' = MappedTarget
      BY <2>4, <3>2, <3>3 DEF MappedTarget
    <3> QED BY <3>1, <3>4 DEF Contract!ContractNext, Contract!ReturnOk
  <2> QED BY <2>2, <2>3, <2>4, OutcomeStep
<1> QED BY <1>1, <1>2

(* launch() implements the safety part of its contract, as long as no sink *)
(* is mandatory: it returns once, the target starts at most once, confined *)
(* and never after an error, and it no longer runs when an error is        *)
(* returned.  With a mandatory sink the last step of launch() can fail     *)
(* with the target running, and nothing ends it.                           *)
THEOREM LaunchContractMet ==
    (\A c \in Configs : c.sink # "mandatory") => (Spec => ImplementsContract)
<1> SUFFICES ASSUME \A c \in Configs : c.sink # "mandatory" PROVE Spec => ImplementsContract
    OBVIOUS
<1>1. Init => ContractInv
    BY TypeInit, StageInit, OrphanInit, GiveInit DEF ContractInv, RelayInv, Init, Procs
<1>2. ContractInv /\ [Next]_vars => ContractInv'
    BY TypeNext, StageNext, OrphanNext, GiveNext, RelayNext DEF ContractInv
<1>3. Init => Contract!ContractInit
    BY DEF Init, Contract!ContractInit, MappedOutcome, MappedTarget, Running, CanRun, Alive,
           Wrappers, Procs
<1>4. ContractInv /\ ContractInv' /\ [Next]_vars => [Contract!ContractNext]_(Contract!contractVars)
    BY ContractStep
<1> QED BY <1>1, <1>2, <1>3, <1>4, PTL DEF Spec, ImplementsContract, Contract!ContractSpec
=============================================================================
