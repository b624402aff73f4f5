----------------------------- MODULE WatchProofs -----------------------------
(***************************************************************************)
(* Proofs about the parts that act on a running sandbox from outside: the  *)
(* thread that watches its memory on macOS (DarwinSandbox, in Platforms),  *)
(* the launching process that gives it access on Windows and takes it back *)
(* (WindowsSandbox, in Platforms), and the supervisor that records its     *)
(* calls (AuditTrail).                                                     *)
(***************************************************************************)
EXTENDS Platforms, AuditTrail, FiniteSetTheorems, TLAPS

(* A leaf goes to Zenon unless it names another prover.                    *)
USE Zenon

-----------------------------------------------------------------------------
(* The memory monitor of a macOS sandbox, for every configuration.         *)

(* A monitor that will send no signal any more.                            *)
Quiet == monitor \in {"off", "ended"}

(* Where the launching thread is once it has reaped the child.             *)
Late == {"denials", "log", "exited", "waited", "done", "killed"}

(* The number is given away only after the reaping, which comes only after *)
(* the monitor has ended, or where no limit asked for one.                 *)
JoinedFirst ==
    /\ mac \in MacConfigs
    /\ ~mac.limit => Quiet
    /\ main \in {"reap", "kill", "dropped"} => Quiet
    /\ child = "reaped" => Quiet /\ main \in Late
    /\ number = "other" => child = "reaped"

MonitorInv == JoinedFirst /\ MonitorHitsOwn

(* launch() has not reaped a child.                                        *)
LEMMA LaunchKeeps ==
    ASSUME MonitorInv, LaunchStep
    PROVE  MonitorInv'
<1>. USE DEF MonitorInv, JoinedFirst, MonitorHitsOwn, Quiet, Late
<1>1. CASE LaunchInit
    BY <1>1 DEF LaunchInit, Onward, launched, threads
<1>2. CASE MakeTmpDir
    BY <1>2 DEF MakeTmpDir, Onward, launched, threads
<1>3. CASE GenerateProfile
    BY <1>3 DEF GenerateProfile, Onward, launched, threads
<1>4. CASE BuildCommand
    BY <1>4 DEF BuildCommand, Onward, launched, threads
<1>5. CASE SetupStdio
    BY <1>5 DEF SetupStdio, Onward, launched, threads
<1>6. CASE EmitReady
    BY <1>6 DEF EmitReady, Onward, launched, threads
<1>7. CASE LaunchFails
    BY <1>7 DEF LaunchFails, ReturnErr, threads
<1>8. CASE Spawn
    BY <1>8 DEF Spawn, Onward, launched, threads
<1>9. CASE SpawnFails
    BY <1>9 DEF SpawnFails, threads
<1>10. CASE StartMonitor
    BY <1>10, LimitOrNone DEF StartMonitor, Onward, launched, threads
<1>11. CASE StartWatchdog
    BY <1>11 DEF StartWatchdog, Onward, launched, threads
<1>. QED  BY <1>1, <1>2, <1>3, <1>4, <1>5, <1>6, <1>7, <1>8,
          <1>9, <1>10, <1>11 DEF LaunchStep

(* wait() and Drop reap after the join.                                    *)
LEMMA HandleKeeps ==
    ASSUME MonitorInv, HandleStep
    PROVE  MonitorInv'
<1>. USE DEF MonitorInv, JoinedFirst, MonitorHitsOwn, Quiet, Late
<1>1. CASE WaitId
    BY <1>1, LimitOrNone DEF WaitId, Use, launched, threads
<1>2. CASE DropHandle
    BY <1>2, LimitOrNone DEF DropHandle, Use, launched, threads
<1>3. CASE CancelMonitor
    BY <1>3 DEF CancelMonitor, Onward, launched, threads
<1>4. CASE JoinMonitor
    BY <1>4 DEF JoinMonitor, launched, threads
<1>5. CASE Reap
    BY <1>5 DEF Reap, Onward, Reaped, threads
<1>6. CASE ShowLog
    BY <1>6 DEF ShowLog, launched, threads
<1>7. CASE ReadLog
    BY <1>7 DEF ReadLog, Onward, launched, threads
<1>8. CASE LogTimeout
    BY <1>8 DEF LogTimeout, Onward, launched, threads
<1>9. CASE TellExit
    BY <1>9 DEF TellExit, Onward, launched, threads
<1>10. CASE Cleanup
    BY <1>10 DEF Cleanup, Onward, launched, threads
<1>11. CASE DropKills
    BY <1>11 DEF DropKills, Onward, launched, threads
<1>12. CASE DropEnds
    BY <1>12 DEF DropEnds, Onward, Reaped, threads
<1>. QED  BY <1>1, <1>2, <1>3, <1>4, <1>5, <1>6, <1>7, <1>8,
          <1>9, <1>10, <1>11, <1>12 DEF HandleStep

(* A monitor that acts has a child that is not reaped.                     *)
LEMMA MonitorKeeps ==
    ASSUME MonitorInv, MonitorStep
    PROVE  MonitorInv'
<1>. USE DEF MonitorInv, JoinedFirst, MonitorHitsOwn, Quiet, Late
<1>1. CASE MonitorWake
    BY <1>1 DEF MonitorWake, launched
<1>2. CASE MonitorAlive
    BY <1>2 DEF MonitorAlive, launched
<1>3. CASE MonitorPs
    BY <1>3 DEF MonitorPs, launched
<1>4. CASE MonitorKill
    BY <1>4 DEF MonitorKill, KillGroup
<1>. QED  BY <1>1, <1>2, <1>3, <1>4 DEF MonitorStep

(* The watchdog's signals are its own.                                     *)
LEMMA WatchdogKeeps ==
    ASSUME MonitorInv, WatchdogStep
    PROVE  MonitorInv'
<1>. USE DEF MonitorInv, JoinedFirst, MonitorHitsOwn, Quiet, Late
<1>1. CASE WatchdogWake
    BY <1>1 DEF WatchdogWake, launched
<1>2. CASE WatchdogKill
    BY <1>2 DEF WatchdogKill, KillGroup
<1>3. CASE WatchdogAlive
    BY <1>3 DEF WatchdogAlive, launched
<1>. QED  BY <1>1, <1>2, <1>3 DEF WatchdogStep

(* A number is given away after the reaping.                               *)
LEMMA WorldKeeps ==
    ASSUME MonitorInv, WorldStep
    PROVE  MonitorInv'
<1>. USE DEF MonitorInv, JoinedFirst, MonitorHitsOwn, Quiet, Late
<1>1. CASE LogWrites
    BY <1>1 DEF LogWrites, launched, threads
<1>2. CASE LogExits
    BY <1>2 DEF LogExits, launched, threads
<1>3. CASE ChildExits
    BY <1>3 DEF ChildExits, World, threads
<1>4. CASE KinStarts
    BY <1>4 DEF KinStarts, World, threads
<1>5. CASE KinExits
    BY <1>5 DEF KinExits, World, threads
<1>6. CASE ParentDies
    BY <1>6 DEF ParentDies, World, threads
<1>7. CASE NumberReused
    BY <1>7 DEF NumberReused, World, threads
<1>8. CASE LauncherDies
    BY <1>8 DEF LauncherDies, launched, Ended
<1>. QED  BY <1>1, <1>2, <1>3, <1>4, <1>5, <1>6, <1>7, <1>8 DEF WorldStep

(* Every step of a macOS build keeps the invariant, and on Windows none of *)
(* these threads runs.                                                     *)
LEMMA StepKeeps == MonitorInv /\ [PlatformNext]_platformVars => MonitorInv'
<1>. SUFFICES ASSUME MonitorInv, [PlatformNext]_platformVars PROVE MonitorInv'
    OBVIOUS
<1>1. CASE OnMac(MacNext)
    <2>1. MacNext
        BY <1>1 DEF OnMac
    <2>. QED  BY <2>1, LaunchKeeps, HandleKeeps, MonitorKeeps, WatchdogKeeps, WorldKeeps DEF MacNext
<1>2. CASE UNCHANGED macVars
    BY <1>2 DEF MonitorInv, JoinedFirst, MonitorHitsOwn, Quiet, Late, macVars, launched, threads
<1>. QED  BY <1>1, <1>2 DEF PlatformNext, platformVars

(* In every configuration, and however the threads, the child and the      *)
(* kernel interleave, start_memory_monitor's thread signals no group but   *)
(* the sandbox's own: wait() and Drop join it before they reap.            *)
THEOREM MonitorHitsOwnHolds == PlatformSpec => []MonitorHitsOwn
<1>1. PlatformInit => MonitorInv
    BY DEF PlatformInit, MacInit, MonitorInv, JoinedFirst, MonitorHitsOwn, Quiet, Late
<1>2. MonitorInv => MonitorHitsOwn
    BY DEF MonitorInv
<1>. QED  BY <1>1, <1>2, StepKeeps, PTL DEF PlatformSpec

-----------------------------------------------------------------------------
(* The access a Windows sandbox gives, for every set of sandboxes and      *)
(* every configuration.                                                    *)

(* The stages of a launch and of its undoing.                              *)
Preparing == {"tmp", "job", "stdio", "create", "stale", "recreate"}
Granting == {"save", "merge", "set", "spawn", "ok"}
Undoing == {"undo", "rmtmp", "err", "done"}
Stages == Preparing \cup Granting \cup Undoing \cup {"crashed"}

Aces == [sid : STRING, access : {"r", "rw"}]
Lists == [aces : SUBSET Aces, inherits : BOOLEAN]

(* The types, and how far the list of saved DACLs has got at each stage.   *)
WinShape ==
    /\ win \in WinConfigs
    /\ at \in [Sandboxes -> Stages]
    /\ dacl \in [Paths -> Lists]
    /\ saved \in [Sandboxes -> Seq([path : Paths, dacl : Lists])]
    /\ sd \in [Sandboxes -> Lists \cup {"none"}]
    /\ merged \in [Sandboxes -> Lists \cup {"none"}]
    /\ undone \in [Sandboxes -> Nat]
    /\ job \in [Sandboxes -> {"none", "open", "closed"}]
    /\ proc \in [Sandboxes -> {"none", "runs", "dead"}]

InStep(s) ==
    /\ undone[s] <= Len(saved[s]) /\ Len(saved[s]) <= Len(Grants(s))
    /\ \A i \in 1..Len(saved[s]) : saved[s][i].path = Grants(s)[i].path
    /\ at[s] \in Preparing => saved[s] = <<>>
    /\ at[s] \in Granting => undone[s] = 0
    /\ at[s] \in {"merge", "set"} => Len(saved[s]) < Len(Grants(s)) /\ sd[s] \in Lists
    /\ at[s] = "set" => merged[s] \in Lists
    /\ at[s] \in {"spawn", "ok"} => Len(saved[s]) = Len(Grants(s))
    /\ at[s] \in {"rmtmp", "err", "done"} => undone[s] = Len(saved[s])

WinTypeOK == WinShape /\ \A s \in Sandboxes : InStep(s)

LEMMA AsSequence ==
    ASSUME NEW S, NEW n \in Nat, NEW f \in [1..n -> S]
    PROVE  f \in Seq(S) /\ Len(f) = n
BY SMT

LEMMA Ordered ==
    ASSUME NEW S, NEW a \in Seq(S), NEW b \in Seq(S), NEW c \in Seq(S),
           \A i \in 1..Len(a) : a[i].access # "rw",
           \A i \in 1..Len(b) : b[i].access = "rw",
           \A i \in 1..Len(c) : c[i].access = "rw"
    PROVE  /\ a \o b \o c \in Seq(S)
           /\ \A i, j \in 1..Len(a \o b \o c) :
                 i < j /\ (a \o b \o c)[i].access = "rw" => (a \o b \o c)[j].access = "rw"
BY SMT

(* The sequences of launch(): the paths to read come before the others.    *)
LEMMA GrantShape ==
    ASSUME win \in WinConfigs, NEW s \in Sandboxes
    PROVE  /\ Grants(s) \in Seq([path : Paths, access : {"r", "rw"}])
           /\ Len(Grants(s)) \in Nat /\ DOMAIN Grants(s) = 1..Len(Grants(s))
           /\ \A i, j \in 1..Len(Grants(s)) :
                 i < j /\ Grants(s)[i].access = "rw" => Grants(s)[j].access = "rw"
<1> DEFINE R == [i \in DOMAIN win[s].reads |-> [path |-> win[s].reads[i], access |-> "r"]]
           W == [i \in DOMAIN win[s].writes |-> [path |-> win[s].writes[i], access |-> "rw"]]
           T == <<[path |-> TmpOf(s), access |-> "rw"]>>
           G == [path : Paths, access : {"r", "rw"}]
<1>1. win[s].reads \in Seq(STRING) /\ win[s].writes \in Seq(STRING) /\ Name(s) \in STRING
    BY WinShapes DEF Name
<1>2. \A p \in Range(win[s].reads) \cup Range(win[s].writes) \cup {TmpOf(s)} : p \in Paths
    BY DEF Paths
<1>l. Len(win[s].reads) \in Nat /\ Len(win[s].writes) \in Nat
    BY SMT, <1>1
<1>a. \A i \in 1..Len(win[s].reads) : win[s].reads[i] \in Paths
    BY SMT, <1>1, <1>2 DEF Range
<1>b. \A i \in 1..Len(win[s].writes) : win[s].writes[i] \in Paths
    BY SMT, <1>1, <1>2 DEF Range
<1>3. R \in Seq(G) /\ Len(R) = Len(win[s].reads)
  <2>1. R \in [1..Len(win[s].reads) -> G]
    BY SMT, <1>1, <1>a
  <2> HIDE DEF R, G
  <2> QED BY <1>l, <2>1, AsSequence, Zenon
<1>4. W \in Seq(G) /\ Len(W) = Len(win[s].writes)
  <2>1. W \in [1..Len(win[s].writes) -> G]
    BY SMT, <1>1, <1>b
  <2> HIDE DEF W, G
  <2> QED BY <1>l, <2>1, AsSequence, Zenon
<1>5. T \in Seq(G) /\ Len(T) = 1 /\ T[1].access = "rw"
    BY SMT, <1>2
<1>6. \A i \in 1..Len(R) : R[i].access # "rw"
    BY SMT, <1>1, <1>3
<1>7. \A i \in 1..Len(W) : W[i].access = "rw"
    BY SMT, <1>1, <1>4
<1>8. \A i \in 1..Len(T) : T[i].access = "rw"
    BY SMT, <1>5
<1>9. Grants(s) = R \o W \o T
    BY DEF Grants
<1> HIDE DEF R, W, T, G
<1>10. /\ R \o W \o T \in Seq(G)
       /\ \A i, j \in 1..Len(R \o W \o T) :
             i < j /\ (R \o W \o T)[i].access = "rw" => (R \o W \o T)[j].access = "rw"
  <2>1. R \in Seq(G) /\ W \in Seq(G) /\ T \in Seq(G)
    BY <1>3, <1>4, <1>5
  <2>2. \A a, b, c \in Seq(G) :
           /\ \A i \in 1..Len(a) : a[i].access # "rw"
           /\ \A i \in 1..Len(b) : b[i].access = "rw"
           /\ \A i \in 1..Len(c) : c[i].access = "rw"
           => /\ a \o b \o c \in Seq(G)
              /\ \A i, j \in 1..Len(a \o b \o c) :
                    i < j /\ (a \o b \o c)[i].access = "rw" => (a \o b \o c)[j].access = "rw"
    BY SMT, Ordered
  <2> QED BY <2>1, <2>2, <1>6, <1>7, <1>8, Zenon
<1>11. \A g \in Seq(G) : Len(g) \in Nat /\ DOMAIN g = 1..Len(g)
    BY SMT
<1>12. Len(Grants(s)) \in Nat /\ DOMAIN Grants(s) = 1..Len(Grants(s))
    BY <1>9, <1>10, <1>11, Zenon
<1> QED BY <1>9, <1>10, <1>12 DEF G

(* The configuration, and what depends on it alone.                        *)
LEMMA Fixed ==
    ASSUME win' = win
    PROVE  /\ Paths' = Paths
           /\ \A s \in Sandboxes : /\ Name(s)' = Name(s) /\ Grants(s)' = Grants(s)
                                   /\ Unreached(s)' = Unreached(s)
<1>1. Paths' = Paths
    BY DEF Paths, TmpOf
<1>2. ASSUME NEW s \in Sandboxes PROVE Name(s)' = Name(s) /\ Grants(s)' = Grants(s)
    BY DEF Name, Grants, TmpOf
<1>3. ASSUME NEW s \in Sandboxes PROVE Unreached(s)' = Unreached(s)
    BY <1>2 DEF Unreached, Reaches
<1> QED BY <1>1, <1>2, <1>3

(* What a path's list has is the path's own or that of one above it.       *)
LEMMA ListFrom ==
    ASSUME NEW p \in Paths
    PROVE  /\ dacl[p].aces \subseteq ListOf(p).aces
           /\ \A a \in ListOf(p).aces : \E d \in Paths : Reaches(d, p) /\ a \in dacl[d].aces
<1>1. ListOf(p).aces =
        dacl[p].aces \cup UNION {dacl[d].aces : d \in {e \in Paths : Inherits(p, e)}}
    BY DEF ListOf
<1>2. \A d : Inherits(p, d) => Reaches(d, p)
    BY DEF Inherits, Reaches
<1>3. Reaches(p, p)
    BY DEF Reaches
<1> QED BY <1>1, <1>2, <1>3

LEMMA ListTyped ==
    ASSUME dacl \in [Paths -> Lists], NEW p \in Paths
    PROVE  ListOf(p) \in Lists
<1>1. \A d \in Paths : dacl[d].aces \subseteq Aces /\ dacl[d].inherits \in BOOLEAN
    BY SMT DEF Lists
<1>2. ListOf(p).aces \subseteq Aces
    BY <1>1, ListFrom
<1> QED BY SMT, <1>1, <1>2 DEF ListOf, Lists

(* The lengths are numbers, and a path that launch() is about to change is *)
(* one of the paths.                                                       *)
LEMMA Lengths ==
    ASSUME WinShape, NEW s \in Sandboxes
    PROVE  /\ Len(saved[s]) \in Nat /\ undone[s] \in Nat /\ Len(Grants(s)) \in Nat
           /\ saved[s] \in Seq([path : Paths, dacl : Lists])
           /\ Grants(s) \in Seq([path : Paths, access : {"r", "rw"}])
<1>1. /\ saved[s] \in Seq([path : Paths, dacl : Lists]) /\ undone[s] \in Nat
      /\ win \in WinConfigs
    BY DEF WinShape
<1>2. Grants(s) \in Seq([path : Paths, access : {"r", "rw"}])
    BY <1>1, GrantShape
<1> QED BY SMT, <1>1, <1>2

LEMMA CurrentPath ==
    ASSUME WinShape, NEW s \in Sandboxes, Len(saved[s]) < Len(Grants(s))
    PROVE  /\ Current(s) = Grants(s)[Len(saved[s]) + 1]
           /\ Current(s) \in [path : Paths, access : {"r", "rw"}]
<1> DEFINE S == [path : Paths, access : {"r", "rw"}]
           n == Len(saved[s])
<1>1. n \in Nat /\ Grants(s) \in Seq(S) /\ n < Len(Grants(s))
    BY Lengths
<1> HIDE DEF S, n
<1>2. \A g \in Seq(S) : n < Len(g) => g[n + 1] \in S
    BY SMT, <1>1
<1>3. Grants(s)[n + 1] \in S
    BY <1>1, <1>2, Zenon
<1> QED BY <1>3 DEF Current, S, n

LEMMA WinTypeInit == WinInit => WinTypeOK
<1> SUFFICES ASSUME WinInit PROVE WinTypeOK
    OBVIOUS
<1>1. WinShape
    BY SMT DEF WinInit, WinShape, Stages, Preparing, Lists
<1>2. ASSUME NEW s \in Sandboxes PROVE InStep(s)
    BY SMT, <1>1, Lengths DEF WinInit, InStep, Preparing, Granting
<1> QED BY <1>1, <1>2 DEF WinTypeOK

(* The list that SetEntriesInAclW makes.                                   *)
LEMMA Merging ==
    ASSUME WinShape, NEW s \in Sandboxes, InStep(s), MergeEntry(s)
    PROVE  /\ merged'[s] \in Lists
           /\ merged'[s].aces = {a \in dacl[Current(s).path].aces : a.sid # Name(s)}
                                 \cup {[sid |-> Name(s), access |-> Current(s).access]}
<1>1. Name(s) \in STRING
    BY WinShapes DEF WinShape, Name
<1>2. Current(s).access \in {"r", "rw"} /\ dacl[Current(s).path] \in Lists
    BY CurrentPath DEF MergeEntry, WinShape, InStep, Goto
<1>3. merged'[s] = [dacl[Current(s).path] EXCEPT !.aces = {a \in @ : a.sid # Name(s)}
            \cup {[sid |-> Name(s), access |-> Current(s).access]}]
    BY DEF MergeEntry, WinShape
<1> QED BY SMT, <1>1, <1>2, <1>3 DEF Lists, Aces

(* What ApplyEntry adds to the saved lists.                                *)
LEMMA Saving ==
    ASSUME WinShape, NEW s \in Sandboxes, InStep(s), ApplyEntry(s)
    PROVE  /\ Current(s).path \in Paths /\ merged[s] \in Lists /\ sd[s] \in Lists
           /\ Len(saved[s]) \in Nat /\ Len(saved[s]) < Len(Grants(s))
           /\ saved'[s] \in Seq([path : Paths, dacl : Lists])
           /\ Len(saved'[s]) = Len(saved[s]) + 1
           /\ \A i \in 1..Len(saved[s]) : saved'[s][i] = saved[s][i]
           /\ saved'[s][Len(saved[s]) + 1] = [path |-> Current(s).path, dacl |-> sd[s]]
<1> DEFINE S == [path : Paths, dacl : Lists]
           e == [path |-> Current(s).path, dacl |-> sd[s]]
<1>1. Current(s).path \in Paths /\ merged[s] \in Lists /\ sd[s] \in Lists
      /\ Len(saved[s]) < Len(Grants(s))
    BY CurrentPath DEF ApplyEntry, WinShape, InStep, Goto
<1>2. e \in S /\ saved[s] \in Seq(S) /\ Len(saved[s]) \in Nat
    BY <1>1, Lengths
<1>3. saved'[s] = Append(saved[s], e)
    BY DEF ApplyEntry, WinShape
<1> HIDE DEF S, e
<1>4. \A g \in Seq(S), x \in S :
         /\ Append(g, x) \in Seq(S) /\ Len(Append(g, x)) = Len(g) + 1
         /\ \A i \in 1..Len(g) : Append(g, x)[i] = g[i]
         /\ Append(g, x)[Len(g) + 1] = x
    BY SMT
<1>5. /\ saved'[s] \in Seq(S) /\ Len(saved'[s]) = Len(saved[s]) + 1
      /\ \A i \in 1..Len(saved[s]) : saved'[s][i] = saved[s][i]
      /\ saved'[s][Len(saved[s]) + 1] = e
  <2>1. /\ Append(saved[s], e) \in Seq(S) /\ Len(Append(saved[s], e)) = Len(saved[s]) + 1
        /\ \A i \in 1..Len(saved[s]) : Append(saved[s], e)[i] = saved[s][i]
        /\ Append(saved[s], e)[Len(saved[s]) + 1] = e
    BY <1>2, <1>4
  <2> QED BY <1>3, <2>1
<1> QED BY <1>1, <1>2, <1>5 DEF S, e

LEMMA WinShapeStep ==
    ASSUME WinTypeOK, NEW s \in Sandboxes, WinStep(s)
    PROVE  WinShape' /\ win' = win
<1> USE DEF Stages, Preparing, Granting, Undoing, paths, marks
<1>a. win' = win
    BY DEF WinStep, MakeScratch, CreateJobObject, DuplicateStdio, CreateContainer, DeleteStale, EarlyFailure, SaveDacl, MergeEntry, ApplyEntry, AddAttributes, CreateProcess, LateFailure, ProcessExits, EndHandle, RestoreDacl, DeleteContainer, RemoveTmp, Crash
<1>b. Paths' = Paths
    BY <1>a, Fixed
<1>c. WinShape /\ InStep(s)
    BY DEF WinTypeOK
<1>1. CASE MakeScratch(s)
    BY <1>1, <1>a, <1>b, <1>c DEF MakeScratch, WinShape, Goto
<1>2. CASE CreateJobObject(s)
    BY <1>2, <1>a, <1>b, <1>c DEF CreateJobObject, WinShape, Goto
<1>3. CASE DuplicateStdio(s)
    BY <1>3, <1>a, <1>b, <1>c DEF DuplicateStdio, WinShape, Goto
<1>4. CASE CreateContainer(s)
    BY <1>4, <1>a, <1>b, <1>c DEF CreateContainer, WinShape
<1>5. CASE DeleteStale(s)
    BY <1>5, <1>a, <1>b, <1>c DEF DeleteStale, WinShape, Goto
<1>6. CASE EarlyFailure(s)
    BY <1>6, <1>a, <1>b, <1>c DEF EarlyFailure, WinShape, CloseJob, RemoveScratch
<1>7. CASE SaveDacl(s)
  <2>1. sd'[s] \in Lists
    BY <1>7, <1>c, CurrentPath, ListTyped DEF SaveDacl, WinShape
  <2> QED BY <1>7, <1>a, <1>b, <1>c, <2>1 DEF SaveDacl, WinShape
<1>8. CASE MergeEntry(s)
  <2>4. merged' \in [Sandboxes -> Lists \cup {"none"}]
    BY <1>8, <1>c, Merging DEF MergeEntry, WinShape
  <2> QED BY <1>8, <1>a, <1>b, <1>c, <2>4 DEF MergeEntry, WinShape, Goto
<1>9. CASE ApplyEntry(s)
  <2>1. Current(s).path \in Paths /\ merged[s] \in Lists
        /\ saved'[s] \in Seq([path : Paths, dacl : Lists])
    BY <1>9, <1>c, Saving
  <2>2. saved' \in [Sandboxes -> Seq([path : Paths, dacl : Lists])]
    BY <1>9, <1>c, <2>1 DEF ApplyEntry, WinShape
  <2>3. dacl' \in [Paths -> Lists]
    BY <1>9, <1>c, <2>1 DEF ApplyEntry, WinShape
  <2> QED BY <1>9, <1>a, <1>b, <1>c, <2>2, <2>3 DEF ApplyEntry, WinShape, Goto
<1>10. CASE AddAttributes(s)
    BY <1>10, <1>a, <1>b, <1>c DEF AddAttributes, WinShape, Goto
<1>11. CASE CreateProcess(s)
    BY <1>11, <1>a, <1>b, <1>c DEF CreateProcess, WinShape, Goto
<1>12. CASE LateFailure(s)
    BY <1>12, <1>a, <1>b, <1>c DEF LateFailure, WinShape
<1>13. CASE ProcessExits(s)
    BY <1>13, <1>a, <1>b, <1>c DEF ProcessExits, WinShape
<1>14. CASE EndHandle(s)
    BY <1>14, <1>a, <1>b, <1>c DEF EndHandle, WinShape, Goto
<1>15. CASE RestoreDacl(s)
  <2> DEFINE next == saved[s][undone[s] + 1]
  <2>1. next \in [path : Paths, dacl : Lists]
    <3> DEFINE S == [path : Paths, dacl : Lists]
    <3>1. undone[s] \in Nat /\ saved[s] \in Seq(S) /\ undone[s] < Len(saved[s])
      BY <1>15, <1>c, Lengths DEF RestoreDacl
    <3> HIDE DEF S
    <3>2. \A g \in Seq(S), n \in Nat : n < Len(g) => g[n + 1] \in S
      BY SMT
    <3>3. next \in S
      BY <3>1, <3>2, Zenon
    <3> QED BY <3>3 DEF S
  <2>2. [next.dacl EXCEPT !.inherits = FALSE] \in Lists
    BY <2>1 DEF Lists
  <2>3. dacl' \in [Paths -> Lists]
    BY <1>15, <1>b, <1>c, <2>1, <2>2 DEF RestoreDacl, WinShape
  <2>4. undone' \in [Sandboxes -> Nat]
    BY SMT, <1>15, <1>c DEF RestoreDacl, WinShape
  <2> QED BY <1>15, <1>a, <1>b, <1>c, <2>3, <2>4 DEF RestoreDacl, WinShape
<1>16. CASE DeleteContainer(s)
    BY <1>16, <1>a, <1>b, <1>c DEF DeleteContainer, WinShape, Goto
<1>17. CASE RemoveTmp(s)
    BY <1>17, <1>a, <1>b, <1>c DEF RemoveTmp, WinShape, Goto, CloseJob, RemoveScratch
<1>18. CASE Crash(s)
    BY <1>18, <1>a, <1>b, <1>c DEF Crash, WinShape, CloseJob
<1> QED BY <1>a, <1>1, <1>2, <1>3, <1>4, <1>5, <1>6, <1>7, <1>8, <1>9, <1>10, <1>11, <1>12, <1>13, <1>14, <1>15, <1>16, <1>17, <1>18 DEF WinStep

(* A step of one sandbox leaves what belongs to the others alone.          *)
LEMMA OthersKept ==
    ASSUME WinShape, NEW s \in Sandboxes, WinStep(s), NEW t \in Sandboxes, t # s
    PROVE  /\ at'[t] = at[t] /\ saved'[t] = saved[t] /\ undone'[t] = undone[t]
           /\ sd'[t] = sd[t] /\ merged'[t] = merged[t]
           /\ job'[t] = job[t] /\ proc'[t] = proc[t]
           /\ t \in botched' <=> t \in botched
           /\ t \in tmp' <=> t \in tmp
           /\ mixed \subseteq mixed'
<1> USE DEF WinShape, paths, marks
<1>1. CASE MakeScratch(s)
    BY <1>1 DEF MakeScratch, Goto
<1>2. CASE CreateJobObject(s)
    BY <1>2 DEF CreateJobObject, Goto
<1>3. CASE DuplicateStdio(s)
    BY <1>3 DEF DuplicateStdio, Goto
<1>4. CASE CreateContainer(s)
    BY <1>4 DEF CreateContainer
<1>5. CASE DeleteStale(s)
    BY <1>5 DEF DeleteStale, Goto
<1>6. CASE EarlyFailure(s)
    BY <1>6 DEF EarlyFailure, CloseJob, RemoveScratch
<1>7. CASE SaveDacl(s)
    BY <1>7 DEF SaveDacl
<1>8. CASE MergeEntry(s)
    BY <1>8 DEF MergeEntry, Goto
<1>9. CASE ApplyEntry(s)
    BY <1>9 DEF ApplyEntry, Goto
<1>10. CASE AddAttributes(s)
    BY <1>10 DEF AddAttributes, Goto
<1>11. CASE CreateProcess(s)
    BY <1>11 DEF CreateProcess, Goto
<1>12. CASE LateFailure(s)
    BY <1>12 DEF LateFailure
<1>13. CASE ProcessExits(s)
    BY <1>13 DEF ProcessExits
<1>14. CASE EndHandle(s)
    BY <1>14 DEF EndHandle, Goto
<1>15. CASE RestoreDacl(s)
    BY <1>15 DEF RestoreDacl
<1>16. CASE DeleteContainer(s)
    BY <1>16 DEF DeleteContainer, Goto
<1>17. CASE RemoveTmp(s)
    BY <1>17 DEF RemoveTmp, Goto, CloseJob, RemoveScratch
<1>18. CASE Crash(s)
    BY <1>18 DEF Crash, CloseJob
<1> QED BY <1>1, <1>2, <1>3, <1>4, <1>5, <1>6, <1>7, <1>8, <1>9, <1>10, <1>11, <1>12, <1>13, <1>14, <1>15, <1>16, <1>17, <1>18 DEF WinStep

(* Where a step of a sandbox can lead it.                                  *)
LEMMA StageStep ==
    ASSUME WinShape, NEW s \in Sandboxes, WinStep(s)
    PROVE  /\ at[s] = "crashed" => at'[s] = "crashed"
           /\ at[s] \in Undoing => at'[s] \in Undoing \cup {"crashed"}
           /\ at'[s] \in {"merge", "set"} => at[s] \in {"merge", "set"} \/ (at[s] = "save" /\ SaveDacl(s))
           /\ botched \subseteq botched' /\ mixed \subseteq mixed'
<1> USE DEF WinShape, paths, marks, Undoing
<1>1. CASE MakeScratch(s)
    BY <1>1 DEF MakeScratch, Goto
<1>2. CASE CreateJobObject(s)
    BY <1>2 DEF CreateJobObject, Goto
<1>3. CASE DuplicateStdio(s)
    BY <1>3 DEF DuplicateStdio, Goto
<1>4. CASE CreateContainer(s)
    BY <1>4 DEF CreateContainer
<1>5. CASE DeleteStale(s)
    BY <1>5 DEF DeleteStale, Goto
<1>6. CASE EarlyFailure(s)
    BY <1>6 DEF EarlyFailure, RemoveScratch
<1>7. CASE SaveDacl(s)
    BY <1>7 DEF SaveDacl
<1>8. CASE MergeEntry(s)
  <2>1. at[s] = "merge" /\ at' = [at EXCEPT ![s] = "set"] /\ UNCHANGED <<botched, mixed>>
    BY <1>8 DEF MergeEntry, Goto
  <2> QED BY <2>1
<1>9. CASE ApplyEntry(s)
    BY <1>9 DEF ApplyEntry, Goto
<1>10. CASE AddAttributes(s)
    BY <1>10 DEF AddAttributes, Goto
<1>11. CASE CreateProcess(s)
    BY <1>11 DEF CreateProcess, Goto
<1>12. CASE LateFailure(s)
    BY <1>12 DEF LateFailure
<1>13. CASE ProcessExits(s)
  <2>1. UNCHANGED <<at, botched, mixed>>
    BY <1>13 DEF ProcessExits
  <2> QED BY <2>1
<1>14. CASE EndHandle(s)
    BY <1>14 DEF EndHandle, Goto
<1>15. CASE RestoreDacl(s)
    BY <1>15 DEF RestoreDacl
<1>16. CASE DeleteContainer(s)
    BY <1>16 DEF DeleteContainer, Goto
<1>17. CASE RemoveTmp(s)
    BY <1>17 DEF RemoveTmp, Goto, RemoveScratch
<1>18. CASE Crash(s)
    BY <1>18 DEF Crash
<1> QED BY <1>1, <1>2, <1>3, <1>4, <1>5, <1>6, <1>7, <1>8, <1>9, <1>10, <1>11, <1>12, <1>13, <1>14, <1>15, <1>16, <1>17, <1>18 DEF WinStep

(* The four steps that read or write the lists, and the others.            *)
LEMMA QuietStep ==
    ASSUME WinShape, NEW s \in Sandboxes, WinStep(s),
           ~SaveDacl(s), ~MergeEntry(s), ~ApplyEntry(s), ~RestoreDacl(s)
    PROVE  /\ UNCHANGED <<dacl, saved, undone>>
           /\ at'[s] \in {"merge", "set"} => UNCHANGED <<at, sd, merged>>
<1> USE DEF WinShape, paths
<1>1. CASE MakeScratch(s)
    BY <1>1 DEF MakeScratch, Goto
<1>2. CASE CreateJobObject(s)
    BY <1>2 DEF CreateJobObject, Goto
<1>3. CASE DuplicateStdio(s)
    BY <1>3 DEF DuplicateStdio, Goto
<1>4. CASE CreateContainer(s)
    BY <1>4 DEF CreateContainer
<1>5. CASE DeleteStale(s)
    BY <1>5 DEF DeleteStale, Goto
<1>6. CASE EarlyFailure(s)
    BY <1>6 DEF EarlyFailure
<1>7. CASE AddAttributes(s)
    BY <1>7 DEF AddAttributes, Goto
<1>8. CASE CreateProcess(s)
    BY <1>8 DEF CreateProcess, Goto
<1>9. CASE LateFailure(s)
    BY <1>9 DEF LateFailure
<1>10. CASE ProcessExits(s)
    BY <1>10 DEF ProcessExits
<1>11. CASE EndHandle(s)
    BY <1>11 DEF EndHandle, Goto
<1>12. CASE DeleteContainer(s)
    BY <1>12 DEF DeleteContainer, Goto
<1>13. CASE RemoveTmp(s)
    BY <1>13 DEF RemoveTmp, Goto
<1>14. CASE Crash(s)
    BY <1>14 DEF Crash
<1> QED BY <1>1, <1>2, <1>3, <1>4, <1>5, <1>6, <1>7, <1>8, <1>9, <1>10, <1>11, <1>12, <1>13, <1>14 DEF WinStep

LEMMA WinTypeStep ==
    ASSUME WinTypeOK, NEW s \in Sandboxes, WinStep(s)
    PROVE  WinTypeOK'
<1> USE DEF Stages, Preparing, Granting, Undoing, paths, marks
<1>a. WinShape /\ WinShape' /\ win' = win
    BY WinShapeStep DEF WinTypeOK
<1>b. \A t \in Sandboxes : Grants(t)' = Grants(t)
    BY <1>a, Fixed
<1>c. ASSUME NEW t \in Sandboxes, t # s PROVE InStep(t)'
    BY SMT, <1>a, <1>b, <1>c, OthersKept DEF WinTypeOK, InStep
<1>d. /\ Len(saved[s]) \in Nat /\ undone[s] \in Nat /\ Len(Grants(s)) \in Nat
      /\ Grants(s)' = Grants(s) /\ InStep(s)
      /\ at[s] \in Stages /\ WinShape
    BY <1>a, <1>b, Lengths DEF WinTypeOK, WinShape
<1>e. InStep(s)'
  <2>1. CASE MakeScratch(s)
    BY SMT, <2>1, <1>a, <1>d DEF MakeScratch, WinShape, InStep, Goto
  <2>2. CASE CreateJobObject(s)
    BY SMT, <2>2, <1>a, <1>d DEF CreateJobObject, WinShape, InStep, Goto
  <2>3. CASE DuplicateStdio(s)
    BY SMT, <2>3, <1>a, <1>d DEF DuplicateStdio, WinShape, InStep, Goto
  <2>4. CASE CreateContainer(s)
    BY SMT, <2>4, <1>a, <1>d DEF CreateContainer, WinShape, InStep
  <2>5. CASE DeleteStale(s)
    BY SMT, <2>5, <1>a, <1>d DEF DeleteStale, WinShape, InStep, Goto
  <2>6. CASE EarlyFailure(s)
    BY SMT, <2>6, <1>a, <1>d DEF EarlyFailure, WinShape, InStep, CloseJob, RemoveScratch
  <2>7. CASE SaveDacl(s)
    <3>1. sd'[s] \in Lists
      BY <2>7, <1>d, CurrentPath, ListTyped DEF SaveDacl, WinShape
    <3> QED BY SMT, <2>7, <1>a, <1>d, <3>1 DEF SaveDacl, WinShape, InStep
  <2>8. CASE MergeEntry(s)
    <3>1. merged'[s] \in Lists
      BY <2>8, <1>a, <1>d, Merging
    <3> QED BY SMT, <2>8, <1>a, <1>d, <3>1 DEF MergeEntry, WinShape, InStep, Goto
  <2>9. CASE ApplyEntry(s)
    <3> DEFINE n == Len(saved[s])
    <3>1. /\ n \in Nat /\ n < Len(Grants(s)) /\ Len(saved'[s]) = n + 1
          /\ saved'[s][n + 1].path = Grants(s)[n + 1].path
          /\ \A i \in 1..n : saved'[s][i].path = Grants(s)[i].path
      <4>1. /\ n \in Nat /\ n < Len(Grants(s)) /\ Len(saved'[s]) = n + 1
            /\ \A i \in 1..n : saved'[s][i] = saved[s][i]
            /\ saved'[s][n + 1].path = Current(s).path
        <5>1. /\ Len(saved[s]) \in Nat /\ Len(saved[s]) < Len(Grants(s))
              /\ Len(saved'[s]) = Len(saved[s]) + 1
              /\ \A i \in 1..Len(saved[s]) : saved'[s][i] = saved[s][i]
              /\ saved'[s][Len(saved[s]) + 1] = [path |-> Current(s).path, dacl |-> sd[s]]
          BY <2>9, <1>d, Saving, Zenon
        <5> HIDE DEF n
        <5> QED BY SMT, <5>1 DEF n
      <4>2. Current(s).path = Grants(s)[n + 1].path
        BY <1>d, <4>1, CurrentPath
      <4> QED BY <1>d, <4>1, <4>2 DEF InStep
    <3>2. at'[s] = "save" /\ undone'[s] = 0
      BY SMT, <2>9, <1>a, <1>d DEF ApplyEntry, WinShape, InStep, Goto
    <3> HIDE DEF n
    <3>3. \A i \in 1..(n + 1) : saved'[s][i].path = Grants(s)[i].path
      BY SMT, <3>1
    <3> QED BY SMT, <1>d, <3>1, <3>2, <3>3 DEF InStep
  <2>10. CASE AddAttributes(s)
    BY SMT, <2>10, <1>a, <1>d DEF AddAttributes, WinShape, InStep, Goto
  <2>11. CASE CreateProcess(s)
    BY SMT, <2>11, <1>a, <1>d DEF CreateProcess, WinShape, InStep, Goto
  <2>12. CASE LateFailure(s)
    BY SMT, <2>12, <1>a, <1>d DEF LateFailure, WinShape, InStep
  <2>13. CASE ProcessExits(s)
    BY SMT, <2>13, <1>a, <1>d DEF ProcessExits, WinShape, InStep
  <2>14. CASE EndHandle(s)
    BY SMT, <2>14, <1>a, <1>d DEF EndHandle, WinShape, InStep, Goto
  <2>15. CASE RestoreDacl(s)
    BY SMT, <2>15, <1>a, <1>d DEF RestoreDacl, WinShape, InStep
  <2>16. CASE DeleteContainer(s)
    BY SMT, <2>16, <1>a, <1>d DEF DeleteContainer, WinShape, InStep, Goto
  <2>17. CASE RemoveTmp(s)
    BY SMT, <2>17, <1>a, <1>d DEF RemoveTmp, WinShape, InStep, Goto, CloseJob, RemoveScratch
  <2>18. CASE Crash(s)
    BY SMT, <2>18, <1>a, <1>d DEF Crash, WinShape, InStep, CloseJob
  <2> QED BY <2>1, <2>2, <2>3, <2>4, <2>5, <2>6, <2>7, <2>8, <2>9, <2>10, <2>11, <2>12, <2>13, <2>14, <2>15, <2>16, <2>17, <2>18 DEF WinStep
<1> QED BY <1>a, <1>c, <1>e DEF WinTypeOK

-----------------------------------------------------------------------------
(* The paths two sandboxes use.                                            *)

(* Two sandboxes that use one path at the same time are both marked.       *)
ApartInv ==
    \A s \in Sandboxes : s \notin mixed =>
        \A t \in Sandboxes \ {s} : Uses(s) \cap Uses(t) = {}

(* A sandbox comes to use a path by saving its DACL, and only so.          *)
LEMMA UsesStep ==
    ASSUME WinTypeOK, NEW s \in Sandboxes, WinStep(s)
    PROVE  /\ \A t \in Sandboxes \ {s} : Uses(t)' = Uses(t)
           /\ ~SaveDacl(s) => Uses(s)' \subseteq Uses(s)
           /\ SaveDacl(s) => Uses(s)' \subseteq Uses(s) \cup {Current(s).path}
<1>a. WinShape /\ WinShape' /\ win' = win /\ InStep(s) /\ InStep(s)'
    BY WinShapeStep, WinTypeStep DEF WinTypeOK
<1>b. \A t \in Sandboxes : Grants(t)' = Grants(t)
    BY <1>a, Fixed
<1>c. ASSUME NEW t \in Sandboxes \ {s} PROVE Uses(t)' = Uses(t)
  <2>1. at'[t] = at[t] /\ saved'[t] = saved[t] /\ undone'[t] = undone[t]
    BY <1>a, OthersKept
  <2>2. Current(t)' = Current(t)
    BY <1>b, <2>1 DEF Current
  <2> QED BY <2>1, <2>2 DEF Uses
<1>d. /\ Len(saved[s]) \in Nat /\ undone[s] \in Nat
      /\ Grants(s)' = Grants(s)
    BY <1>a, <1>b, Lengths
<1>e. CASE saved'[s] = saved[s] /\ undone'[s] = undone[s]
  <2>1. Current(s)' = Current(s)
    BY <1>d, <1>e DEF Current
  <2>2. /\ at[s] = "crashed" => at'[s] = "crashed"
        /\ at'[s] \in {"merge", "set"} => at[s] \in {"merge", "set"} \/ (at[s] = "save" /\ SaveDacl(s))
    BY <1>a, StageStep
  <2>3. Uses(s)' \subseteq Uses(s) \/ (SaveDacl(s) /\ Uses(s)' \subseteq Uses(s) \cup {Current(s).path})
    BY <1>e, <2>1, <2>2 DEF Uses
  <2> QED BY <1>c, <2>3
<1>f. CASE ApplyEntry(s)
  <2>1. at[s] = "set" /\ at'[s] = "save" /\ undone'[s] = undone[s]
    BY <1>a, <1>f DEF ApplyEntry, Goto, WinShape
  <2>2. /\ Len(saved[s]) \in Nat
        /\ Len(saved'[s]) = Len(saved[s]) + 1
        /\ \A i \in 1..Len(saved[s]) : saved'[s][i] = saved[s][i]
        /\ saved'[s][Len(saved[s]) + 1] = [path |-> Current(s).path, dacl |-> sd[s]]
    BY <1>a, <1>f, Saving, Zenon
  <2>3. \A i \in (undone[s] + 1)..(Len(saved[s]) + 1) : saved'[s][i].path \in Uses(s)
    <3> SUFFICES ASSUME NEW i \in (undone[s] + 1)..(Len(saved[s]) + 1)
                 PROVE  saved'[s][i].path \in Uses(s)
      OBVIOUS
    <3>1. CASE i = Len(saved[s]) + 1
      BY SMT, <2>1, <2>2, <3>1 DEF Uses
    <3>2. CASE i # Len(saved[s]) + 1
      <4>1. i \in (undone[s] + 1)..Len(saved[s]) /\ i \in 1..Len(saved[s])
        BY SMT, <1>d, <3>2
      <4> QED BY <2>1, <2>2, <4>1 DEF Uses
    <3> QED BY <3>1, <3>2
  <2>4. Uses(s)' \subseteq Uses(s)
    BY <2>1, <2>2, <2>3 DEF Uses
  <2>5. ~SaveDacl(s)
    BY <2>1 DEF SaveDacl
  <2> QED BY <1>c, <2>4, <2>5
<1>g. CASE RestoreDacl(s)
  <2>1. at[s] = "undo" /\ at' = at /\ saved' = saved /\ undone'[s] = undone[s] + 1
    BY <1>a, <1>g DEF RestoreDacl, WinShape
  <2>2. (undone[s] + 1 + 1)..Len(saved[s]) \subseteq (undone[s] + 1)..Len(saved[s])
    BY SMT, <1>d
  <2> QED BY <1>c, <2>1, <2>2 DEF Uses, SaveDacl
<1>h. \/ saved'[s] = saved[s] /\ undone'[s] = undone[s]
      \/ ApplyEntry(s) \/ RestoreDacl(s)
  BY DEF WinStep, MakeScratch, CreateJobObject, DuplicateStdio, CreateContainer, DeleteStale,
         EarlyFailure, SaveDacl, MergeEntry, AddAttributes, CreateProcess, LateFailure,
         ProcessExits, EndHandle, DeleteContainer, RemoveTmp, Crash, paths
<1> QED BY <1>e, <1>f, <1>g, <1>h

LEMMA ApartStep ==
    ASSUME WinTypeOK, ApartInv, NEW s \in Sandboxes, WinStep(s)
    PROVE  ApartInv'
<1> SUFFICES ASSUME NEW a \in Sandboxes, a \notin mixed', NEW b \in Sandboxes \ {a}
             PROVE  Uses(a)' \cap Uses(b)' = {}
    BY DEF ApartInv
<1>1. mixed \subseteq mixed'
    BY StageStep DEF WinTypeOK
<1>2. Uses(a) \cap Uses(b) = {}
    BY <1>1 DEF ApartInv
<1>3. CASE ~SaveDacl(s)
  <2>1. Uses(a)' \subseteq Uses(a) /\ Uses(b)' \subseteq Uses(b)
    BY <1>3, UsesStep
  <2> QED BY <1>2, <2>1
<1>4. CASE SaveDacl(s)
  <2>1. /\ \A t \in Sandboxes \ {s} : Uses(t)' = Uses(t)
        /\ Uses(s)' \subseteq Uses(s) \cup {Current(s).path}
    BY <1>4, UsesStep
  <2>2. mixed' = LET others == {t \in Sandboxes \ {s} :
                                  \E p \in Uses(t) : Reaches(p, Current(s).path)}
                 IN  IF others = {} THEN mixed ELSE mixed \cup others \cup {s}
    BY <1>4 DEF SaveDacl
  <2>a. Reaches(Current(s).path, Current(s).path)
    BY DEF Reaches
  <2>3. CASE a = s
    <3>1. Current(s).path \notin Uses(b)
      BY <2>2, <2>3, <2>a
    <3> QED BY <1>2, <2>1, <2>3, <3>1
  <2>4. CASE b = s
    <3>1. Current(s).path \notin Uses(a)
      BY <2>2, <2>4, <2>a
    <3> QED BY <1>2, <2>1, <2>4, <3>1
  <2>5. CASE a # s /\ b # s
    BY SMT, <1>2, <2>1, <2>5
  <2> QED BY <2>3, <2>4, <2>5
<1> QED BY <1>3, <1>4

-----------------------------------------------------------------------------
(* The entries of a container.                                             *)

(* A container's entries in a list.                                        *)
Has(list, s) == {a \in list.aces : a.sid = Name(s)}

(* Its entries on a path, without the inherited ones.                      *)
OwnOf(s, p) == {a \in dacl[p].aces : a.sid = Name(s)}

(* The entry for a path after the first k grants.                          *)
GrantedBy(s, p, k) ==
    LET wanted == {Grants(s)[i].access : i \in {j \in 1..k : Grants(s)[j].path = p}}
    IN  IF wanted = {} THEN {}
        ELSE {[sid |-> Name(s), access |-> IF "rw" \in wanted THEN "rw" ELSE "r"]}

(* A sandbox the property speaks of.                                       *)
Followed(s) ==
    /\ Unshared(s) /\ at[s] # "crashed"
    /\ at[s] \in Undoing => Unreached(s) /\ s \notin botched

(* Its entries are those of the grants so far; when it undoes them, only   *)
(* the paths still to be restored have one, and the lists it saved have    *)
(* none.                                                                   *)
HoldsOwn(s) ==
    /\ at[s] \notin Undoing => \A p \in Paths : OwnOf(s, p) = GrantedBy(s, p, Len(saved[s]))
    /\ at[s] \in Undoing => \A p \in Paths \ Uses(s) : OwnOf(s, p) = {}
    /\ at[s] = "set" => Has(merged[s], s) = {[sid |-> Name(s), access |-> Current(s).access]}
    /\ Unreached(s) =>
          /\ \A i \in (undone[s] + 1)..Len(saved[s]) : Has(saved[s][i].dacl, s) = {}
          /\ at[s] \in {"merge", "set"} => Has(sd[s], s) = {}

(* What another sandbox has read and may still write has none of them.     *)
Stranger(s, t) ==
    at[t] # "crashed" =>
        /\ \A i \in (undone[t] + 1)..Len(saved[t]) : Has(saved[t][i].dacl, s) = {}
        /\ at[t] \in {"merge", "set"} => Has(sd[t], s) = {}
        /\ at[t] = "set" => Has(merged[t], s) = {}

EntriesInv ==
    \A s \in Sandboxes : Followed(s) =>
        HoldsOwn(s) /\ \A t \in Sandboxes \ {s} : Stranger(s, t)

LEMMA FollowedStep ==
    ASSUME WinTypeOK, NEW s \in Sandboxes, NEW t \in Sandboxes, WinStep(t), Followed(s)'
    PROVE  Followed(s)
<1>1. WinShape /\ win' = win
    BY WinShapeStep DEF WinTypeOK
<1>2. Unreached(s)' = Unreached(s) /\ \A r \in Sandboxes : Name(r)' = Name(r)
    BY <1>1, Fixed
<1>3. /\ at[t] = "crashed" => at'[t] = "crashed"
      /\ at[t] \in Undoing => at'[t] \in Undoing \cup {"crashed"}
      /\ botched \subseteq botched' /\ mixed \subseteq mixed'
    BY <1>1, StageStep
<1>4. s # t => at'[s] = at[s]
    BY <1>1, OthersKept
<1>5. Unshared(s)
    BY <1>2, <1>3 DEF Followed, Unshared
<1>6. at[s] # "crashed" /\ (at[s] \in Undoing => at'[s] \in Undoing)
    BY <1>3, <1>4 DEF Followed
<1> QED BY <1>2, <1>3, <1>5, <1>6 DEF Followed

(* A path the sandbox does not use has no entry of its container.          *)
LEMMA UnsavedClear ==
    ASSUME WinTypeOK, NEW s \in Sandboxes, at[s] # "crashed", HoldsOwn(s), NEW p \in Paths,
           \A i \in (undone[s] + 1)..Len(saved[s]) : saved[s][i].path # p
    PROVE  OwnOf(s, p) = {}
<1>a. WinShape /\ InStep(s) /\ at[s] \in Stages /\ Len(saved[s]) \in Nat
    BY Lengths DEF WinTypeOK, WinShape
<1>1. CASE at[s] \in Undoing
  <2>1. p \notin Uses(s)
    BY <1>1 DEF Uses, Undoing
  <2> QED BY <1>1, <2>1 DEF HoldsOwn
<1>2. CASE at[s] \notin Undoing
  <2>1. undone[s] = 0 \/ saved[s] = <<>>
    BY <1>2, <1>a DEF InStep, Stages
  <2>2. \A i \in 1..Len(saved[s]) : saved[s][i].path # p
    BY SMT, <1>a, <2>1
  <2>3. \A i \in 1..Len(saved[s]) : Grants(s)[i].path # p
    BY <1>a, <2>2 DEF InStep
  <2>4. GrantedBy(s, p, Len(saved[s])) = {}
    BY <2>3 DEF GrantedBy
  <2> QED BY <1>2, <2>4 DEF HoldsOwn
<1> QED BY <1>1, <1>2

LEMMA UnusedClear ==
    ASSUME WinTypeOK, NEW s \in Sandboxes, at[s] # "crashed", HoldsOwn(s),
           NEW p \in Paths, p \notin Uses(s)
    PROVE  OwnOf(s, p) = {}
<1>1. \A i \in (undone[s] + 1)..Len(saved[s]) : saved[s][i].path # p
    BY DEF Uses
<1> QED BY <1>1, UnsavedClear

-----------------------------------------------------------------------------
(* A step of another sandbox.                                              *)

(* The path that a step of t writes, and the list it writes there.         *)
LEMMA Written ==
    ASSUME WinTypeOK, NEW t \in Sandboxes, WinStep(t)
    PROVE  \/ dacl' = dacl
           \/ /\ ApplyEntry(t) /\ Current(t).path \in Paths \cap Uses(t)
              /\ dacl' = [dacl EXCEPT ![Current(t).path] = merged[t]]
           \/ /\ RestoreDacl(t) /\ undone[t] + 1 \in (undone[t] + 1)..Len(saved[t])
              /\ saved[t][undone[t] + 1].path \in Paths \cap Uses(t)
              /\ dacl' = [dacl EXCEPT ![saved[t][undone[t] + 1].path] =
                            [saved[t][undone[t] + 1].dacl EXCEPT !.inherits = FALSE]]
              /\ saved[t][undone[t] + 1].dacl \in Lists
<1>a. WinShape /\ InStep(t) /\ Len(saved[t]) \in Nat /\ undone[t] \in Nat
    BY Lengths DEF WinTypeOK
<1>1. CASE ApplyEntry(t)
  <2>1. Current(t).path \in Paths
    BY <1>1, <1>a, Saving
  <2>2. at[t] = "set" /\ dacl' = [dacl EXCEPT ![Current(t).path] = merged[t]]
    BY <1>1 DEF ApplyEntry, Goto
  <2>3. Current(t).path \in Uses(t)
    BY <2>2 DEF Uses
  <2> QED BY <1>1, <2>1, <2>2, <2>3
<1>2. CASE RestoreDacl(t)
  <2> DEFINE S == [path : Paths, dacl : Lists]
             n == undone[t]
  <2>1. at[t] = "undo" /\ n < Len(saved[t]) /\ saved[t] \in Seq(S)
    BY <1>2, <1>a, Lengths DEF RestoreDacl
  <2>2. saved[t][n + 1] \in S
    <3> HIDE DEF S
    <3>1. \A g \in Seq(S), k \in Nat : k < Len(g) => g[k + 1] \in S
      BY SMT
    <3> QED BY <1>a, <2>1, <3>1, Zenon
  <2>3. n + 1 \in (n + 1)..Len(saved[t])
    BY SMT, <1>a, <2>1
  <2>4. saved[t][n + 1].path \in Uses(t)
    BY <2>1, <2>3 DEF Uses
  <2>5. \/ dacl' = dacl
        \/ dacl' = [dacl EXCEPT ![saved[t][n + 1].path] = [saved[t][n + 1].dacl EXCEPT !.inherits = FALSE]]
    BY <1>2 DEF RestoreDacl
  <2> QED BY <1>2, <2>2, <2>3, <2>4, <2>5
<1>3. dacl' = dacl \/ ApplyEntry(t) \/ RestoreDacl(t)
    BY DEF WinStep, MakeScratch, CreateJobObject, DuplicateStdio, CreateContainer, DeleteStale,
         EarlyFailure, SaveDacl, MergeEntry, AddAttributes, CreateProcess, LateFailure,
         ProcessExits, EndHandle, DeleteContainer, RemoveTmp, Crash, paths
<1> QED BY <1>1, <1>2, <1>3

(* It writes only paths the sandbox does not use, and no entry of its      *)
(* container.                                                              *)
LEMMA OtherEntries ==
    ASSUME WinTypeOK, ApartInv, EntriesInv,
           NEW s \in Sandboxes, NEW t \in Sandboxes \ {s}, WinStep(t), Followed(s),
           NEW p \in Paths
    PROVE  OwnOf(s, p)' = OwnOf(s, p)
<1>a. /\ WinShape /\ win' = win /\ InStep(t) /\ dacl \in [Paths -> Lists]
    BY WinShapeStep DEF WinTypeOK, WinShape
<1>b. Name(s)' = Name(s)
    BY <1>a, Fixed
<1>c. Uses(s) \cap Uses(t) = {}
    BY DEF ApartInv, Followed, Unshared
<1>d. HoldsOwn(s) /\ Stranger(s, t) /\ at[s] # "crashed"
    BY DEF EntriesInv, Followed
<1>1. CASE dacl' = dacl
    BY <1>b, <1>1 DEF OwnOf
<1>2. CASE /\ ApplyEntry(t) /\ Current(t).path \in Paths \cap Uses(t)
           /\ dacl' = [dacl EXCEPT ![Current(t).path] = merged[t]]
  <2>1. at[t] = "set"
    BY <1>2 DEF ApplyEntry, Goto
  <2>2. Has(merged[t], s) = {}
    BY <1>d, <2>1 DEF Stranger
  <2>3. CASE p = Current(t).path
    <3>1. OwnOf(s, p) = {}
      BY <1>2, <1>c, <1>d, <2>3, UnusedClear
    <3>2. dacl'[p] = merged[t]
      BY <1>a, <1>2, <2>3
    <3> QED BY <1>b, <2>2, <3>1, <3>2 DEF OwnOf, Has
  <2>4. CASE p # Current(t).path
    BY <1>a, <1>b, <1>2, <2>4 DEF OwnOf
  <2> QED BY <2>3, <2>4
<1>3. CASE /\ RestoreDacl(t) /\ undone[t] + 1 \in (undone[t] + 1)..Len(saved[t])
           /\ saved[t][undone[t] + 1].path \in Paths \cap Uses(t)
           /\ dacl' = [dacl EXCEPT ![saved[t][undone[t] + 1].path] =
                         [saved[t][undone[t] + 1].dacl EXCEPT !.inherits = FALSE]]
           /\ saved[t][undone[t] + 1].dacl \in Lists
  <2> DEFINE e == saved[t][undone[t] + 1]
  <2>1. at[t] = "undo"
    BY <1>3 DEF RestoreDacl
  <2>2. Has(e.dacl, s) = {}
    BY <1>3, <1>d, <2>1 DEF Stranger
  <2>3. CASE p = e.path
    <3>1. OwnOf(s, p) = {}
      BY <1>3, <1>c, <1>d, <2>3, UnusedClear
    <3>2. dacl'[p].aces = e.dacl.aces
      BY <1>a, <1>3, <2>3 DEF Lists
    <3> QED BY <1>b, <2>2, <3>1, <3>2 DEF OwnOf, Has
  <2>4. CASE p # e.path
    BY <1>a, <1>b, <1>3, <2>4 DEF OwnOf
  <2> QED BY <2>3, <2>4
<1> QED BY <1>1, <1>2, <1>3, Written

(* What it reads has no such entry either.                                 *)
LEMMA OtherReads ==
    ASSUME WinTypeOK, ApartInv, EntriesInv,
           NEW s \in Sandboxes, NEW t \in Sandboxes \ {s}, WinStep(t), Followed(s), Followed(s)'
    PROVE  Stranger(s, t)'
<1>a. /\ WinShape /\ win' = win /\ InStep(t) /\ WinShape'
    BY WinShapeStep DEF WinTypeOK
<1>b. Name(s)' = Name(s) /\ Name(s) # Name(t)
    BY <1>a, Fixed DEF Followed, Unshared
<1>c. Uses(s) \cap Uses(t) = {}
    BY DEF ApartInv, Followed, Unshared
<1>d. HoldsOwn(s) /\ Stranger(s, t) /\ at[s] # "crashed"
    BY DEF EntriesInv, Followed
<1>e. \A list : Has(list, s)' = Has(list, s)
    BY <1>b DEF Has
<1>f. Len(saved[t]) \in Nat /\ undone[t] \in Nat
    BY <1>a, Lengths
<1>1. CASE SaveDacl(t)
  <2>1. Current(t).path \in Paths
    BY <1>1, <1>a, CurrentPath DEF SaveDacl
  <2>2. \A d : Reaches(d, Current(t).path) => d \notin Uses(s)
    BY <1>1 DEF SaveDacl, Followed, Unshared
  <2>3. \A d \in Paths : Reaches(d, Current(t).path) => OwnOf(s, d) = {}
    BY <1>d, <2>2, UnusedClear
  <2>4. sd'[t] = ListOf(Current(t).path) /\ at[t] = "save" /\ at'[t] = "merge"
        /\ UNCHANGED <<saved, undone, merged>>
    BY <1>1, <1>a DEF SaveDacl, WinShape
  <2>5. Has(sd'[t], s) = {}
    BY <2>1, <2>3, <2>4, ListFrom DEF Has, OwnOf
  <2> QED BY <1>d, <1>b, <2>4, <2>5 DEF Stranger, Has
<1>2. CASE MergeEntry(t)
  <2>1. at[t] = "merge" /\ at'[t] = "set" /\ UNCHANGED <<saved, undone, sd>>
    BY <1>2, <1>a DEF MergeEntry, Goto, WinShape
  <2>2. Current(t).path \in Paths /\ Current(t).path \in Uses(t)
    BY <1>a, <2>1, CurrentPath DEF Uses, InStep
  <2>3. OwnOf(s, Current(t).path) = {}
    BY <1>c, <1>d, <2>2, UnusedClear
  <2>4. merged'[t].aces = {a \in dacl[Current(t).path].aces : a.sid # Name(t)}
                          \cup {[sid |-> Name(t), access |-> Current(t).access]}
    BY <1>2, <1>a, Merging
  <2>5. Has(merged'[t], s) = {}
    BY SMT, <1>b, <2>3, <2>4 DEF Has, OwnOf
  <2> QED BY <1>d, <1>b, <2>1, <2>5 DEF Stranger, Has
<1>3. CASE ApplyEntry(t)
  <2>1. at[t] = "set" /\ at'[t] = "save" /\ UNCHANGED undone
    BY <1>3, <1>a DEF ApplyEntry, Goto, WinShape
  <2>2. /\ Len(saved'[t]) = Len(saved[t]) + 1
        /\ \A i \in 1..Len(saved[t]) : saved'[t][i] = saved[t][i]
        /\ saved'[t][Len(saved[t]) + 1] = [path |-> Current(t).path, dacl |-> sd[t]]
    BY <1>a, <1>3, Saving, Zenon
  <2>3. ASSUME NEW i \in (undone[t] + 1)..(Len(saved[t]) + 1)
        PROVE  Has(saved'[t][i].dacl, s) = {}
    <3>1. CASE i = Len(saved[t]) + 1
      BY SMT, <1>d, <2>1, <2>2, <3>1 DEF Stranger
    <3>2. CASE i # Len(saved[t]) + 1
      <4>1. i \in (undone[t] + 1)..Len(saved[t]) /\ i \in 1..Len(saved[t])
        BY SMT, <1>f, <3>2
      <4> QED BY <1>d, <2>1, <2>2, <4>1 DEF Stranger
    <3> QED BY <3>1, <3>2
  <2> QED BY <1>b, <2>1, <2>2, <2>3 DEF Stranger, Has
<1>4. CASE RestoreDacl(t)
  <2>1. at[t] = "undo" /\ at' = at /\ saved' = saved /\ undone'[t] = undone[t] + 1
    BY <1>a, <1>4 DEF RestoreDacl, WinShape
  <2>2. (undone[t] + 1 + 1)..Len(saved[t]) \subseteq (undone[t] + 1)..Len(saved[t])
    BY SMT, <1>f
  <2>3. \A i \in (undone[t] + 1 + 1)..Len(saved[t]) : Has(saved[t][i].dacl, s) = {}
    BY <1>d, <2>1, <2>2 DEF Stranger
  <2> QED BY <1>b, <2>1, <2>3 DEF Stranger, Has
<1>5. CASE ~SaveDacl(t) /\ ~MergeEntry(t) /\ ~ApplyEntry(t) /\ ~RestoreDacl(t)
  <2>1. UNCHANGED <<saved, undone>> /\ (at'[t] \in {"merge", "set"} => UNCHANGED <<at, sd, merged>>)
    BY <1>5, <1>a, QuietStep
  <2>2. at'[t] # "crashed" => at[t] # "crashed"
    BY <1>a, StageStep
  <2> QED BY <1>b, <1>d, <2>1, <2>2 DEF Stranger, Has
<1> QED BY <1>1, <1>2, <1>3, <1>4, <1>5

-----------------------------------------------------------------------------
(* A step of the sandbox itself.                                           *)

(* One more grant: it gives its path its access, which no earlier grant of *)
(* the path exceeds, and leaves the others.                                *)
LEMMA GrantedNext ==
    ASSUME win \in WinConfigs, NEW s \in Sandboxes, NEW k \in Nat, k < Len(Grants(s)), NEW p
    PROVE  GrantedBy(s, p, k + 1) =
              IF Grants(s)[k + 1].path = p
              THEN {[sid |-> Name(s), access |-> Grants(s)[k + 1].access]}
              ELSE GrantedBy(s, p, k)
<1> DEFINE W(n) == {Grants(s)[i].access : i \in {j \in 1..n : Grants(s)[j].path = p}}
<1>a. /\ Grants(s) \in Seq([path : Paths, access : {"r", "rw"}]) /\ Len(Grants(s)) \in Nat
      /\ \A i, j \in 1..Len(Grants(s)) :
            i < j /\ Grants(s)[i].access = "rw" => Grants(s)[j].access = "rw"
    BY GrantShape
<1>b. 1..(k + 1) = 1..k \cup {k + 1} /\ k + 1 \in 1..Len(Grants(s)) /\ k + 1 \notin 1..k
  <2>1. \A n \in Nat : k < n => k + 1 \in 1..n
    BY SMT
  <2>2. k + 1 \in 1..Len(Grants(s))
    BY <1>a, <2>1, Zenon
  <2> QED BY SMT, <2>2
<1>c. \A i \in 1..(k + 1) : Grants(s)[i].access \in {"r", "rw"}
  <2> DEFINE S == [path : Paths, access : {"r", "rw"}]
  <2> HIDE DEF S
  <2>1. \A g \in Seq(S) : \A i \in 1..Len(g) : g[i] \in S
    BY SMT
  <2>2. \A i \in 1..Len(Grants(s)) : Grants(s)[i] \in S
    BY <1>a, <2>1, Zenon DEF S
  <2>3. \A n \in Nat : k < n => 1..(k + 1) \subseteq 1..n
    BY SMT
  <2>4. 1..(k + 1) \subseteq 1..Len(Grants(s))
    BY <1>a, <2>3, Zenon
  <2> QED BY <2>2, <2>4 DEF S
<1>1. CASE Grants(s)[k + 1].path = p
  <2>1. Grants(s)[k + 1].access \in W(k + 1)
    BY <1>1, <1>b
  <2>2. CASE Grants(s)[k + 1].access = "rw"
    BY <1>1, <2>1, <2>2 DEF GrantedBy
  <2>3. CASE Grants(s)[k + 1].access = "r"
    <3>1. \A i \in 1..(k + 1) : Grants(s)[i].access = "r"
      <4> SUFFICES ASSUME NEW i \in 1..(k + 1) PROVE Grants(s)[i].access = "r"
        OBVIOUS
      <4>1. i \in 1..Len(Grants(s)) /\ (i = k + 1 \/ i < k + 1)
        BY SMT, <1>a
      <4>2. Grants(s)[i].access # "rw"
        BY <1>a, <1>b, <2>3, <4>1
      <4> QED BY <1>c, <4>2
    <3>2. "rw" \notin W(k + 1) /\ W(k + 1) # {}
      BY <2>1, <3>1
    <3> QED BY <1>1, <2>3, <3>2 DEF GrantedBy
  <2>4. Grants(s)[k + 1].access \in {"r", "rw"}
    BY <1>b, <1>c
  <2> QED BY <2>2, <2>3, <2>4
<1>2. CASE Grants(s)[k + 1].path # p
  <2>1. {j \in 1..(k + 1) : Grants(s)[j].path = p} = {j \in 1..k : Grants(s)[j].path = p}
    BY <1>b, <1>2
  <2> QED BY <1>2, <2>1 DEF GrantedBy
<1> QED BY <1>1, <1>2

(* A path about to be granted has no grant, and none above it has.         *)
LEMMA NoneBefore ==
    ASSUME win \in WinConfigs, NEW s \in Sandboxes, NEW k \in Nat, k < Len(Grants(s)), Unreached(s),
           NEW d, Reaches(d, Grants(s)[k + 1].path)
    PROVE  GrantedBy(s, d, k) = {}
<1>1. Len(Grants(s)) \in Nat /\ DOMAIN Grants(s) = 1..Len(Grants(s))
    BY GrantShape
<1>3. \A i, j \in 1..Len(Grants(s)) :
         i < j => ~Reaches(Grants(s)[i].path, Grants(s)[j].path)
    BY <1>1 DEF Unreached
<1>4. ASSUME NEW i \in 1..k PROVE Grants(s)[i].path # d
  <2>1. i \in 1..Len(Grants(s)) /\ k + 1 \in 1..Len(Grants(s)) /\ i < k + 1
    BY SMT, <1>1
  <2> QED BY <1>3, <2>1
<1> QED BY <1>4 DEF GrantedBy

LEMMA OwnStep ==
    ASSUME WinTypeOK, NEW s \in Sandboxes, WinStep(s), Followed(s), Followed(s)', HoldsOwn(s)
    PROVE  HoldsOwn(s)'
<1>a. /\ WinShape /\ win' = win /\ InStep(s) /\ WinShape' /\ win \in WinConfigs
      /\ at[s] # "crashed" /\ at'[s] # "crashed" /\ dacl \in [Paths -> Lists]
    BY WinShapeStep DEF WinTypeOK, WinShape, Followed
<1>b. /\ Name(s)' = Name(s) /\ Grants(s)' = Grants(s) /\ Unreached(s)' = Unreached(s)
      /\ Paths' = Paths
    BY <1>a, Fixed
<1>c. Len(saved[s]) \in Nat /\ undone[s] \in Nat
    BY <1>a, Lengths
<1>d. \A p, k : GrantedBy(s, p, k)' = GrantedBy(s, p, k)
    BY <1>b DEF GrantedBy
<1>e. at[s] \in Undoing => at'[s] \in Undoing
    BY <1>a, StageStep
<1>1. CASE SaveDacl(s)
  <2>1. /\ at[s] = "save" /\ at'[s] = "merge" /\ Len(saved[s]) < Len(Grants(s))
        /\ sd'[s] = ListOf(Current(s).path)
        /\ UNCHANGED <<dacl, saved, undone>>
    BY <1>1, <1>a DEF SaveDacl, WinShape
  <2>2. Current(s) = Grants(s)[Len(saved[s]) + 1] /\ Current(s).path \in Paths
    BY <1>a, <2>1, CurrentPath
  <2>3. ASSUME Unreached(s), NEW d \in Paths, Reaches(d, Current(s).path) PROVE OwnOf(s, d) = {}
    <3>1. OwnOf(s, d) = GrantedBy(s, d, Len(saved[s]))
      BY <2>1 DEF HoldsOwn, Undoing
    <3> QED BY <1>a, <1>c, <2>1, <2>2, <2>3, <3>1, NoneBefore
  <2>c. Unreached(s) => Has(ListOf(Current(s).path), s) = {}
    BY <2>2, <2>3, ListFrom DEF Has, OwnOf
  <2>4. Unreached(s) => Has(sd[s], s)' = {}
    BY <1>b, <2>1, <2>c DEF Has
  <2>a. \A p : OwnOf(s, p)' = OwnOf(s, p)
    BY <1>b, <2>1 DEF OwnOf
  <2>b. \A p \in Paths : OwnOf(s, p) = GrantedBy(s, p, Len(saved[s]))
    BY <2>1 DEF HoldsOwn, Undoing
  <2>5. \A p \in Paths : OwnOf(s, p)' = GrantedBy(s, p, Len(saved[s]))'
    BY <1>d, <2>1, <2>a, <2>b
  <2>6. Unreached(s) => \A i \in (undone[s] + 1)..Len(saved[s]) : Has(saved[s][i].dacl, s)' = {}
    BY <1>b, <2>1 DEF HoldsOwn, Has
  <2> QED BY <1>b, <2>1, <2>4, <2>5, <2>6 DEF HoldsOwn, Undoing
<1>2. CASE MergeEntry(s)
  <2>1. /\ at[s] = "merge" /\ at'[s] = "set" /\ UNCHANGED <<dacl, saved, undone, sd>>
    BY <1>2, <1>a DEF MergeEntry, Goto, WinShape
  <2>2. merged'[s].aces = {a \in dacl[Current(s).path].aces : a.sid # Name(s)}
                          \cup {[sid |-> Name(s), access |-> Current(s).access]}
    BY <1>2, <1>a, Merging
  <2>3. Current(s)' = Current(s)
    BY <1>b, <2>1 DEF Current
  <2>4. Has(merged[s], s)' = {[sid |-> Name(s), access |-> Current(s).access]}'
    BY SMT, <1>b, <2>2, <2>3 DEF Has
  <2>a. \A p : OwnOf(s, p)' = OwnOf(s, p)
    BY <1>b, <2>1 DEF OwnOf
  <2>b. \A p \in Paths : OwnOf(s, p) = GrantedBy(s, p, Len(saved[s]))
    BY <2>1 DEF HoldsOwn, Undoing
  <2>5. \A p \in Paths : OwnOf(s, p)' = GrantedBy(s, p, Len(saved[s]))'
    BY <1>d, <2>1, <2>a, <2>b
  <2>6. Unreached(s) => /\ \A i \in (undone[s] + 1)..Len(saved[s]) : Has(saved[s][i].dacl, s)' = {}
                       /\ Has(sd[s], s)' = {}
    BY <1>b, <2>1 DEF HoldsOwn, Has
  <2> QED BY <1>b, <2>1, <2>4, <2>5, <2>6 DEF HoldsOwn, Undoing
<1>3. CASE ApplyEntry(s)
  <2> DEFINE k == Len(saved[s])
  <2>1. /\ at[s] = "set" /\ at'[s] = "save" /\ UNCHANGED undone
        /\ dacl' = [dacl EXCEPT ![Current(s).path] = merged[s]]
    BY <1>3, <1>a DEF ApplyEntry, Goto, WinShape
  <2>2. /\ Current(s).path \in Paths /\ Len(saved[s]) < Len(Grants(s))
        /\ Len(saved'[s]) = Len(saved[s]) + 1
        /\ \A i \in 1..Len(saved[s]) : saved'[s][i] = saved[s][i]
        /\ saved'[s][Len(saved[s]) + 1] = [path |-> Current(s).path, dacl |-> sd[s]]
    BY <1>a, <1>3, Saving, Zenon
  <2>3. Current(s) = Grants(s)[k + 1]
    BY <1>a, <2>2, CurrentPath
  <2>4. ASSUME NEW p \in Paths PROVE OwnOf(s, p)' = GrantedBy(s, p, k + 1)
    <3>1. GrantedBy(s, p, k + 1) =
              IF Grants(s)[k + 1].path = p
              THEN {[sid |-> Name(s), access |-> Grants(s)[k + 1].access]}
              ELSE GrantedBy(s, p, k)
      BY <1>a, <1>c, <2>2, GrantedNext, Zenon
    <3>2. CASE p = Current(s).path
      <4>1. dacl'[p] = merged[s]
        BY <1>a, <2>1, <3>2
      <4>2. Has(merged[s], s) = {[sid |-> Name(s), access |-> Current(s).access]}
        BY <2>1 DEF HoldsOwn
      <4> QED BY <1>b, <2>3, <3>1, <3>2, <4>1, <4>2 DEF Has, OwnOf
    <3>3. CASE p # Current(s).path
      <4>1. dacl'[p] = dacl[p]
        BY <1>a, <2>1, <3>3
      <4>2. OwnOf(s, p) = GrantedBy(s, p, k)
        BY <2>1 DEF HoldsOwn, Undoing
      <4> QED BY <1>b, <2>3, <3>1, <3>3, <4>1, <4>2 DEF OwnOf
    <3> QED BY <3>2, <3>3
  <2>5. ASSUME Unreached(s), NEW i \in (undone[s] + 1)..(k + 1)
        PROVE  Has(saved'[s][i].dacl, s) = {}
    <3>1. CASE i = k + 1
      <4>1. Has(sd[s], s) = {}
        BY <2>1, <2>5 DEF HoldsOwn
      <4>2. saved'[s][i].dacl = sd[s]
        BY SMT, <2>2, <3>1
      <4> QED BY <4>1, <4>2
    <3>2. CASE i # k + 1
      <4>1. i \in (undone[s] + 1)..Len(saved[s]) /\ i \in 1..Len(saved[s])
        BY SMT, <1>c, <3>2
      <4> QED BY <2>2, <2>5, <4>1 DEF HoldsOwn
    <3> QED BY <3>1, <3>2
  <2>6. Unreached(s)' => \A i \in ((undone[s] + 1)..Len(saved[s]))' : Has(saved[s][i].dacl, s)' = {}
    BY <1>b, <2>1, <2>2, <2>5 DEF Has
  <2>7. \A p \in Paths : OwnOf(s, p)' = GrantedBy(s, p, Len(saved[s]))'
    BY <1>d, <2>2, <2>4
  <2> QED BY <1>b, <2>1, <2>6, <2>7 DEF HoldsOwn, Undoing
<1>4. CASE RestoreDacl(s)
  <2> DEFINE e == saved[s][undone[s] + 1]
  <2>1. /\ at[s] = "undo" /\ at' = at /\ saved' = saved /\ undone'[s] = undone[s] + 1
        /\ undone[s] < Len(saved[s])
    BY <1>a, <1>4 DEF RestoreDacl, WinShape
  <2>2. Unreached(s) /\ s \notin botched'
    BY <1>b, <2>1 DEF Followed, Undoing
  <2>3. /\ undone[s] + 1 \in (undone[s] + 1)..Len(saved[s])
        /\ (undone[s] + 1 + 1)..Len(saved[s]) \subseteq (undone[s] + 1)..Len(saved[s])
        /\ \A i \in (undone[s] + 1)..Len(saved[s]) :
              i = undone[s] + 1 \/ i \in (undone[s] + 1 + 1)..Len(saved[s])
    BY SMT, <1>c, <2>1
  <2>4. e.path \in Paths /\ e.dacl \in Lists
    <3> DEFINE S == [path : Paths, dacl : Lists]
    <3>1. saved[s] \in Seq(S)
      BY <1>a, Lengths
    <3> HIDE DEF S
    <3>2. \A g \in Seq(S), n \in Nat : n < Len(g) => g[n + 1] \in S
      BY SMT
    <3>3. e \in S
      BY <1>c, <2>1, <3>1, <3>2, Zenon
    <3> QED BY <3>3 DEF S
  <2>5. dacl' = [dacl EXCEPT ![e.path] = [e.dacl EXCEPT !.inherits = FALSE]]
    BY <1>4, <2>2 DEF RestoreDacl
  <2>6. Has(e.dacl, s) = {}
    BY <2>2, <2>3 DEF HoldsOwn
  <2>7. ASSUME NEW p \in Paths, p \notin Uses(s)' PROVE OwnOf(s, p)' = {}
    <3>1. CASE p = e.path
      <4>1. dacl'[p].aces = e.dacl.aces
        BY <1>a, <2>4, <2>5, <3>1 DEF Lists
      <4> QED BY <1>b, <2>6, <4>1 DEF Has, OwnOf
    <3>2. CASE p # e.path
      <4>1. \A i \in (undone[s] + 1)..Len(saved[s]) : saved[s][i].path # p
        BY <2>1, <2>3, <2>7, <3>2 DEF Uses
      <4>2. OwnOf(s, p) = {}
        BY <1>a, <4>1, UnsavedClear
      <4>3. dacl'[p] = dacl[p]
        BY <1>a, <2>5, <3>2
      <4> QED BY <1>b, <4>2, <4>3 DEF OwnOf
    <3> QED BY <3>1, <3>2
  <2>8. \A i \in (undone[s] + 1 + 1)..Len(saved[s]) : Has(saved[s][i].dacl, s) = {}
    BY <2>2, <2>3 DEF HoldsOwn
  <2> QED BY <1>b, <2>1, <2>7, <2>8 DEF HoldsOwn, Undoing, Has
<1>5. CASE ~SaveDacl(s) /\ ~MergeEntry(s) /\ ~ApplyEntry(s) /\ ~RestoreDacl(s)
  <2>1. /\ UNCHANGED <<dacl, saved, undone>>
        /\ at'[s] \in {"merge", "set"} => UNCHANGED <<at, sd, merged>>
    BY <1>5, <1>a, QuietStep
  <2>2. at'[s] \notin Undoing =>
           \A p \in Paths : OwnOf(s, p)' = GrantedBy(s, p, Len(saved[s]))'
    <3>1. \A p : OwnOf(s, p)' = OwnOf(s, p)
      BY <1>b, <2>1 DEF OwnOf
    <3> QED BY <1>d, <1>e, <2>1, <3>1 DEF HoldsOwn
  <2>3. ASSUME at'[s] \in Undoing, NEW p \in Paths, p \notin Uses(s)' PROVE OwnOf(s, p)' = {}
    <3>1. \A i \in (undone[s] + 1)..Len(saved[s]) : saved[s][i].path # p
      BY <1>a, <2>1, <2>3 DEF Uses
    <3>2. OwnOf(s, p) = {}
      BY <1>a, <3>1, UnsavedClear
    <3> QED BY <1>b, <2>1, <3>2 DEF OwnOf
  <2>4. at'[s] = "set" => Has(merged[s], s)' = {[sid |-> Name(s), access |-> Current(s).access]}'
    BY <1>b, <2>1 DEF HoldsOwn, Has, Current
  <2>5. Unreached(s) => \A i \in (undone[s] + 1)..Len(saved[s]) : Has(saved[s][i].dacl, s)' = {}
    BY <1>b, <2>1 DEF HoldsOwn, Has
  <2>6. Unreached(s) /\ at'[s] \in {"merge", "set"} => Has(sd[s], s)' = {}
    BY <1>b, <2>1 DEF HoldsOwn, Has
  <2> QED BY <1>b, <2>1, <2>2, <2>3, <2>4, <2>5, <2>6 DEF HoldsOwn
<1> QED BY <1>1, <1>2, <1>3, <1>4, <1>5

(* Before anything is granted.                                             *)
LEMMA EntriesInit == WinInit => ApartInv /\ EntriesInv
<1> SUFFICES ASSUME WinInit PROVE ApartInv /\ EntriesInv
    OBVIOUS
<1>1. \A s \in Sandboxes : /\ at[s] = "tmp" /\ saved[s] = <<>> /\ undone[s] = 0
    BY DEF WinInit
<1>2. (0 + 1)..Len(<<>>) = {} /\ 1..Len(<<>>) = {}
    BY SMT
<1>3. \A s \in Sandboxes : Uses(s) = {}
    BY <1>1, <1>2 DEF Uses
<1>4. \A s \in Sandboxes, p \in Paths : OwnOf(s, p) = {} /\ GrantedBy(s, p, Len(saved[s])) = {}
    BY <1>1, <1>2 DEF WinInit, OwnOf, GrantedBy
<1>5. \A s \in Sandboxes : HoldsOwn(s)
    BY <1>1, <1>2, <1>4 DEF HoldsOwn, Undoing
<1>6. \A s, t \in Sandboxes : Stranger(s, t)
    BY <1>1, <1>2 DEF Stranger
<1> QED BY <1>3, <1>5, <1>6 DEF ApartInv, EntriesInv

LEMMA EntriesStep ==
    ASSUME WinTypeOK, ApartInv, EntriesInv, NEW t \in Sandboxes, WinStep(t)
    PROVE  EntriesInv'
<1> SUFFICES ASSUME NEW s \in Sandboxes, Followed(s)'
             PROVE  HoldsOwn(s)' /\ \A r \in Sandboxes \ {s} : Stranger(s, r)'
    BY DEF EntriesInv
<1>a. WinShape /\ win' = win
    BY WinShapeStep DEF WinTypeOK
<1>b. /\ Name(s)' = Name(s) /\ Grants(s)' = Grants(s) /\ Unreached(s)' = Unreached(s)
      /\ Paths' = Paths
    BY <1>a, Fixed
<1>c. Followed(s)
    BY FollowedStep
<1>d. HoldsOwn(s) /\ \A r \in Sandboxes \ {s} : Stranger(s, r)
    BY <1>c DEF EntriesInv
<1>e. \A r \in Sandboxes \ {t} :
         /\ at'[r] = at[r] /\ saved'[r] = saved[r] /\ undone'[r] = undone[r]
         /\ sd'[r] = sd[r] /\ merged'[r] = merged[r]
    BY <1>a, OthersKept
<1>f. ASSUME NEW r \in Sandboxes \ {s}, r # t PROVE Stranger(s, r)'
  <2>1. Stranger(s, r)
    BY <1>d
  <2>2. /\ at'[r] = at[r] /\ saved'[r] = saved[r] /\ undone'[r] = undone[r]
        /\ sd'[r] = sd[r] /\ merged'[r] = merged[r]
    BY <1>e, <1>f
  <2>3. /\ Has(sd[r], s)' = Has(sd[r], s) /\ Has(merged[r], s)' = Has(merged[r], s)
        /\ \A i : Has(saved[r][i].dacl, s)' = Has(saved[r][i].dacl, s)
    BY <1>b, <2>2 DEF Has
  <2>4. ASSUME at'[r] # "crashed", NEW i \in (undone'[r] + 1)..Len(saved'[r])
        PROVE  Has(saved[r][i].dacl, s)' = {}
    BY <2>1, <2>2, <2>3, <2>4 DEF Stranger
  <2>5. at'[r] # "crashed" =>
            /\ at'[r] \in {"merge", "set"} => Has(sd[r], s)' = {}
            /\ at'[r] = "set" => Has(merged[r], s)' = {}
    BY <2>1, <2>2, <2>3 DEF Stranger
  <2> QED BY <2>4, <2>5 DEF Stranger
<1>1. CASE s = t
  <2>1. HoldsOwn(s)'
    BY <1>1, <1>c, <1>d, OwnStep
  <2> QED BY <1>1, <1>f, <2>1
<1>2. CASE s # t
  <2>1. Stranger(s, t)'
    BY <1>2, <1>c, OtherReads
  <2>2. /\ \A p \in Paths : OwnOf(s, p)' = OwnOf(s, p)
        /\ Uses(s)' = Uses(s)
    BY <1>2, <1>c, OtherEntries, UsesStep
  <2>3. /\ Current(s)' = Current(s)
        /\ \A p, k : GrantedBy(s, p, k)' = GrantedBy(s, p, k)
        /\ \A list : Has(list, s)' = Has(list, s)
    <3>1. Current(s)' = Current(s)
      BY <1>2, <1>b, <1>e DEF Current
    <3>2. \A p, k : GrantedBy(s, p, k)' = GrantedBy(s, p, k)
      BY <1>b DEF GrantedBy
    <3>3. \A list : Has(list, s)' = Has(list, s)
      BY <1>b DEF Has
    <3> QED BY <3>1, <3>2, <3>3
  <2>4. /\ at'[s] = at[s] /\ saved'[s] = saved[s] /\ undone'[s] = undone[s]
        /\ sd'[s] = sd[s] /\ merged'[s] = merged[s]
    BY <1>2, <1>e
  <2>5. /\ at'[s] \notin Undoing =>
              \A p \in Paths : OwnOf(s, p)' = GrantedBy(s, p, Len(saved[s]))'
        /\ at'[s] \in Undoing => \A p \in Paths \ Uses(s)' : OwnOf(s, p)' = {}
    BY <1>b, <1>d, <2>2, <2>3, <2>4 DEF HoldsOwn
  <2>6. /\ at'[s] = "set" =>
              Has(merged[s], s)' = {[sid |-> Name(s), access |-> Current(s).access]}'
        /\ Unreached(s)' =>
              /\ \A i \in ((undone[s] + 1)..Len(saved[s]))' : Has(saved[s][i].dacl, s)' = {}
              /\ at'[s] \in {"merge", "set"} => Has(sd[s], s)' = {}
    BY <1>b, <1>d, <2>3, <2>4 DEF HoldsOwn, Has
  <2>7. HoldsOwn(s)'
    BY <1>b, <2>5, <2>6 DEF HoldsOwn
  <2> QED BY <1>f, <2>1, <2>7
<1> QED BY <1>1, <1>2

-----------------------------------------------------------------------------
(* The rest of a sandbox: process, job, directory and profile.             *)

Closed(s) ==
    at[s] \in {"err", "done"} =>
        proc[s] # "runs" /\ job[s] # "open" /\ (s \notin botched => s \notin tmp)

(* A name that no other launch has is registered while its sandbox is.     *)
Unregistered(s) ==
    /\ \A t \in Sandboxes \ {s} : Name(t) # Name(s)
    /\ s \notin botched /\ at[s] \in Preparing \cup {"rmtmp", "err", "done"}
    => Name(s) \notin profiles

EndInv == \A s \in Sandboxes : Closed(s) /\ Unregistered(s)

LEMMA ClosedStep ==
    ASSUME WinShape, NEW s \in Sandboxes, WinStep(s), Closed(s)
    PROVE  Closed(s)'
<1> USE DEF Closed
<1>1. CASE EarlyFailure(s)
    BY <1>1 DEF EarlyFailure, RemoveScratch, CloseJob, WinShape
<1>2. CASE RemoveTmp(s)
    BY <1>2 DEF RemoveTmp, RemoveScratch, CloseJob, WinShape
<1>3. CASE ProcessExits(s)
    BY <1>3 DEF ProcessExits, marks, WinShape
<1>4. CASE RestoreDacl(s)
    BY <1>4 DEF RestoreDacl
<1>5. CASE at'[s] \notin {"err", "done"}
    BY <1>5
<1>6. \/ EarlyFailure(s) \/ RemoveTmp(s) \/ ProcessExits(s) \/ RestoreDacl(s)
      \/ at'[s] \notin {"err", "done"}
    BY DEF WinStep, WinShape, Goto, MakeScratch, CreateJobObject, DuplicateStdio, CreateContainer,
           DeleteStale, SaveDacl, MergeEntry, ApplyEntry, AddAttributes, CreateProcess,
           LateFailure, EndHandle, DeleteContainer, Crash
<1> QED BY <1>1, <1>2, <1>3, <1>4, <1>5, <1>6

(* Who changes the profiles, and how.                                      *)
LEMMA ProfileStep ==
    ASSUME WinShape, NEW s \in Sandboxes, WinStep(s)
    PROVE  /\ profiles \ {Name(s)} = profiles' \ {Name(s)}
           /\ Name(s) \in profiles' /\ Name(s) \notin profiles => at'[s] = "save"
           /\ \/ at'[s] \notin {"rmtmp", "err", "done"} \/ at[s] \in {"rmtmp", "err", "done"}
              \/ at[s] \in Preparing
              \/ Name(s) \notin profiles' \/ s \in botched'
           /\ at'[s] \in Preparing => at[s] \in Preparing
           /\ botched \subseteq botched'
<1> USE DEF Preparing
<1>1. CASE CreateContainer(s)
    BY <1>1 DEF CreateContainer, WinShape, marks
<1>2. CASE DeleteStale(s)
    BY <1>2 DEF DeleteStale, WinShape, marks, Goto
<1>3. CASE DeleteContainer(s)
    BY <1>3 DEF DeleteContainer, WinShape, Goto
<1>4. CASE EarlyFailure(s) \/ RemoveTmp(s)
    BY <1>4 DEF EarlyFailure, RemoveTmp, RemoveScratch, WinShape, Goto
<1>5. CASE MakeScratch(s) \/ CreateJobObject(s) \/ DuplicateStdio(s) \/ SaveDacl(s) \/ MergeEntry(s)
    BY <1>5 DEF MakeScratch, CreateJobObject, DuplicateStdio, SaveDacl, MergeEntry, WinShape,
                marks, Goto
<1>6. CASE ApplyEntry(s) \/ AddAttributes(s) \/ CreateProcess(s) \/ LateFailure(s)
  <2>1. CASE ApplyEntry(s)
    BY <2>1 DEF ApplyEntry, WinShape, marks, Goto
  <2>2. CASE AddAttributes(s)
    BY <2>2 DEF AddAttributes, WinShape, marks, Goto
  <2>3. CASE CreateProcess(s)
    BY <2>3 DEF CreateProcess, WinShape, marks, Goto
  <2>4. CASE LateFailure(s)
    BY <2>4 DEF LateFailure, WinShape, marks, Goto
  <2> QED BY <1>6, <2>1, <2>2, <2>3, <2>4
<1>7. CASE ProcessExits(s) \/ EndHandle(s) \/ RestoreDacl(s) \/ Crash(s)
    BY <1>7 DEF ProcessExits, EndHandle, RestoreDacl, Crash, WinShape, marks, Goto
<1> QED BY <1>1, <1>2, <1>3, <1>4, <1>5, <1>6, <1>7 DEF WinStep

LEMMA EndStep ==
    ASSUME WinShape, win' = win, EndInv, NEW t \in Sandboxes, WinStep(t)
    PROVE  EndInv'
<1> SUFFICES ASSUME NEW s \in Sandboxes PROVE Closed(s)' /\ Unregistered(s)'
    BY DEF EndInv
<1>a. Closed(s) /\ Unregistered(s)
    BY DEF EndInv
<1>b. \A r \in Sandboxes : Name(r)' = Name(r)
    BY Fixed
<1>c. /\ profiles \ {Name(t)} = profiles' \ {Name(t)}
      /\ Name(t) \in profiles' /\ Name(t) \notin profiles => at'[t] = "save"
      /\ \/ at'[t] \notin {"rmtmp", "err", "done"} \/ at[t] \in {"rmtmp", "err", "done"}
         \/ at[t] \in Preparing
         \/ Name(t) \notin profiles' \/ t \in botched'
      /\ at'[t] \in Preparing => at[t] \in Preparing
      /\ botched \subseteq botched'
    BY ProfileStep
<1>1. CASE s = t
  <2>1. Closed(s)'
    BY <1>1, <1>a, ClosedStep
  <2>2. Unregistered(s)'
    BY <1>1, <1>a, <1>b, <1>c DEF Unregistered, Preparing
  <2> QED BY <2>1, <2>2
<1>2. CASE s # t
  <2>1. /\ at'[s] = at[s] /\ job'[s] = job[s] /\ proc'[s] = proc[s]
        /\ s \in botched' <=> s \in botched
        /\ s \in tmp' <=> s \in tmp
    BY <1>2, OthersKept
  <2>2. Closed(s)'
    BY <1>a, <2>1 DEF Closed
  <2>3. Unregistered(s)'
    BY <1>2, <1>a, <1>b, <1>c, <2>1 DEF Unregistered
  <2> QED BY <2>2, <2>3
<1> QED BY <1>1, <1>2

-----------------------------------------------------------------------------
WinInv == WinTypeOK /\ ApartInv /\ EntriesInv /\ EndInv

LEMMA WinInvInit == WinInit => WinInv
<1> SUFFICES ASSUME WinInit PROVE EndInv
    BY WinTypeInit, EntriesInit DEF WinInv
<1> QED BY DEF WinInit, EndInv, Closed, Unregistered

LEMMA WinInvStep ==
    ASSUME WinInv, WinNext
    PROVE  WinInv'
<1>1. PICK s \in Sandboxes : WinStep(s)
    BY DEF WinNext
<1>2. WinTypeOK /\ WinShape /\ ApartInv /\ EntriesInv /\ EndInv
    BY DEF WinInv, WinTypeOK
<1>3. win' = win
    BY <1>1, <1>2, WinShapeStep
<1> QED BY <1>1, <1>2, <1>3, WinTypeStep, ApartStep, EntriesStep, EndStep DEF WinInv

LEMMA WinInvKept ==
    ASSUME WinInv, UNCHANGED winVars
    PROVE  WinInv'
<1>1. UNCHANGED <<win, at, dacl, saved, sd, merged, undone, profiles, job, proc, tmp, failing,
                  mixed, botched>>
    BY DEF winVars, paths, marks
<1>2. Paths' = Paths /\ \A s \in Sandboxes : InStep(s)' = InStep(s)
    <2>1. Paths' = Paths
        BY <1>1 DEF Paths
    <2>2. ASSUME NEW s \in Sandboxes PROVE InStep(s)' = InStep(s)
        <3>1. /\ Grants(s)' = Grants(s) /\ at'[s] = at[s] /\ saved'[s] = saved[s]
              /\ undone'[s] = undone[s] /\ sd'[s] = sd[s] /\ merged'[s] = merged[s]
            BY <1>1 DEF Grants, TmpOf
        <3>. QED  BY <3>1 DEF InStep
    <2>. QED  BY <2>1, <2>2
<1>3. \A s \in Sandboxes : Uses(s)' = Uses(s)
    <2>1. ASSUME NEW s \in Sandboxes PROVE Current(s)' = Current(s)
        BY <1>1 DEF Current, Grants, TmpOf
    <2>. QED  BY <1>1, <2>1 DEF Uses
<1>4. \A s \in Sandboxes : Followed(s)' = Followed(s)
    BY <1>1, Fixed DEF Followed, Unshared
<1>5. ASSUME NEW s \in Sandboxes
      PROVE  /\ Name(s)' = Name(s) /\ Grants(s)' = Grants(s) /\ Unreached(s)' = Unreached(s)
             /\ Current(s)' = Current(s) /\ \A list : Has(list, s)' = Has(list, s)
             /\ \A p : OwnOf(s, p)' = OwnOf(s, p)
             /\ \A p, k : GrantedBy(s, p, k)' = GrantedBy(s, p, k)
    <2>1. Name(s)' = Name(s) /\ Grants(s)' = Grants(s)
        BY <1>1 DEF Grants, TmpOf, Name
    <2>2. Unreached(s)' = Unreached(s)
        BY <2>1 DEF Unreached, Reaches
    <2>3. Current(s)' = Current(s)
        BY <1>1, <2>1 DEF Current
    <2>4. \A list : Has(list, s)' = Has(list, s)
        BY <2>1 DEF Has
    <2>5. \A p : OwnOf(s, p)' = OwnOf(s, p)
        BY <1>1, <2>1 DEF OwnOf
    <2>6. \A p, k : GrantedBy(s, p, k)' = GrantedBy(s, p, k)
        BY <2>1 DEF GrantedBy
    <2>. QED  BY <2>1, <2>2, <2>3, <2>4, <2>5, <2>6
<1>6. ASSUME NEW s \in Sandboxes, HoldsOwn(s) PROVE HoldsOwn(s)'
    <2>1. /\ at'[s] \notin Undoing =>
                \A p \in Paths' : OwnOf(s, p)' = GrantedBy(s, p, Len(saved[s]))'
          /\ at'[s] \in Undoing => \A p \in Paths' \ Uses(s)' : OwnOf(s, p)' = {}
        BY <1>1, <1>2, <1>3, <1>5, <1>6 DEF HoldsOwn
    <2>2. at'[s] = "set" => Has(merged[s], s)' = {[sid |-> Name(s), access |-> Current(s).access]}'
        BY <1>1, <1>5, <1>6 DEF HoldsOwn
    <2>3. Unreached(s)' =>
              /\ \A i \in ((undone[s] + 1)..Len(saved[s]))' : Has(saved[s][i].dacl, s)' = {}
              /\ at'[s] \in {"merge", "set"} => Has(sd[s], s)' = {}
        BY <1>1, <1>5, <1>6 DEF HoldsOwn
    <2>. QED  BY <2>1, <2>2, <2>3 DEF HoldsOwn
<1>7. ASSUME NEW s \in Sandboxes, NEW t \in Sandboxes, Stranger(s, t) PROVE Stranger(s, t)'
    BY <1>1, <1>5, <1>7 DEF Stranger
<1>8. EntriesInv'
    BY <1>4, <1>6, <1>7 DEF WinInv, EntriesInv
<1>9. EndInv'
    BY <1>1 DEF WinInv, EndInv, Closed, Unregistered, Name
<1> QED BY <1>1, <1>2, <1>3, <1>8, <1>9 DEF WinInv, WinTypeOK, WinShape, ApartInv

(* All the grants of a sandbox together are what its profile names.        *)
LEMMA AllGranted ==
    ASSUME win \in WinConfigs, NEW s \in Sandboxes, NEW p
    PROVE  GrantedBy(s, p, Len(Grants(s))) = AccessOf(s, p)
<1>1. DOMAIN Grants(s) = 1..Len(Grants(s))
    BY GrantShape
<1>2. {Grants(s)[i].access : i \in {j \in 1..Len(Grants(s)) : Grants(s)[j].path = p}} =
      {g.access : g \in {h \in Range(Grants(s)) : h.path = p}}
    BY <1>1 DEF Range
<1> QED BY <1>2 DEF GrantedBy, AccessOf

LEMMA WinInvExact == WinInv => GrantsExact
<1> SUFFICES ASSUME WinInv, NEW s \in Sandboxes
             PROVE  /\ at[s] = "ok" /\ Unshared(s) => \A p \in Paths :
                          /\ AccessOf(s, p) \subseteq EntriesOf(s, p)
                          /\ \A a \in EntriesOf(s, p) :
                                \E d \in Paths : Reaches(d, p) /\ a \in AccessOf(s, d)
                    /\ at[s] \in {"err", "done"} =>
                          /\ proc[s] # "runs" /\ job[s] # "open"
                          /\ s \notin botched => s \notin tmp
                          /\ Unshared(s) /\ Unreached(s) /\ s \notin botched =>
                                Name(s) \notin profiles /\ \A p \in Paths : EntriesOf(s, p) = {}
    BY DEF GrantsExact
<1>1. WinShape /\ InStep(s) /\ EntriesInv /\ Closed(s) /\ Unregistered(s) /\ win \in WinConfigs
    BY DEF WinInv, WinTypeOK, EndInv, WinShape
<1>2. Followed(s) => HoldsOwn(s)
    BY <1>1 DEF EntriesInv
<1>a. ASSUME NEW p \in Paths
      PROVE  /\ OwnOf(s, p) \subseteq EntriesOf(s, p)
             /\ \A a \in EntriesOf(s, p) : \E d \in Paths : Reaches(d, p) /\ a \in OwnOf(s, d)
    BY ListFrom DEF OwnOf, EntriesOf
<1>3. ASSUME at[s] = "ok", Unshared(s), NEW p \in Paths
      PROVE  /\ AccessOf(s, p) \subseteq EntriesOf(s, p)
             /\ \A a \in EntriesOf(s, p) :
                   \E d \in Paths : Reaches(d, p) /\ a \in AccessOf(s, d)
  <2>1. Followed(s) /\ at[s] \notin Undoing
    BY <1>3 DEF Followed, Undoing
  <2>2. \A d \in Paths : OwnOf(s, d) = GrantedBy(s, d, Len(saved[s]))
    BY <1>2, <2>1 DEF HoldsOwn
  <2>3. Len(saved[s]) = Len(Grants(s))
    BY <1>1, <1>3 DEF InStep
  <2>4. \A d \in Paths : OwnOf(s, d) = AccessOf(s, d)
    BY <1>1, <2>2, <2>3, AllGranted
  <2> QED BY <1>a, <2>4
<1>4. ASSUME at[s] \in {"err", "done"}, Unshared(s), Unreached(s), s \notin botched
      PROVE  Name(s) \notin profiles /\ \A p \in Paths : EntriesOf(s, p) = {}
  <2>1. Followed(s) /\ at[s] \in Undoing
    BY <1>4 DEF Followed, Undoing
  <2>2. undone[s] = Len(saved[s]) /\ Len(saved[s]) \in Nat
    BY <1>1, <1>4, Lengths DEF InStep
  <2>3. \A n \in Nat : (n + 1)..n = {}
    BY SMT
  <2>4. Uses(s) = {}
    BY <1>4, <2>2, <2>3 DEF Uses
  <2>a. \A p \in Paths : OwnOf(s, p) = {}
    BY <1>2, <2>1, <2>4 DEF HoldsOwn
  <2>5. \A p \in Paths : EntriesOf(s, p) = {}
    BY <1>a, <2>a
  <2>6. Name(s) \notin profiles
    BY <1>1, <1>4 DEF Unregistered, Unshared
  <2> QED BY <2>5, <2>6
<1> QED BY <1>1, <1>3, <1>4 DEF Closed

(* A Windows sandbox that has started has an entry for just the paths of   *)
(* its profile and what is below them, and one that is over has left       *)
(* nothing, unless it granted a path after itself or after a directory     *)
(* above it: what GrantsExact says of launch() and of the handle's wait()  *)
(* and drop, for any number of sandboxes over any tree of paths.           *)
THEOREM GrantsHold == PlatformSpec => []GrantsExact
<1>1. PlatformInit => WinInv
    BY WinInvInit DEF PlatformInit
<1>2. WinInv /\ [PlatformNext]_platformVars => WinInv'
    BY WinInvStep, WinInvKept DEF PlatformNext, OnMac, platformVars
<1> QED BY <1>1, <1>2, WinInvExact, PTL DEF PlatformSpec

-----------------------------------------------------------------------------
(* The audit trail: what has run is on record, and what is blocked does    *)
(* not run, for any calls, callers and sizes.                              *)

Serving == {"open", "write", "line", "reply"}

(* The call that is served is still held, and as it was made.              *)
Held == st[cur.who] = "taken" /\ cur.who \notin touched

(* The supervisor's place in handle_notification against what it has       *)
(* written for the call it serves.                                         *)
Progress ==
    /\ sup \in Serving => cur \in [who : Callers, call : Calls]
    /\ sup \in Serving /\ Held => call[cur.who] = cur.call
    /\ noted \in Nat /\ todo \in Nat
    /\ sup = "open" => noted = 0
    /\ sup \in {"write", "line"} =>
           /\ todo > 0
           /\ open["unotify"] /\ Held => noted + todo = Lines(cur.call, cur.call)
    /\ sup = "reply" /\ opened /\ open["unotify"] /\ Held =>
           noted = Lines(cur.call, cur.call)

(* The callers' calls and the call let through last.                       *)
Passed ==
    /\ st \in [Callers -> {"idle", "wait", "taken", "dead"}]
    /\ call \in [Callers -> Calls \cup {None}]
    /\ \A c \in Callers : st[c] = "wait" => call[c] \in Calls
    /\ open \in [Pipes -> BOOLEAN]
    /\ q \in Pipes
    /\ last # None => /\ last.seen \in Calls
                      /\ ~last.touched => last.call = last.seen
                      /\ last.opened => ~Refused(last.seen)

NoteInv == Progress /\ Passed /\ RunMeansNoted

(* The number of lines of a call is a natural number.                      *)
LEMMA LinesNat ==
    ASSUME NEW x \in Calls, NEW y
    PROVE  Lines(x, y) \in Nat
<1>1. x.dest \in Seq({"inet", "bridge", "other", "unreadable", "none"})
    BY CallShapes
<1>2. IsFiniteSet(1..Len(x.dest))
    <2>1. Len(x.dest) \in Int
        BY SMT, <1>1
    <2>. QED  BY SMT, <2>1, FS_Interval
<1>3. Bad(x) \subseteq 1..Len(x.dest)
    BY SMT, <1>1 DEF Bad, Foreign, Unreadable, Heads
<1>4. ASSUME NEW S, S \subseteq Bad(x) PROVE Cardinality(S) \in Nat
    <2>1. S \subseteq 1..Len(x.dest)
        BY <1>3, <1>4
    <2>. QED  BY <1>2, <2>1, FS_Subset, FS_CardinalityType
<1>. DEFINE S == {i \in Bad(x) : (IF x.sys = "sendmmsg" THEN y ELSE x).dest[i] = "inet"}
<1>5. S \subseteq Bad(x)
    OBVIOUS
<1>6. Cardinality(S) \in Nat
    BY <1>4, <1>5
<1>. QED  BY <1>6 DEF Lines

(* handle_notification looks at every address of a call it does not        *)
(* refuse.                                                                 *)
LEMMA NotRefused ==
    ASSUME NEW x \in Calls, cfg.enforce, ~Refused(x)
    PROVE  ~HasForeign(x)
<1>1. x.dest \in Seq({"inet", "bridge", "other", "unreadable", "none"})
    BY CallShapes
<1>2. Len(x.dest) <= Inspected
    BY SMT, <1>1, CallShapes, AuditSizes DEF Refused, TooLong
<1>3. \A i \in DOMAIN x.dest : i \in Heads(x)
    BY SMT, <1>1, <1>2, AuditSizes DEF Heads
<1>. QED  BY <1>3 DEF HasForeign, Refused, Bad, Foreign

(* A pipe's read end is closed and never opened again.                     *)
LEMMA CloseOne ==
    ASSUME NEW f \in [Pipes -> BOOLEAN], NEW p, NEW g,
           g = f \/ g = [f EXCEPT ![p] = FALSE]
    PROVE  g \in [Pipes -> BOOLEAN] /\ (g["unotify"] => f["unotify"])
<1>1. "unotify" \in Pipes
    BY DEF Pipes
<1>2. CASE g = f
    BY <1>2
<1>3. CASE g = [f EXCEPT ![p] = FALSE]
    <2>1. g \in [Pipes -> BOOLEAN]
        BY <1>3
    <2>2. g["unotify"] => f["unotify"]
        BY <1>1, <1>3
    <2>. QED  BY <2>1, <2>2
<1>. QED  BY <1>2, <1>3

LEMMA InitNote == Init => NoteInv
BY SMT DEF Init, NoteInv, Progress, Passed, RunMeansNoted, Serving, Held, Pipes

(* One step per action that touches the supervisor, the calls or the       *)
(* pipe's read end.                                                        *)
LEMMA StepNote == NoteInv /\ [Next]_vars => NoteInv'
<1>. SUFFICES ASSUME NoteInv, [Next]_vars PROVE NoteInv'
    OBVIOUS
<1>. USE DEF NoteInv, Progress, Passed, RunMeansNoted, Serving, Held
<1>c. ASSUME cfg' = cfg
      PROVE  (\A x, y : Lines(x, y)' = Lines(x, y)) /\ (\A x : Refused(x)' = Refused(x))
    BY <1>c DEF Lines, TooLong, Bad, Foreign, Heads, Refused, Unreadable
<1>l. ASSUME UNCHANGED <<cfg, last>>, open'["unotify"] => open["unotify"]
      PROVE  RunMeansNoted'
    <2>1. Lines(last.call, last.call)' = Lines(last.call, last.call)
        BY <1>c, <1>l
    <2>. QED  BY <1>l, <2>1
<1>m. ASSUME UNCHANGED <<cfg, cur>>
      PROVE  Lines(cur.call, cur.call)' = Lines(cur.call, cur.call)
    BY <1>c, <1>m
<1>a. ASSUME UNCHANGED <<cfg, st, call, touched, supVars, last, noted, open, q>> PROVE NoteInv'
    <2>1. UNCHANGED <<cfg, st, call, touched, sup, cur, opened, todo, last, noted, open, q>>
        BY <1>a DEF supVars
    <2>2. Progress'
        BY <1>m, <2>1
    <2>3. Passed'
        BY <1>c, <2>1
    <2>. QED  BY <1>l, <2>1, <2>2, <2>3
<1>b. ASSUME UNCHANGED <<cfg, supVars, last, noted, open, q>>,
             NEW C \in SUBSET Callers, NEW s \in {"idle", "dead"}, Leave(C, s)
      PROVE  NoteInv'
    <2>1. UNCHANGED <<cfg, sup, cur, opened, todo, last, noted, open, q>>
        BY <1>b DEF supVars
    <2>2. \A c \in Callers : \/ UNCHANGED <<st[c], call[c]>> /\ (c \in touched' <=> c \in touched)
                             \/ st'[c] \in {"idle", "dead"}
        BY <1>b DEF Leave
    <2>3. sup \in Serving /\ Held' => Held /\ call'[cur.who] = call[cur.who]
        BY <2>1, <2>2
    <2>4. Progress'
        BY <1>m, <2>1, <2>3
    <2>5. Passed'
        BY <1>b, <1>c, <2>1 DEF Leave
    <2>. QED  BY <1>l, <2>1, <2>4, <2>5
<1>1. ASSUME NEW c \in Callers, Makes(c) PROVE NoteInv'
    BY SMT, <1>1, <1>c DEF Makes, supVars, readVars, histVars
<1>r. ASSUME NEW c \in Callers, Rewrites(c) PROVE NoteInv'
    <2>1. UNCHANGED <<cfg, st, sup, cur, opened, todo, last, noted, open, q>>
        BY <1>r DEF Rewrites, supVars, readVars, histVars
    <2>2. PICK x \in Calls : call' = [call EXCEPT ![c] = x]
        BY <1>r DEF Rewrites, Alike
    <2>3. touched' = touched \cup {c}
        BY <1>r DEF Rewrites
    <2>4. sup \in Serving /\ Held' => Held /\ call'[cur.who] = call[cur.who]
        BY <2>1, <2>2, <2>3
    <2>5. Progress'
        BY <1>m, <2>1, <2>4
    <2>6. Passed'
        BY <1>c, <2>1, <2>2
    <2>. QED  BY <1>l, <2>1, <2>5, <2>6
<1>2. ASSUME NEW c \in Callers, Interrupted(c) PROVE NoteInv'
    BY <1>2, <1>b DEF Interrupted, readVars, histVars
<1>3. CASE ChildEnds
    BY <1>3, <1>b DEF ChildEnds, readVars, histVars
<1>4. ASSUME NEW c \in Callers, LeftoverEnds(c) PROVE NoteInv'
    BY <1>4, <1>b DEF LeftoverEnds, readVars, histVars
<1>5. ASSUME NEW c \in Callers, Enosys(c) PROVE NoteInv'
    BY <1>5, <1>b DEF Enosys, readVars, histVars
<1>6. CASE Asks
    BY <1>6, <1>a DEF Asks, readVars, histVars
<1>7. ASSUME NEW c \in Callers, SupRecv(c) PROVE NoteInv'
    BY <1>7 DEF SupRecv, readVars, histVars
<1>8. CASE SupEnoent
    BY <1>8, <1>c, <1>l DEF SupEnoent, sandboxVars, readVars, histVars
<1>9. CASE SupOpen
    <2>1. cur \in [who : Callers, call : Calls] /\ noted = 0
        BY <1>9 DEF SupOpen
    <2>2. UNCHANGED <<cfg, st, call, touched, last, noted, open, q>>
        BY <1>9 DEF SupOpen, sandboxVars, readVars, histVars
    <2>3. \A x, y : Lines(x, y)' = Lines(x, y)
        BY <1>c, <2>2
    <2>4. Passed' /\ RunMeansNoted'
        BY <1>c, <1>l, <2>2
    <2>5. sup' = IF todo' = 0 THEN "reply" ELSE "write"
        BY <1>9 DEF SupOpen
    <2>6. CASE ~opened' /\ todo' = 0 /\ cur' = cur
        BY <2>1, <2>2, <2>4, <2>5, <2>6, <1>9 DEF SupOpen
    <2>7. ASSUME NEW x \in Readings, NEW y \in Readings,
                 cur' = [cur EXCEPT !.call = x], todo' = Lines(x, y)
          PROVE  NoteInv'
        <3>1. x \in Calls /\ (Held => x = cur.call /\ y = cur.call)
            BY <2>1, <2>7 DEF Readings, Alike
        <3>2. cur' = [who |-> cur.who, call |-> x]
            BY <2>1, <2>7
        <3>3. cur' \in [who : Callers, call : Calls] /\ cur'.who = cur.who /\ cur'.call = x
            BY <2>1, <3>1, <3>2
        <3>4. todo' \in Nat
            BY <2>7, <3>1, LinesNat
        <3>5. Held' = Held /\ (Held => todo' = Lines(cur.call, cur.call)' /\ call[cur.who] = x)
            BY <1>9, <2>2, <2>3, <2>7, <3>1, <3>3 DEF SupOpen
        <3>6. Progress'
            BY SMT, <2>1, <2>2, <2>5, <3>3, <3>4, <3>5
        <3>. QED  BY <2>4, <3>6
    <2>. QED  BY <1>9, <2>6, <2>7 DEF SupOpen
<1>10. CASE SupSummary
    BY <1>10, <1>c, <1>l, <1>m DEF SupSummary, sandboxVars, readVars, histVars
<1>11. CASE SupLine
    <2>1. UNCHANGED <<cfg, st, call, touched, cur, opened, last, open, q>>
        BY <1>11 DEF SupLine, sandboxVars, readVars
    <2>2. cur \in [who : Callers, call : Calls]
        BY <1>11 DEF SupLine
    <2>3. Lines(cur.call, cur.call)' = Lines(cur.call, cur.call)
        BY <1>c, <2>1
    <2>4. Passed' /\ RunMeansNoted'
        BY <1>c, <1>l, <2>1
    <2>5. Progress'
        BY SMT, <1>11, <2>1, <2>2, <2>3 DEF SupLine
    <2>. QED  BY <2>4, <2>5
<1>12. CASE SupReply
    <2>1. UNCHANGED <<cfg, open, q>> /\ sup' = "recv" /\ noted' = 0 /\ todo' = todo
        BY <1>12 DEF SupReply, readVars
    <2>2. cur \in [who : Callers, call : Calls]
        BY <1>12 DEF SupReply
    <2>3. (\A x, y : Lines(x, y)' = Lines(x, y)) /\ (\A x : Refused(x)' = Refused(x))
        BY <1>c, <2>1
    <2>4. Progress'
        BY <2>1
    <2>5. CASE st[cur.who] = "taken" /\ ~(opened /\ Refused(cur.call))
        <3>1. last' = [call |-> call[cur.who], seen |-> cur.call, opened |-> opened,
                       noted |-> noted, touched |-> cur.who \in touched]
            BY <1>12, <2>5 DEF SupReply
        <3>2. st' = [st EXCEPT ![cur.who] = "idle"] /\ call' = [call EXCEPT ![cur.who] = None]
            BY <1>12, <2>5 DEF SupReply
        <3>3. sup = "reply"
            BY <1>12 DEF SupReply
        <3>4. RunMeansNoted'
            BY <2>1, <2>3, <2>5, <3>1, <3>3
        <3>5. Passed'
            BY <2>1, <2>2, <2>3, <2>5, <3>1, <3>2, <3>3
        <3>. QED  BY <2>4, <3>4, <3>5
    <2>6. CASE st[cur.who] = "taken" /\ opened /\ Refused(cur.call)
        <3>1. last' = None
            BY <1>12, <2>6 DEF SupReply
        <3>2. st' = [st EXCEPT ![cur.who] = "idle"] /\ call' = [call EXCEPT ![cur.who] = None]
            BY <1>12, <2>6 DEF SupReply
        <3>. QED  BY <2>1, <2>2, <2>4, <3>1, <3>2
    <2>7. CASE st[cur.who] # "taken"
        <3>1. UNCHANGED <<st, call, last>>
            BY <1>12, <2>7 DEF SupReply
        <3>. QED  BY <2>1, <2>3, <2>4, <3>1
    <2>. QED  BY <2>5, <2>6, <2>7
<1>13. CASE SupFlush
    BY <1>13, <1>c, <1>l DEF SupFlush, sandboxVars, readVars, histVars
<1>14. CASE SupKilled
    BY <1>14, <1>c, <1>l DEF SupKilled, sandboxVars, readVars, histVars
<1>15. CASE DnsThread
    BY <1>15, <1>a DEF DnsThread, DnsRecv, DnsLine, DnsSummary, sandboxVars, readVars, histVars
<1>16. CASE DnsKilled
    BY <1>16, <1>a DEF DnsKilled, sandboxVars, readVars, histVars
<1>17. CASE RdReap \/ RdPoll \/ RdRead
    BY <1>17, <1>a DEF RdReap, RdPoll, RdRead, sandboxVars, histVars
<1>18. CASE RdTake \/ RdEmit
    <2>1. UNCHANGED <<cfg, st, call, touched, supVars, last, noted>>
        BY <1>18 DEF RdTake, RdEmit, sandboxVars, histVars
    <2>2. q' \in Pipes
        BY <1>18 DEF RdTake, RdEmit, NextPipe, Pipes
    <2>3. open' \in [Pipes -> BOOLEAN] /\ (open'["unotify"] => open["unotify"])
        <3>1. open' = open \/ open' = [open EXCEPT ![q] = FALSE]
            BY <1>18 DEF RdTake, RdEmit
        <3>. QED  BY <3>1, CloseOne
    <2>4. (\A x, y : Lines(x, y)' = Lines(x, y)) /\ (\A x : Refused(x)' = Refused(x))
        BY <1>c, <2>1
    <2>5. Progress'
        BY <2>1, <2>3, <2>4 DEF supVars
    <2>6. Passed' /\ RunMeansNoted'
        BY <2>1, <2>2, <2>3, <2>4
    <2>. QED  BY <2>5, <2>6
<1>19. CASE Over \/ UNCHANGED vars
    BY <1>19, <1>a DEF Over, vars, sandboxVars, readVars, histVars
<1>. QED
    BY <1>1, <1>r, <1>2, <1>3, <1>4, <1>5, <1>6, <1>7, <1>8, <1>9, <1>10, <1>11, <1>12,
       <1>13, <1>14, <1>15, <1>16, <1>17, <1>18, <1>19
    DEF Next, Sandbox, Supervisor, Reader

(* A call that ran, could be looked at and was not rewritten is in the     *)
(* pipe or in the drop counter, for all callers, calls and sizes.          *)
THEOREM NotedHolds == Spec => []RunMeansNoted
<1>1. NoteInv => RunMeansNoted
    BY DEF NoteInv
<1>. QED  BY <1>1, InitNote, StepNote, PTL DEF Spec

(* enforce_network: handle_notification lets no call run in which it has   *)
(* read a foreign address, whatever the length of the batch, and only a    *)
(* call rewritten by another thread runs with one.                         *)
THEOREM BlockedHolds == Spec => []BlockedNeverRuns
<1>1. NoteInv => BlockedNeverRuns
    BY NotRefused DEF NoteInv, Passed, BlockedNeverRuns
<1>. QED  BY <1>1, InitNote, StepNote, PTL DEF Spec
==============================================================================
