--------------------------- MODULE VmStoreProofs ---------------------------
(***************************************************************************)
(* Proofs about VmStore, for any number of commands of every kind: which   *)
(* process may hold a lock on which file, and what follows from it for the *)
(* VMs, for vm.json and for the answer of vm stop.                         *)
(*                                                                         *)
(* Nearly everything the lock needs is local to a command: what its        *)
(* descriptor and its lock may be, given where it is in its program        *)
(* (Fits).  Only the mutual exclusion of the locks relates two commands.   *)
(***************************************************************************)
EXTENDS VmStore, TLAPS

(* A leaf goes to Zenon unless it names another prover.                    *)
USE Zenon

Holding == {"s_passt", "s_save", "s_fork", "s_poll"}
Probing(c) == probe[c] \in {"opened", "locked"}
Up(c) == c \in Starts /\ KeepsLock(c)

Fits(c) ==
    /\ fd[c] # 0 <=> pc[c] \in Holding \/ pc[c] = "s_flock" \/ Probing(c)
    /\ probe[c] # "idle" => pc[c] \in ProbePoints
    /\ pc[c] \in Holding \/ probe[c] = "locked" => locked[c] = fd[c]
    /\ locked[c] # 0 => pc[c] \in Holding \/ probe[c] = "locked" \/ Up(c)
    /\ pc[c] \in Holding => c \in Starts
    /\ c \in Starts => (Up(c) <=> dfd[c] # 0)
    /\ Up(c) => locked[c] = dfd[c] /\ (pc[c] = "s_poll" \/ pc[c] \in Ended)

AllFit == \A c \in Cmds : Fits(c)

Exclusive ==
    \A c, d \in Cmds : locked[c] # 0 /\ locked[c] = locked[d] => c = d

LockInv == VmTypeOK /\ AllFit /\ Exclusive

-----------------------------------------------------------------------------
(* Type correctness.                                                       *)

LEMMA Kinds ==
    /\ Starts \subseteq Cmds /\ Stops \subseteq Cmds /\ Lists \subseteq Cmds
    /\ Removes \subseteq Cmds /\ Prunes \subseteq Cmds /\ Resets \subseteq Cmds
    /\ Stops \cap Starts = {} /\ Lists \cap Starts = {}
    /\ Removes \cap Starts = {} /\ Prunes \cap Starts = {}
    /\ Resets \cap Starts = {}
BY CmdsAssumption DEF Cmds

LEMMA TypeInit == Init => VmTypeOK
<1> SUFFICES ASSUME Init PROVE VmTypeOK OBVIOUS
<1>1. \A c \in Cmds : FirstPc(c) \in PcValues
    BY DEF FirstPc, PcValues, ProbePoints
<1> QED BY SMT, <1>1, TriesAssumption DEF Init, NoVm, VmTypeOK

LEMMA TypeExit ==
    ASSUME VmTypeOK, NEW c \in Cmds, NEW l \in PcValues, Exit(c, l)
    PROVE  /\ pc' \in [Cmds -> PcValues] /\ fd' \in [Cmds -> Nat]
           /\ locked' \in [Cmds -> Nat]
BY DEF Exit, Goto, VmTypeOK

LEMMA TypeStartError ==
    ASSUME VmTypeOK, NEW s \in Starts, StartError(s), UNCHANGED files,
           probe' \in [Cmds -> {"idle", "opened", "locked", "yes", "no"}]
    PROVE  VmTypeOK'
<1>1. s \in Cmds /\ "failed" \in PcValues
    BY Kinds DEF PcValues, Ended
<1>2. Exit(s, "failed") /\ UNCHANGED <<dfd, dmn, doomed, locals>>
    BY DEF StartError
<1>3. passt' \in [Starts -> {"none", "running", "dead"}]
    BY DEF StartError, VmTypeOK
<1> QED BY <1>1, <1>2, <1>3, TypeExit DEF VmTypeOK, files, locals

(* Every label the actions go to is one.                                   *)
LEMMA Labels ==
    {"s_image", "s_probe", "s_mknew", "s_mkold", "s_overlay",
     "s_mkoverlay", "s_lock", "s_flock", "s_passt", "s_save",
     "s_fork", "s_poll", "t_probe", "t_pid", "t_signal", "t_wait",
     "t_again", "t_passt", "t_final", "l_pid", "r_list", "r_unlink",
     "p_probe", "p_passt", "p_sock", "p_trunc", "x_load", "x_rm",
     "x_mk", "done", "failed", "killed"} \subseteq PcValues
BY DEF PcValues, ProbePoints, Ended

(* A step that only moves c and perhaps takes its probe's answer.          *)
LEMMA TypeMove ==
    ASSUME VmTypeOK, NEW c \in Cmds, NEW l \in PcValues, Goto(c, l),
           probe' = probe \/ probe' = [probe EXCEPT ![c] = "idle"],
           UNCHANGED <<files, fd, dfd, locked, kernel, locals>>
    PROVE  VmTypeOK'
BY DEF VmTypeOK, Goto, files, kernel, locals

LEMMA TypeProbe ==
    ASSUME VmTypeOK, NEW c \in Cmds, ProbeStep(c) PROVE VmTypeOK'
<1>1. CASE ProbeOpen(c)
    BY SMT, <1>1 DEF ProbeOpen, VmTypeOK, files, kernel, locals
<1>2. CASE ProbeLock(c)
    BY SMT, <1>2 DEF ProbeLock, VmTypeOK, files, kernel
<1>3. CASE ProbeUnlock(c)
    BY <1>3 DEF ProbeUnlock, VmTypeOK, files, kernel, locals
<1> QED BY <1>1, <1>2, <1>3 DEF ProbeStep

LEMMA TypeCliDies ==
    ASSUME VmTypeOK, NEW c \in Cmds, CliDies(c) PROVE VmTypeOK'
<1>1. Exit(c, "killed") /\ UNCHANGED <<files, dfd, dmn, passt, locals>>
    BY DEF CliDies
<1>2. /\ probe' \in [Cmds -> {"idle", "opened", "locked", "yes", "no"}]
      /\ doomed' \subseteq Pids
    BY DEF CliDies, VmTypeOK
<1> QED BY <1>1, <1>2, TypeExit, Labels DEF VmTypeOK, files, locals

LEMMA TypeStart ==
    ASSUME VmTypeOK, NEW s \in Starts, StartStep(s) \/ StartFails(s)
    PROVE  VmTypeOK'
<1>a. s \in Cmds
    BY Kinds
<1>b. probe \in [Cmds -> {"idle", "opened", "locked", "yes", "no"}]
    BY DEF VmTypeOK
<1>c. ASSUME NEW l, NEW a, Answer(s, l, a)
      PROVE  /\ probe' = [probe EXCEPT ![s] = "idle"]
             /\ probe' \in [Cmds -> {"idle", "opened", "locked", "yes", "no"}]
    BY <1>b, <1>c DEF Answer
<1>d. ASSUME StartError(s), UNCHANGED <<files, probe>> PROVE VmTypeOK'
    BY <1>b, <1>d, TypeStartError
<1>1. CASE StartImage(s)
    BY <1>1, <1>a, <1>d, TypeMove, Labels DEF StartImage
<1>2. CASE StartProbed(s)
  <2>1. CASE StartError(s)
    BY <1>2, <1>c, <2>1, TypeStartError DEF StartProbed
  <2>2. CASE ~StartError(s)
    BY <1>2, <1>a, <1>c, <2>2, TypeMove, Labels DEF StartProbed
  <2> QED BY <2>1, <2>2
<1>3. CASE StartMkdir(s)
  <2>1. CASE StartError(s) /\ UNCHANGED dir
    BY <1>3, <1>d, <2>1 DEF StartMkdir, files
  <2>2. CASE Goto(s, "s_overlay") /\ dir' = "present"
             /\ UNCHANGED <<fd, dfd, locked, kernel, locals>>
    BY <1>3, <1>a, <2>2, Labels DEF StartMkdir, VmTypeOK, kernel, locals, Goto
  <2> QED BY <1>3, <2>1, <2>2 DEF StartMkdir
<1>4. CASE StartOverlay(s)
    BY <1>4, <1>a, TypeMove, Labels DEF StartOverlay
<1>5. CASE StartMkOverlay(s)
    BY <1>5, <1>a, Labels DEF StartMkOverlay, VmTypeOK, kernel, locals, Goto
<1>6. CASE StartOpenLock(s)
  <2>1. CASE StartError(s) /\ UNCHANGED files
    BY <1>6, <1>d, <2>1 DEF StartOpenLock
  <2>2. CASE ~(StartError(s) /\ UNCHANGED files)
    <3>1. /\ Goto(s, "s_flock") /\ fd' = [fd EXCEPT ![s] = ino']
          /\ UNCHANGED <<dir, config, overlay, sock>>
          /\ UNCHANGED <<dfd, locked, kernel, locals, probe>>
      BY <1>6, <2>2 DEF StartOpenLock
    <3>2. ino' \in Nat /\ inodes' \in Nat /\ text' \in Pids \cup {None}
      BY SMT, <1>6, <2>2 DEF StartOpenLock, VmTypeOK
    <3> QED BY <1>a, <3>1, <3>2, Labels DEF VmTypeOK, kernel, locals, Goto
  <2> QED BY <2>1, <2>2
<1>7. CASE StartFlock(s)
  <2>1. CASE StartError(s)
    <3>1. UNCHANGED <<dir, ino, inodes, config, overlay, sock, probe>>
      BY <1>7 DEF StartFlock
    <3>2. text' \in Pids \cup {None}
      BY <1>7, <1>a DEF StartFlock, VmTypeOK, Pids
    <3>3. Exit(s, "failed") /\ UNCHANGED <<dfd, dmn, doomed, locals>>
      BY <2>1 DEF StartError
    <3>4. passt' \in [Starts -> {"none", "running", "dead"}]
      BY <2>1 DEF StartError, VmTypeOK
    <3> QED BY <1>a, <3>1, <3>2, <3>3, <3>4, TypeExit, Labels DEF VmTypeOK, locals
  <2>2. CASE ~StartError(s)
    <3>1. /\ Goto(s, "s_passt") /\ locked' = [locked EXCEPT ![s] = fd[s]]
          /\ UNCHANGED <<dir, ino, inodes, config, overlay, sock, probe>>
          /\ UNCHANGED <<fd, dfd, kernel, locals>>
      BY <1>7, <2>2 DEF StartFlock
    <3>2. text' \in Pids \cup {None}
      BY <1>7, <2>2, <1>a DEF StartFlock, VmTypeOK, Pids
    <3> QED BY <1>a, <3>1, <3>2, Labels DEF VmTypeOK, kernel, locals, Goto
  <2> QED BY <2>1, <2>2
<1>8. CASE StartPasst(s)
    BY <1>8, <1>a, Labels DEF StartPasst, VmTypeOK, files, locals, Goto
<1>9. CASE StartSave(s)
  <2>1. CASE StartError(s) /\ UNCHANGED config
    BY <1>9, <1>d, <2>1 DEF StartSave, files
  <2>2. CASE ~(StartError(s) /\ UNCHANGED config)
    BY <1>9, <1>a, <2>2, Labels DEF StartSave, VmTypeOK, kernel, locals, Goto
  <2> QED BY <2>1, <2>2
<1>10. CASE StartFork(s)
    BY <1>10, <1>a, Labels DEF StartFork, VmTypeOK, locals, Goto
<1>11. CASE StartReturn(s)
    BY <1>11, <1>a, TypeExit, Labels
        DEF StartReturn, VmTypeOK, files, kernel, locals
<1>12. CASE StartFails(s)
    BY <1>12, <1>d DEF StartFails
<1> QED BY <1>1, <1>2, <1>3, <1>4, <1>5, <1>6, <1>7, <1>8, <1>9, <1>10,
           <1>11, <1>12 DEF StartStep

LEMMA TypeVm ==
    ASSUME VmTypeOK, NEW s \in Starts,
           DaemonStep(s) \/ DaemonDies(s) \/ PasstExits(s)
    PROVE  VmTypeOK'
<1>1. CASE DaemonUpdate(s)
  <2>1. text' \in Pids \cup {None}
    BY <1>1 DEF DaemonUpdate, VmTypeOK, Pids
  <2>2. dfd' \in [Starts -> Nat] /\ locked' \in [Cmds -> Nat]
    BY SMT, <1>1 DEF DaemonUpdate, DaemonCloses, VmTypeOK
  <2> QED BY <1>1, <2>1, <2>2 DEF DaemonUpdate, VmTypeOK, locals
<1>2. CASE DaemonRuns(s)
    BY <1>2 DEF DaemonRuns, VmTypeOK, locals
<1>3. CASE DaemonDies(s)
    BY <1>3 DEF DaemonDies, DaemonCloses, VmTypeOK, files, locals
<1>4. CASE PasstExits(s)
    BY <1>4 DEF PasstExits, VmTypeOK, files, locals
<1> QED BY <1>1, <1>2, <1>3, <1>4 DEF DaemonStep

LEMMA TypeStop ==
    ASSUME VmTypeOK, NEW c \in Stops, StopStep(c) PROVE VmTypeOK'
<1>a. c \in Cmds /\ c \in Stops \cup Lists
    BY Kinds
<1>b. ASSUME NEW l, NEW a, Answer(c, l, a)
      PROVE  probe' = [probe EXCEPT ![c] = "idle"]
    BY <1>b DEF Answer
<1>c. AfterWait(c) \in PcValues
    BY Labels DEF AfterWait
<1>d. PidAlive(target[c]) => target[c] \in Pids
    BY DEF PidAlive, Pids
<1>1. CASE StopProbed(c)
    BY <1>1, <1>a, <1>b, TypeMove, Labels DEF StopProbed
<1>2. CASE StopReadPid(c)
  <2>1. ReadLockPid \subseteq Pids \cup {None}
    BY Kinds DEF ReadLockPid, Openers, Pids, VmTypeOK
  <2> QED BY SMT, <1>2, <1>a, <2>1, Labels
          DEF StopReadPid, VmTypeOK, files, kernel, Goto
<1>3. CASE StopSignal(c)
  <2>1. /\ doomed' \subseteq Pids /\ UNCHANGED <<dmn, passt, locals>>
        /\ UNCHANGED <<files, fd, dfd, locked, probe>>
    BY <1>3, <1>d DEF StopSignal, VmTypeOK
  <2>2. \E l \in PcValues : Goto(c, l)
    BY <1>3, <1>c, Labels DEF StopSignal
  <2> QED BY <1>a, <2>1, <2>2 DEF VmTypeOK, files, locals, Goto
<1>4. CASE StopWait(c)
  <2>1. CASE Answer(c, "t_wait", "no") /\ Goto(c, AfterWait(c))
             /\ UNCHANGED tries
    BY <1>4, <1>a, <1>b, <1>c, <2>1, TypeMove DEF StopWait, locals
  <2>2. CASE ~(Answer(c, "t_wait", "no") /\ Goto(c, AfterWait(c))
               /\ UNCHANGED tries)
    <3>1. /\ probe' = [probe EXCEPT ![c] = "idle"]
          /\ UNCHANGED <<files, fd, dfd, locked, kernel, target, todo, watch>>
      BY <1>4, <1>b, <2>2 DEF StopWait
    <3>2. tries' = [tries EXCEPT ![c] = @ + 1]
      BY <1>4, <2>2 DEF StopWait
    <3>3. \E l \in PcValues : Goto(c, l)
      BY <1>4, <1>c, <2>2, Labels DEF StopWait
    <3>4. tries[c] < MaxTries
      BY <1>4, <2>2 DEF StopWait
    <3> QED BY SMT, <1>a, <3>1, <3>2, <3>3, <3>4, TriesAssumption
            DEF VmTypeOK, files, kernel, Goto
  <2> QED BY <2>1, <2>2
<1>5. CASE StopAgain(c)
  <2>1. /\ doomed' \subseteq Pids /\ UNCHANGED <<dmn, passt, locals>>
        /\ UNCHANGED <<files, fd, dfd, locked>> /\ Goto(c, "t_passt")
    BY <1>5, <1>d DEF StopAgain, VmTypeOK
  <2>2. probe' = [probe EXCEPT ![c] = "idle"]
    BY <1>5, <1>b DEF StopAgain
  <2> QED BY <1>a, <2>1, <2>2, Labels DEF VmTypeOK, files, locals, Goto
<1>6. CASE StopPasst(c)
    BY <1>6, <1>a, Labels
        DEF StopPasst, KillPasst, VmTypeOK, files, locals, Goto
<1>7. CASE StopFinal(c)
    BY <1>7, <1>a, <1>b, TypeMove, Labels DEF StopFinal
<1> QED BY <1>1, <1>2, <1>3, <1>4, <1>5, <1>6, <1>7 DEF StopStep

LEMMA TypeList ==
    ASSUME VmTypeOK, NEW c \in Lists, ListStep(c) PROVE VmTypeOK'
<1>a. c \in Cmds /\ c \in Stops \cup Lists
    BY Kinds
<1>1. CASE ListProbed(c)
    BY <1>1, <1>a, TypeMove, Labels DEF ListProbed, Answer
<1>2. CASE ListReadPid(c)
  <2>1. ReadLockPid \subseteq Pids \cup {None}
    BY Kinds DEF ReadLockPid, Openers, Pids, VmTypeOK
  <2> QED BY <1>2, <1>a, <2>1, Labels
          DEF ListReadPid, VmTypeOK, files, kernel, Goto
<1> QED BY <1>1, <1>2 DEF ListStep

LEMMA TypeRemove ==
    ASSUME VmTypeOK, NEW c \in Removes, RemoveStep(c) PROVE VmTypeOK'
<1>a. c \in Cmds
    BY Kinds
<1>1. CASE RemoveProbed(c)
    BY <1>1, <1>a, TypeMove, Labels DEF RemoveProbed, Answer
<1>2. CASE RemoveList(c)
    BY <1>2, <1>a, Labels DEF RemoveList, Present, VmTypeOK, files, kernel, Goto
<1>3. ASSUME NEW e \in Entries, RemoveEntry(c, e) PROVE VmTypeOK'
    BY <1>3 DEF RemoveEntry, VmTypeOK, kernel
<1>4. CASE RemoveDir(c)
    BY SMT, <1>4, <1>a, Labels DEF RemoveDir, VmTypeOK, kernel, locals, Goto
<1> QED BY <1>1, <1>2, <1>3, <1>4 DEF RemoveStep

LEMMA TypePrune ==
    ASSUME VmTypeOK, NEW c \in Prunes, PruneStep(c) PROVE VmTypeOK'
<1>a. c \in Cmds
    BY Kinds
<1>1. CASE PruneList(c) \/ PruneProbed(c)
    BY <1>1, <1>a, TypeMove, Labels DEF PruneList, PruneProbed, Answer
<1>2. CASE PrunePasst(c)
    BY <1>2, <1>a, Labels
        DEF PrunePasst, KillPasst, VmTypeOK, files, locals, Goto
<1>3. CASE PruneSock(c)
    BY <1>3, <1>a, Labels DEF PruneSock, VmTypeOK, kernel, locals, Goto
<1>4. CASE PruneTruncate(c)
    BY <1>4, <1>a, Labels DEF PruneTruncate, VmTypeOK, kernel, locals, Goto
<1> QED BY <1>1, <1>2, <1>3, <1>4 DEF PruneStep

LEMMA TypeReset ==
    ASSUME VmTypeOK, NEW c \in Resets, ResetStep(c) PROVE VmTypeOK'
<1>a. c \in Cmds
    BY Kinds
<1>1. CASE ResetProbed(c) \/ ResetLoad(c)
    BY <1>1, <1>a, TypeMove, Labels DEF ResetProbed, ResetLoad, Answer
<1>2. CASE ResetRemove(c)
    BY <1>2, <1>a, Labels DEF ResetRemove, VmTypeOK, kernel, locals, Goto
<1>3. CASE ResetCreate(c)
    BY <1>3, <1>a, Labels DEF ResetCreate, VmTypeOK, kernel, locals, Goto
<1> QED BY <1>1, <1>2, <1>3 DEF ResetStep

LEMMA TypeNext == VmTypeOK /\ [Next]_vars => VmTypeOK'
<1> SUFFICES ASSUME VmTypeOK, [Next]_vars PROVE VmTypeOK' OBVIOUS
<1>1. CASE UNCHANGED vars
    BY <1>1 DEF vars, VmTypeOK, files, kernel, locals
<1>2. CASE Quiet
    BY <1>1, <1>2 DEF Quiet
<1> QED BY <1>1, <1>2, TypeProbe, TypeCliDies, TypeStart, TypeVm, TypeStop,
           TypeList, TypeRemove, TypePrune, TypeReset DEF Next

(* VmStore is type correct, for any commands and any bound on the polls.   *)
THEOREM VmTypeCorrect == Spec => []VmTypeOK
BY TypeInit, TypeNext, PTL DEF Spec

-----------------------------------------------------------------------------
(* The lock.                                                               *)

(* A step of c leaves the lock state of every other command alone.         *)
Only(c) == \A d \in Cmds \ {c} :
    /\ fd'[d] = fd[d] /\ locked'[d] = locked[d]
    /\ pc'[d] = pc[d] /\ probe'[d] = probe[d]
    /\ d \in Starts => dfd'[d] = dfd[d] /\ dmn'[d] = dmn[d]

LEMMA OnlyFits ==
    ASSUME AllFit, NEW c \in Cmds, Only(c), Fits(c)' PROVE AllFit'
<1> SUFFICES ASSUME NEW d \in Cmds, d # c PROVE Fits(d)' BY DEF AllFit
<1>1. Fits(d)
    BY DEF AllFit
<1>2. /\ fd'[d] = fd[d] /\ locked'[d] = locked[d]
      /\ pc'[d] = pc[d] /\ probe'[d] = probe[d]
      /\ d \in Starts => dfd'[d] = dfd[d] /\ dmn'[d] = dmn[d]
    BY DEF Only
<1>3. (Up(d)' <=> Up(d)) /\ (Probing(d)' <=> Probing(d))
    BY <1>2 DEF Up, KeepsLock, VmAlive, Probing
<1>4. CASE d \in Starts
    BY <1>1, <1>2, <1>3, <1>4 DEF Fits
<1>5. CASE d \notin Starts
  <2>1. ~Up(d)
    BY <1>5 DEF Up
  <2> QED BY <1>1, <1>2, <1>3, <1>5, <2>1 DEF Fits
<1> QED BY <1>4, <1>5

LEMMA SameFits ==
    ASSUME AllFit, UNCHANGED <<fd, dfd, locked, pc, probe>>,
           \A s \in Starts : KeepsLock(s)' <=> KeepsLock(s)
    PROVE  AllFit'
<1> SUFFICES ASSUME NEW d \in Cmds PROVE Fits(d)' BY DEF AllFit
<1>1. Fits(d) /\ (Up(d)' <=> Up(d)) /\ (Probing(d)' <=> Probing(d))
    BY DEF AllFit, Up, Probing
<1> QED BY <1>1 DEF Fits

(* A command that is not at the lock goes to another such place.           *)
Away(l) == l \notin Holding /\ l # "s_flock"
Asked(c) == \/ UNCHANGED probe /\ pc[c] \notin ProbePoints
            \/ probe' = [probe EXCEPT ![c] = "idle"] /\ probe[c] \in {"yes", "no"}

LEMMA OnlyMove ==
    ASSUME VmTypeOK, NEW c \in Cmds, NEW l \in PcValues, Goto(c, l),
           UNCHANGED <<fd, dfd, locked, dmn>>,
           \/ UNCHANGED probe
           \/ \E v \in {"idle", "opened", "locked", "yes", "no"} :
                 probe' = [probe EXCEPT ![c] = v]
    PROVE  Only(c) /\ pc'[c] = l
BY DEF Only, Goto, VmTypeOK

LEMMA MoveFits ==
    ASSUME VmTypeOK, AllFit, NEW c \in Cmds, NEW l \in PcValues, Goto(c, l),
           UNCHANGED <<fd, dfd, locked, dmn>>, Asked(c), pc[c] \notin Ended,
           \/ Away(pc[c]) /\ Away(l)
           \/ pc[c] \in Holding \ {"s_poll"} /\ l \in Holding \ {"s_poll"}
    PROVE  AllFit'
<1>1. Only(c) /\ pc'[c] = l
    BY OnlyMove DEF Asked
<1>2. ~Probing(c) /\ ~Probing(c)' /\ probe'[c] = "idle"
    BY DEF Asked, Probing, AllFit, Fits, VmTypeOK
<1>3. ~Up(c) /\ ~Up(c)'
    BY DEF AllFit, Fits, Up, KeepsLock, VmAlive, Away, Holding
<1>4. Fits(c)
    BY DEF AllFit
<1>5. Fits(c)'
    BY <1>1, <1>2, <1>3, <1>4 DEF Fits, Away, Probing
<1> QED BY <1>1, <1>5, OnlyFits

LEMMA ExitFits ==
    ASSUME VmTypeOK, AllFit, NEW c \in Cmds, NEW l \in Ended, Exit(c, l),
           UNCHANGED <<dfd, dmn>>,
           \/ UNCHANGED probe /\ pc[c] \notin ProbePoints
           \/ probe' = [probe EXCEPT ![c] = "idle"]
    PROVE  AllFit'
<1>1. /\ Only(c) /\ pc'[c] = l /\ fd'[c] = 0
      /\ locked'[c] = IF c \in Starts /\ dfd[c] # 0 THEN locked[c] ELSE 0
    BY DEF Only, Exit, Goto, VmTypeOK
<1>2. ~Probing(c)' /\ probe'[c] = "idle"
    BY DEF Probing, AllFit, Fits, VmTypeOK
<1>3. Up(c)' <=> Up(c)
    BY DEF Up, KeepsLock, VmAlive
<1>4. Fits(c)
    BY DEF AllFit
<1>5. l \notin Holding /\ l \notin ProbePoints /\ l # "s_flock"
    BY DEF Ended, Holding, ProbePoints
<1>6. Fits(c)'
  <2>1. CASE Up(c)
    BY <1>1, <1>2, <1>3, <1>4, <1>5, <2>1 DEF Fits, Probing, Up
  <2>2. CASE ~Up(c)
    BY <1>1, <1>2, <1>3, <1>4, <1>5, <2>2 DEF Fits, Probing
  <2> QED BY <2>1, <2>2
<1> QED BY <1>1, <1>6, OnlyFits

LEMMA FitInit == Init => AllFit
BY SMT DEF Init, NoVm, AllFit, Fits, Up, KeepsLock, VmAlive, Probing, FirstPc, Holding

LEMMA FitProbe ==
    ASSUME VmTypeOK, AllFit, NEW c \in Cmds, ProbeStep(c) PROVE AllFit'
<1>a. Fits(c) /\ (Up(c)' <=> Up(c)) /\ UNCHANGED <<pc, dfd, dmn>>
    BY DEF AllFit, Up, KeepsLock, VmAlive, kernel, ProbeStep, ProbeOpen, ProbeLock,
           ProbeUnlock
<1>b. ~Up(c) \/ ~Probing(c)
  <2>1. \A l \in Ended : l \notin ProbePoints
    BY DEF Ended, ProbePoints
  <2> QED BY <1>a, <2>1 DEF Fits, Probing, ProbePoints
<1>c. \A l \in ProbePoints : l \notin Holding /\ l # "s_flock" /\ l \notin Ended
    BY DEF ProbePoints, Holding, Ended
<1>1. CASE ProbeOpen(c)
  <2>1. Only(c)
    BY <1>1 DEF ProbeOpen, kernel, Only, VmTypeOK
  <2>2. pc[c] \in ProbePoints /\ ~Probing(c) /\ locked'[c] = locked[c]
    BY <1>1 DEF ProbeOpen, Probing
  <2>3. ~Up(c) /\ locked[c] = 0
    BY <1>a, <1>c, <2>2 DEF Fits, Probing, ProbePoints
  <2>4. \/ probe'[c] = "no" /\ fd'[c] = fd[c]
        \/ probe'[c] = "opened" /\ fd'[c] # 0
    BY <1>1 DEF ProbeOpen, VmTypeOK
  <2>5. Fits(c)'
    BY <1>a, <1>c, <2>2, <2>3, <2>4 DEF Fits, Probing
  <2> QED BY <2>1, <2>5, OnlyFits
<1>2. CASE ProbeLock(c)
  <2>1. Only(c)
    BY <1>2 DEF ProbeLock, kernel, Only, VmTypeOK
  <2>2. Probing(c) /\ ~Up(c) /\ pc[c] \in ProbePoints /\ locked[c] = 0
    BY <1>2, <1>a, <1>b, <1>c DEF ProbeLock, Probing, Fits
  <2>3. \/ probe'[c] = "locked" /\ fd'[c] = fd[c] /\ locked'[c] = fd[c]
        \/ probe'[c] = "yes" /\ fd'[c] = 0 /\ locked'[c] = 0
    BY <1>2, <2>2 DEF ProbeLock, VmTypeOK
  <2>5. Fits(c)'
    BY <1>a, <1>c, <2>2, <2>3 DEF Fits, Probing
  <2> QED BY <2>1, <2>5, OnlyFits
<1>3. CASE ProbeUnlock(c)
  <2>1. Only(c)
    BY <1>3 DEF ProbeUnlock, kernel, Only, VmTypeOK
  <2>2. Probing(c) /\ ~Up(c) /\ pc[c] \in ProbePoints
    BY <1>3, <1>a, <1>b, <1>c DEF ProbeUnlock, Probing, Fits
  <2>3. probe'[c] = "no" /\ fd'[c] = 0 /\ locked'[c] = 0
    BY <1>3, <2>2 DEF ProbeUnlock, VmTypeOK
  <2>5. Fits(c)'
    BY <1>a, <1>c, <2>2, <2>3 DEF Fits, Probing
  <2> QED BY <2>1, <2>5, OnlyFits
<1> QED BY <1>1, <1>2, <1>3 DEF ProbeStep

(* The labels of the other commands lie away from the lock.                *)
LEMMA AwayLabels ==
    \A l \in {"s_image", "s_probe", "s_mknew", "s_mkold", "s_overlay",
        "s_mkoverlay", "s_lock", "t_probe", "t_pid", "t_signal", "t_wait",
        "t_again", "t_passt", "t_final", "l_probe", "l_pid", "r_probe",
        "r_list", "r_unlink", "p_dir", "p_probe", "p_passt", "p_sock",
        "p_trunc", "x_probe", "x_load", "x_rm", "x_mk"} :
        Away(l) /\ l \notin Ended
BY DEF Away, Holding, Ended

LEMMA AwayEnded == \A l \in Ended : Away(l) /\ l \in PcValues
BY DEF Ended, Away, Holding, PcValues

(* What every step of a stop, list, remove, prune or reset is to the lock. *)
Moved(c) ==
    /\ \E l \in PcValues : Goto(c, l) /\ Away(l)
    /\ Away(pc[c]) /\ pc[c] \notin Ended /\ Asked(c)
    /\ UNCHANGED <<fd, dfd, locked, dmn>>

LEMMA MovedFits ==
    ASSUME VmTypeOK, AllFit, NEW c \in Cmds, Moved(c) PROVE AllFit'
BY MoveFits DEF Moved

LEMMA StopMoved == ASSUME NEW c \in Stops, StopStep(c) PROVE Moved(c)
<1> USE Labels, AwayLabels, AwayEnded DEF Moved, Asked, At, Answer, kernel
<1>1. CASE StopProbed(c)
    BY <1>1 DEF StopProbed, Ended
<1>2. CASE StopReadPid(c)
    BY <1>2 DEF StopReadPid, ProbePoints
<1>3. CASE StopSignal(c)
    BY <1>3 DEF StopSignal, AfterWait, ProbePoints
<1>4. CASE StopWait(c)
    BY <1>4 DEF StopWait, AfterWait
<1>5. CASE StopAgain(c)
    BY <1>5 DEF StopAgain
<1>6. CASE StopPasst(c)
    BY <1>6 DEF StopPasst, ProbePoints
<1>7. CASE StopFinal(c)
    BY <1>7 DEF StopFinal, Ended
<1> QED BY <1>1, <1>2, <1>3, <1>4, <1>5, <1>6, <1>7 DEF StopStep

LEMMA ListMoved == ASSUME NEW c \in Lists, ListStep(c) PROVE Moved(c)
<1> USE Labels, AwayLabels, AwayEnded DEF Moved, Asked, At, Answer, kernel
<1>1. CASE ListProbed(c)
    BY <1>1 DEF ListProbed, Ended
<1>2. CASE ListReadPid(c)
    BY <1>2 DEF ListReadPid, ProbePoints, Ended
<1> QED BY <1>1, <1>2 DEF ListStep

(* A remove that unlinks a file leaves the descriptors and locks alone.    *)
LEMMA RemoveMoved ==
    ASSUME NEW c \in Removes, RemoveStep(c)
    PROVE  Moved(c) \/ UNCHANGED <<fd, dfd, locked, dmn, pc, probe>>
<1> USE Labels, AwayLabels, AwayEnded DEF Moved, Asked, At, Answer, kernel
<1>1. CASE RemoveProbed(c)
    BY <1>1 DEF RemoveProbed, Ended
<1>2. CASE RemoveList(c)
    BY <1>2 DEF RemoveList, ProbePoints, Ended
<1>3. CASE \E e \in Entries : RemoveEntry(c, e)
    BY <1>3 DEF RemoveEntry
<1>4. CASE RemoveDir(c)
    BY <1>4 DEF RemoveDir, ProbePoints, Ended
<1> QED BY <1>1, <1>2, <1>3, <1>4 DEF RemoveStep

LEMMA PruneMoved == ASSUME NEW c \in Prunes, PruneStep(c) PROVE Moved(c)
<1> USE Labels, AwayLabels, AwayEnded DEF Moved, Asked, At, Answer, kernel
<1>1. CASE PruneList(c)
    BY <1>1 DEF PruneList, ProbePoints, Ended
<1>2. CASE PruneProbed(c)
    BY <1>2 DEF PruneProbed, Ended
<1>3. CASE PrunePasst(c)
    BY <1>3 DEF PrunePasst, ProbePoints
<1>4. CASE PruneSock(c)
    BY <1>4 DEF PruneSock, ProbePoints
<1>5. CASE PruneTruncate(c)
    BY <1>5 DEF PruneTruncate, ProbePoints, Ended
<1> QED BY <1>1, <1>2, <1>3, <1>4, <1>5 DEF PruneStep

LEMMA ResetMoved == ASSUME NEW c \in Resets, ResetStep(c) PROVE Moved(c)
<1> USE Labels, AwayLabels, AwayEnded DEF Moved, Asked, At, Answer, kernel
<1>1. CASE ResetProbed(c)
    BY <1>1 DEF ResetProbed, Ended
<1>2. CASE ResetLoad(c)
    BY <1>2 DEF ResetLoad, ProbePoints, Ended
<1>3. CASE ResetRemove(c)
    BY <1>3 DEF ResetRemove, ProbePoints
<1>4. CASE ResetCreate(c)
    BY <1>4 DEF ResetCreate, ProbePoints, Ended
<1> QED BY <1>1, <1>2, <1>3, <1>4 DEF ResetStep

(* What a start does that ends it.                                         *)
Leaves(s) ==
    /\ \E l \in Ended : Exit(s, l)
    /\ UNCHANGED <<dfd, dmn>>
    /\ \/ UNCHANGED probe /\ pc[s] \notin ProbePoints
       \/ probe' = [probe EXCEPT ![s] = "idle"]

LEMMA LeavesFits ==
    ASSUME VmTypeOK, AllFit, NEW s \in Cmds, Leaves(s) PROVE AllFit'
BY ExitFits DEF Leaves

LEMMA ErrorLeaves ==
    ASSUME NEW s \in Starts, StartError(s),
           \/ UNCHANGED probe /\ pc[s] \notin ProbePoints
           \/ probe' = [probe EXCEPT ![s] = "idle"]
    PROVE  Leaves(s)
BY DEF StartError, Leaves, Ended

(* A start that goes on while it holds the lock, and writes vm.json before *)
(* it forks.                                                               *)
Carries(s) ==
    /\ \E l \in Holding \ {"s_poll"} : Goto(s, l) /\ (l = "s_fork" => config' = s)
    /\ pc[s] \in Holding \ {"s_poll"}
    /\ UNCHANGED <<fd, dfd, locked, dmn, probe>>

LEMMA HoldingLabels ==
    /\ Holding \subseteq PcValues
    /\ \A l \in Holding : l \notin Ended /\ l \notin ProbePoints /\ l # "s_flock"
BY Labels DEF Holding, Ended, ProbePoints

LEMMA CarriesFits ==
    ASSUME VmTypeOK, AllFit, NEW s \in Starts, Carries(s) PROVE AllFit'
<1>1. s \in Cmds /\ Asked(s) /\ pc[s] \notin Ended
    BY Kinds, HoldingLabels DEF Carries, Asked
<1>2. PICK l \in Holding \ {"s_poll"} : Goto(s, l)
    BY DEF Carries
<1>3. l \in PcValues
    BY HoldingLabels
<1> QED BY <1>1, <1>2, <1>3, MoveFits DEF Carries

(* The three steps that take the description, the lock and the daemon.     *)
Opens(s) ==
    /\ pc[s] = "s_lock" /\ Goto(s, "s_flock")
    /\ fd' = [fd EXCEPT ![s] = ino'] /\ ino' # 0
    /\ UNCHANGED <<dfd, locked, dmn, probe>>

Takes(s) ==
    /\ pc[s] = "s_flock" /\ Goto(s, "s_passt") /\ Unlocked(fd[s])
    /\ locked' = [locked EXCEPT ![s] = fd[s]]
    /\ UNCHANGED <<fd, dfd, dmn, probe>>

Forks(s) ==
    /\ pc[s] = "s_fork" /\ Goto(s, "s_poll")
    /\ \/ dmn' = [dmn EXCEPT ![s] = "forked"] /\ dfd' = [dfd EXCEPT ![s] = fd[s]]
       \/ UNCHANGED <<dmn, dfd>>
    /\ UNCHANGED <<fd, locked, probe>>

LEMMA OpensFits ==
    ASSUME VmTypeOK, VmTypeOK', AllFit, NEW s \in Starts, Opens(s) PROVE AllFit'
<1>1. s \in Cmds /\ Fits(s)
    BY Kinds DEF AllFit
<1>2. Only(s) /\ pc'[s] = "s_flock" /\ fd'[s] # 0
    BY <1>1 DEF Opens, Only, Goto, VmTypeOK
<1>3. ~Up(s) /\ ~Up(s)' /\ ~Probing(s) /\ ~Probing(s)' /\ probe'[s] = "idle"
    BY <1>1 DEF Opens, Fits, Up, KeepsLock, VmAlive, Probing, Ended, ProbePoints
<1>4. Fits(s)'
    BY <1>1, <1>2, <1>3 DEF Fits, Opens, Holding, Probing
<1> QED BY <1>1, <1>2, <1>4, OnlyFits

LEMMA TakesFits ==
    ASSUME VmTypeOK, AllFit, NEW s \in Starts, Takes(s) PROVE AllFit'
<1>1. s \in Cmds /\ Fits(s)
    BY Kinds DEF AllFit
<1>2. Only(s) /\ pc'[s] = "s_passt" /\ locked'[s] = fd'[s] /\ fd'[s] = fd[s]
    BY <1>1 DEF Takes, Only, Goto, VmTypeOK
<1>3. ~Up(s) /\ ~Up(s)' /\ ~Probing(s) /\ ~Probing(s)' /\ probe'[s] = "idle"
    BY <1>1 DEF Takes, Fits, Up, KeepsLock, VmAlive, Probing, Ended, ProbePoints
<1>4. Fits(s)'
    BY <1>1, <1>2, <1>3 DEF Fits, Takes, Holding, Probing
<1> QED BY <1>1, <1>2, <1>4, OnlyFits

LEMMA ForksFits ==
    ASSUME VmTypeOK, AllFit, NEW s \in Starts, Forks(s) PROVE AllFit'
<1>1. s \in Cmds /\ Fits(s)
    BY Kinds DEF AllFit
<1>2. /\ Only(s) /\ pc'[s] = "s_poll"
      /\ UNCHANGED <<fd, locked, probe>>
    BY <1>1 DEF Forks, Only, Goto, VmTypeOK
<1>3. /\ ~Up(s) /\ ~Probing(s) /\ ~Probing(s)' /\ probe'[s] = "idle"
      /\ fd[s] # 0 /\ locked[s] = fd[s]
    BY <1>1 DEF Forks, Fits, Probing, Ended, ProbePoints, Holding
<1>4. (Up(s)' /\ dfd'[s] = fd[s]) \/ (~Up(s)' /\ dfd'[s] = dfd[s])
    BY <1>3 DEF Forks, Up, KeepsLock, VmAlive, VmTypeOK
<1>5. Fits(s)'
    BY <1>1, <1>2, <1>3, <1>4 DEF Fits, Holding, Probing
<1> QED BY <1>1, <1>2, <1>5, OnlyFits

LEMMA StartKinds ==
    ASSUME VmTypeOK, NEW s \in Starts, StartStep(s) \/ StartFails(s)
    PROVE  Moved(s) \/ Leaves(s) \/ Carries(s) \/ Opens(s) \/ Takes(s) \/ Forks(s)
<1>a. \A l \in {"s_image", "s_mknew", "s_mkold", "s_overlay", "s_mkoverlay",
                 "s_lock", "s_flock", "s_passt", "s_save", "s_fork", "s_poll"} :
        l \notin ProbePoints
    BY DEF ProbePoints
<1>1. CASE StartImage(s)
  <2>1. pc[s] = "s_image" /\ UNCHANGED probe
    BY <1>1 DEF StartImage, At
  <2>2. CASE StartError(s)
    BY <2>1, <2>2, <1>a, ErrorLeaves
  <2>3. CASE Goto(s, "s_probe") /\ UNCHANGED <<fd, dfd, locked, kernel, locals>>
    BY <2>1, <2>3, <1>a, AwayLabels, Labels DEF Moved, Asked, kernel
  <2> QED BY <1>1, <2>2, <2>3 DEF StartImage
<1>2. CASE StartProbed(s)
  <2>1. /\ pc[s] = "s_probe" /\ probe[s] \in {"yes", "no"}
        /\ probe' = [probe EXCEPT ![s] = "idle"]
    BY <1>2 DEF StartProbed, Answer, At
  <2>2. CASE StartError(s)
    BY <2>1, <2>2, ErrorLeaves
  <2>3. CASE /\ Goto(s, IF dir = "present" THEN "s_mkold" ELSE "s_mknew")
             /\ UNCHANGED <<fd, dfd, locked, kernel, locals>>
    BY <2>1, <2>3, AwayLabels, Labels DEF Moved, Asked, kernel
  <2> QED BY <1>2, <2>2, <2>3 DEF StartProbed
<1>3. CASE StartMkdir(s)
  <2>1. pc[s] \in {"s_mkold", "s_mknew"} /\ UNCHANGED probe
    BY <1>3 DEF StartMkdir, At
  <2>2. CASE StartError(s)
    BY <2>1, <2>2, <1>a, ErrorLeaves
  <2>3. CASE Goto(s, "s_overlay") /\ UNCHANGED <<fd, dfd, locked, kernel, locals>>
    BY <2>1, <2>3, <1>a, AwayLabels, Labels DEF Moved, Asked, kernel
  <2> QED BY <1>3, <2>2, <2>3 DEF StartMkdir
<1>4. CASE StartOverlay(s) \/ StartMkOverlay(s)
    BY <1>4, <1>a, AwayLabels, Labels
        DEF StartOverlay, StartMkOverlay, At, Moved, Asked, kernel
<1>5. CASE StartOpenLock(s)
  <2>1. pc[s] = "s_lock" /\ UNCHANGED probe
    BY <1>5 DEF StartOpenLock, At
  <2>2. CASE StartError(s)
    BY <2>1, <2>2, <1>a, ErrorLeaves
  <2>3. CASE ~StartError(s)
    BY SMT, <1>5, <2>1, <2>3 DEF StartOpenLock, Opens, kernel, VmTypeOK
  <2> QED BY <2>2, <2>3
<1>6. CASE StartFlock(s)
  <2>1. pc[s] = "s_flock" /\ UNCHANGED probe
    BY <1>6 DEF StartFlock, At
  <2>2. CASE StartError(s)
    BY <2>1, <2>2, <1>a, ErrorLeaves
  <2>3. CASE ~StartError(s)
    BY <1>6, <2>1, <2>3 DEF StartFlock, Takes, kernel
  <2> QED BY <2>2, <2>3
<1>7. CASE StartPasst(s)
    BY SMT, <1>7 DEF StartPasst, At, Carries, Holding
<1>8. CASE StartSave(s)
  <2>1. pc[s] = "s_save" /\ UNCHANGED probe
    BY <1>8 DEF StartSave, At
  <2>2. CASE StartError(s)
    BY <2>1, <2>2, <1>a, ErrorLeaves
  <2>3. CASE ~StartError(s)
    BY <1>8, <2>1, <2>3 DEF StartSave, Carries, Holding, kernel
  <2> QED BY <2>2, <2>3
<1>9. CASE StartFork(s)
    BY <1>9 DEF StartFork, At, Forks
<1>10. CASE StartReturn(s)
    BY <1>10, <1>a DEF StartReturn, At, Leaves, Ended, kernel
<1>11. CASE StartFails(s)
    BY <1>11, <1>a, ErrorLeaves DEF StartFails, At
<1> QED BY <1>1, <1>2, <1>3, <1>4, <1>5, <1>6, <1>7, <1>8, <1>9, <1>10, <1>11
        DEF StartStep

(* A VM that has its lock ends, or fails to write its PID.                 *)
Drops(s) ==
    /\ KeepsLock(s) /\ ~KeepsLock(s)' /\ DaemonCloses(s)
    /\ \A t \in Starts \ {s} : dmn'[t] = dmn[t]
    /\ UNCHANGED <<fd, pc, probe>>

LEMMA DropsFits ==
    ASSUME VmTypeOK, AllFit, NEW s \in Starts, Drops(s) PROVE AllFit'
<1>1. s \in Cmds /\ Fits(s) /\ Up(s)
    BY Kinds DEF AllFit, Drops, Up
<1>2. /\ Only(s) /\ UNCHANGED <<fd, pc, probe>> /\ dfd'[s] = 0
      /\ locked'[s] = IF fd[s] # 0 THEN locked[s] ELSE 0
    BY <1>1 DEF Drops, DaemonCloses, Only, VmTypeOK
<1>3. ~Up(s)' /\ (Probing(s)' <=> Probing(s))
    BY <1>2 DEF Drops, Up, Probing
<1>4. /\ ~Probing(s) /\ probe[s] = "idle"
      /\ pc[s] = "s_poll" \/ (pc[s] \in Ended /\ Away(pc[s]))
    BY <1>1, AwayEnded DEF Fits, Probing, Ended, ProbePoints
<1>5. Fits(s)'
  <2>1. CASE pc[s] = "s_poll"
    BY <1>1, <1>2, <1>3, <1>4, <2>1 DEF Fits, Holding, Probing
  <2>2. CASE Away(pc[s])
    BY <1>1, <1>2, <1>3, <1>4, <2>2 DEF Fits, Away, Probing
  <2> QED BY <1>4, <2>1, <2>2
<1> QED BY <1>1, <1>2, <1>5, OnlyFits

LEMMA DaemonKinds ==
    ASSUME VmTypeOK, AllFit, NEW s \in Starts,
           DaemonStep(s) \/ DaemonDies(s) \/ PasstExits(s)
    PROVE  \/ Drops(s)
           \/ /\ UNCHANGED <<fd, dfd, locked, pc, probe>>
              /\ \A t \in Starts : KeepsLock(t)' <=> KeepsLock(t)
<1>1. UNCHANGED <<fd, pc, probe>> /\ \A t \in Starts \ {s} : dmn'[t] = dmn[t]
    BY DEF DaemonStep, DaemonUpdate, DaemonRuns, DaemonDies, PasstExits, VmTypeOK
<1>2. CASE UNCHANGED <<dfd, locked>> /\ ~DaemonDies(s)
  <2>1. \A t \in Starts : VmAlive(t)' <=> VmAlive(t)
    BY <1>2 DEF DaemonStep, DaemonUpdate, DaemonRuns, PasstExits, VmAlive, VmTypeOK
  <2> QED BY <1>1, <1>2, <2>1 DEF KeepsLock
<1>3. CASE DaemonCloses(s)
  <2>1. dfd' = [dfd EXCEPT ![s] = 0] /\ dfd'[s] = 0
    BY <1>3 DEF DaemonCloses, VmTypeOK
  <2>2. CASE KeepsLock(s)
    BY <1>1, <1>3, <2>1, <2>2 DEF Drops, KeepsLock
  <2>3. CASE ~KeepsLock(s)
    <3>1. s \in Cmds /\ Fits(s) /\ ~Up(s) /\ dfd[s] = 0
      BY <2>3, Kinds DEF AllFit, Fits, Up
    <3>2. fd[s] = 0 => locked[s] = 0
      BY <3>1 DEF Fits, Probing
    <3>3. UNCHANGED <<dfd, locked>>
      BY <1>3, <3>1, <3>2 DEF DaemonCloses, VmTypeOK
    <3>4. \A t \in Starts \ {s} : KeepsLock(t)' <=> KeepsLock(t)
      BY <1>1, <3>3 DEF KeepsLock, VmAlive
    <3>5. ~KeepsLock(s)'
      BY <2>1 DEF KeepsLock
    <3> QED BY <1>1, <2>3, <3>3, <3>4, <3>5
  <2> QED BY <2>2, <2>3
<1> QED BY <1>2, <1>3 DEF DaemonStep, DaemonUpdate, DaemonRuns, DaemonDies, PasstExits

(* Every step, by what it does to descriptors and locks.                   *)
LEMMA StepKinds ==
    ASSUME VmTypeOK, AllFit, Next
    PROVE  \/ \E c \in Cmds : ProbeStep(c)
           \/ \E c \in Cmds : Moved(c) \/ Leaves(c)
           \/ \E s \in Starts : Carries(s) \/ Opens(s) \/ Takes(s) \/ Forks(s)
           \/ \E s \in Starts : Drops(s)
           \/ /\ UNCHANGED <<fd, dfd, locked, pc, probe>>
              /\ \A s \in Starts : KeepsLock(s)' <=> KeepsLock(s)
<1>1. ASSUME NEW c \in Cmds, CliDies(c) PROVE Leaves(c)
    BY <1>1 DEF CliDies, Leaves, Ended
<1>2. ASSUME NEW s \in Starts, StartStep(s) \/ StartFails(s)
      PROVE  \/ \E c \in Cmds : Moved(c) \/ Leaves(c)
             \/ \E t \in Starts : Carries(t) \/ Opens(t) \/ Takes(t) \/ Forks(t)
    BY <1>2, StartKinds, Kinds
<1>3. ASSUME NEW c \in Stops, StopStep(c) PROVE \E d \in Cmds : Moved(d)
    BY <1>3, StopMoved, Kinds
<1>4. ASSUME NEW c \in Lists, ListStep(c) PROVE \E d \in Cmds : Moved(d)
    BY <1>4, ListMoved, Kinds
<1>5. ASSUME NEW c \in Prunes, PruneStep(c) PROVE \E d \in Cmds : Moved(d)
    BY <1>5, PruneMoved, Kinds
<1>6. ASSUME NEW c \in Resets, ResetStep(c) PROVE \E d \in Cmds : Moved(d)
    BY <1>6, ResetMoved, Kinds
<1>7. ASSUME NEW c \in Removes, RemoveStep(c)
      PROVE  \/ \E d \in Cmds : Moved(d)
             \/ /\ UNCHANGED <<fd, dfd, locked, pc, probe>>
                /\ \A s \in Starts : KeepsLock(s)' <=> KeepsLock(s)
    BY <1>7, RemoveMoved, Kinds DEF KeepsLock, VmAlive
<1>8. ASSUME Quiet
      PROVE  /\ UNCHANGED <<fd, dfd, locked, pc, probe>>
             /\ \A s \in Starts : KeepsLock(s)' <=> KeepsLock(s)
    BY <1>8 DEF Quiet, vars, kernel, KeepsLock, VmAlive
<1> QED BY <1>1, <1>2, <1>3, <1>4, <1>5, <1>6, <1>7, <1>8, DaemonKinds DEF Next

LEMMA FitNext ==
    ASSUME VmTypeOK, VmTypeOK', AllFit, [Next]_vars PROVE AllFit'
<1>1. CASE UNCHANGED vars
    BY <1>1, SameFits DEF vars, kernel, KeepsLock, VmAlive
<1>2. CASE Next
    BY <1>2, StepKinds, FitProbe, MovedFits, LeavesFits, CarriesFits,
       OpensFits, TakesFits, ForksFits, DropsFits, SameFits
<1> QED BY <1>1, <1>2

(* Locks are only taken where nobody has them.                             *)
Grabs(c) == Unlocked(fd[c]) /\ locked' = [locked EXCEPT ![c] = fd[c]]

LEMMA LockKinds ==
    ASSUME VmTypeOK, AllFit, Next
    PROVE  \/ \E c \in Cmds : Grabs(c)
           \/ \A c \in Cmds : locked'[c] \in {locked[c], 0}
<1>1. ASSUME NEW c \in Cmds, ProbeStep(c)
      PROVE  Grabs(c) \/ \A d \in Cmds : locked'[d] \in {locked[d], 0}
    BY <1>1 DEF ProbeStep, ProbeOpen, ProbeLock, ProbeUnlock, Grabs, VmTypeOK
<1>2. ASSUME NEW c \in Cmds, Moved(c) \/ Leaves(c)
      PROVE  \A d \in Cmds : locked'[d] \in {locked[d], 0}
    BY <1>2 DEF Moved, Leaves, Exit, VmTypeOK
<1>3. ASSUME NEW s \in Starts, Carries(s) \/ Opens(s) \/ Forks(s) \/ Takes(s)
      PROVE  Grabs(s) \/ \A d \in Cmds : locked'[d] \in {locked[d], 0}
    BY <1>3 DEF Carries, Opens, Forks, Takes, Grabs
<1>4. ASSUME NEW s \in Starts, Drops(s)
      PROVE  \A d \in Cmds : locked'[d] \in {locked[d], 0}
    BY <1>4 DEF Drops, DaemonCloses, VmTypeOK
<1> QED BY <1>1, <1>2, <1>3, <1>4, StepKinds, Kinds

LEMMA ExclusiveNext ==
    ASSUME VmTypeOK, AllFit, Exclusive, [Next]_vars PROVE Exclusive'
<1>1. CASE UNCHANGED vars
    BY <1>1 DEF vars, Exclusive
<1>2. ASSUME NEW c \in Cmds, Grabs(c) PROVE Exclusive'
    BY <1>2 DEF Grabs, Unlocked, Exclusive, VmTypeOK
<1>3. CASE \A c \in Cmds : locked'[c] \in {locked[c], 0}
    BY <1>3 DEF Exclusive
<1> QED BY <1>1, <1>2, <1>3, LockKinds

LEMMA LockCorrect == Spec => []LockInv
<1>1. Init => LockInv
    BY TypeInit, FitInit DEF LockInv, Init, NoVm, Exclusive
<1>2. LockInv /\ [Next]_vars => LockInv'
    BY TypeNext, FitNext, ExclusiveNext DEF LockInv
<1> QED BY <1>1, <1>2, PTL DEF Spec

(* No two VMs that keep their lock live on one vm.lock file, however many  *)
(* commands of whatever kind race: flock admits one open description per   *)
(* file, and a daemon keeps the one its start locked until it ends or its  *)
(* update_lock_pid fails (acquire_lock, daemonize).                        *)
THEOREM OneVmPerLockFileHolds == Spec => []OneVmPerLockFile
<1>1. LockInv => OneVmPerLockFile
    BY Kinds DEF LockInv, AllFit, Fits, Up, Exclusive, OneVmPerLockFile
<1> QED BY <1>1, LockCorrect, PTL

-----------------------------------------------------------------------------
(* The rest is about VmStore when no vm rm runs: vm.lock is then one file  *)
(* for good, so that the lock on it stands for the VM's name.  At most one *)
(* VM is alive with its lock, vm.json is its own, vm stop means what it    *)
(* says of such a VM, and the commands implement VmContract.               *)

(* The name: every descriptor and lock is one on the file vm.lock is now.  *)
OneFile ==
    /\ \A c \in Cmds : fd[c] \in {0, ino} /\ locked[c] \in {0, ino}
    /\ \A s \in Starts : dfd[s] \in {0, ino}

(* A start past the write of vm.json, and its VM, find themselves in it.   *)
Recorded == \A s \in Starts :
    pc[s] \in {"s_fork", "s_poll"} \/ KeepsLock(s) => config = s

NameInv == LockInv /\ OneFile /\ Recorded

-----------------------------------------------------------------------------
(* vm.lock is created once; vm.json is written by StartSave only.          *)
Files ==
    /\ ino' = ino \/ ino = 0
    /\ \/ config' = config
       \/ \E s \in Starts : pc[s] = "s_save" /\ config' = s /\ Carries(s)

LEMMA StartFiles ==
    ASSUME NEW s \in Starts, StartStep(s) \/ StartFails(s) PROVE Files
<1>1. CASE \/ StartImage(s) \/ StartProbed(s) \/ StartOverlay(s)
           \/ StartPasst(s) \/ StartReturn(s) \/ StartFails(s)
    BY <1>1 DEF StartImage, StartProbed, StartOverlay, StartPasst,
        StartReturn, StartFails, files, Files
<1>2. CASE StartMkdir(s) \/ StartMkOverlay(s) \/ StartFlock(s) \/ StartFork(s)
    BY <1>2 DEF StartMkdir, StartMkOverlay, StartFlock, StartFork, Files
<1>3. CASE StartOpenLock(s)
    BY <1>3 DEF StartOpenLock, files, Files
<1>4. CASE StartSave(s)
  <2>1. CASE config' = config
    BY <1>4, <2>1 DEF StartSave, Files
  <2>2. CASE config' # config
    BY <1>4, <2>2 DEF StartSave, At, Files, Carries, Holding, kernel
  <2> QED BY <2>1, <2>2
<1> QED BY <1>1, <1>2, <1>3, <1>4 DEF StartStep

LEMMA CommandFiles ==
    ASSUME NEW c \in Cmds,
           \/ ProbeStep(c) \/ CliDies(c) \/ StopStep(c) \/ ListStep(c)
           \/ PruneStep(c) \/ ResetStep(c)
    PROVE  UNCHANGED <<ino, config>>
<1>1. CASE ProbeStep(c) \/ CliDies(c)
    BY <1>1 DEF ProbeStep, ProbeOpen, ProbeLock, ProbeUnlock, CliDies, files
<1>2. CASE StopStep(c)
    BY <1>2 DEF StopStep, StopProbed, StopReadPid, StopSignal, StopWait,
        StopAgain, StopPasst, StopFinal, files
<1>3. CASE ListStep(c)
    BY <1>3 DEF ListStep, ListProbed, ListReadPid, files
<1>4. CASE PruneStep(c)
    BY <1>4 DEF PruneStep, PruneList, PruneProbed, PrunePasst, PruneSock,
        PruneTruncate, files
<1>5. CASE ResetStep(c)
    BY <1>5 DEF ResetStep, ResetProbed, ResetLoad, ResetRemove, ResetCreate,
        files
<1> QED BY <1>1, <1>2, <1>3, <1>4, <1>5

LEMMA VmFiles ==
    ASSUME NEW s \in Starts, DaemonStep(s) \/ DaemonDies(s) \/ PasstExits(s)
    PROVE  UNCHANGED <<ino, config>>
BY DEF DaemonStep, DaemonUpdate, DaemonRuns, DaemonDies, PasstExits, files

LEMMA FileKinds == ASSUME Removes = {}, Next PROVE Files
<1>1. ASSUME UNCHANGED <<ino, config>> PROVE Files
    BY <1>1 DEF Files
<1>2. CASE Quiet
    BY <1>1, <1>2 DEF Quiet, vars, files
<1>3. CASE \E c \in Cmds : ProbeStep(c) \/ CliDies(c)
    BY <1>1, <1>3, CommandFiles
<1>4. CASE \E s \in Starts : \/ StartStep(s) \/ StartFails(s) \/ DaemonStep(s)
                             \/ DaemonDies(s) \/ PasstExits(s)
    BY <1>1, <1>4, StartFiles, VmFiles
<1>5. ASSUME NEW c \in Stops, StopStep(c) PROVE Files
  <2>1. c \in Cmds
    BY Kinds
  <2> QED BY <1>1, <1>5, <2>1, CommandFiles
<1>6. ASSUME NEW c \in Lists, ListStep(c) PROVE Files
  <2>1. c \in Cmds
    BY Kinds
  <2> QED BY <1>1, <1>6, <2>1, CommandFiles
<1>7. ASSUME NEW c \in Prunes, PruneStep(c) PROVE Files
  <2>1. c \in Cmds
    BY Kinds
  <2> QED BY <1>1, <1>7, <2>1, CommandFiles
<1>8. ASSUME NEW c \in Resets, ResetStep(c) PROVE Files
  <2>1. c \in Cmds
    BY Kinds
  <2> QED BY <1>1, <1>8, <2>1, CommandFiles
<1> QED BY <1>2, <1>3, <1>4, <1>5, <1>6, <1>7, <1>8 DEF Next

-----------------------------------------------------------------------------
(* The name.                                                               *)
Near ==
    /\ \A c \in Cmds : fd'[c] \in {fd[c], 0, ino'} /\ locked'[c] \in {locked[c], 0, fd[c]}
    /\ \A s \in Starts : dfd'[s] \in {dfd[s], 0, fd[s]}

LEMMA NearKinds == ASSUME VmTypeOK, AllFit, Next PROVE Near
<1>1. ASSUME NEW c \in Cmds, ProbeStep(c) PROVE Near
    BY SMT, <1>1 DEF ProbeStep, ProbeOpen, ProbeLock, ProbeUnlock, Near, files, VmTypeOK
<1>2. ASSUME NEW c \in Cmds, Moved(c) \/ Leaves(c) PROVE Near
    BY <1>2 DEF Moved, Leaves, Exit, Near, VmTypeOK
<1>3. ASSUME NEW s \in Starts, Carries(s) \/ Opens(s) \/ Takes(s) \/ Forks(s)
      PROVE  Near
    BY SMT, <1>3, Kinds DEF Carries, Opens, Takes, Forks, Near, VmTypeOK
<1>4. ASSUME NEW s \in Starts, Drops(s) PROVE Near
    BY <1>4 DEF Drops, DaemonCloses, Near, VmTypeOK
<1>5. ASSUME UNCHANGED <<fd, dfd, locked>> PROVE Near
    BY <1>5 DEF Near
<1> QED BY <1>1, <1>2, <1>3, <1>4, <1>5, StepKinds

LEMMA OneFileNext ==
    ASSUME Removes = {}, LockInv, OneFile, [Next]_vars PROVE OneFile'
<1>1. CASE UNCHANGED vars
    BY <1>1 DEF vars, files, OneFile
<1>2. CASE Next
  <2>1. Near /\ (ino' = ino \/ ino = 0)
    BY <1>2, NearKinds, FileKinds DEF LockInv, Files
  <2>2. \A c \in Cmds : fd'[c] \in {0, ino'} /\ locked'[c] \in {0, ino'}
    BY <2>1 DEF Near, OneFile
  <2>3. \A s \in Starts : dfd'[s] \in {0, ino'}
    BY <2>1, Kinds DEF Near, OneFile
  <2> QED BY <2>2, <2>3 DEF OneFile
<1> QED BY <1>1, <1>2

(* A session is a start that holds the lock, or its VM while it does.      *)
Session(s) == pc[s] \in Holding \/ KeepsLock(s)
Gone(s) == pc[s] \in Ended /\ ~KeepsLock(s)

LEMMA SessionHasName ==
    ASSUME LockInv, OneFile, NEW s \in Starts, Session(s)
    PROVE  locked[s] = ino /\ ino # 0 /\ probe[s] # "locked"
<1>1. s \in Cmds /\ Fits(s)
    BY Kinds DEF LockInv, AllFit
<1>2. locked[s] # 0
    BY <1>1 DEF Session, Fits, Up
<1>3. probe[s] # "locked"
    BY <1>1, HoldingLabels, AwayEnded
        DEF Session, Fits, Up, Probing, Ended, ProbePoints, Holding
<1> QED BY <1>1, <1>2, <1>3 DEF OneFile

LEMMA OneSession ==
    ASSUME LockInv, OneFile, NEW s \in Starts, NEW t \in Starts,
           Session(s), Session(t)
    PROVE  s = t
BY SessionHasName, Kinds DEF LockInv, Exclusive

(* A start gets to its fork, and a VM to life, through the write.          *)
LEMMA ReachKinds ==
    ASSUME LockInv, Next, NEW s \in Starts,
           (pc'[s] \in {"s_fork", "s_poll"} \/ KeepsLock(s)')
    PROVE  pc[s] \in {"s_fork", "s_poll"} \/ KeepsLock(s) \/ config' = s
<1> USE Kinds
<1>a. VmTypeOK /\ AllFit /\ s \in Cmds
    BY DEF LockInv
<1>1. ASSUME NEW c \in Cmds, ProbeStep(c)
      PROVE  UNCHANGED pc /\ (KeepsLock(s)' <=> KeepsLock(s))
    BY <1>1 DEF ProbeStep, ProbeOpen, ProbeLock, ProbeUnlock, kernel, KeepsLock, VmAlive
<1>2. ASSUME NEW c \in Cmds, Moved(c) \/ Leaves(c)
      PROVE  /\ pc'[s] = pc[s] \/ pc'[s] \notin {"s_fork", "s_poll"}
             /\ KeepsLock(s)' <=> KeepsLock(s)
    BY <1>2, <1>a DEF Moved, Leaves, Exit, Goto, Away, Holding, Ended, KeepsLock, VmAlive, VmTypeOK
<1>3. ASSUME NEW t \in Starts, Carries(t)
      PROVE  /\ pc'[s] = pc[s] \/ pc'[s] \notin {"s_fork", "s_poll"} \/ config' = s
             /\ KeepsLock(s)' <=> KeepsLock(s)
    BY <1>3, <1>a DEF Carries, Goto, KeepsLock, VmAlive, VmTypeOK
<1>4. ASSUME NEW t \in Starts, Opens(t) \/ Takes(t)
      PROVE  /\ pc'[s] = pc[s] \/ pc'[s] \notin {"s_fork", "s_poll"}
             /\ KeepsLock(s)' <=> KeepsLock(s)
    BY <1>4, <1>a DEF Opens, Takes, Goto, KeepsLock, VmAlive, VmTypeOK
<1>5. ASSUME NEW t \in Starts, Forks(t)
      PROVE  \/ pc[s] \in {"s_fork", "s_poll"}
             \/ pc'[s] = pc[s] /\ (KeepsLock(s)' <=> KeepsLock(s))
    BY <1>5, <1>a DEF Forks, Goto, KeepsLock, VmAlive, VmTypeOK
<1>6. ASSUME NEW t \in Starts, Drops(t)
      PROVE  UNCHANGED pc /\ (KeepsLock(s)' => KeepsLock(s))
    BY <1>6, <1>a DEF Drops, DaemonCloses, KeepsLock, VmAlive, VmTypeOK
<1> QED BY <1>1, <1>2, <1>3, <1>4, <1>5, <1>6, <1>a, StepKinds

LEMMA RecordedNext ==
    ASSUME Removes = {}, NameInv, [Next]_vars PROVE Recorded'
<1>1. CASE UNCHANGED vars
    BY <1>1 DEF NameInv, Recorded, vars, files, kernel, KeepsLock, VmAlive
<1>2. CASE Next
  <2> SUFFICES ASSUME NEW s \in Starts,
                      pc'[s] \in {"s_fork", "s_poll"} \/ KeepsLock(s)'
               PROVE  config' = s
    BY DEF Recorded
  <2>1. \/ config' = s
        \/ config = s /\ Session(s)
    BY <1>2, ReachKinds DEF NameInv, Recorded, Session, Holding
  <2>2. ASSUME NEW t \in Starts, pc[t] = "s_save", config = s, Session(s) PROVE s = t
    BY <2>2, OneSession DEF NameInv, Session, Holding
  <2>3. \/ config' = config
        \/ \E t \in Starts : pc[t] = "s_save" /\ config' = t
    BY <1>2, FileKinds DEF Files
  <2> QED BY <2>1, <2>2, <2>3
<1> QED BY <1>1, <1>2

LEMMA NameCorrect == ASSUME Removes = {} PROVE Spec => []NameInv
<1>1. Init => OneFile /\ Recorded
  <2>1. \A s \in Starts : s \in Cmds /\ FirstPc(s) = "s_image"
    BY Kinds DEF FirstPc
  <2> QED BY SMT, <2>1 DEF Init, NoVm, OneFile, Recorded, KeepsLock, VmAlive
<1>2. LockInv' /\ NameInv /\ [Next]_vars => NameInv'
    BY OneFileNext, RecordedNext DEF NameInv
<1> QED BY <1>1, <1>2, LockCorrect, PTL DEF Spec, NameInv

(* Unless a vm rm runs, at most one VM of the name is alive with its lock, *)
(* for any number of concurrent commands of the other kinds                *)
(* (acquire_lock).                                                         *)
THEOREM OneVmHolds == ASSUME Removes = {} PROVE Spec => []OneVm
<1>1. NameInv => OneVm
    BY OneSession DEF NameInv, OneVm, Session
<1> QED BY <1>1, NameCorrect, PTL

(* Unless a vm rm runs, vm.json describes the VM that is alive with its    *)
(* lock: only the holder of the lock writes it (start, VmConfig::save).    *)
THEOREM ConfigOfLiveVmHolds == ASSUME Removes = {} PROVE Spec => []ConfigOfLiveVm
<1>1. NameInv => ConfigOfLiveVm
    BY DEF NameInv, Recorded, ConfigOfLiveVm
<1> QED BY <1>1, NameCorrect, PTL

-----------------------------------------------------------------------------
(* What vm stop says.                                                      *)

(* A session goes on or is over for good.                                  *)
LEMMA SessionKinds ==
    ASSUME LockInv, Next, NEW w \in Starts
    PROVE  /\ Session(w) => Session(w)' \/ Gone(w)'
           /\ Gone(w) => Gone(w)'
<1>a. VmTypeOK /\ AllFit /\ w \in Cmds /\ Fits(w)
    BY Kinds DEF LockInv, AllFit
<1>b. KeepsLock(w) => pc[w] = "s_poll" \/ pc[w] \in Ended
    BY <1>a DEF Fits, Up
<1>1. ASSUME UNCHANGED pc, KeepsLock(w)' <=> KeepsLock(w)
      PROVE  (Session(w)' <=> Session(w)) /\ (Gone(w)' <=> Gone(w))
    BY <1>1 DEF Session, Gone
<1>2. ASSUME NEW c \in Cmds, ProbeStep(c)
      PROVE  UNCHANGED pc /\ (KeepsLock(w)' <=> KeepsLock(w))
    BY <1>2 DEF ProbeStep, ProbeOpen, ProbeLock, ProbeUnlock, kernel, KeepsLock, VmAlive
<1>3. ASSUME NEW c \in Cmds, Moved(c)
      PROVE  (Session(w) => Session(w)') /\ (Gone(w) => Gone(w)')
  <2>1. KeepsLock(w)' <=> KeepsLock(w)
    BY <1>3 DEF Moved, KeepsLock, VmAlive
  <2>2. CASE w = c
    BY <1>3, <1>b, <2>2 DEF Moved, Away, Holding, Session, Gone
  <2>3. CASE w # c
    BY <1>3, <1>a, <2>1, <2>3 DEF Moved, Goto, Session, Gone, VmTypeOK
  <2> QED BY <2>2, <2>3
<1>4. ASSUME NEW c \in Cmds, Leaves(c)
      PROVE  /\ Session(w) => Session(w)' \/ Gone(w)'
             /\ Gone(w) => Gone(w)'
    BY <1>4, <1>a DEF Leaves, Exit, Goto, KeepsLock, VmAlive, Session, Gone, VmTypeOK
<1>5. ASSUME NEW t \in Starts, Carries(t) \/ Takes(t) \/ Forks(t)
      PROVE  (Session(w) => Session(w)') /\ (Gone(w) => Gone(w)')
  <2>1. pc[t] \notin Ended /\ \E l \in Holding : Goto(t, l)
    BY <1>5, HoldingLabels DEF Carries, Takes, Forks, Holding, Ended
  <2>2. w = t \/ (KeepsLock(w)' <=> KeepsLock(w))
    BY <1>5, <1>a DEF Carries, Takes, Forks, KeepsLock, VmAlive, VmTypeOK
  <2> QED BY <1>a, <2>1, <2>2 DEF Goto, Session, Gone, VmTypeOK
<1>6. ASSUME NEW t \in Starts, Opens(t)
      PROVE  (Session(w) => Session(w)') /\ (Gone(w) => Gone(w)')
  <2>1. (KeepsLock(w)' <=> KeepsLock(w)) /\ pc[t] = "s_lock"
    BY <1>6 DEF Opens, KeepsLock, VmAlive
  <2>2. CASE w = t
    BY <1>b, <2>1, <2>2 DEF Session, Gone, Holding, Ended
  <2>3. CASE w # t
    BY <1>6, <1>a, <2>1, <2>3 DEF Opens, Goto, Session, Gone, VmTypeOK
  <2> QED BY <2>2, <2>3
<1>7. ASSUME NEW t \in Starts, Drops(t)
      PROVE  /\ Session(w) => Session(w)' \/ Gone(w)'
             /\ Gone(w) => Gone(w)'
  <2>1. /\ UNCHANGED pc /\ (KeepsLock(w)' => KeepsLock(w))
        /\ w = t \/ (KeepsLock(w)' <=> KeepsLock(w))
    BY <1>7, <1>a DEF Drops, DaemonCloses, KeepsLock, VmAlive, VmTypeOK
  <2> QED BY <1>b, <2>1 DEF Session, Gone, Holding
<1> QED BY <1>1, <1>2, <1>3, <1>4, <1>5, <1>6, <1>7, <1>a, StepKinds

(* The stop has seen the lock free after its watched session held it.      *)
Certain(c) == pc[c] = "done" \/ (pc[c] = "t_final" /\ probe[c] = "no")

WatchInv == \A c \in Stops : watch[c] \in Starts =>
    /\ Session(watch[c]) \/ Gone(watch[c])
    /\ Certain(c) => Gone(watch[c])

Same(c) == pc'[c] = pc[c] /\ probe'[c] = probe[c] /\ watch'[c] = watch[c]

(* Only the commands' own steps move them, and only their probes watch.    *)
LEMMA WatchKept ==
    ASSUME NEW c \in Cmds,
           \/ CliDies(c) \/ StopStep(c) \/ ListStep(c) \/ PruneStep(c)
           \/ ResetStep(c) \/ RemoveStep(c)
    PROVE  UNCHANGED watch
<1>1. CASE CliDies(c)
    BY <1>1 DEF CliDies, locals
<1>2. CASE StopStep(c)
    BY <1>2 DEF StopStep, StopProbed, StopReadPid, StopSignal, StopWait,
        StopAgain, StopPasst, StopFinal, locals
<1>3. CASE ListStep(c)
    BY <1>3 DEF ListStep, ListProbed, ListReadPid, locals
<1>4. CASE PruneStep(c)
    BY <1>4 DEF PruneStep, PruneList, PruneProbed, PrunePasst, PruneSock,
        PruneTruncate, locals
<1>5. CASE ResetStep(c)
    BY <1>5 DEF ResetStep, ResetProbed, ResetLoad, ResetRemove, ResetCreate,
        locals
<1>6. CASE RemoveStep(c)
    BY <1>6 DEF RemoveStep, RemoveProbed, RemoveList, RemoveEntry, RemoveDir,
        locals
<1> QED BY <1>1, <1>2, <1>3, <1>4, <1>5, <1>6

LEMMA StartWatchKept ==
    ASSUME NEW s \in Starts,
           \/ StartStep(s) \/ StartFails(s) \/ DaemonStep(s) \/ DaemonDies(s)
           \/ PasstExits(s)
    PROVE  UNCHANGED watch
<1>1. ASSUME StartError(s) PROVE UNCHANGED watch
    BY <1>1 DEF StartError, locals
<1>2. CASE \/ StartImage(s) \/ StartProbed(s) \/ StartMkdir(s) \/ StartOverlay(s)
           \/ StartMkOverlay(s) \/ StartOpenLock(s)
    BY <1>1, <1>2 DEF StartImage, StartProbed, StartMkdir, StartOverlay,
        StartMkOverlay, StartOpenLock, locals
<1>3. CASE \/ StartFlock(s) \/ StartPasst(s) \/ StartSave(s) \/ StartFork(s)
           \/ StartReturn(s) \/ StartFails(s)
    BY <1>1, <1>3 DEF StartFlock, StartPasst, StartSave, StartFork,
        StartReturn, StartFails, locals
<1>4. CASE DaemonStep(s) \/ DaemonDies(s) \/ PasstExits(s)
    BY <1>4 DEF DaemonStep, DaemonUpdate, DaemonRuns, DaemonDies, PasstExits, locals
<1> QED BY <1>2, <1>3, <1>4 DEF StartStep

LEMMA OthersKeep ==
    ASSUME VmTypeOK, NEW c \in Cmds, NEW d \in Cmds, d # c,
           \/ Moved(d) \/ Leaves(d) \/ Carries(d) \/ Opens(d) \/ Takes(d)
           \/ Forks(d)
    PROVE  pc'[c] = pc[c] /\ probe'[c] = probe[c]
BY DEF Moved, Asked, Leaves, Exit, Carries, Opens, Takes, Forks, Goto, VmTypeOK

(* What a step means to stop c: it learns nothing, or sees the lock free,  *)
(* or finds a session to watch.                                            *)
Learns(c) ==
    \/ watch'[c] = watch[c] /\ (Certain(c)' => Certain(c))
    \/ watch'[c] = watch[c] /\ \A s \in Starts : ~Session(s)
    \/ watch'[c] \in Starts /\ Session(watch'[c]) /\ ~Certain(c)'

LEMMA SameLearns == ASSUME NEW c \in Stops, Same(c) PROVE Learns(c)
BY DEF Same, Learns, Certain

LEMMA ProbeLearns ==
    ASSUME NameInv, NEW c \in Stops, NEW d \in Cmds, ProbeStep(d) PROVE Learns(c)
<1>a. /\ VmTypeOK /\ c \in Cmds /\ c \notin Starts /\ Fits(c) /\ UNCHANGED pc
      /\ LockInv /\ OneFile
    BY Kinds DEF NameInv, LockInv, AllFit, ProbeStep, ProbeOpen, ProbeLock,
        ProbeUnlock
<1>1. CASE d # c
    BY <1>1, <1>a, SameLearns DEF ProbeStep, ProbeOpen, ProbeLock, ProbeUnlock,
        Same, locals, VmTypeOK
<1>2. CASE ProbeOpen(c)
  <2>1. UNCHANGED watch
    BY <1>2 DEF ProbeOpen, locals
  <2>2. CASE ino = 0
    BY <2>1, <2>2, <1>a, SessionHasName DEF Learns
  <2>3. CASE ino # 0
    BY <1>2, <1>a, <2>1, <2>3 DEF ProbeOpen, Learns, Certain, VmTypeOK
  <2> QED BY <2>2, <2>3
<1>3. CASE ProbeLock(c)
  <2>1. pc[c] # "done" /\ locked[c] = 0 /\ fd[c] # 0
    BY <1>3, <1>a, AwayEnded, HoldingLabels
        DEF ProbeLock, Live, Ended, Fits, Probing, Up, ProbePoints, Holding
  <2>2. probe'[c] # "no"
    BY <1>3, <1>a DEF ProbeLock, VmTypeOK
  <2>3. CASE UNCHANGED watch
    BY <1>a, <2>1, <2>2, <2>3 DEF Learns, Certain
  <2>4. ASSUME NEW h \in Cmds, locked[h] = fd[c], probe[h] # "locked",
               watch' = [watch EXCEPT ![c] = h]
        PROVE  Learns(c)
    <3>1. Fits(h) /\ locked[h] # 0
      BY <2>1, <2>4, <1>a DEF LockInv, AllFit
    <3>2. h \in Starts /\ Session(h)
      BY <3>1, <2>4 DEF Fits, Session, Up
    <3> QED BY <1>a, <2>1, <2>2, <2>4, <3>2 DEF Learns, Certain, VmTypeOK
  <2> QED BY <1>3, <2>3, <2>4 DEF ProbeLock
<1>4. CASE ProbeUnlock(c)
  <2>1. UNCHANGED watch
    BY <1>4 DEF ProbeUnlock, locals
  <2>2. locked[c] = ino /\ ino # 0
    BY <1>4, <1>a DEF ProbeUnlock, Fits, Probing, OneFile
  <2>3. ASSUME NEW s \in Starts, Session(s) PROVE FALSE
    BY <2>2, <2>3, <1>a, SessionHasName, Kinds DEF LockInv, Exclusive
  <2> QED BY <2>1, <2>3 DEF Learns
<1> QED BY <1>1, <1>2, <1>3, <1>4 DEF ProbeStep

LEMMA StopLearns ==
    ASSUME NameInv, NEW c \in Stops, StopStep(c) PROVE Learns(c)
<1>a. /\ VmTypeOK /\ c \in Cmds /\ Fits(c) /\ watch'[c] = watch[c]
    BY Kinds, WatchKept DEF NameInv, LockInv, AllFit
<1>b. pc[c] \notin ProbePoints => probe[c] = "idle"
    BY <1>a DEF Fits
<1>c. SUFFICES Certain(c)' => Certain(c)
    BY <1>a DEF Learns
<1>1. CASE StopProbed(c)
    BY <1>1, <1>a DEF StopProbed, Answer, Goto, Certain, VmTypeOK
<1>2. CASE StopReadPid(c)
    BY <1>2, <1>a DEF StopReadPid, Goto, Certain, VmTypeOK
<1>3. CASE StopSignal(c)
    BY <1>3, <1>a DEF StopSignal, AfterWait, Goto, Certain, VmTypeOK
<1>4. CASE StopWait(c)
    BY <1>4, <1>a DEF StopWait, AfterWait, Answer, Goto, Certain, VmTypeOK
<1>5. CASE StopAgain(c)
    BY <1>5, <1>a DEF StopAgain, Answer, Goto, Certain, VmTypeOK
<1>6. CASE StopPasst(c)
    BY <1>6, <1>a, <1>b DEF StopPasst, At, Goto, Certain, ProbePoints, VmTypeOK
<1>7. CASE StopFinal(c)
    BY <1>7, <1>a DEF StopFinal, Answer, At, Goto, Certain, VmTypeOK
<1> QED BY <1>1, <1>2, <1>3, <1>4, <1>5, <1>6, <1>7 DEF StopStep

LEMMA LearnKinds ==
    ASSUME NameInv, Next, NEW c \in Stops PROVE Learns(c)
<1>a. VmTypeOK /\ AllFit /\ c \in Cmds /\ c \notin Starts
    BY Kinds DEF NameInv, LockInv
<1>1. ASSUME NEW d \in Cmds, CliDies(d) PROVE Learns(c)
  <2>1. UNCHANGED watch
    BY <1>1, WatchKept
  <2> QED BY <1>1, <1>a, <2>1 DEF CliDies, Exit, Goto, Learns, Certain, VmTypeOK
<1>2. ASSUME NEW d \in Cmds, d # c, Moved(d), UNCHANGED watch PROVE Learns(c)
    BY <1>2, <1>a, OthersKeep, SameLearns DEF Same
<1>3. ASSUME NEW s \in Starts, StartStep(s) \/ StartFails(s) PROVE Learns(c)
  <2>1. UNCHANGED watch /\ s \in Cmds /\ s # c
    BY <1>3, <1>a, StartWatchKept, Kinds
  <2>2. pc'[c] = pc[c] /\ probe'[c] = probe[c]
    BY <1>3, <1>a, <2>1, StartKinds, OthersKeep
  <2> QED BY <2>1, <2>2, SameLearns DEF Same
<1>4. ASSUME NEW s \in Starts, DaemonStep(s) \/ DaemonDies(s) \/ PasstExits(s)
      PROVE  Learns(c)
  <2>1. UNCHANGED <<watch, pc, probe>>
    BY <1>4, <1>a, StartWatchKept, DaemonKinds DEF Drops
  <2> QED BY <2>1, SameLearns DEF Same
<1>5. ASSUME NEW d \in Stops, StopStep(d) PROVE Learns(c)
    BY <1>2, <1>5, StopLearns, StopMoved, WatchKept, Kinds
<1>6. ASSUME NEW d \in Lists, ListStep(d) PROVE Learns(c)
    BY <1>2, <1>6, ListMoved, WatchKept, Kinds, CmdsAssumption
<1>7. ASSUME NEW d \in Prunes, PruneStep(d) PROVE Learns(c)
    BY <1>2, <1>7, PruneMoved, WatchKept, Kinds, CmdsAssumption
<1>8. ASSUME NEW d \in Resets, ResetStep(d) PROVE Learns(c)
    BY <1>2, <1>8, ResetMoved, WatchKept, Kinds, CmdsAssumption
<1>9. ASSUME NEW d \in Removes, RemoveStep(d) PROVE Learns(c)
  <2>1. UNCHANGED watch /\ d \in Cmds /\ d # c
    BY <1>9, WatchKept, Kinds, CmdsAssumption
  <2> QED BY <1>2, <1>9, <2>1, RemoveMoved, SameLearns DEF Same
<1>10. ASSUME Quiet PROVE Learns(c)
    BY <1>10, SameLearns DEF Quiet, vars, locals, Same
<1> QED BY <1>1, <1>3, <1>4, <1>5, <1>6, <1>7, <1>8, <1>9, <1>10, ProbeLearns
        DEF Next

LEMMA WatchNext ==
    ASSUME NameInv, WatchInv, [Next]_vars PROVE WatchInv'
<1>1. CASE UNCHANGED vars
  <2>1. UNCHANGED <<pc, probe, watch, dmn, dfd>>
    BY <1>1 DEF vars, locals, kernel
  <2> QED BY <2>1 DEF WatchInv, Session, Gone, Certain, KeepsLock, VmAlive
<1>2. CASE Next
  <2> SUFFICES ASSUME NEW c \in Stops, NEW w \in Starts, watch'[c] = w
               PROVE  /\ Session(w)' \/ Gone(w)'
                      /\ Certain(c)' => Gone(w)'
    BY DEF WatchInv, Session, Gone, KeepsLock, VmAlive
  <2>1. (Session(w) => Session(w)' \/ Gone(w)') /\ (Gone(w) => Gone(w)')
    BY <1>2, SessionKinds DEF NameInv
  <2>2. watch[c] = w =>
          (Session(w) \/ Gone(w)) /\ (Certain(c) => Gone(w))
    BY DEF WatchInv
  <2>3. Learns(c)
    BY <1>2, LearnKinds
  <2>4. CASE watch[c] = w /\ (Certain(c)' => Certain(c))
    BY <2>1, <2>2, <2>4
  <2>5. CASE watch[c] = w /\ ~Session(w)
    BY <2>1, <2>2, <2>5
  <2>6. CASE Session(w) /\ ~Certain(c)'
    BY <2>1, <2>6
  <2> QED BY <2>3, <2>4, <2>5, <2>6 DEF Learns
<1> QED BY <1>1, <1>2

(* Unless a vm rm runs, a stop that reports success tells the truth: the   *)
(* session whose lock it first found is over, CLI process and daemon both  *)
(* (but for a daemon that lost the lock), whatever else started or ended   *)
(* since (vm_stop, the last is_running()).                                 *)
THEOREM StopMeansStoppedHolds ==
    ASSUME Removes = {} PROVE Spec => []StopMeansStopped
<1>1. Init => WatchInv
  <2>1. None \notin Starts
    BY CmdsAssumption, Kinds
  <2> QED BY SMT, <2>1 DEF Init, NoVm, WatchInv
<1>2. NameInv /\ WatchInv /\ [Next]_vars => WatchInv'
    BY WatchNext
<1>3. WatchInv => StopMeansStopped
    BY DEF WatchInv, StopMeansStopped, Certain, Gone
<1> QED BY <1>1, <1>2, <1>3, NameCorrect, PTL DEF Spec

-----------------------------------------------------------------------------
(* The commands implement VmContract.                                      *)
Alive == {s \in Starts : KeepsLock(s)}

LEMMA SessionsAre == LockInv => Sessions = {s \in Starts : Session(s)}
<1> SUFFICES ASSUME LockInv, NEW s \in Starts
             PROVE  locked[s] # 0 /\ probe[s] # "locked" <=> Session(s)
    BY DEF Sessions
<1>1. s \in Cmds /\ Fits(s)
    BY Kinds DEF LockInv, AllFit
<1>2. Session(s) => pc[s] \notin ProbePoints
    BY <1>1, HoldingLabels DEF Session, Fits, Up, Ended, ProbePoints
<1> QED BY SMT, <1>1, <1>2 DEF Session, Fits, Up

LEMMA SessionsAreNext == (LockInv => Sessions = {s \in Starts : Session(s)})'
BY SessionsAre, PTL

(* At most the session s has the name, and no VM runs before it forks one. *)
LEMMA Owner ==
    ASSUME LockInv, OneFile, NEW s \in Starts, pc[s] \in Holding
    PROVE  /\ Sessions = {s} /\ Alive \subseteq {s}
           /\ pc[s] # "s_poll" => Alive = {}
<1>1. Session(s) /\ \A t \in Starts : Session(t) => t = s
    BY OneSession DEF Session
<1>2. pc[s] # "s_poll" => ~KeepsLock(s)
    BY Kinds, HoldingLabels DEF LockInv, AllFit, Fits, Up
<1> QED BY <1>1, <1>2, SessionsAre DEF Alive, Session

(* Steps that are none of the contract's.                                  *)
LEMMA Stutter ==
    ASSUME LockInv, LockInv', config' = config,
           \A s \in Starts : /\ KeepsLock(s)' <=> KeepsLock(s)
                             /\ Session(s)' <=> Session(s)
    PROVE  UNCHANGED <<Sessions, config, Alive>>
<1>1. Sessions' = {s \in Starts : Session(s)'}
    BY SessionsAreNext
<1> QED BY <1>1, SessionsAre DEF Alive

LEMMA ContractStep ==
    ASSUME Removes = {}, NameInv, LockInv', Next
    PROVE  Contract!Next \/ UNCHANGED <<Sessions, config, Alive>>
<1> DEFINE Step == Contract!Next \/ UNCHANGED <<Sessions, config, Alive>>
<1>a. /\ VmTypeOK /\ AllFit /\ LockInv /\ OneFile /\ Recorded
      /\ Sessions = {s \in Starts : Session(s)}
      /\ Sessions' = {s \in Starts : Session(s)'}
    BY SessionsAre, SessionsAreNext DEF NameInv, LockInv
<1>b. \A s \in Starts : KeepsLock(s) => pc[s] = "s_poll" \/ pc[s] \in Ended
    BY <1>a, Kinds DEF LockInv, AllFit, Fits, Up
<1>1. ASSUME NEW s \in Starts, pc[s] = "s_save", config' = s, Carries(s) PROVE Step
  <2>1. pc[s] \in Holding /\ (\A t \in Starts : KeepsLock(t)' <=> KeepsLock(t))
    BY <1>1 DEF Carries, KeepsLock, VmAlive
  <2>2. Sessions = {s} /\ Alive = {}
    BY <1>1, <1>a, <2>1, Owner
  <2>3. \A t \in Starts : Session(t)' <=> Session(t)
    BY <1>1, <1>a, <2>1, Kinds DEF Carries, Goto, Session, VmTypeOK
  <2>4. Sessions' = Sessions /\ Alive' = Alive
    BY <1>a, <2>1, <2>3 DEF Alive
  <2>5. Contract!Record(s)
    BY <1>1, <2>2, <2>4 DEF Contract!Record, Alive
  <2> QED BY <2>5 DEF Contract!Next
<1>2. ASSUME config' = config, NEW c \in Cmds, ProbeStep(c) \/ Moved(c) PROVE Step
  <2>1. \A s \in Starts : KeepsLock(s)' <=> KeepsLock(s)
    BY <1>2 DEF ProbeStep, ProbeOpen, ProbeLock, ProbeUnlock, kernel, Moved, KeepsLock, VmAlive
  <2>2. \A s \in Starts : pc'[s] \in Holding <=> pc[s] \in Holding
    BY <1>2, <1>a, Kinds DEF ProbeStep, ProbeOpen, ProbeLock, ProbeUnlock,
        Moved, Goto, Away, VmTypeOK
  <2> QED BY <1>2, <1>a, <2>1, <2>2, Stutter DEF Session
<1>3. ASSUME config' = config, NEW c \in Cmds, Leaves(c) PROVE Step
  <2>1. /\ \A s \in Starts : KeepsLock(s)' <=> KeepsLock(s)
        /\ \A s \in Starts \ {c} : pc'[s] = pc[s]
        /\ pc'[c] \notin Holding
    BY <1>3, <1>a, Kinds, AwayEnded DEF Leaves, Exit, Goto, KeepsLock, VmAlive, VmTypeOK, Away
  <2>2. CASE c \notin Starts \/ pc[c] \notin Holding \/ KeepsLock(c)
    BY <1>3, <1>a, <2>1, <2>2, Stutter DEF Session
  <2>3. CASE c \in Starts /\ pc[c] \in Holding /\ ~KeepsLock(c)
    <3>1. Sessions = {c} /\ Alive = {}
      BY <1>a, <2>3, Owner DEF Alive
    <3>2. Sessions' = {} /\ Alive' = Alive
      BY SMT, <1>a, <2>1, <2>3, <3>1 DEF Session, Alive
    <3>3. Contract!Release(c)
      BY <1>3, <3>1, <3>2 DEF Contract!Release, Alive
    <3> QED BY <2>3, <3>3 DEF Contract!Next
  <2> QED BY <2>2, <2>3
<1>4. ASSUME config' = config, NEW s \in Starts, Carries(s) \/ Opens(s) PROVE Step
  <2>1. \A t \in Starts : KeepsLock(t)' <=> KeepsLock(t)
    BY <1>4 DEF Carries, Opens, KeepsLock, VmAlive
  <2>2. \A t \in Starts : pc'[t] \in Holding <=> pc[t] \in Holding
    BY <1>4, <1>a, Kinds DEF Carries, Opens, Goto, Holding, VmTypeOK
  <2> QED BY <1>4, <1>a, <2>1, <2>2, Stutter DEF Session
<1>5. ASSUME config' = config, NEW s \in Starts, Takes(s) PROVE Step
  <2>1. \A t \in Starts : KeepsLock(t)' <=> KeepsLock(t)
    BY <1>5 DEF Takes, KeepsLock, VmAlive
  <2>2. /\ \A t \in Starts \ {s} : pc'[t] = pc[t]
        /\ pc'[s] = "s_passt" /\ pc[s] = "s_flock"
    BY <1>5, <1>a, Kinds DEF Takes, Goto, VmTypeOK
  <2>3. fd[s] = ino /\ Unlocked(ino)
    BY <1>5, <1>a, Kinds DEF Takes, LockInv, AllFit, Fits, OneFile
  <2>4. \A t \in Starts : ~Session(t)
    BY <1>a, <2>3, SessionHasName, Kinds DEF Unlocked
  <2>5. Sessions = {} /\ Sessions' = {s} /\ Alive' = Alive
    BY <1>a, <2>1, <2>2, <2>4 DEF Session, Holding, Alive
  <2>6. Contract!Acquire(s)
    BY <1>5, <2>5 DEF Contract!Acquire, Alive
  <2> QED BY <2>6 DEF Contract!Next
<1>6. ASSUME config' = config, NEW s \in Starts, Forks(s) PROVE Step
  <2>1. pc[s] = "s_fork" /\ pc'[s] = "s_poll" /\ \A t \in Starts \ {s} : pc'[t] = pc[t]
    BY <1>6, <1>a, Kinds DEF Forks, Goto, VmTypeOK
  <2>2. Sessions = {s} /\ Alive = {} /\ config = s
    BY <1>a, <2>1, Owner DEF Holding, Recorded
  <2>3. \A t \in Starts \ {s} : KeepsLock(t)' <=> KeepsLock(t)
    BY <1>6, <1>a DEF Forks, KeepsLock, VmAlive, VmTypeOK
  <2>4. Sessions' = Sessions
    BY <1>a, <2>1, <2>3 DEF Session, Holding
  <2>5. CASE KeepsLock(s)'
    <3>1. Alive' = {s}
      BY <2>2, <2>3, <2>5 DEF Alive
    <3>2. Contract!Boot(s)
      BY <1>6, <2>2, <2>4, <3>1 DEF Contract!Boot, Alive
    <3> QED BY <3>2 DEF Contract!Next
  <2>6. CASE ~KeepsLock(s)'
    BY <1>6, <2>2, <2>3, <2>4, <2>6 DEF Alive
  <2> QED BY <2>5, <2>6
<1>7. ASSUME config' = config, NEW s \in Starts, Drops(s) PROVE Step
  <2>1. /\ UNCHANGED pc /\ KeepsLock(s) /\ ~KeepsLock(s)'
        /\ \A t \in Starts \ {s} : KeepsLock(t)' <=> KeepsLock(t)
    BY <1>7, <1>a DEF Drops, DaemonCloses, KeepsLock, VmAlive, VmTypeOK
  <2>2. \A t \in Starts : Session(t) => t = s
    BY <1>a, <2>1, OneSession DEF Session
  <2>3. Alive = {s} /\ Alive' = {}
    BY <2>1, <2>2 DEF Alive, Session
  <2>4. Sessions' \in {Sessions, {}}
    BY <1>a, <2>1, <2>2 DEF Session
  <2>5. Contract!PowerOff(s)
    BY <1>7, <2>3, <2>4 DEF Contract!PowerOff, Alive
  <2> QED BY <2>5 DEF Contract!Next
<1>8. ASSUME config' = config, UNCHANGED pc,
             \A s \in Starts : KeepsLock(s)' <=> KeepsLock(s)
      PROVE  Step
    BY <1>8, <1>a, Stutter DEF Session
<1>9. Files
    BY FileKinds
<1>10. CASE config' = config
    BY <1>2, <1>3, <1>4, <1>5, <1>6, <1>7, <1>8, <1>10, <1>a, StepKinds
<1>11. CASE config' # config
    BY <1>1, <1>9, <1>11 DEF Files
<1> QED BY <1>10, <1>11

(* Unless a vm rm runs, the commands implement the abstract life of a VM   *)
(* name: sessions follow each other, vm.json is written by the session     *)
(* that has the name, and the name is not given back under a VM that has   *)
(* its lock.                                                               *)
THEOREM Implements == ASSUME Removes = {} PROVE Spec => SessionsAreSerial
<1>1. Init => Contract!Init
    BY SMT, Kinds DEF Init, NoVm, Contract!Init, Sessions, KeepsLock, VmAlive
<1>2. NameInv /\ NameInv' /\ [Next]_vars
        => [Contract!Next]_<<Sessions, config, {s \in Starts : KeepsLock(s)}>>
  <2> SUFFICES ASSUME NameInv, NameInv', [Next]_vars
               PROVE  [Contract!Next]_<<Sessions, config, {s \in Starts : KeepsLock(s)}>>
    OBVIOUS
  <2>1. CASE Next
    BY <2>1, ContractStep DEF NameInv, Alive
  <2>2. CASE UNCHANGED vars
    BY <2>2 DEF vars, files, kernel, Sessions, KeepsLock, VmAlive
  <2> QED BY <2>1, <2>2
<1> QED BY <1>1, <1>2, NameCorrect, PTL DEF Spec, SessionsAreSerial, Contract!Spec
=============================================================================
