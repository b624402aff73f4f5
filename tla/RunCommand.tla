------------------------------ MODULE RunCommand ------------------------------
(***************************************************************************)
(* `arapuca run' (run_subcommand in bin/arapuca.rs) from its arguments to  *)
(* its exit: the CONNECT proxy it forks, the launch (module Launch; here   *)
(* one step), the signal handlers, the timeout thread, the PTY loop and    *)
(* the use of the Process handle.  With caller = "lib" the handle is in    *)
(* the hands of a program that calls signal(), wait(), cleanup() or just   *)
(* drops it.                                                               *)
(*                                                                         *)
(* A signal to the command is handled on the main thread or on the timeout *)
(* thread, whichever the kernel picks; the thread stands still meanwhile.  *)
(* A handler nested in another one on the same thread is left out.         *)
(***************************************************************************)
EXTENDS PtyLoop

VARIABLES childPid,     \* CHILD_PID is not 0
          childFd,      \* CHILD_PIDFD: "none", or whose pidfd it is
          fdOpen,       \* that descriptor is open
          handlers,     \* the handlers are installed
          count,        \* SIGNAL_COUNT or TTY_SIGNAL_COUNT
          recorded,     \* TTY_SIGNAL_RECEIVED is not 0
          done,         \* the flag the timeout thread looks at
          tpc,          \* the timeout thread
          hpc,          \* thread -> the handler that runs on it
          sel,          \* thread -> the addressee it has loaded
          nth,          \* thread -> the value fetch_add returned
          sent,         \* signals sent by the user
          code          \* the exit code

frontVars == <<childPid, childFd, fdOpen, handlers, count, recorded, done, code>>
threadVars == <<tpc, hpc, sel, nth, sent>>
rest == <<procVars, handleVars, ptyVars>>
vars == <<cfg, pc, rest, frontVars, threadVars>>

Threads == {"main", "timer"}
Ended == {"exit", "quit", "dead"}

Init ==
    /\ cfg \in Configs
    /\ pc = IF cfg.caller = "cli" THEN "start" ELSE "launch"
    /\ live = [p \in Procs |-> "none"]
    /\ status = [p \in Procs |-> "none"]
    /\ pend = {} /\ group = {} /\ foreign = FALSE
    /\ waited = FALSE /\ taken = FALSE /\ ret = "none"
    /\ cgroup = "none" /\ list = {} /\ tries = 0
    /\ tmp = "none" /\ sockdir = "none"
    /\ term = "cooked" /\ cleanupFd = FALSE /\ nonblock = FALSE
    /\ stdin = TRUE /\ typed = cfg.typed /\ pending = 0
    /\ inq = 0 /\ outq = 0 /\ slave = {}
    /\ rev = {} /\ left = "no"
    /\ childPid = FALSE /\ childFd = "none" /\ fdOpen = FALSE
    /\ handlers = FALSE /\ count = 0 /\ recorded = FALSE /\ done = FALSE
    /\ tpc = "off"
    /\ hpc = [h \in Threads |-> "idle"]
    /\ sel = [h \in Threads |-> "none"]
    /\ nth = [h \in Threads |-> 0]
    /\ sent = 0 /\ code = "none"

-----------------------------------------------------------------------------
(* The main thread up to the launch.                                       *)

(* Arguments and paths are checked; an error exits with 125.               *)
Start ==
    /\ pc = "start"
    /\ \/ Goto(IF cfg.proxy = "cli" THEN "mkproxy" ELSE "launch") /\ UNCHANGED code
       \/ "args" \in Faults /\ Goto("exit") /\ code' = "125"
    /\ UNCHANGED <<cfg, rest, childPid, childFd, fdOpen, handlers, count,
                   recorded, done, threadVars>>

(* fork_connect_proxy: the directory is kept from here on, also when bind, *)
(* pipe2 or fork fails.                                                    *)
MakeProxy ==
    /\ pc = "mkproxy"
    /\ sockdir' = "present"
    /\ \/ live' = [live EXCEPT !["proxy"] = "live"] /\ Goto("await") /\ UNCHANGED code
       \/ "fork" \in Faults /\ Goto("quit") /\ code' = "125" /\ UNCHANGED live
    /\ UNCHANGED <<cfg, status, pend, group, foreign, waited, cgroup, list,
                   tries, tmp, taken, ret, ptyVars, childPid, childFd, fdOpen,
                   handlers, count, recorded, done, threadVars>>

(* The proxy's readiness byte, or fail_proxy after 5 s or its death.       *)
AwaitProxy ==
    /\ pc = "await"
    /\ \/ Live("proxy") /\ Goto("launch") /\ UNCHANGED <<pend, sockdir, code>>
       \/ /\ "timeout" \in Faults \/ ~Live("proxy")
          /\ Send(Killed({"proxy"}))
          /\ sockdir' = "removed"
          /\ Goto("quit") /\ code' = "125"
    /\ UNCHANGED <<cfg, live, status, group, foreign, waited, cgroup, list,
                   tries, tmp, taken, ret, ptyVars, childPid, childFd, fdOpen,
                   handlers, count, recorded, done, threadVars>>

(* Sandbox::launch, as Launch describes it: all or nothing.                *)
Launches ==
    /\ pc = "launch"
    /\ live' = [live EXCEPT !["child"] = "live",
                            !["target"] = IF cfg.pidns THEN "live" ELSE "none",
                            !["proxy"] = IF cfg.proxy = "lib" THEN "live" ELSE live["proxy"]]
    /\ group' = {"child"} \cup (IF cfg.pidns THEN {"target"} ELSE {})
    /\ cgroup' = IF cfg.cgroup THEN "present" ELSE "none"
    /\ tmp' = "present"
    /\ sockdir' = IF cfg.proxy = "lib" THEN "present" ELSE sockdir
    /\ slave' = IF cfg.tty THEN group' ELSE {}
    /\ Goto(IF cfg.caller = "cli" THEN "pid" ELSE "held")
    /\ UNCHANGED <<cfg, status, pend, foreign, waited, list, tries, taken, ret,
                   ttyVars, queueVars, frontVars, threadVars>>

LaunchFails ==
    /\ pc = "launch" /\ "launch" \in Faults
    /\ code' = "125"
    /\ Goto(IF cfg.proxy = "cli" THEN "p_kill" ELSE "exit")
    /\ UNCHANGED <<cfg, rest, childPid, childFd, fdOpen, handlers, count,
                   recorded, done, threadVars>>

-----------------------------------------------------------------------------
(* Signal forwarding is set up: store_child_pid and the two install_*      *)
(* functions.  With a terminal the timeout thread comes first.             *)

StorePid ==
    /\ pc = "pid"
    /\ childPid' = TRUE /\ count' = 0 /\ recorded' = FALSE
    /\ Goto("fd")
    /\ UNCHANGED <<cfg, rest, childFd, fdOpen, handlers, done, code, threadVars>>

(* pidfd_open on the number: whoever has it now.                           *)
OpenFd ==
    /\ pc = "fd"
    /\ childFd' = CASE ~cfg.pidfd                  -> "none"
                    [] cfg.pidfd /\ foreign        -> "other"
                    [] cfg.pidfd /\ ~foreign       ->
                           IF live[Named] = "reaped" THEN "none" ELSE "ours"
    /\ fdOpen' = (childFd' # "none")
    /\ Goto(IF cfg.tty THEN "nonblock" ELSE "handlers")
    /\ UNCHANGED <<cfg, rest, childPid, handlers, count, recorded, done, code,
                   threadVars>>

SetNonblock ==
    /\ pc = "nonblock"
    /\ nonblock' = TRUE
    /\ Goto("timer")
    /\ UNCHANGED <<cfg, procVars, handleVars, term, cleanupFd, flowVars,
                   frontVars, threadVars>>

SpawnTimer ==
    /\ pc = "timer"
    /\ tpc' = IF cfg.timeout THEN "sleep" ELSE "off"
    /\ Goto(IF cfg.tty THEN "handlers" ELSE "wait")
    /\ UNCHANGED <<cfg, rest, frontVars, hpc, sel, nth, sent>>

(* Mutant of InstallHandlers: with a terminal they come too late.          *)
InstallHandlersLate ==
    /\ pc = "handlers"
    /\ handlers' = ~cfg.tty
    /\ Goto(IF cfg.tty THEN "raw" ELSE "timer")
    /\ UNCHANGED <<cfg, rest, childPid, childFd, fdOpen, count, recorded, done,
                   code, threadVars>>

InstallHandlers ==
    /\ pc = "handlers"
    /\ handlers' = TRUE
    /\ Goto(IF cfg.tty THEN "raw" ELSE "timer")
    /\ UNCHANGED <<cfg, rest, childPid, childFd, fdOpen, count, recorded, done,
                   code, threadVars>>

-----------------------------------------------------------------------------
(* The main thread after wait().                                           *)

SetDone ==
    /\ pc = "done"
    /\ done' = TRUE
    /\ Goto("clearpid")
    /\ UNCHANGED <<cfg, rest, childPid, childFd, fdOpen, handlers, count,
                   recorded, code, threadVars>>

(* Mutant of ClearPid: CHILD_PID keeps its value.                          *)
ClearPidForgotten ==
    /\ pc = "clearpid"
    /\ Goto("clearfd")
    /\ UNCHANGED <<cfg, rest, frontVars, threadVars>>

ClearPid ==
    /\ pc = "clearpid"
    /\ childPid' = FALSE
    /\ Goto("clearfd")
    /\ UNCHANGED <<cfg, rest, childFd, fdOpen, handlers, count, recorded, done,
                   code, threadVars>>

ClearFd ==
    /\ pc = "clearfd"
    /\ childFd' = "none"
    /\ Goto("closefd")
    /\ UNCHANGED <<cfg, rest, childPid, fdOpen, handlers, count, recorded, done,
                   code, threadVars>>

(* The exit code: the status, 128 and the signal, or 125; with a terminal  *)
(* a signal to the command replaces a 0.                                   *)
ExitCode ==
    CASE ret = "error"  -> "125"
      [] ret = "signal" -> "128"
      [] ret = "zero" /\ cfg.tty /\ recorded -> "128"
      [] OTHER -> ret

CloseFd ==
    /\ pc = "closefd"
    /\ fdOpen' = FALSE
    /\ code' = ExitCode
    /\ Goto("cleanup")
    /\ UNCHANGED <<cfg, rest, childPid, childFd, handlers, count, recorded,
                   done, threadVars>>

-----------------------------------------------------------------------------
(* signal_child and the handlers.                                          *)

(* The addressee: the pidfd if there is one, else the PID if it is set.    *)
Loaded == IF childFd # "none" THEN childFd ELSE IF childPid THEN "pid" ELSE "none"

(* What a signal to the loaded addressee does.  The number of a closed     *)
(* descriptor is not a pidfd any more, and the call fails.                 *)
Delivered(s, sig) ==
    CASE s = "ours" /\ fdOpen  -> ToTarget(sig)
      [] s = "other" /\ fdOpen -> {<<"other", sig>>}
      [] s = "pid"             -> ToNumber(sig)
      [] OTHER                 -> {}

Runs(h) == hpc[h] = "idle" /\ pc \notin Ended

(* The timeout thread: sleep, look at the flag, SIGTERM, sleep 5 s, look   *)
(* again, SIGKILL.                                                         *)
TimerWakes ==
    /\ Runs("timer") /\ tpc \in {"sleep", "sleep5"}
    /\ tpc' = IF done THEN "off" ELSE IF tpc = "sleep" THEN "load" ELSE "load5"
    /\ UNCHANGED <<cfg, pc, rest, frontVars, hpc, sel, nth, sent>>

TimerLoads ==
    /\ Runs("timer") /\ tpc \in {"load", "load5"}
    /\ sel' = [sel EXCEPT !["timer"] = Loaded]
    /\ tpc' = IF tpc = "load" THEN "send" ELSE "send5"
    /\ UNCHANGED <<cfg, pc, rest, frontVars, hpc, nth, sent>>

(* Mutant of TimerSends: SIGTERM twice.                                    *)
TimerSendsTerm ==
    /\ Runs("timer") /\ tpc \in {"send", "send5"}
    /\ Send(Delivered(sel["timer"], "TERM"))
    /\ tpc' = IF tpc = "send" THEN "sleep5" ELSE "off"
    /\ sel' = [sel EXCEPT !["timer"] = "none"]
    /\ UNCHANGED <<cfg, pc, live, status, group, foreign, handleVars, ptyVars,
                   frontVars, hpc, nth, sent>>

TimerSends ==
    /\ Runs("timer") /\ tpc \in {"send", "send5"}
    /\ Send(Delivered(sel["timer"], IF tpc = "send" THEN "TERM" ELSE "KILL"))
    /\ tpc' = IF tpc = "send" THEN "sleep5" ELSE "off"
    /\ sel' = [sel EXCEPT !["timer"] = "none"]
    /\ UNCHANGED <<cfg, pc, live, status, group, foreign, handleVars, ptyVars,
                   frontVars, hpc, nth, sent>>

(* SIGINT, SIGTERM or SIGQUIT from the user: without a handler (SIGQUIT has *)
(* one only with a terminal) it is the end of the command, and             *)
(* parent-death signals end the rest.                                      *)
Unhandled ==
    /\ cfg.caller = "cli" /\ pc \notin Ended /\ sent < cfg.signals
    /\ handlers => ~cfg.tty
    /\ sent' = sent + 1
    /\ Goto("dead")
    /\ Send(Killed({"child", "proxy"}))
    /\ UNCHANGED <<cfg, live, status, group, foreign, handleVars, ptyVars,
                   frontVars, tpc, hpc, sel, nth>>

(* The handler starts on a thread that is not in one: it restores the      *)
(* terminal and takes its turn.                                            *)
HandlerStarts(h) ==
    /\ handlers /\ sent < cfg.signals
    /\ Runs(h) /\ (h = "timer" => tpc # "off")
    /\ sent' = sent + 1
    /\ hpc' = [hpc EXCEPT ![h] = "load"]
    /\ nth' = [nth EXCEPT ![h] = count]
    /\ count' = count + 1
    /\ term' = IF cfg.tty /\ cleanupFd THEN "cooked" ELSE term
    /\ UNCHANGED <<cfg, pc, procVars, handleVars, cleanupFd, nonblock, flowVars,
                   childPid, childFd, fdOpen, handlers, recorded, done, code,
                   tpc, sel>>

(* The handler may interrupt the timeout thread between its load and its   *)
(* send; its own addressee is then another one.                            *)
HandlerLoads(h) ==
    /\ hpc[h] = "load" /\ pc \notin Ended
    /\ hpc' = [hpc EXCEPT ![h] = Loaded]
    /\ UNCHANGED <<cfg, pc, rest, frontVars, tpc, sel, nth, sent>>

(* The first signal is passed on, the second one is SIGKILL.               *)
HandlerSends(h) ==
    /\ hpc[h] \in {"ours", "other", "pid", "none"} /\ pc \notin Ended
    /\ Send(Delivered(hpc[h], IF nth[h] = 0 THEN "TERM" ELSE "KILL"))
    /\ hpc' = [hpc EXCEPT ![h] = IF cfg.tty THEN "record" ELSE "idle"]
    /\ UNCHANGED <<cfg, pc, live, status, group, foreign, handleVars, ptyVars,
                   frontVars, tpc, sel, nth, sent>>

HandlerRecords(h) ==
    /\ hpc[h] = "record" /\ pc \notin Ended
    /\ recorded' = TRUE
    /\ hpc' = [hpc EXCEPT ![h] = "idle"]
    /\ UNCHANGED <<cfg, pc, rest, childPid, childFd, fdOpen, handlers, count,
                   done, code, tpc, sel, nth, sent>>

-----------------------------------------------------------------------------
(* A program that uses the library.                                        *)

LibSignal ==
    /\ pc = "held" /\ ~waited
    /\ \E sig \in {"TERM", "KILL"} :
           Send(IF cfg.pidfd THEN ToTarget(sig) ELSE ToNumber(sig))
    /\ UNCHANGED <<cfg, pc, live, status, group, foreign, handleVars, ptyVars,
                   frontVars, threadVars>>

(* wait() once, cleanup() after it, or the end of the handle's scope.      *)
LibCall ==
    /\ pc = "held"
    /\ \/ ~waited /\ ret = "none" /\ Goto("wait")
       \/ ret # "none" /\ Goto("cleanup")
       \/ Goto("d_kill")
    /\ UNCHANGED <<cfg, rest, frontVars, threadVars>>

-----------------------------------------------------------------------------
Main ==
    /\ Runs("main")
    /\ \/ Start \/ MakeProxy \/ AwaitProxy \/ Launches \/ LaunchFails
       \/ StorePid \/ OpenFd \/ SetNonblock \/ SpawnTimer \/ InstallHandlers
       \/ SetDone \/ ClearPid \/ ClearFd \/ CloseFd
       \/ LibSignal \/ LibCall
       \/ Loop /\ UNCHANGED <<frontVars, threadVars>>
       \/ Handle /\ UNCHANGED <<ptyVars, frontVars, threadVars>>

Timer == TimerWakes \/ TimerLoads \/ TimerSends

Handler(h) == HandlerLoads(h) \/ HandlerSends(h) \/ HandlerRecords(h)

World ==
    \/ Unhandled \/ \E h \in Threads : HandlerStarts(h)
    \/ Kernel /\ SlaveFollows /\ UNCHANGED <<ttyVars, queueVars, frontVars, threadVars>>
    \/ TtyTarget /\ UNCHANGED <<frontVars, threadVars>>

(* The command has ended and nothing it started is left to die.            *)
Over ==
    /\ pc \in Ended
    /\ UNCHANGED vars

Next == Main \/ Timer \/ (\E h \in Threads : Handler(h)) \/ World \/ Over

Spec == Init /\ [][Next]_vars

(* Threads are scheduled, time passes, a SIGKILL is delivered, the relay   *)
(* reaps, and the target of a terminal answers its input.  That the target *)
(* ends by itself, and signals from the user, are not assumed.             *)
Fairness ==
    /\ WF_vars(Main) /\ WF_vars(Timer)
    /\ \A h \in Threads : WF_vars(Handler(h))
    /\ WF_vars(/\ RelayReaps \/ \E p \in Procs : ProcessKilled(p)
               /\ SlaveFollows
               /\ UNCHANGED <<ttyVars, queueVars, frontVars, threadVars>>)
    /\ WF_vars(TargetAnswers /\ UNCHANGED <<frontVars, threadVars>>)

FairSpec == Spec /\ Fairness

-----------------------------------------------------------------------------
ProcStates == {"none", "live", "zombie", "reaped"}
Statuses == {"none", "zero", "code", "signal"}
Codes == {"none", "zero", "code", "125", "128"}

(* Types; also, destroy() makes at most DESTROY_RETRIES rounds and the     *)
(* buffer of the PTY loop never outgrows the capacity it was made with.    *)
RunTypeOK ==
    /\ live \in [Procs -> ProcStates] /\ status \in [Procs -> Statuses]
    /\ pend \subseteq (Procs \cup {"other", "othergroup"}) \X {"TERM", "KILL"}
    /\ group \subseteq Sandboxed /\ list \subseteq Sandboxed /\ slave \subseteq Sandboxed
    /\ {foreign, waited, taken, cleanupFd, nonblock, stdin} \subseteq BOOLEAN
    /\ {childPid, fdOpen, handlers, recorded, done} \subseteq BOOLEAN
    /\ tries \in 0..MaxTries
    /\ {cgroup, tmp, sockdir} \subseteq {"none", "present", "removed"}
    /\ ret \in Statuses \cup {"error"} /\ code \in Codes
    /\ term \in {"cooked", "raw"} /\ left \in {"no", "hup", "error"}
    /\ pending \in 0..High /\ inq \in 0..InCap /\ outq \in 0..OutCap
    /\ typed \in 0..cfg.typed
    /\ childFd \in {"none", "ours", "other"}
    /\ count \in 0..cfg.signals /\ sent \in 0..cfg.signals
    /\ hpc \in [Threads -> {"idle", "load", "ours", "other", "pid", "none", "record"}]
    /\ sel \in [Threads -> {"none", "ours", "other", "pid"}]

(* With pidfds, and a target that is this process's own child, neither the *)
(* timeout thread nor a handler nor signal() nor Drop ever hits a process  *)
(* that took over the target's number, however late their signals come.    *)
NoStraySignal ==
    cfg.pidfd /\ ~HasTargetPid => \A sig \in {"TERM", "KILL"} : <<"other", sig>> \notin pend

(* The user gets the terminal back in cooked mode: at the normal exit, at  *)
(* an error, and when a signal comes before or while raw mode is entered.  *)
TerminalRestored == pc \in Ended => term = "cooked"

(* A SIGKILL is on its way to p, or to the init of its namespace.          *)
Doomed(p) ==
    \/ <<p, "KILL">> \in pend
    \/ cfg.pidns /\ p \in Kids /\ <<"target", "KILL">> \in pend

(* A descendant that neither the process group, nor a cgroup with          *)
(* cgroup.kill, nor a PID namespace holds.                                 *)
Escaped(k) == k \notin group /\ ~(cfg.cgroup /\ cfg.cgkill) /\ ~cfg.pidns

(* When the command or the library's caller is through with a sandbox, its *)
(* processes are gone or being killed, but for descendants that nothing    *)
(* holds; the proxy is reaped and its directory removed.                   *)
NothingLeft ==
    pc = "exit" /\ tmp # "none" =>
        /\ live["child"] = "reaped"
        /\ Live("target") => Doomed("target")
        /\ live["proxy"] \in {"none", "reaped"} /\ sockdir # "present"
        /\ \A k \in Kids : Live(k) => Doomed(k) \/ Escaped(k)

-----------------------------------------------------------------------------
(* A descendant has the terminal open after the end of the child.          *)
KeptOpen == ~Live("child") /\ slave # {}

(* A run with a timeout ends, and so does one whose user sends a second    *)
(* signal, whatever the target does with SIGTERM and with its terminal.    *)
(* One exception: run_pty_loop leaves on a hang-up only, so that a         *)
(* descendant that outlives the child and never closes the terminal keeps  *)
(* `arapuca run -t' for as long.                                           *)
RunEnds == tpc = "sleep" \/ count >= 2 ~> pc \in Ended \/ []KeptOpen

(* Input and output both under pressure: as long as the target has its     *)
(* terminal, or nobody has it, the PTY loop never gets stuck between a     *)
(* full input queue and a full output queue, and what was written before   *)
(* the hang-up is shown.                                                   *)
PtyFlows ==
    /\ pc = "poll" ~> \/ pc \notin InLoop
                      \/ <<typed, pending, inq, outq>> = <<0, 0, 0, 0>>
                      \/ Init1 \notin slave /\ slave # {}
    /\ [](left = "hup" => outq = 0)
=============================================================================
