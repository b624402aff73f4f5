---------------------------- MODULE MCRunCommand ----------------------------
(* Configurations of module RunCommand for TLC.                            *)
EXTENDS RunCommand

Cli ==
    [caller |-> "cli", tty |-> FALSE, pidns |-> FALSE, reported |-> FALSE,
     timeout |-> FALSE, pidfd |-> TRUE, proxy |-> "none", cgroup |-> FALSE,
     cgkill |-> TRUE, kids |-> FALSE, typed |-> 0, eof |-> FALSE,
     signals |-> 2]

Lib == [Cli EXCEPT !.caller = "lib"]

MCConfigs ==
    {[Cli EXCEPT !.timeout = TRUE, !.signals = 1],
     [Cli EXCEPT !.kids = TRUE, !.cgroup = TRUE, !.signals = 1],
     [Cli EXCEPT !.kids = TRUE, !.pidns = TRUE, !.signals = 1],
     [Cli EXCEPT !.timeout = TRUE, !.pidfd = FALSE, !.signals = 1],
     [Cli EXCEPT !.timeout = TRUE, !.pidns = TRUE, !.reported = TRUE,
                 !.signals = 0],
     [Cli EXCEPT !.pidns = TRUE, !.proxy = "cli"],
     [Cli EXCEPT !.tty = TRUE, !.timeout = TRUE, !.signals = 1],
     [Cli EXCEPT !.tty = TRUE, !.eof = TRUE, !.signals = 0],
     [Cli EXCEPT !.tty = TRUE, !.typed = 3, !.signals = 0],
     [Cli EXCEPT !.tty = TRUE, !.timeout = TRUE, !.kids = TRUE, !.signals = 0],
     [Cli EXCEPT !.tty = TRUE, !.timeout = TRUE, !.pidns = TRUE, !.signals = 0],
     [Lib EXCEPT !.kids = TRUE, !.cgroup = TRUE, !.cgkill = FALSE,
                 !.proxy = "lib"],
     [Lib EXCEPT !.pidns = TRUE, !.reported = TRUE, !.pidfd = FALSE,
                 !.kids = TRUE]}
=============================================================================
