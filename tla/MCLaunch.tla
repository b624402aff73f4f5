------------------------------ MODULE MCLaunch ------------------------------
(* Configurations of module Launch for TLC.                                *)
EXTENDS Launch

Plain ==
    [sink |-> "besteffort", hosts |-> FALSE, netns |-> FALSE, sock |-> FALSE,
     dns |-> FALSE, unotify |-> FALSE, pidns |-> FALSE, tty |-> FALSE,
     limits |-> "none", mgr |-> FALSE]

(* Every layer on, in a PID namespace.                                     *)
Full ==
    [Plain EXCEPT !.netns = TRUE, !.sock = TRUE, !.unotify = TRUE,
                  !.pidns = TRUE, !.tty = TRUE, !.limits = "required",
                  !.mgr = TRUE]

MCConfigs ==
    {Plain,
     Full,
     [Full EXCEPT !.pidns = FALSE, !.hosts = TRUE, !.dns = TRUE,
                  !.limits = "besteffort"],
     [Plain EXCEPT !.sink = "none", !.limits = "besteffort", !.mgr = TRUE,
                   !.pidns = TRUE, !.unotify = TRUE],
     [Plain EXCEPT !.netns = TRUE, !.dns = TRUE, !.limits = "required"],
     [Plain EXCEPT !.netns = TRUE, !.sock = TRUE, !.sink = "mandatory",
                   !.limits = "besteffort"],
     [Plain EXCEPT !.sink = "mandatory", !.hosts = TRUE, !.tty = TRUE,
                   !.pidns = TRUE, !.limits = "required", !.mgr = TRUE]}

(* For the temporal properties.                                            *)
MCLiveConfigs ==
    {[Plain EXCEPT !.pidns = TRUE, !.unotify = TRUE],
     [Plain EXCEPT !.hosts = TRUE, !.dns = TRUE, !.limits = "besteffort",
                   !.mgr = TRUE]}

(* For the comparison with a comment of audit.rs.                          *)
MCMandatoryDoc == {[Plain EXCEPT !.sink = "mandatory"]}
=============================================================================
