---------------------------- MODULE MCAuditTrail ----------------------------
(* Calls and configurations of module AuditTrail for TLC.                  *)
EXTENDS AuditTrail

C(sys, dest) == [sys |-> sys, dest |-> dest]

(* An open or execve, the outcomes of reading an address, and batches      *)
(* within and beyond MAX_SENDMMSG_INSPECT.                                 *)
MCCalls ==
    {C("open", <<>>), C("connect", <<"inet">>), C("connect", <<"unreadable">>),
     C("sendmmsg", <<"bridge", "inet">>), C("sendmmsg", <<"bridge", "other">>),
     C("sendmmsg", <<"other", "bridge", "inet">>)}

Cfg(pipes, enforce, calls, asks, faults) ==
    [pipes |-> pipes, enforce |-> enforce, calls |-> calls, queries |-> asks,
     faults |-> faults]

MCConfigs ==
    {Cfg({"unotify"}, TRUE, 4, 0, {}),
     Cfg({"unotify"}, FALSE, 2, 0, {"signal", "mem"}),
     Cfg({"unotify"}, TRUE, 3, 0, {"signal", "mem"}),
     Cfg({"unotify"}, TRUE, 2, 0, {"race"}), Cfg({"unotify"}, FALSE, 2, 0, {"race", "signal"}),
     Cfg({"dns"}, TRUE, 0, 6, {}),
     Cfg(Pipes, TRUE, 1, 1, {})}
=============================================================================
