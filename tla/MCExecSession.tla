---------------------------- MODULE MCExecSession ----------------------------
(* Configurations of module ExecSession for TLC.                           *)
EXTENDS ExecSession

CONSTANTS c1, c2

Cfg(who, tty, typed, room, first, expand, faults) ==
    [who |-> who, probes |-> {}, stale |-> {}, tty |-> tty, typed |-> typed, room |-> room,
     first |-> first, expand |-> expand, faults |-> faults]

MCConfigs ==
    {Cfg({c1}, FALSE, 1, 1, 1, 1, {"killed", "job"}),
     Cfg({c1}, FALSE, 1, 0, 0, 1, {"quits", "job"}),
     Cfg({c1}, FALSE, 2, 2, 0, 1, {"quits"}),
     Cfg({c1}, FALSE, 3, 0, 0, 1, {}),
     Cfg({c1}, TRUE, 2, 1, 0, 1, {"quits", "job"}),
     Cfg({c1}, TRUE, 1, 1, 1, 0, {"killed"}),
     Cfg({c1}, FALSE, 0, 0, 2, 0, {"sink", "idle"}),
     [Cfg({c1, c2}, FALSE, 0, 0, 0, 0, {"exec"}) EXCEPT !.stale = {c2}],
     [Cfg({c1, c2}, FALSE, 0, 0, 0, 0, {}) EXCEPT !.probes = {c2}],
     [Cfg({c1}, FALSE, 0, 0, 0, 0, {"killed", "idle"}) EXCEPT !.probes = {c1}]}
=============================================================================
