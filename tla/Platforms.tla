----------------------------- MODULE Platforms -----------------------------
(***************************************************************************)
(* platform::new(): a build has the sandbox of its target, and no other.   *)
(* Linux has modules of its own (Launch and those around it); this one has *)
(* macOS and Windows.                                                      *)
(***************************************************************************)
EXTENDS DarwinSandbox, WindowsSandbox

VARIABLE target \* target_os

platformVars == <<target, macVars, winVars>>

PlatformInit ==
    /\ target \in {"macos", "windows"}
    /\ MacInit /\ WinInit
    /\ target = "macos" => win = CHOOSE w \in WinConfigs : TRUE
    /\ target = "windows" => mac = CHOOSE m \in MacConfigs : TRUE

OnMac(step) == target = "macos" /\ step /\ UNCHANGED <<target, winVars>>

PlatformNext ==
    \/ OnMac(MacNext)
    \/ target = "windows" /\ WinNext /\ UNCHANGED <<target, macVars>>

(* The scheduler runs every thread: sleeps end, the ten seconds of `log    *)
(* show` pass, and a handle is waited for or dropped.                      *)
PlatformFairness ==
    /\ WF_platformVars(OnMac(LaunchStep)) /\ WF_platformVars(OnMac(HandleStep))
    /\ WF_platformVars(OnMac(MonitorStep)) /\ WF_platformVars(OnMac(WatchdogStep))

PlatformSpec == PlatformInit /\ [][PlatformNext]_platformVars
PlatformFairSpec == PlatformSpec /\ PlatformFairness
=============================================================================
