------------------------------ MODULE MCMicroVm -----------------------------
(* Commands of one user on one cache, for TLC.                             *)
EXTENDS MicroVm, TLC

CONSTANTS c1, c2

Of(k1, k2, cache, faults, net) ==
    [distro |-> IF net THEN "centos" ELSE "fedora", does |-> (c1 :> k1 @@ c2 :> k2),
     cache |-> cache, faults |-> faults, net |-> net]

P(type, size, isRoot) == [type |-> type, size |-> size, isRoot |-> isRoot]

(* A table with a root type beside larger data, and one without it.        *)
MCTables ==
    <<<<P("other", 1, FALSE), P("linux", 4, FALSE), P("root", 3, TRUE)>>,
      <<P("linux", 1, FALSE), P("linux", 3, TRUE), P("linux", 3, FALSE)>>>>

MCConfigs ==
    {Of("run", "run", "cold", {"net"}, FALSE),
     Of("run", "force", "warm", {"mirror", "passt", "setup", "wait"}, TRUE),
     Of("setup", "force", "layered", {"mirror", "guest"}, FALSE),
     Of("setup", "none", "warm",
        {"crash", "setup", "net", "guest", "passt", "wait", "disk"}, TRUE),
     Of("check", "force", "layered", {"mirror", "crash", "net", "nosum"}, FALSE),
     Of("pull", "force", "cold", {"mirror", "crash", "net"}, FALSE),
     Of("rm", "force", "warm", {"crash"}, FALSE),
     Of("pull", "force", "layered", {"mirror", "disk", "probe"}, FALSE),
     Of("rm", "pull", "cold", {}, FALSE),
     Of("rm", "pull", "layered", {"mirror"}, FALSE),
     Of("setup", "setup", "warm", {}, FALSE)}
=============================================================================
