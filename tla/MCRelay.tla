------------------------------ MODULE MCRelay ------------------------------
(* The confined processes on small instances, for TLC.                     *)
EXTENDS Relay

CONSTANTS p1, p2, t1, t2, c1, c2

How(profile, debug, audit, fails, conns, chunks) ==
    [profile |-> profile, debug |-> debug, files |-> "files" \in audit, network |-> "network" \in audit,
     fails |-> fails, conns |-> conns, chunks |-> chunks]

MCHows ==
    {How("strict", FALSE, {}, TRUE, 0, 0), How("strict", FALSE, {"files", "network"}, TRUE, 0, 0),
     How("baseline", FALSE, {"network"}, FALSE, 0, 0), How("baseline", FALSE, {}, FALSE, 0, 0),
     How("bridge", TRUE, {}, FALSE, 0, 0), How("proxy", TRUE, {}, FALSE, 0, 0),
     How("supervisor", FALSE, {}, TRUE, 0, 0), How("supervisor", TRUE, {}, FALSE, 0, 0),
     How("bridge", FALSE, {}, TRUE, 2, 0), How("bridge", FALSE, {}, TRUE, 1, 2),
     How("proxy", FALSE, {}, TRUE, 1, 1)}

(* Arguments with and without bits that the kernel does not look at.       *)
MCCalls ==
    {Bare(nr) : nr \in {"unshare", "clone3", "mount", "ptrace", "bpf", "io_uring_setup",
                        "symlinkat", "openat", "getpid", "tkill"}}
      \cup {With("clone", f) : f \in {{"thread"}, {"NEWUSER"}, {"thread", "NEWNET"}, {"NEWTIME", "hi"}}}
      \cup {With("kill", f) : f \in {{}, {"zero"}, {"zero", "hi"}, {"bit31"}}}
      \cup {With("prctl", f) : f \in {{"PR_SET_NAME"}, {"PR_SET_PDEATHSIG"}, {"PR_SET_DUMPABLE"},
                                      {"PR_SET_DUMPABLE", "nonzero"}}}
      \cup {With("socket", f) : f \in {{"AF_UNIX"}, {"AF_INET", "hi"}}}
      \cup {With("ioctl", {"TIOCSTI"}), With("execveat", {"AT_EMPTY_PATH"}), With("execveat", {})}

MCRequests ==
    {[ok |-> TRUE, host |-> <<"api", "org">>, port |-> 443],
     [ok |-> TRUE, host |-> <<"other", "org">>, port |-> 443],
     [ok |-> FALSE, host |-> <<>>, port |-> 0]}
MCAllowlist == {[suffix |-> TRUE, host |-> <<"api", "org">>, port |-> 443]}
MCAddresses ==
    {[form |-> "v4", range |-> "public"], [form |-> "teredo", range |-> "private"],
     [form |-> "nat64local", range |-> "public"]}
=============================================================================
