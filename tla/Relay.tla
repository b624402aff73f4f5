------------------------------- MODULE Relay -------------------------------
(* The two helpers that carry a sandboxed program's connections: the       *)
(* bridge, from a TCP port of the sandbox to a Unix socket, and the        *)
(* CONNECT proxy, from that socket to the hosts that are allowed.  Both    *)
(* accept in one thread, hold a slot and a thread for each connection, and *)
(* copy in a thread for each direction, under their seccomp filter.        *)
EXTENDS Seccomp

CONSTANTS
    Conns,      \* connections that clients make
    MaxConns,   \* MAX_CONNECTIONS
    Cap,        \* what a socket buffers
    Requests,   \* what a client may ask the proxy for, see RequestShapes
    Allowlist,  \* the hosts it may have
    Addresses   \* what a resolver may answer, see AddressShapes

(* A host is the sequence of its labels; "bad" is any request that does    *)
(* not parse.                                                              *)
RequestShapes == [ok : BOOLEAN, host : Seq(STRING), port : Nat]
RuleShapes == [suffix : BOOLEAN, host : Seq(STRING), port : Nat]

(* An address is the form it is written in and the IPv4 or IPv6 range that *)
(* it stands for.                                                          *)
Forms == {"v4", "mapped", "nat64", "nat64local", "6to4", "teredo", "v6"}
AddressShapes == [form : Forms, range : {"public", "loopback", "private", "linklocal", "reserved"}]

ASSUME RelayConstants ==
    /\ MaxConns \in Nat \ {0} /\ Cap \in Nat \ {0}
    /\ Requests \subseteq RequestShapes /\ Allowlist \subseteq RuleShapes
    /\ Addresses \subseteq AddressShapes

VARIABLES
    slots,  \* the counter of active connections
    conn,   \* of each connection: where its thread is, what it asked and got
    pipe,   \* the four directed streams at its two sockets
    copy,   \* the two copying threads, "up" and "down"
    cut     \* of each direction, whether it ended other than by end of data

relayVars == <<slots, conn, pipe, copy, cut>>
vars == <<seccompVars, relayVars>>

(* The streams: from the client, to the target, from it, to the client.    *)
Streams == {"fromClient", "toTarget", "fromTarget", "toClient"}
Dirs == {"up", "down"}
From(d) == IF d = "up" THEN "fromClient" ELSE "fromTarget"
To(d) == IF d = "up" THEN "toTarget" ELSE "toClient"

Empty == [sent |-> 0, got |-> 0, fin |-> FALSE, dead |-> FALSE]
InTransit(c, s) == pipe[c][s].sent - pipe[c][s].got

Serving == phase[First] = "serving" /\ ~how.debug
Is(profile) == how.profile = profile
Client(c) == conn[c].client
At(c, st) == conn[c].st = st
Working(c) == conn[c].st \in {"accepted", "resolve", "dial", "start", "relay"}

-----------------------------------------------------------------------------
(* The clients and the targets.                                            *)
Connect(c) ==
    /\ Serving /\ At(c, "none") /\ Cardinality({d \in Conns : ~At(d, "none")}) < how.conns
    /\ \E r \in IF Is("proxy") THEN Requests ELSE {"none"} :
          conn' = [conn EXCEPT ![c].st = "queued", ![c].client = "open", ![c].req = r]
    /\ UNCHANGED <<seccompVars, slots, pipe, copy, cut>>

Send(c, s) ==
    /\ pipe[c][s].sent < how.chunks /\ InTransit(c, s) < Cap
    /\ ~pipe[c][s].fin /\ ~pipe[c][s].dead
    /\ pipe' = [pipe EXCEPT ![c][s].sent = @ + 1]

Shut(c, s) == ~pipe[c][s].fin /\ pipe' = [pipe EXCEPT ![c][s].fin = TRUE]

Receive(c, s) == InTransit(c, s) > 0 /\ pipe' = [pipe EXCEPT ![c][s].got = @ + 1]

Close(c, out, in) ==
    pipe' = [pipe EXCEPT ![c][out].fin = TRUE, ![c][in].dead = TRUE]

ClientActs(c) ==
    /\ Client(c) = "open"
    /\ \/ Send(c, "fromClient") \/ Shut(c, "fromClient") \/ Receive(c, "toClient")
    /\ UNCHANGED <<seccompVars, slots, conn, copy, cut>>

ClientCloses(c) ==
    /\ Client(c) = "open"
    /\ conn' = [conn EXCEPT ![c].client = "gone"]
    /\ Close(c, "fromClient", "toClient")
    /\ UNCHANGED <<seccompVars, slots, copy, cut>>

TargetActs(c) ==
    /\ conn[c].target = "open"
    /\ \/ Send(c, "fromTarget") \/ Shut(c, "fromTarget") \/ Receive(c, "toTarget")
    /\ UNCHANGED <<seccompVars, slots, conn, copy, cut>>

TargetCloses(c) ==
    /\ conn[c].target = "open"
    /\ conn' = [conn EXCEPT ![c].target = "gone"]
    /\ Close(c, "fromTarget", "toTarget")
    /\ UNCHANGED <<seccompVars, slots, copy, cut>>

-----------------------------------------------------------------------------
(* The calls a step of the helper makes, from the standard library.        *)
Spawning ==
    {Bare("mmap"), With("mprotect", {}), With("clone", {"thread"}),
     With("prctl", {"PR_SET_VMA"}), Bare("sigaltstack"), Bare("futex")}
CallsOf(profile, st) ==
    CASE st = "queued" -> {Bare("accept4"), Bare("close"), Bare("nanosleep")} \cup Spawning
      [] st = "accepted" /\ profile = "bridge" ->
             {With("socket", {"AF_UNIX"}), Bare("connect"), Bare("close")}
      [] st = "accepted" /\ profile # "bridge" ->
             {Bare("setsockopt"), Bare("read"), Bare("write"), Bare("close")}
      [] st = "resolve" ->
             {With("socket", {"AF_INET"}), With("socket", {"AF_UNIX"}), Bare("openat"),
              Bare("connect"), Bare("poll"), Bare("sendmmsg"), Bare("recvfrom"),
              With("ioctl", {"FIONREAD"})}
      [] st = "dial" -> {With("socket", {"AF_INET6"}), With("ioctl", {"FIONBIO"}),
                         Bare("connect"), Bare("poll"), Bare("getsockopt")}
      [] st = "start" -> {Bare("setsockopt"), Bare("fcntl")} \cup Spawning
      [] OTHER -> {Bare("recvfrom"), Bare("read"), Bare("sendto"), Bare("write"),
                   Bare("shutdown"), Bare("close"), Bare("munmap"), Bare("exit")}

(* The steps whose calls the filters of a helper that serves let pass.     *)
Steps == {"queued", "accepted", "resolve", "dial", "start", "relay", "over"}
ClearedFor(profile) ==
    {st \in Steps : \A call \in CallsOf(profile, st) :
        Verdict(Programs(profile), [debug |-> FALSE], call) = "ALLOW"}
BridgeCleared == ClearedFor("bridge")
ProxyCleared == ClearedFor("proxy")
Cleared(st) == st \in (IF Is("bridge") THEN BridgeCleared ELSE ProxyCleared)

May(c) == Serving /\ Cleared(conn[c].st)

(* The helper's sockets of c that are closed: the peers see the end.       *)
Closed(c) ==
    [pipe EXCEPT ![c] = [s \in Streams |->
        IF s \in {"fromClient", "fromTarget"} THEN [pipe[c][s] EXCEPT !.dead = TRUE]
                                             ELSE [pipe[c][s] EXCEPT !.fin = TRUE]]]

(* The connection's thread returns: its sockets close, its slot is free.   *)
Ends(c, reply) ==
    /\ slots' = slots - 1
    /\ conn' = [conn EXCEPT ![c].st = "over", ![c].reply = reply]
    /\ pipe' = Closed(c)
    /\ cut' = [cut EXCEPT ![c] = [d \in Dirs |-> TRUE]]
    /\ UNCHANGED <<seccompVars, copy>>

Goto(c, st) == conn' = [conn EXCEPT ![c].st = st]

(* The accept loop: a connection past the limit, or one that no thread can *)
(* be spawned for, is dropped.  The code adds to the counter first and     *)
(* takes the one too many back; no other thread adds or looks at it, so    *)
(* that the two are one step here.                                         *)
Accept(c) ==
    /\ May(c) /\ At(c, "queued")
    /\ \/ /\ slots < MaxConns
          /\ slots' = slots + 1 /\ Goto(c, "accepted") /\ UNCHANGED <<pipe, cut>>
       \/ /\ slots < MaxConns => how.fails
          /\ Goto(c, "over") /\ pipe' = Closed(c)
          /\ cut' = [cut EXCEPT ![c] = [d \in Dirs |-> TRUE]] /\ UNCHANGED slots
    /\ UNCHANGED <<seccompVars, copy>>

(* relay: the bridge connects to the proxy's socket.                       *)
ConnectUds(c) ==
    /\ May(c) /\ Is("bridge") /\ At(c, "accepted")
    /\ \/ /\ conn' = [conn EXCEPT ![c].st = "start", ![c].target = "open"]
          /\ UNCHANGED <<seccompVars, slots, pipe, copy, cut>>
       \/ how.fails /\ Ends(c, "none")

-----------------------------------------------------------------------------
(* AllowedHost::matches.                                                   *)
EndsWith(host, suffix) == \E i \in 1..(Len(host) + 1) : suffix = SubSeq(host, i, Len(host))
Matches(rule, r) ==
    /\ rule.port = r.port
    /\ IF rule.suffix THEN EndsWith(r.host, rule.host) ELSE rule.host = r.host

(* parse_connect_request, byte by byte up to the empty line, and the       *)
(* allowlist.  A client that sends nothing is given up after a while.      *)
ReadRequest(c) ==
    /\ May(c) /\ Is("proxy") /\ At(c, "accepted")
    /\ LET r == conn[c].req
           allowed == \E rule \in Allowlist : Matches(rule, r)
       IN  \/ r.ok /\ allowed /\ Goto(c, "resolve")
              /\ UNCHANGED <<seccompVars, slots, pipe, copy, cut>>
           \/ r.ok /\ ~allowed /\ Ends(c, "403")
           \/ (~r.ok \/ Client(c) = "gone" \/ how.fails) /\ Ends(c, "none")

(* is_safe_ipv4 and is_safe_resolved_ip: an IPv4 address inside an IPv6    *)
(* one is judged as itself, and local NAT64 is refused.                    *)
IsSafe(a) ==
    CASE a.form = "nat64local" -> FALSE
      [] a.form = "v6" -> a.range \notin {"loopback", "private", "linklocal"}
      [] OTHER -> a.range = "public"

(* The first safe address of the answer, and only that one, is dialled.    *)
ResolveAgain(c) ==
    /\ May(c) /\ At(c, "resolve")
    /\ \/ \E again \in Addresses :
             /\ \E a \in Addresses : IsSafe(a)
             /\ conn' = [conn EXCEPT ![c].st = "dial", ![c].addr = again]
             /\ UNCHANGED <<seccompVars, slots, pipe, copy, cut>>
       \/ how.fails /\ Ends(c, "502")

Resolve(c) ==
    /\ May(c) /\ At(c, "resolve")
    /\ \/ \E n \in 0..Cardinality(Addresses) : \E addrs \in [1..n -> Addresses] :
             \/ \E i \in DOMAIN addrs :
                   /\ IsSafe(addrs[i]) /\ \A j \in 1..(i - 1) : ~IsSafe(addrs[j])
                   /\ conn' = [conn EXCEPT ![c].st = "dial", ![c].addr = addrs[i]]
                   /\ UNCHANGED <<seccompVars, slots, pipe, copy, cut>>
             \/ (\A i \in DOMAIN addrs : ~IsSafe(addrs[i])) /\ Ends(c, "403")
       \/ how.fails /\ Ends(c, "502")

Dial(c) ==
    /\ May(c) /\ At(c, "dial")
    /\ \/ /\ Client(c) = "open"
          /\ conn' = [conn EXCEPT ![c].st = "start", ![c].target = "open", ![c].reply = "200"]
          /\ UNCHANGED <<seccompVars, slots, pipe, copy, cut>>
       \/ Client(c) = "gone" /\ Ends(c, "none")
       \/ how.fails /\ Ends(c, "502")

-----------------------------------------------------------------------------
(* relay_connected: one thread for each direction.  When the second cannot *)
(* be spawned the connection ends, while the first copies on.              *)
StartRelay(c) ==
    /\ May(c) /\ At(c, "start")
    /\ \/ /\ Goto(c, "relay") /\ copy' = [copy EXCEPT ![c] = [d \in Dirs |-> "read"]]
          /\ UNCHANGED <<seccompVars, slots, pipe, cut>>
       \/ how.fails /\ Ends(c, conn[c].reply)
       \/ /\ how.fails
          /\ slots' = slots - 1 /\ Goto(c, "over")
          /\ copy' = [copy EXCEPT ![c]["up"] = "read"]
          /\ cut' = [cut EXCEPT ![c]["down"] = TRUE]
          /\ UNCHANGED <<seccompVars, pipe>>

(* A direction ends: the other side's write half is shut, and with the     *)
(* last of the two directions both sockets are closed.                     *)
Finish(c, d, broken) ==
    LET other == CHOOSE e \in Dirs : e # d
        done == copy[c][other] \in {"none", "over"}
        shut == [pipe EXCEPT ![c][To(d)].fin = TRUE]
    IN  /\ copy' = [copy EXCEPT ![c][d] = "over"]
        /\ pipe' = IF done THEN Closed(c) ELSE shut
        /\ cut' = [cut EXCEPT ![c][d] = @ \/ broken]
        /\ UNCHANGED <<seccompVars, slots, conn>>

(* The whole connection goes when one direction ends.                      *)
CopyReadBoth(c, d) ==
    /\ May(c) /\ copy[c][d] = "read"
    /\ IF InTransit(c, From(d)) > 0
       THEN /\ pipe' = [pipe EXCEPT ![c][From(d)].got = @ + 1]
            /\ copy' = [copy EXCEPT ![c][d] = "write"]
            /\ UNCHANGED <<seccompVars, slots, conn, cut>>
       ELSE /\ pipe' = Closed(c) /\ pipe[c][From(d)].fin
            /\ copy' = [copy EXCEPT ![c] = [e \in Dirs |-> "over"]]
            /\ UNCHANGED <<seccompVars, slots, conn, cut>>

(* io::copy, one buffer at a time.  The read ends with the data, after     *)
(* IDLE_TIMEOUT without any, or with an error: a peer that has closed its  *)
(* socket may have reset the connection, and what it had sent before and   *)
(* was not read is lost.                                                   *)
CopyRead(c, d) ==
    /\ May(c) /\ copy[c][d] = "read"
    /\ \/ /\ InTransit(c, From(d)) > 0
          /\ pipe' = [pipe EXCEPT ![c][From(d)].got = @ + 1]
          /\ copy' = [copy EXCEPT ![c][d] = "write"]
          /\ UNCHANGED <<seccompVars, slots, conn, cut>>
       \/ /\ InTransit(c, From(d)) = 0
          /\ Finish(c, d, ~pipe[c][From(d)].fin)
       \/ /\ \E e \in Dirs \ {d} : pipe[c][To(e)].dead
          /\ Finish(c, d, TRUE)

(* A write that waits for room although nobody is left to read.            *)
CopyWriteWaits(c, d) ==
    /\ May(c) /\ copy[c][d] = "write"
    /\ InTransit(c, To(d)) < Cap /\ ~pipe[c][To(d)].dead
    /\ pipe' = [pipe EXCEPT ![c][To(d)].sent = @ + 1]
    /\ copy' = [copy EXCEPT ![c][d] = "read"]
    /\ UNCHANGED <<seccompVars, slots, conn, cut>>

(* The write has no timeout: it waits for room, or fails when nobody is    *)
(* left to read.                                                           *)
CopyWrite(c, d) ==
    /\ May(c) /\ copy[c][d] = "write"
    /\ \/ /\ InTransit(c, To(d)) < Cap /\ ~pipe[c][To(d)].dead
          /\ pipe' = [pipe EXCEPT ![c][To(d)].sent = @ + 1]
          /\ copy' = [copy EXCEPT ![c][d] = "read"]
          /\ UNCHANGED <<seccompVars, slots, conn, cut>>
       \/ pipe[c][To(d)].dead /\ Finish(c, d, TRUE)

(* Both threads are joined, and the slot is free.                          *)
Join(c) ==
    /\ May(c) /\ At(c, "relay") /\ \A d \in Dirs : copy[c][d] = "over"
    /\ slots' = slots - 1 /\ Goto(c, "over")
    /\ UNCHANGED <<seccompVars, pipe, copy, cut>>

Handle(c) == ConnectUds(c) \/ ReadRequest(c) \/ Resolve(c) \/ Dial(c) \/ StartRelay(c) \/ Join(c)
Copy(c, d) == CopyRead(c, d) \/ CopyWrite(c, d)

-----------------------------------------------------------------------------
Init ==
    /\ SeccompInit
    /\ slots = 0
    /\ conn = [c \in Conns |-> [st |-> "none", client |-> "none", target |-> "none",
                                req |-> "none", addr |-> "none", reply |-> "none"]]
    /\ pipe = [c \in Conns |-> [s \in Streams |-> Empty]]
    /\ copy = [c \in Conns |-> [d \in Dirs |-> "none"]]
    /\ cut = [c \in Conns |-> [d \in Dirs |-> FALSE]]

Next ==
    \/ SeccompNext /\ UNCHANGED relayVars
    \/ \E c \in Conns :
          \/ Connect(c) \/ ClientActs(c) \/ ClientCloses(c) \/ TargetActs(c) \/ TargetCloses(c)
          \/ Accept(c) \/ Handle(c) \/ \E d \in Dirs : Copy(c, d)

(* The helper's threads run; its peers, and the program, need not.         *)
Spec == Init /\ [][Next]_vars
FairSpec ==
    /\ Spec
    /\ \A t \in Threads : WF_vars(Handler(t) /\ UNCHANGED relayVars)
    /\ \A c \in Conns : /\ WF_vars(Accept(c)) /\ WF_vars(Handle(c))
                        /\ \A d \in Dirs : WF_vars(Copy(c, d))

-----------------------------------------------------------------------------
(* The types.                                                              *)
RelayTypeOK ==
    /\ how \in HowShapes
    /\ phase \in [Procs -> {"none", "setup", "audit", "program", "serving", "killed", "exited"}]
    /\ listener \in {"none", "here", "sent", "held", "lost", "failed"}
    /\ active \in BOOLEAN /\ reported \subseteq Unlisted
    /\ slots \in 0..MaxConns
    /\ \A c \in Conns, s \in Streams :
          LET q == pipe[c][s] IN q.got \in 0..q.sent /\ q.sent \in 0..how.chunks /\ InTransit(c, s) <= Cap

(* A peer that sees the end of the data has all the data the other peer    *)
(* sent, and that one has ended it, unless a timeout, a read that failed   *)
(* with a reset, a failed write or a refusal cut the direction; each       *)
(* direction ends by itself.                                               *)
EndMeansAll ==
    \A c \in Conns, d \in Dirs :
        (pipe[c][To(d)].fin /\ ~cut[c][d] /\ ~At(c, "none")) =>
            /\ pipe[c][From(d)].fin
            /\ pipe[c][To(d)].sent = pipe[c][From(d)].sent

(* No step of arapuca's own code is refused by the filters it installed,   *)
(* or held by the audit filter while nobody has the listener: not the      *)
(* wrapper's on the way to execve, not the helpers' accept loops, their    *)
(* connections' threads, or the report of a call outside their list.       *)
OwnStepsPass ==
    /\ Passes(First, OwnCalls)
    /\ \A c \in Conns : ~At(c, "none") => Cleared(conn[c].st)
    /\ \A t \in Threads : th[t].pc = "print" => Passes(First, {Bare("write")})

(* An address where the connection would end up inside, through a mapping  *)
(* or a gateway.                                                           *)
Inside(a) == a.form = "nat64local" \/ a.range \in {"loopback", "private", "linklocal"}

(* A target is reached only for a host and port of the allowlist, at an    *)
(* address of the public network, the one that was judged.                 *)
OnlyAllowedDialled ==
    \A c \in Conns : Is("proxy") /\ conn[c].target # "none" =>
        /\ \E rule \in Allowlist :
              /\ rule.port = conn[c].req.port
              /\ \/ rule.host = conn[c].req.host
                 \/ rule.suffix /\ EndsWith(conn[c].req.host, rule.host)
        /\ ~Inside(conn[c].addr)

(* The counter is the number of connections that hold a slot, whatever way *)
(* they end, and never passes MAX_CONNECTIONS (the one that the accept     *)
(* loop adds and at once takes back for a connection it refuses apart);    *)
(* and once both peers of a connection are gone its slot comes back.       *)
SlotComesBack ==
    /\ [](slots = Cardinality({c \in Conns : Working(c)}) /\ slots <= MaxConns)
    /\ \A c \in Conns :
          (Working(c) /\ Client(c) = "gone" /\ conn[c].target # "open") ~> ~Working(c)
=============================================================================
