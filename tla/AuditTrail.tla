------------------------------ MODULE AuditTrail ------------------------------
(***************************************************************************)
(* The audit trail of a sandbox from the system call to the event: the     *)
(* unotify supervisor (unotify.rs) that answers the notified calls of the  *)
(* sandbox's threads and writes a line for each, the DNS thread of the     *)
(* bridge (bridge.rs) that does the same for queries, and the two drains   *)
(* in Process::wait (process.rs).                                          *)
(*                                                                         *)
(* The two pipes are not read until the child has ended.  Both writers are *)
(* non-blocking and count what they drop; both are killed by parent-death  *)
(* signals when the child ends, and so may stop in the middle of a step.   *)
(* A line is atomic: escape_for_audit keeps it within PIPE_BUF.            *)
(***************************************************************************)
EXTENDS Integers, Sequences, Functions, FiniteSets

CONSTANTS Callers,      \* threads and processes of the sandbox
          Orphans,      \* those that outlive the child
          Calls,        \* the calls they make, [sys, dest]
          Configs,      \* [pipes, enforce, calls, queries, faults]
          None,         \* no caller, no call
          Inspected,    \* MAX_SENDMMSG_INSPECT
          PipeCap,      \* room in a pipe, in lines
          Chunk,        \* lines in one read
          MaxDrain      \* MAX_AUDIT_DRAIN, in lines

Pipes == {"dns", "unotify"}

ASSUME AuditSizes ==
    /\ Orphans \subseteq Callers
    /\ Configs \subseteq [pipes : SUBSET Pipes, enforce : BOOLEAN, calls : Nat,
                          queries : Nat, faults : SUBSET {"signal", "mem", "race"}]
    /\ {Inspected, PipeCap, Chunk, MaxDrain} \subseteq Nat \ {0}

(* A path has no address, a datagram or a connection at most one.          *)
ASSUME CallShapes ==
    /\ None \notin Calls
    /\ \A x \in Calls :
           /\ x \in [sys : {"open", "connect", "sendto", "sendmsg", "sendmmsg"},
                     dest : Seq({"inet", "bridge", "other", "unreadable", "none"})]
           /\ x.sys # "sendmmsg" => Len(x.dest) <= 1
           /\ x.sys = "open" => x.dest = <<>>

VARIABLES cfg,        \* the sandbox's configuration and the run's bounds
          alive,      \* the child is alive
          st,         \* caller -> "idle", "wait", "taken" or "dead"
          call,       \* caller -> the call it waits in
          left,       \* notified calls and DNS queries that may still come
          stale,      \* notifications queued by a call that is gone
          touched,    \* callers whose arguments were rewritten since the call
          sup,        \* the supervisor
          cur,        \* the caller it serves, and its call as it was read
          opened,     \* it could open the caller's memory
          todo,       \* lines it still has to write for this call
          dropped,    \* pipe -> its writer's drop counter
          dns,        \* the DNS thread
          queries,    \* DNS queries not yet taken
          pipe,       \* pipe -> its content
          open,       \* pipe -> the read end is open
          rd,         \* Process::wait
          q,          \* the pipe it drains
          data,       \* what it has read
          how,        \* pipe -> how its drain ended
          emitted,    \* pipe -> the events emitted
          last,       \* the call let through last, and what was read of it
          noted,      \* lines of the current call written or counted
          lost,       \* lines dropped by the supervisor
          written     \* pipe -> number of event lines written

sandboxVars == <<alive, st, call, left, stale, queries, touched>>
supVars == <<sup, cur, opened, todo>>
readVars == <<open, rd, q, data, how, emitted>>
histVars == <<last, noted, lost>>
vars == <<cfg, sandboxVars, supVars, dns, dropped, pipe, readVars, histVars, written>>

IsSummary(l) == l[1] = "dropped"
SupEnded == sup \in {"exited", "killed", "off"}
DnsEnded == dns \in {"killed", "off"}

Init ==
    /\ cfg \in Configs
    /\ alive = TRUE
    /\ st = [c \in Callers |-> "idle"] /\ call = [c \in Callers |-> None]
    /\ left = [p \in Pipes |-> IF p = "dns" THEN cfg.queries ELSE cfg.calls]
    /\ stale = 0 /\ queries = 0 /\ touched = {}
    /\ sup = IF "unotify" \in cfg.pipes THEN "recv" ELSE "off"
    /\ cur = None /\ opened = FALSE /\ todo = 0
    /\ dns = IF "dns" \in cfg.pipes THEN "recv" ELSE "off"
    /\ dropped = [p \in Pipes |-> 0]
    /\ pipe = [p \in Pipes |-> <<>>] /\ open = [p \in Pipes |-> p \in cfg.pipes]
    /\ rd = "wait" /\ q = "dns" /\ data = <<>>
    /\ how = [p \in Pipes |-> "no"]
    /\ emitted = [p \in Pipes |-> <<>>] /\ written = [p \in Pipes |-> 0]
    /\ last = None /\ noted = 0 /\ lost = 0

-----------------------------------------------------------------------------
(* The sandbox.  A notified call stops its caller until it is answered; a  *)
(* signal may interrupt it or kill the caller.  The kernel then takes the  *)
(* notification away, but still counts it.                                 *)

Makes(c) ==
    /\ st[c] = "idle" /\ left["unotify"] > 0 /\ ~SupEnded
    /\ \E x \in Calls : call' = [call EXCEPT ![c] = x]
    /\ left' = [left EXCEPT !["unotify"] = @ - 1]
    /\ st' = [st EXCEPT ![c] = "wait"]
    /\ UNCHANGED <<cfg, alive, stale, queries, touched, supVars, dns, dropped, pipe,
                   readVars, histVars, written>>

(* Calls that differ from x in memory only: the number and the length of a *)
(* batch are in registers.                                                 *)
Alike(x) == {y \in Calls : y.sys = x.sys /\ Len(y.dest) = Len(x.dest)}

(* Another thread of the target rewrites the arguments of a held call.     *)
Rewrites(c) ==
    /\ "race" \in cfg.faults /\ st[c] \in {"wait", "taken"}
    /\ \E x \in Alike(call[c]) \ {call[c]} : call' = [call EXCEPT ![c] = x]
    /\ touched' = touched \cup {c}
    /\ UNCHANGED <<cfg, alive, st, left, stale, queries, supVars, dns, dropped, pipe,
                   readVars, histVars, written>>

(* Callers of C leave their calls and go to state s.                       *)
Leave(C, s) ==
    /\ stale' = stale + Cardinality({c \in C : st[c] = "wait"})
    /\ st' = [c \in Callers |-> IF c \in C THEN s ELSE st[c]]
    /\ call' = [c \in Callers |-> IF c \in C THEN None ELSE call[c]]
    /\ touched' = touched \ C

Interrupted(c) ==
    /\ "signal" \in cfg.faults /\ st[c] \in {"wait", "taken"}
    /\ \E s \in {"idle", "dead"} : Leave({c}, s)
    /\ UNCHANGED <<cfg, alive, left, queries, supVars, dns, dropped, pipe, readVars,
                   histVars, written>>

(* The child ends, and with it all but the orphans.                        *)
ChildEnds ==
    /\ alive
    /\ alive' = FALSE
    /\ Leave(Callers \ Orphans, "dead")
    /\ UNCHANGED <<cfg, left, queries, supVars, dns, dropped, pipe, readVars,
                   histVars, written>>

LeftoverEnds(c) ==
    /\ ~alive /\ st[c] = "idle"
    /\ Leave({c}, "dead")
    /\ UNCHANGED <<cfg, alive, left, queries, supVars, dns, dropped, pipe, readVars,
                   histVars, written>>

(* Without a listener a notified call returns ENOSYS.                      *)
Enosys(c) ==
    /\ SupEnded /\ st[c] \in {"wait", "taken"}
    /\ Leave({c}, "idle")
    /\ UNCHANGED <<cfg, alive, left, queries, supVars, dns, dropped, pipe, readVars,
                   histVars, written>>

Asks ==
    /\ alive /\ left["dns"] > 0 /\ ~DnsEnded
    /\ left' = [left EXCEPT !["dns"] = @ - 1]
    /\ queries' = queries + 1
    /\ UNCHANGED <<cfg, alive, st, call, stale, touched, supVars, dns, dropped, pipe, readVars,
                   histVars, written>>

-----------------------------------------------------------------------------
(* Writes to a non-blocking pipe: EAGAIN when it is full, EPIPE when       *)
(* nobody can read it.                                                     *)

Fits(p) == open[p] /\ Len(pipe[p]) < PipeCap
Again(p) == open[p] /\ ~Fits(p)

PutSummary(p) ==
    /\ pipe' = IF Fits(p) THEN [pipe EXCEPT ![p] = Append(@, <<"dropped", dropped[p]>>)]
               ELSE pipe
    /\ UNCHANGED written

PutEvent(p) ==
    /\ pipe' = IF Fits(p) THEN [pipe EXCEPT ![p] = Append(@, <<"event", written[p] + 1>>)]
               ELSE pipe
    /\ written' = IF Fits(p) THEN [written EXCEPT ![p] = @ + 1] ELSE written

-----------------------------------------------------------------------------
(* handle_notification: the lines of a call, and whether it is refused.    *)

Heads(x) == {i \in DOMAIN x.dest : i <= Inspected}
Foreign(x) == {i \in Heads(x) : x.dest[i] = "inet"}
Unreadable(x) == {i \in Heads(x) : x.dest[i] = "unreadable"}
TooLong(x) == x.sys = "sendmmsg" /\ Len(x.dest) > Inspected /\ cfg.enforce

Bad(x) == Foreign(x) \cup (IF cfg.enforce THEN Unreadable(x) ELSE {})

(* The messages of a batch are read a second time, as y, for their lines.  *)
Lines(x, y) ==
    IF x.sys = "open" THEN 1
    ELSE IF TooLong(x) THEN 0
    ELSE Cardinality({i \in Bad(x) :
             (IF x.sys = "sendmmsg" THEN y ELSE x).dest[i] = "inet"})

(* Mutant of Refused: only the first message of a batch decides.           *)
RefusedByFirst(x) ==
    /\ cfg.enforce
    /\ TooLong(x) \/ 1 \in Bad(x)

Refused(x) ==
    /\ cfg.enforce
    /\ TooLong(x) \/ Bad(x) # {}

SupRecv(c) ==
    /\ sup = "recv" /\ st[c] = "wait"
    /\ st' = [st EXCEPT ![c] = "taken"]
    /\ cur' = [who |-> c, call |-> call[c]]
    /\ sup' = "open" /\ noted' = 0 /\ last' = None
    /\ UNCHANGED <<cfg, alive, call, left, stale, queries, touched, opened, todo, dns, dropped,
                   pipe, readVars, lost, written>>

(* ENOENT ends the loop.  The kernel returns it when no thread has the     *)
(* filter any more, and when a counted notification is gone.               *)
SupEnoent ==
    /\ sup = "recv" /\ \A c \in Callers : st[c] # "wait"
    /\ stale > 0 \/ \A c \in Callers : st[c] = "dead"
    /\ sup' = "flush"
    /\ UNCHANGED <<cfg, sandboxVars, cur, opened, todo, dns, dropped, pipe, readVars,
                   histVars, written>>

(* Mutant of SupOpen: the call is answered without its lines.              *)
SupOpenAnswers ==
    /\ sup = "open"
    /\ opened' = TRUE /\ todo' = 0
    /\ sup' = "reply"
    /\ UNCHANGED <<cfg, sandboxVars, cur, dns, dropped, pipe, readVars, histVars, written>>

(* What a read of the arguments can give: the call, as long as its caller  *)
(* is held in it and nobody has rewritten it.                              *)
Readings ==
    IF st[cur.who] = "taken" /\ cur.who \notin touched THEN {cur.call} ELSE Alike(cur.call)

(* MemFd::open and the reads of the arguments.                             *)
SupOpen ==
    /\ sup = "open"
    /\ \/ /\ st[cur.who] # "dead"
          /\ \E x, y \in Readings :
                 opened' = TRUE /\ cur' = [cur EXCEPT !.call = x] /\ todo' = Lines(x, y)
       \/ /\ "mem" \in cfg.faults \/ st[cur.who] = "dead"
          /\ opened' = FALSE /\ todo' = 0 /\ cur' = cur
    /\ sup' = IF todo' = 0 THEN "reply" ELSE "write"
    /\ UNCHANGED <<cfg, sandboxVars, dns, dropped, pipe, readVars, histVars, written>>

(* Mutant of SupSummary: the counter is cleared whether or not the summary *)
(* was written.                                                            *)
SupSummaryClears ==
    /\ sup = "write"
    /\ IF dropped["unotify"] > 0 THEN PutSummary("unotify") ELSE UNCHANGED <<pipe, written>>
    /\ dropped' = [dropped EXCEPT !["unotify"] = 0]
    /\ sup' = "line"
    /\ UNCHANGED <<cfg, sandboxVars, cur, opened, todo, dns, readVars, histVars>>

(* write_audit_line: first the summary of what was dropped ...             *)
SupSummary ==
    /\ sup = "write"
    /\ IF dropped["unotify"] > 0 THEN PutSummary("unotify") ELSE UNCHANGED <<pipe, written>>
    /\ dropped' = IF Fits("unotify") THEN [dropped EXCEPT !["unotify"] = 0] ELSE dropped
    /\ sup' = "line"
    /\ UNCHANGED <<cfg, sandboxVars, cur, opened, todo, dns, readVars, histVars>>

(* Mutant of SupLine: the pipe was left blocking, and the write retried.   *)
SupLineBlocks ==
    /\ sup = "line"
    /\ PutEvent("unotify")
    /\ IF Again("unotify")
       THEN UNCHANGED <<todo, noted, sup>>
       ELSE /\ todo' = todo - 1 /\ noted' = noted + 1
            /\ sup' = IF todo' = 0 THEN "reply" ELSE "write"
    /\ UNCHANGED <<cfg, sandboxVars, cur, opened, dns, dropped, readVars, last, lost>>

(* ... then the line itself, or one more drop.                             *)
SupLine ==
    /\ sup = "line"
    /\ PutEvent("unotify")
    /\ dropped' = IF Again("unotify") THEN [dropped EXCEPT !["unotify"] = @ + 1] ELSE dropped
    /\ lost' = IF Again("unotify") THEN lost + 1 ELSE lost
    /\ noted' = IF open["unotify"] THEN noted + 1 ELSE noted
    /\ todo' = todo - 1
    /\ sup' = IF todo' = 0 THEN "reply" ELSE "write"
    /\ UNCHANGED <<cfg, sandboxVars, cur, opened, dns, readVars, last>>

(* respond_continue and respond_errno: nothing if the call is gone.  The   *)
(* kernel runs a continued call with its arguments as they are by then.    *)
SupReply ==
    /\ sup = "reply"
    /\ IF st[cur.who] = "taken"
       THEN /\ st' = [st EXCEPT ![cur.who] = "idle"]
            /\ call' = [call EXCEPT ![cur.who] = None]
            /\ touched' = touched \ {cur.who}
            /\ last' = IF opened /\ Refused(cur.call) THEN None
                       ELSE [call |-> call[cur.who], seen |-> cur.call, opened |-> opened,
                             noted |-> noted, touched |-> cur.who \in touched]
       ELSE UNCHANGED <<st, call, touched, last>>
    /\ sup' = "recv" /\ cur' = None /\ opened' = FALSE /\ noted' = 0
    /\ UNCHANGED <<cfg, alive, left, stale, queries, todo, dns, dropped, pipe, readVars,
                   lost, written>>

(* The last drop count, if there is room for it.                           *)
SupFlush ==
    /\ sup = "flush"
    /\ IF dropped["unotify"] > 0 THEN PutSummary("unotify") ELSE UNCHANGED <<pipe, written>>
    /\ sup' = "exited"
    /\ UNCHANGED <<cfg, sandboxVars, cur, opened, todo, dns, dropped, readVars, histVars>>

SupKilled ==
    /\ ~alive /\ ~SupEnded
    /\ sup' = "killed"
    /\ UNCHANGED <<cfg, sandboxVars, cur, opened, todo, dns, dropped, pipe, readVars,
                   histVars, written>>

-----------------------------------------------------------------------------
(* dns_serve: the line, then the summary if that was not dropped.          *)

DnsRecv ==
    /\ dns = "recv" /\ queries > 0
    /\ queries' = queries - 1
    /\ dns' = "line"
    /\ UNCHANGED <<cfg, alive, st, call, left, stale, touched, supVars, dropped, pipe, readVars,
                   histVars, written>>

DnsLine ==
    /\ dns = "line"
    /\ PutEvent("dns")
    /\ dropped' = IF Again("dns") THEN [dropped EXCEPT !["dns"] = @ + 1] ELSE dropped
    /\ dns' = IF ~Again("dns") /\ dropped["dns"] > 0 THEN "summary" ELSE "recv"
    /\ UNCHANGED <<cfg, sandboxVars, supVars, readVars, histVars>>

DnsSummary ==
    /\ dns = "summary"
    /\ PutSummary("dns")
    /\ dropped' = [dropped EXCEPT !["dns"] = 0]
    /\ dns' = "recv"
    /\ UNCHANGED <<cfg, sandboxVars, supVars, readVars, histVars>>

DnsKilled ==
    /\ ~alive /\ ~DnsEnded
    /\ dns' = "killed"
    /\ UNCHANGED <<cfg, sandboxVars, supVars, dropped, pipe, readVars, histVars, written>>

-----------------------------------------------------------------------------
(* Process::wait: the child is reaped, then each pipe is drained.          *)

Eof(p) == pipe[p] = <<>> /\ (IF p = "dns" THEN DnsEnded ELSE SupEnded)
Ready(p) == pipe[p] # <<>> \/ Eof(p)

RdReap ==
    /\ rd = "wait" /\ ~alive
    /\ rd' = "take"
    /\ UNCHANGED <<cfg, sandboxVars, supVars, dns, dropped, pipe, open, q, data, how,
                   emitted, histVars, written>>

(* The next pipe, or ProcessExited after the second.                       *)
NextPipe ==
    IF q = "dns" THEN q' = "unotify" /\ rd' = "take" ELSE q' = q /\ rd' = "exited"

RdTake ==
    /\ rd = "take"
    /\ IF open[q] THEN rd' = "poll" /\ q' = q ELSE NextPipe
    /\ UNCHANGED <<cfg, sandboxVars, supVars, dns, dropped, pipe, open, data, how,
                   emitted, histVars, written>>

(* One second for data or the end of file, at first and after EAGAIN.      *)
RdPoll ==
    /\ rd = "poll"
    /\ \/ Ready(q) /\ rd' = "read" /\ UNCHANGED how
       \/ ~Ready(q) /\ rd' = "emit" /\ how' = [how EXCEPT ![q] = "timeout"]
    /\ UNCHANGED <<cfg, sandboxVars, supVars, dns, dropped, pipe, open, q, data, emitted,
                   histVars, written>>

(* One read of up to Chunk lines.                                          *)
ReadSome ==
    \E k \in 1..Chunk :
        /\ k <= Len(pipe[q])
        /\ data' = data \o SubSeq(pipe[q], 1, k)
        /\ pipe' = [pipe EXCEPT ![q] = SubSeq(@, k + 1, Len(@))]

(* Mutant of RdRead: the pipe was left blocking.                           *)
RdReadBlocks ==
    /\ rd = "read"
    /\ \/ ReadSome /\ UNCHANGED <<rd, how>>
       \/ /\ Eof(q)
          /\ how' = [how EXCEPT ![q] = "eof"] /\ rd' = "emit"
          /\ UNCHANGED <<data, pipe>>
    /\ UNCHANGED <<cfg, sandboxVars, supVars, dns, dropped, open, q, emitted, histVars, written>>

(* Non-blocking reads to the end of file, up to MAX_AUDIT_DRAIN.           *)
RdRead ==
    /\ rd = "read"
    /\ \/ /\ Len(data) >= MaxDrain
          /\ how' = [how EXCEPT ![q] = "cut"] /\ rd' = "emit"
          /\ UNCHANGED <<data, pipe>>
       \/ Len(data) < MaxDrain /\ ReadSome /\ UNCHANGED <<rd, how>>
       \/ /\ Len(data) < MaxDrain /\ Eof(q)
          /\ how' = [how EXCEPT ![q] = "eof"] /\ rd' = "emit"
          /\ UNCHANGED <<data, pipe>>
       \/ /\ Len(data) < MaxDrain /\ ~Ready(q)
          /\ rd' = "poll"
          /\ UNCHANGED <<data, pipe, how>>
    /\ UNCHANGED <<cfg, sandboxVars, supVars, dns, dropped, open, q, emitted, histVars, written>>

(* The pipe is closed and each line is parsed: events are emitted,         *)
(* summaries only logged, and a last line cut in the middle is skipped.    *)
RdEmit ==
    /\ rd = "emit"
    /\ open' = [open EXCEPT ![q] = FALSE]
    /\ \E whole \in {data} \cup (IF how[q] = "cut" THEN {SubSeq(data, 1, Len(data) - 1)} ELSE {}) :
           emitted' = [emitted EXCEPT ![q] = SelectSeq(whole, LAMBDA l : ~IsSummary(l))]
    /\ data' = <<>>
    /\ NextPipe
    /\ UNCHANGED <<cfg, sandboxVars, supVars, dns, dropped, pipe, how, histVars, written>>

-----------------------------------------------------------------------------
Sandbox ==
    \/ \E c \in Callers : Makes(c) \/ Rewrites(c) \/ Interrupted(c) \/ LeftoverEnds(c) \/ Enosys(c)
    \/ ChildEnds \/ Asks

Supervisor ==
    \/ \E c \in Callers : SupRecv(c)
    \/ SupEnoent \/ SupOpen \/ SupSummary \/ SupLine \/ SupReply \/ SupFlush

DnsThread == DnsRecv \/ DnsLine \/ DnsSummary

Reader == RdReap \/ RdTake \/ RdPoll \/ RdRead \/ RdEmit

Over == rd = "exited" /\ UNCHANGED vars

Next == Sandbox \/ Supervisor \/ SupKilled \/ DnsThread \/ DnsKilled \/ Reader \/ Over

Spec == Init /\ [][Next]_vars

(* The supervisor and wait() are scheduled, time passes, and the kernel    *)
(* answers for a listener that is gone.  That a SIGKILL has been delivered *)
(* by the time of the drain is not assumed.                                *)
FairSpec ==
    /\ Spec /\ WF_vars(Supervisor) /\ WF_vars(Reader)
    /\ \A c \in Callers : WF_vars(Enosys(c))

-----------------------------------------------------------------------------
Summaries(s) == FoldFunction(LAMBDA l, sum : sum + (IF IsSummary(l) THEN l[2] ELSE 0), 0, s)

(* Types, and the room in the pipes and in the drain's buffer.             *)
AuditTypeOK ==
    /\ cfg \in Configs
    /\ st \in [Callers -> {"idle", "wait", "taken", "dead"}]
    /\ call \in [Callers -> Calls \cup {None}]
    /\ sup \in {"recv", "open", "write", "line", "reply", "flush", "exited", "killed", "off"}
    /\ dns \in {"recv", "line", "summary", "killed", "off"}
    /\ dropped \in [Pipes -> Nat] /\ written \in [Pipes -> Nat]
    /\ {queries, todo, stale, lost, noted} \subseteq Nat /\ touched \subseteq Callers
    /\ \A p \in Pipes : Len(pipe[p]) <= PipeCap
    /\ Len(data) < MaxDrain + Chunk
    /\ rd \in {"wait", "take", "poll", "read", "emit", "exited"}
    /\ {alive, opened} \subseteq BOOLEAN

HasForeign(x) == \E i \in DOMAIN x.dest : x.dest[i] = "inet"

(* A call that handle_notification lets run, and whose memory it could     *)
(* open, has all its lines in the pipe or in the drop counter by then,     *)
(* unless another thread rewrote its arguments in the meantime.            *)
RunMeansNoted ==
    open["unotify"] /\ last # None /\ last.opened /\ ~last.touched =>
        last.noted = Lines(last.call, last.call)

(* With enforce_network, handle_notification lets no call run in which it  *)
(* has read a foreign address, in any message.  If its memory could be     *)
(* opened at all, a call runs with such an address only after another      *)
(* thread rewrote the arguments of the held call: the race for which       *)
(* handle_connect calls this check defense in depth.                       *)
BlockedNeverRuns ==
    cfg.enforce /\ last # None /\ last.opened =>
        ~HasForeign(last.seen) /\ (HasForeign(last.call) => last.touched)

(* No event is lost in silence.  As long as the supervisor runs and its    *)
(* pipe has a reader, every line that write_audit_line dropped is in its   *)
(* counter or in one summary; and a drain that saw the end of file has     *)
(* emitted every event ever written to its pipe, in order, before          *)
(* ProcessExited.                                                          *)
NoSilentDrop ==
    /\ ~SupEnded /\ open["unotify"] =>
          lost = dropped["unotify"] + Summaries(pipe["unotify"])
                 + (IF q = "unotify" THEN Summaries(data) ELSE 0)
    /\ rd = "exited" => \A p \in Pipes : how[p] = "eof" =>
          emitted[p] = [i \in 1..written[p] |-> <<"event", i>>]

-----------------------------------------------------------------------------
(* wait() returns after the child's end, even if the writers live on.      *)
WaitReturns == ~alive ~> rd = "exited"

(* A notified call is answered, or its caller is gone: neither a full pipe *)
(* nor the end of the supervisor stops the sandbox for good.               *)
CallsAnswered == \A c \in Callers : st[c] = "wait" ~> st[c] \notin {"wait", "taken"}
=============================================================================
