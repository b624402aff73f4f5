----------------------------- MODULE ExecSession -----------------------------
(***************************************************************************)
(* arapuca vm exec: the client (vm/exec.rs) and the thread of the guest's  *)
(* agent (bin/arapuca-agent.rs) that serves its connection, joined by a    *)
(* stream of frames in each direction; the command, which the agent feeds  *)
(* through pipes or a PTY; and the agent's two counters.                   *)
(*                                                                         *)
(* Both sides are single-threaded poll loops, and some of their writes     *)
(* block.  Data is counted in units, one to a frame and one to a read.     *)
(* The command is a filter: for each unit it reads it writes Expand units  *)
(* before it reads on; it may leave a background process behind.           *)
(***************************************************************************)
EXTENDS Integers, Sequences, FiniteSets

CONSTANTS Clients,
          Configs,     \* what the clients and their commands do
          MaxConns,    \* MAX_CONNECTIONS
          MaxSessions, \* MAX_SESSIONS
          UpCap,       \* room in the connection towards the agent, in frames
          DownCap,     \* room in the connection towards the client
          InCap,       \* room in the command's stdin
          OutCap       \* room in its stdout, stderr or PTY

Streams == {"out", "err"}

ASSUME ExecSizes ==
    /\ IsFiniteSet(Clients)
    /\ {MaxConns, MaxSessions, UpCap, DownCap, InCap, OutCap} \subseteq Nat \ {0}
    /\ MaxConns <= MaxSessions

(* who: the clients; probes, stale: those that only ask whether the agent  *)
(* is up, or have an old nonce; tty: -t; typed: units of a client's stdin; *)
(* room: units that stdin holds, 0 for a file; first, expand: the filter.  *)
ASSUME ConfigShapes ==
    Configs \subseteq [who : SUBSET Clients, probes : SUBSET Clients, stale : SUBSET Clients,
                       tty : BOOLEAN, typed : Nat, room : Nat, first : Nat, expand : Nat,
                       faults : SUBSET {"exec", "killed", "idle", "job", "quits", "sink"}]

VARIABLES cfg,
          cpc,       \* client -> its place
          crev,      \* client -> what its poll reported
          left,      \* client -> units its user has still to give; -1: closed
          src,       \* client -> units in its stdin
          eofSent,   \* client -> it has sent the empty stdin frame
          got,       \* client -> stream -> units written to the user
          result,    \* client -> what exec() returned
          up, down,  \* client -> frames on their way
          cOpen,     \* client -> it has not closed its end
          aOpen,     \* client -> the agent has not closed its end
          apc,       \* client -> place of the agent's thread
          arev,      \* client -> what its poll reported
          hand,      \* client -> stream whose unit the thread is sending
          done,      \* client -> streams at end of file
          inOpen,    \* client -> the agent's end of stdin is open
          exited,    \* client -> the command has been waited for
          wstatus,   \* client -> its status
          conns, sessions,
          procs,     \* client -> live processes of the command
          zombie,    \* client -> the command has ended, not waited for
          code,      \* client -> how it ended
          stdin,     \* client -> units in its stdin
          outq,      \* client -> stream -> units in its output
          owes,      \* client -> units the command writes before it reads on
          took,      \* client -> units it has read
          wrote,     \* client -> stream -> units written to its output
          own,       \* client -> stream -> those that the command wrote itself
          sawEof     \* client -> it has read the end of file

clientVars == <<cpc, crev, left, src, eofSent, got, result, cOpen>>
loopVars == <<arev, hand, done, inOpen, exited, wstatus>>
countVars == <<conns, sessions>>
agentVars == <<apc, aOpen, loopVars, countVars>>
cmdVars == <<procs, zombie, code, stdin, outq, owes, took, wrote, own, sawEof>>
vars == <<cfg, clientVars, up, down, agentVars, cmdVars>>

Connected == {"nonce", "control", "status", "closing", "count"}
InSession == {"poll", "out", "err", "conn", "stdin", "wait", "final"}

All(v) == [c \in Clients |-> v]
StreamsOf == IF cfg.tty THEN {"out"} ELSE Streams
NoUnits == [s \in Streams |-> 0]

Init ==
    /\ cfg \in Configs
    /\ cpc = All("new") /\ crev = All({})
    /\ left = All(IF cfg.room = 0 THEN -1 ELSE cfg.typed)
    /\ src = All(IF cfg.room = 0 THEN cfg.typed ELSE 0)
    /\ eofSent = All(FALSE) /\ got = All(NoUnits) /\ result = All("none")
    /\ up = All(<<>>) /\ down = All(<<>>) /\ cOpen = All(TRUE) /\ aOpen = All(TRUE)
    /\ apc = All("none") /\ arev = All({}) /\ hand = All("none") /\ done = All({})
    /\ inOpen = All(TRUE) /\ exited = All(FALSE) /\ wstatus = All("0")
    /\ conns = 0 /\ sessions = 0
    /\ procs = All({}) /\ zombie = All(FALSE) /\ code = All("none")
    /\ stdin = All(0) /\ outq = All(NoUnits) /\ owes = All(cfg.first)
    /\ took = All(0) /\ wrote = All(NoUnits) /\ own = All(NoUnits) /\ sawEof = All(FALSE)

Set(f, c, v) == [f EXCEPT ![c] = v]

-----------------------------------------------------------------------------
(* The client.                                                             *)

Returns(c, r) ==
    /\ result' = Set(result, c, r)
    /\ cpc' = Set(cpc, c, "done")
    /\ cOpen' = Set(cOpen, c, FALSE)

(* What the client's user or the writer of its pipe does.                  *)
UserGives(c) ==
    /\ c \in cfg.who /\ left[c] > 0 /\ src[c] < cfg.room /\ cpc[c] \notin {"done", "gone"}
    /\ left' = Set(left, c, left[c] - 1) /\ src' = Set(src, c, src[c] + 1)
    /\ UNCHANGED <<cfg, cpc, crev, eofSent, got, result, cOpen, up, down, agentVars, cmdVars>>

UserCloses(c) ==
    /\ c \in cfg.who /\ left[c] = 0 /\ ~cfg.tty /\ cfg.room > 0 /\ cpc[c] \notin {"done", "gone"}
    /\ left' = Set(left, c, -1)
    /\ UNCHANGED <<cfg, cpc, crev, src, eofSent, got, result, cOpen, up, down, agentVars, cmdVars>>

ClientConnect(c) ==
    /\ cpc[c] = "new" /\ c \in cfg.who
    /\ cpc' = Set(cpc, c, "nonce")
    /\ apc' = Set(apc, c, "pending")
    /\ UNCHANGED <<cfg, crev, left, src, eofSent, got, result, cOpen, up, down, aOpen, loopVars,
                   countVars, cmdVars>>

(* write_nonce.  The nonce in a vm.json that was read before the VM was    *)
(* started anew is a stale one.                                            *)
ClientNonce(c) ==
    /\ cpc[c] = "nonce"
    /\ IF aOpen[c]
       THEN /\ up' = Set(up, c, <<IF c \in cfg.stale THEN "stale" ELSE "nonce">>)
            /\ cpc' = Set(cpc, c, "hello") /\ UNCHANGED <<result, cOpen>>
       ELSE Returns(c, "error") /\ UNCHANGED up
    /\ UNCHANGED <<cfg, crev, left, src, eofSent, got, down, agentVars, cmdVars>>

(* HELLO, then the EXEC or PING request; an error if the agent hangs up or *)
(* takes too long.                                                         *)
ClientHello(c) ==
    /\ cpc[c] = "hello"
    /\ \/ /\ down[c] # <<>>
          /\ down' = Set(down, c, Tail(down[c]))
          /\ IF aOpen[c]
             THEN /\ up' = Set(up, c, Append(up[c], IF c \in cfg.probes THEN "ping" ELSE "exec"))
                  /\ cpc' = Set(cpc, c, IF c \in cfg.probes THEN "pong" ELSE "poll")
                  /\ UNCHANGED <<result, cOpen>>
             ELSE Returns(c, "error") /\ UNCHANGED up
       \/ /\ down[c] = <<>> /\ (~aOpen[c] \/ "idle" \in cfg.faults)
          /\ Returns(c, "error")
          /\ UNCHANGED <<up, down>>
    /\ UNCHANGED <<cfg, crev, left, src, eofSent, got, agentVars, cmdVars>>

(* poll_agent_ready waits for the answer to its PING.                      *)
ClientPong(c) ==
    /\ cpc[c] = "pong"
    /\ \/ down[c] # <<>> /\ Returns(c, "ready") /\ down' = Set(down, c, Tail(down[c]))
       \/ down[c] = <<>> /\ ~aOpen[c] /\ Returns(c, "error") /\ UNCHANGED down
    /\ UNCHANGED <<cfg, crev, left, src, eofSent, got, up, agentVars, cmdVars>>

(* poll: a file is always readable; a pipe is when there is something in   *)
(* it, and reports a hang-up when its writer is gone, data or not.         *)
ClientPoll(c) ==
    /\ cpc[c] = "poll"
    /\ crev' = Set(crev, c,
           (IF down[c] # <<>> \/ ~aOpen[c] THEN {"in"} ELSE {})
           \cup (IF ~aOpen[c] THEN {"hup"} ELSE {})
           \cup (IF ~eofSent[c] /\ (src[c] > 0 \/ cfg.room = 0) THEN {"src"} ELSE {})
           \cup (IF ~eofSent[c] /\ left[c] = -1 /\ cfg.room > 0 THEN {"srchup"} ELSE {}))
    /\ crev'[c] # {}
    /\ cpc' = Set(cpc, c, "frame")
    /\ UNCHANGED <<cfg, left, src, eofSent, got, result, cOpen, up, down, agentVars, cmdVars>>

(* One frame from the agent: output, which the user's side may refuse, or  *)
(* the status, which is the result.  A hang-up is an error, whatever is    *)
(* still to be read.                                                       *)
ClientFrame(c) ==
    /\ cpc[c] = "frame"
    /\ LET frame == "in" \in crev[c] /\ down[c] # <<>>
           f == Head(down[c])
       IN  /\ down' = IF frame THEN Set(down, c, Tail(down[c])) ELSE down
           /\ IF frame /\ f \notin Streams THEN Returns(c, f) /\ UNCHANGED got
              ELSE \/ /\ frame /\ "sink" \in cfg.faults
                      /\ Returns(c, "error") /\ UNCHANGED got
                   \/ /\ got' = IF frame THEN [got EXCEPT ![c][f] = @ + 1] ELSE got
                      /\ IF "hup" \in crev[c] THEN Returns(c, "error")
                         ELSE cpc' = Set(cpc, c, "src") /\ UNCHANGED <<result, cOpen>>
    /\ UNCHANGED <<cfg, crev, left, src, eofSent, up, agentVars, cmdVars>>

(* A blocking write_frame to the agent.                                    *)
ClientSends(c, f, next) ==
    IF ~aOpen[c] THEN Returns(c, "error") /\ UNCHANGED up
    ELSE /\ Len(up[c]) < UpCap
         /\ up' = Set(up, c, Append(up[c], f))
         /\ cpc' = Set(cpc, c, next) /\ UNCHANGED <<result, cOpen>>

(* One read of stdin goes to the agent, its end as an empty frame.         *)
ClientStdin(c) ==
    /\ cpc[c] = "src"
    /\ IF "src" \notin crev[c]
       THEN cpc' = Set(cpc, c, "srchup") /\ UNCHANGED <<up, src, eofSent, result, cOpen>>
       ELSE IF src[c] > 0
       THEN ClientSends(c, "in", "srchup") /\ src' = Set(src, c, src[c] - 1) /\ UNCHANGED eofSent
       ELSE ClientSends(c, "eof", "srchup") /\ eofSent' = Set(eofSent, c, TRUE) /\ UNCHANGED src
    /\ UNCHANGED <<cfg, crev, left, got, down, agentVars, cmdVars>>

(* After that read, a hang-up of stdin is its end.                         *)
ClientStdinHup(c) ==
    /\ cpc[c] = "srchup"
    /\ IF "srchup" \in crev[c] /\ ~eofSent[c] /\ ~cfg.tty
       THEN ClientSends(c, "eof", "poll") /\ eofSent' = Set(eofSent, c, TRUE)
       ELSE cpc' = Set(cpc, c, "poll") /\ UNCHANGED <<up, eofSent, result, cOpen>>
    /\ crev' = Set(crev, c, {})
    /\ UNCHANGED <<cfg, left, src, got, down, agentVars, cmdVars>>

(* The user ends the client.                                               *)
ClientKilled(c) ==
    /\ "killed" \in cfg.faults /\ cpc[c] \notin {"new", "done", "gone"}
    /\ cpc' = Set(cpc, c, "gone")
    /\ cOpen' = Set(cOpen, c, FALSE)
    /\ UNCHANGED <<cfg, crev, left, src, eofSent, got, result, up, down, agentVars, cmdVars>>

-----------------------------------------------------------------------------
(* The agent: accept loop and handle_connection.                           *)

(* Mutant of Accept: the limit is off by one.                              *)
AcceptOneMore(c) ==
    /\ apc[c] = "pending"
    /\ IF conns > MaxConns
       THEN aOpen' = Set(aOpen, c, FALSE) /\ apc' = Set(apc, c, "closed") /\ UNCHANGED conns
       ELSE conns' = conns + 1 /\ apc' = Set(apc, c, "nonce") /\ UNCHANGED aOpen
    /\ UNCHANGED <<cfg, clientVars, up, down, loopVars, sessions, cmdVars>>

Accept(c) ==
    /\ apc[c] = "pending"
    /\ IF conns >= MaxConns
       THEN aOpen' = Set(aOpen, c, FALSE) /\ apc' = Set(apc, c, "closed") /\ UNCHANGED conns
       ELSE conns' = conns + 1 /\ apc' = Set(apc, c, "nonce") /\ UNCHANGED aOpen
    /\ UNCHANGED <<cfg, clientVars, up, down, loopVars, sessions, cmdVars>>

HungUp(c) == up[c] = <<>> /\ ~cOpen[c]

(* The nonce, then HELLO.                                                  *)
AgentNonce(c) ==
    /\ apc[c] = "nonce" /\ (up[c] # <<>> \/ HungUp(c))
    /\ up' = Set(up, c, <<>>)
    /\ IF up[c] = <<"nonce">> /\ cOpen[c]
       THEN down' = Set(down, c, <<"hello">>) /\ apc' = Set(apc, c, "control")
       ELSE down' = down /\ apc' = Set(apc, c, "closing")
    /\ UNCHANGED <<cfg, clientVars, aOpen, loopVars, countVars, cmdVars>>

(* handle_exec: the command is started, or refused before the fork.  There *)
(* is always room for a session: see SlotsExact.                           *)
Starts(c) ==
    /\ apc[c] = "control" /\ up[c] # <<>> /\ Head(up[c]) = "exec"
    /\ up' = Set(up, c, Tail(up[c]))
    /\ \/ /\ procs' = Set(procs, c, {"cmd"}) /\ apc' = Set(apc, c, "poll")
          /\ sessions' = sessions + 1
          /\ UNCHANGED <<code, wstatus>>
       \/ /\ "exec" \in cfg.faults
          /\ code' = Set(code, c, "126") /\ wstatus' = Set(wstatus, c, "126")
          /\ apc' = Set(apc, c, "status")
          /\ UNCHANGED <<procs, sessions>>
    /\ UNCHANGED <<cfg, clientVars, down, aOpen, arev, hand, done, inOpen, exited, conns,
                   zombie, stdin, outq, owes, took, wrote, own, sawEof>>

(* With three pipes, or with a PTY that has one stream of output and no    *)
(* end of input.                                                           *)
AgentExec(c) == ~cfg.tty /\ Starts(c)
AgentExecTty(c) == cfg.tty /\ Starts(c)

AgentPing(c) ==
    /\ apc[c] = "control" /\ up[c] # <<>> /\ Head(up[c]) = "ping"
    /\ up' = Set(up, c, Tail(up[c]))
    /\ IF cOpen[c] THEN down' = Set(down, c, Append(down[c], "pong")) /\ UNCHANGED apc
       ELSE apc' = Set(apc, c, "closing") /\ UNCHANGED down
    /\ UNCHANGED <<cfg, clientVars, aOpen, loopVars, countVars, cmdVars>>

(* A frame that is not a control message, left over from a session, closes *)
(* the connection; so do its end and 30 idle seconds.                      *)
AgentOther(c) ==
    /\ apc[c] = "control"
    /\ \/ up[c] # <<>> /\ Head(up[c]) \in {"in", "eof"} /\ up' = Set(up, c, Tail(up[c]))
       \/ (HungUp(c) \/ (up[c] = <<>> /\ "idle" \in cfg.faults)) /\ UNCHANGED up
    /\ apc' = Set(apc, c, "closing")
    /\ UNCHANGED <<cfg, clientVars, down, aOpen, loopVars, countVars, cmdVars>>

AgentClose(c) ==
    /\ apc[c] = "closing"
    /\ aOpen' = Set(aOpen, c, FALSE) /\ apc' = Set(apc, c, "count")
    /\ UNCHANGED <<cfg, clientVars, up, down, loopVars, countVars, cmdVars>>

AgentCount(c) ==
    /\ apc[c] = "count"
    /\ apc' = Set(apc, c, "closed")
    /\ conns' = conns - 1
    /\ UNCHANGED <<cfg, clientVars, up, down, aOpen, loopVars, sessions, cmdVars>>

-----------------------------------------------------------------------------
(* forward_io and forward_io_tty.                                          *)

OutEof(c, s) == outq[c][s] = 0 /\ procs[c] = {}

AgentPoll(c) ==
    /\ apc[c] = "poll"
    /\ arev' = Set(arev, c,
           {s \in StreamsOf \ done[c] : outq[c][s] > 0 \/ OutEof(c, s)}
           \cup (IF up[c] # <<>> \/ ~cOpen[c] THEN {"in"} ELSE {})
           \cup (IF ~cOpen[c] THEN {"hup"} ELSE {}))
    /\ apc' = Set(apc, c, "out")
    /\ UNCHANGED <<cfg, clientVars, up, down, aOpen, hand, done, inOpen, exited, wstatus,
                   countVars, cmdVars>>

After(s) == IF s = "out" THEN "err" ELSE "conn"

(* Mutant of AgentDrain: the end of file is taken for "no data now".       *)
AgentDrainOn(c, s) ==
    /\ apc[c] = s /\ hand[c] = "none"
    /\ IF s \in arev[c] /\ outq[c][s] > 0
       THEN /\ outq' = [outq EXCEPT ![c][s] = @ - 1] /\ hand' = Set(hand, c, s)
            /\ UNCHANGED <<apc, done>>
       ELSE /\ apc' = Set(apc, c, After(s))
            /\ UNCHANGED <<outq, hand, done>>
    /\ UNCHANGED <<cfg, clientVars, up, down, aOpen, arev, inOpen, exited, wstatus,
                   countVars, procs, zombie, code, stdin, owes, took, wrote, own, sawEof>>

(* drain_pipe_to_conn: read until there is no more for now, or end of file. *)
AgentDrain(c, s) ==
    /\ apc[c] = s /\ hand[c] = "none"
    /\ IF s \in arev[c] /\ outq[c][s] > 0
       THEN /\ outq' = [outq EXCEPT ![c][s] = @ - 1] /\ hand' = Set(hand, c, s)
            /\ UNCHANGED <<apc, done>>
       ELSE /\ apc' = Set(apc, c, After(s))
            /\ done' = IF s \in arev[c] /\ OutEof(c, s) THEN Set(done, c, done[c] \cup {s})
                       ELSE done
            /\ UNCHANGED <<outq, hand>>
    /\ UNCHANGED <<cfg, clientVars, up, down, aOpen, arev, inOpen, exited, wstatus,
                   countVars, procs, zombie, code, stdin, owes, took, wrote, own, sawEof>>

(* Its blocking write of each piece; an error ends the stream.             *)
AgentSend(c) ==
    /\ hand[c] # "none"
    /\ \/ /\ cOpen[c] /\ Len(down[c]) < DownCap
          /\ down' = Set(down, c, Append(down[c], hand[c]))
          /\ UNCHANGED <<done, apc>>
       \/ /\ ~cOpen[c]
          /\ done' = Set(done, c, done[c] \cup {hand[c]})
          /\ apc' = Set(apc, c, After(hand[c]))
          /\ UNCHANGED down
    /\ hand' = Set(hand, c, "none")
    /\ UNCHANGED <<cfg, clientVars, up, aOpen, arev, inOpen, exited, wstatus, countVars,
                   cmdVars>>

(* kill(child_pid, SIGKILL): the command only, not what it started.        *)
Kill(c) ==
    /\ procs' = Set(procs, c, procs[c] \ {"cmd"})
    /\ zombie' = IF "cmd" \in procs[c] THEN Set(zombie, c, TRUE) ELSE zombie
    /\ code' = IF "cmd" \in procs[c] THEN Set(code, c, "137") ELSE code

(* The end of a turn's conversation with the client.                       *)
HupOrWait(c) ==
    /\ IF "hup" \in arev[c] THEN Kill(c) /\ apc' = Set(apc, c, "final")
       ELSE apc' = Set(apc, c, "wait") /\ UNCHANGED <<procs, zombie, code>>
    /\ arev' = Set(arev, c, {})

(* Mutant of AgentConn: a hang-up only ends the reading.                   *)
AgentConnDeaf(c) ==
    /\ apc[c] = "conn"
    /\ IF up[c] = <<>> THEN apc' = Set(apc, c, "wait") /\ UNCHANGED <<up, inOpen>>
       ELSE /\ up' = Set(up, c, Tail(up[c]))
            /\ inOpen' = IF Head(up[c]) = "eof" THEN Set(inOpen, c, FALSE) ELSE inOpen
            /\ apc' = Set(apc, c, IF Head(up[c]) = "in" /\ inOpen[c] THEN "stdin" ELSE "wait")
    /\ UNCHANGED <<cfg, clientVars, down, aOpen, arev, hand, done, exited, wstatus, countVars,
                   cmdVars>>

(* One frame from the client; a hang-up, which is readable too, kills the  *)
(* command.                                                                *)
AgentConn(c) ==
    /\ apc[c] = "conn"
    /\ IF "in" \notin arev[c]
       THEN apc' = Set(apc, c, "wait") /\ arev' = Set(arev, c, {})
            /\ UNCHANGED <<up, inOpen, procs, zombie, code>>
       ELSE IF up[c] = <<>>
       THEN Kill(c) /\ apc' = Set(apc, c, "final") /\ UNCHANGED <<up, inOpen, arev>>
       ELSE /\ up' = Set(up, c, Tail(up[c]))
            /\ inOpen' = IF Head(up[c]) = "eof" THEN Set(inOpen, c, FALSE) ELSE inOpen
            /\ IF Head(up[c]) = "in" /\ inOpen[c]
               THEN apc' = Set(apc, c, "stdin") /\ UNCHANGED <<procs, zombie, code, arev>>
               ELSE HupOrWait(c)
    /\ UNCHANGED <<cfg, clientVars, down, aOpen, hand, done, exited, wstatus, countVars,
                   stdin, outq, owes, took, wrote, own, sawEof>>

(* write_all_fd to the command's stdin.  A pipe blocks, until there is     *)
(* room or no reader; a PTY's master does not, and the input is dropped.   *)
AgentStdin(c) ==
    /\ apc[c] = "stdin"
    /\ \/ stdin[c] < InCap /\ procs[c] # {} /\ stdin' = Set(stdin, c, stdin[c] + 1)
       \/ (procs[c] = {} \/ (cfg.tty /\ stdin[c] = InCap)) /\ UNCHANGED stdin
    /\ HupOrWait(c)
    /\ UNCHANGED <<cfg, clientVars, up, down, aOpen, hand, done, inOpen, exited, wstatus,
                   countVars, outq, owes, took, wrote, own, sawEof>>

EndSession(c) ==
    /\ apc' = Set(apc, c, "status")
    /\ sessions' = sessions - 1
    /\ inOpen' = Set(inOpen, c, FALSE)

Reap(c) ==
    IF zombie[c]
    THEN /\ zombie' = Set(zombie, c, FALSE) /\ exited' = Set(exited, c, TRUE)
         /\ wstatus' = Set(wstatus, c, code[c])
    ELSE UNCHANGED <<zombie, exited, wstatus>>

(* Mutant of AgentWait: the end of the command ends the session.           *)
AgentWaitHasty(c) ==
    /\ apc[c] = "wait"
    /\ Reap(c)
    /\ IF exited'[c] THEN EndSession(c)
       ELSE apc' = Set(apc, c, "poll") /\ UNCHANGED <<sessions, inOpen>>
    /\ UNCHANGED <<cfg, clientVars, up, down, aOpen, arev, hand, done, conns, procs, code,
                   stdin, outq, owes, took, wrote, own, sawEof>>

(* waitpid(WNOHANG); the session is over when the command has ended and    *)
(* its output with it.  On a PTY the loop goes on for five seconds at most *)
(* after the turn that has reaped the command.                             *)
AgentWait(c) ==
    /\ apc[c] = "wait"
    /\ Reap(c)
    /\ \/ exited'[c] /\ done[c] = StreamsOf /\ EndSession(c)
       \/ exited[c] /\ done[c] # StreamsOf /\ cfg.tty /\ EndSession(c)
       \/ /\ ~(exited'[c] /\ done[c] = StreamsOf)
          /\ apc' = Set(apc, c, "poll") /\ UNCHANGED <<sessions, inOpen>>
    /\ UNCHANGED <<cfg, clientVars, up, down, aOpen, arev, hand, done, conns, procs, code,
                   stdin, outq, owes, took, wrote, own, sawEof>>

(* After a hang-up: the blocking waitpid.                                  *)
AgentFinal(c) ==
    /\ apc[c] = "final" /\ (exited[c] \/ zombie[c])
    /\ Reap(c)
    /\ EndSession(c)
    /\ UNCHANGED <<cfg, clientVars, up, down, aOpen, arev, hand, done, conns, procs, code,
                   stdin, outq, owes, took, wrote, own, sawEof>>

(* The session is counted down, then the status is sent.                   *)
AgentStatus(c) ==
    /\ apc[c] = "status"
    /\ \/ /\ cOpen[c] /\ Len(down[c]) < DownCap
          /\ down' = Set(down, c, Append(down[c], wstatus[c]))
          /\ apc' = Set(apc, c, "control")
       \/ ~cOpen[c] /\ apc' = Set(apc, c, "closing") /\ UNCHANGED down
    /\ UNCHANGED <<cfg, clientVars, up, aOpen, loopVars, countVars, cmdVars>>

-----------------------------------------------------------------------------
(* The command.                                                            *)

CmdReads(c) ==
    /\ "cmd" \in procs[c] /\ owes[c] = 0 /\ stdin[c] > 0
    /\ stdin' = Set(stdin, c, stdin[c] - 1) /\ took' = Set(took, c, took[c] + 1)
    /\ owes' = Set(owes, c, cfg.expand)
    /\ UNCHANGED <<cfg, clientVars, up, down, agentVars, procs, zombie, code, outq, wrote, own, sawEof>>

CmdWrites(c, s) ==
    /\ "cmd" \in procs[c] /\ owes[c] > 0 /\ outq[c][s] < OutCap
    /\ outq' = [outq EXCEPT ![c][s] = @ + 1] /\ wrote' = [wrote EXCEPT ![c][s] = @ + 1]
    /\ own' = [own EXCEPT ![c][s] = @ + 1]
    /\ owes' = Set(owes, c, owes[c] - 1)
    /\ UNCHANGED <<cfg, clientVars, up, down, agentVars, procs, zombie, code, stdin, took, sawEof>>

Ends(c, x) ==
    /\ zombie' = Set(zombie, c, TRUE) /\ code' = Set(code, c, x)
    /\ \/ procs' = Set(procs, c, {}) /\ UNCHANGED owes
       \/ "job" \in cfg.faults /\ procs' = Set(procs, c, {"job"}) /\ owes' = Set(owes, c, 1)

(* It ends at the end of its input ...                                     *)
CmdEof(c) ==
    /\ "cmd" \in procs[c] /\ owes[c] = 0 /\ stdin[c] = 0 /\ ~inOpen[c]
    /\ Ends(c, "0")
    /\ sawEof' = Set(sawEof, c, TRUE)
    /\ UNCHANGED <<cfg, clientVars, up, down, agentVars, stdin, outq, took, wrote, own>>

(* ... or of its own accord; a job it has left holds its output open.      *)
CmdQuits(c) ==
    /\ "quits" \in cfg.faults /\ "cmd" \in procs[c]
    /\ Ends(c, "1")
    /\ UNCHANGED <<cfg, clientVars, up, down, agentVars, stdin, outq, took, wrote, own, sawEof>>

JobWrites(c, s) ==
    /\ "job" \in procs[c] /\ owes[c] > 0 /\ outq[c][s] < OutCap /\ apc[c] \in InSession
    /\ outq' = [outq EXCEPT ![c][s] = @ + 1] /\ wrote' = [wrote EXCEPT ![c][s] = @ + 1]
    /\ owes' = Set(owes, c, owes[c] - 1)
    /\ UNCHANGED <<cfg, clientVars, up, down, agentVars, procs, zombie, code, stdin, took, own,
                   sawEof>>

JobEnds(c) ==
    /\ "job" \in procs[c]
    /\ procs' = Set(procs, c, procs[c] \ {"job"})
    /\ UNCHANGED <<cfg, clientVars, up, down, agentVars, zombie, code, stdin, outq, owes,
                   took, wrote, own, sawEof>>

-----------------------------------------------------------------------------
Client(c) ==
    \/ ClientConnect(c) \/ ClientNonce(c) \/ ClientHello(c) \/ ClientPong(c) \/ ClientPoll(c)
    \/ ClientFrame(c) \/ ClientStdin(c) \/ ClientStdinHup(c)

Agent(c) ==
    \/ Accept(c) \/ AgentNonce(c) \/ AgentExec(c) \/ AgentExecTty(c) \/ AgentPing(c) \/ AgentOther(c)
    \/ AgentClose(c) \/ AgentCount(c) \/ AgentPoll(c)
    \/ (\E s \in Streams : AgentDrain(c, s)) \/ AgentSend(c) \/ AgentConn(c) \/ AgentStdin(c)
    \/ AgentWait(c) \/ AgentFinal(c) \/ AgentStatus(c)

Command(c) == CmdReads(c) \/ (\E s \in StreamsOf : CmdWrites(c, s)) \/ CmdEof(c)

User(c) == UserGives(c) \/ UserCloses(c)

Over == (\A c \in cfg.who : cpc[c] \in {"done", "gone"}) /\ UNCHANGED vars

Next ==
    \/ \E c \in Clients : \/ Client(c) \/ Agent(c) \/ Command(c)
                          \/ ClientKilled(c) \/ CmdQuits(c) \/ JobEnds(c)
                          \/ (\E s \in StreamsOf : JobWrites(c, s)) \/ User(c)
    \/ Over

Spec == Init /\ [][Next]_vars

(* The client, the agent's threads and the command are scheduled, and the  *)
(* user gives what there is to give.                                       *)
FairSpec ==
    /\ Spec
    /\ \A c \in Clients : WF_vars(Client(c)) /\ WF_vars(Agent(c))
                         /\ WF_vars(Command(c)) /\ WF_vars(User(c))

-----------------------------------------------------------------------------
Codes == {"0", "1", "126", "137"}

ExecTypeOK ==
    /\ cfg \in Configs
    /\ cpc \in [Clients -> {"new", "nonce", "hello", "pong", "poll", "frame", "src", "srchup",
                            "done", "gone"}]
    /\ result \in [Clients -> Codes \cup {"none", "error", "ready"}]
    /\ left \in [Clients -> -1..cfg.typed] /\ src \in [Clients -> 0..cfg.typed]
    /\ apc \in [Clients -> Connected \cup InSession \cup {"none", "pending", "closed"}]
    /\ \A c \in Clients : /\ Len(up[c]) <= UpCap /\ Len(down[c]) <= DownCap
                          /\ stdin[c] \in 0..InCap /\ outq[c] \in [Streams -> 0..OutCap]
                          /\ done[c] \subseteq StreamsOf
                          /\ hand[c] \in Streams \cup {"none"}
                          /\ procs[c] \subseteq {"cmd", "job"}

(* The agent's counters are the connections and the sessions there are,    *)
(* and no more connections than MAX_CONNECTIONS; so MAX_SESSIONS, which is *)
(* larger, cannot be reached.                                              *)
SlotsExact ==
    /\ conns = Cardinality({c \in Clients : apc[c] \in Connected \cup InSession})
    /\ sessions = Cardinality({c \in Clients : apc[c] \in InSession})
    /\ conns <= MaxConns
    /\ \A c \in Clients : apc[c] = "control" => sessions < MaxSessions

(* What a session exchanges is complete and true.  A client that returns a *)
(* status returns the command's, and has written all of the output; on a   *)
(* PTY, which forward_io_tty leaves after a grace of five seconds, all but *)
(* what a background job wrote after the end of the command.  It does      *)
(* return the status of a command that has read all its input, unless it   *)
(* is slow by half a minute or cannot write the output.  A command that    *)
(* reads the end of its input has read all of it, if the client's stdin    *)
(* holds no more than the client reads at once: the hang-up of a larger    *)
(* one is taken for its end.                                               *)
SessionTrue ==
    \A c \in Clients :
        /\ result[c] \in Codes =>
               /\ result[c] = code[c]
               /\ \A s \in Streams :
                      got[c][s] \in (IF cfg.tty THEN own[c][s] ELSE wrote[c][s])..wrote[c][s]
        /\ sawEof[c] /\ result[c] = "error" => cfg.faults \cap {"idle", "sink"} # {}
        /\ sawEof[c] /\ cOpen[c] /\ cfg.room <= 1 => took[c] = cfg.typed

-----------------------------------------------------------------------------
(* Input that the command's stdin can hold never blocks the agent.         *)
InputFits == cfg.typed <= InCap /\ cfg.typed < UpCap

(* When the command and its jobs have ended, its client returns.           *)
EndIsTold ==
    \A c \in Clients :
        InputFits /\ code[c] # "none" /\ procs[c] = {} ~> procs[c] # {} \/ cpc[c] \in {"done", "gone"}

(* When a client is gone, the agent ends its command and gives the slots   *)
(* back.                                                                   *)
GoneIsCleaned ==
    \A c \in Clients :
        InputFits /\ ~cOpen[c] ~> "cmd" \notin procs[c] /\ apc[c] = "closed"
=============================================================================
