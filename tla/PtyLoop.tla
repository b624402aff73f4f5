------------------------------- MODULE PtyLoop -------------------------------
(***************************************************************************)
(* The terminal side of `arapuca run -t': raw mode (terminal.rs) and the   *)
(* poll loop of run_pty_loop (bin/arapuca.rs) that carries data between    *)
(* the user's terminal and the PTY's master.  Data is counted in units;    *)
(* the target answers its input with output, so that both directions come  *)
(* under pressure.                                                         *)
(***************************************************************************)
EXTENDS ProcessHandle

CONSTANTS Chunk,     \* the size of the read buffer, 64 KiB
          Low, High, \* PTY_WRITE_BUF_LOW and PTY_WRITE_BUF_HIGH
          InCap,     \* room in the PTY's input queue
          OutCap     \* room in the PTY's output queue

ASSUME Sizes == /\ {Chunk, Low, High, InCap, OutCap} \subseteq Nat \ {0}
                /\ Low + Chunk <= High

VARIABLES term,        \* the user's terminal, "cooked" or "raw"
          cleanupFd,   \* CLEANUP_FD is set: restore_termios() acts
          nonblock,    \* stdin is O_NONBLOCK
          stdin,       \* the poll entry of stdin is in use (fd >= 0)
          typed,       \* what the user has yet to type
          pending,     \* pending_write
          inq, outq,   \* the PTY's queues
          slave,       \* the processes that have the slave open
          rev,         \* revents of the last poll
          left         \* how the loop was left

ttyVars == <<term, cleanupFd, nonblock>>
queueVars == <<stdin, typed, pending, inq, outq, rev, left>>
flowVars == <<queueVars, slave>>
ptyVars == <<ttyVars, flowVars>>

Least(a, b) == IF a < b THEN a ELSE b

(* The master hangs up when the last copy of the slave is closed.  The     *)
(* death of the session leader closes none but its own.                    *)
Hungup == slave = {}

Parent(k) == IF k = "k1" THEN Init1 ELSE "k1"

(* A process that ends closes the slave, one that is forked inherits it.   *)
SlaveFollows ==
    slave' = {p \in Sandboxed :
        /\ live'[p] = "live"
        /\ p \in slave \/ (p \in Kids /\ live[p] = "none" /\ Parent(p) \in slave)}

-----------------------------------------------------------------------------
(* The target writes one or two units for a unit it reads.                 *)

TargetAnswers ==
    /\ cfg.tty /\ Live(Init1) /\ Init1 \in slave
    /\ inq > 0
    /\ inq' = inq - 1
    /\ \E n \in 1..2 : outq + n <= OutCap /\ outq' = outq + n
    /\ UNCHANGED <<cfg, pc, procVars, handleVars, ttyVars, stdin, typed,
                   pending, slave, rev, left>>

(* The target or a descendant closes the terminal and runs on.             *)
TargetCloses ==
    /\ cfg.tty
    /\ \E p \in slave \cap ({Init1} \cup Kids) : slave' = slave \ {p}
    /\ UNCHANGED <<cfg, pc, procVars, handleVars, ttyVars, stdin, typed,
                   pending, inq, outq, rev, left>>

-----------------------------------------------------------------------------
(* The loop.                                                               *)

(* std::process::exit without the clean-up: parent-death signals end the   *)
(* child and the proxy.                                                    *)
Quit == Goto("quit") /\ Send(Killed({"child", "proxy"}))

(* RawModeGuard::enter arms restore_termios() before it changes the mode.  *)
RawArm ==
    /\ pc = "raw"
    /\ \/ cleanupFd' = TRUE /\ Goto("rawset") /\ UNCHANGED <<nonblock, pend>>
       \/ "raw" \in Faults /\ nonblock' = FALSE /\ Quit /\ UNCHANGED cleanupFd
    /\ UNCHANGED <<cfg, live, status, group, foreign, handleVars, term, flowVars>>

RawSet ==
    /\ pc = "rawset"
    /\ \/ term' = "raw" /\ Goto("poll") /\ UNCHANGED <<nonblock, pend>>
       \/ "raw" \in Faults /\ nonblock' = FALSE /\ Quit /\ UNCHANGED term
    /\ UNCHANGED <<cfg, live, status, group, foreign, handleVars, cleanupFd,
                   flowVars>>

WantsStdin == stdin /\ pending < Low

Events ==
    {e \in {"in", "hup", "out", "stdin", "eof"} :
        CASE e = "in"    -> outq > 0
          [] e = "hup"   -> Hungup
          [] e = "out"   -> pending > 0 /\ (inq < InCap \/ Hungup)
          [] e = "stdin" -> WantsStdin /\ typed > 0
          [] e = "eof"   -> WantsStdin /\ typed = 0 /\ cfg.eof}

(* A poll that times out, or a signal that interrupts it, changes nothing. *)
Poll ==
    /\ pc = "poll"
    /\ \/ Events # {} /\ rev' = Events /\ Goto("in") /\ UNCHANGED left
       \/ "poll" \in Faults /\ left' = "error" /\ Goto("restore") /\ UNCHANGED rev
    /\ UNCHANGED <<cfg, procVars, handleVars, ttyVars, stdin, typed, pending,
                   inq, outq, slave>>

(* 1. Output of the target goes to stdout; the terminal takes it.          *)
LoopIn ==
    /\ pc = "in"
    /\ IF "in" \in rev THEN \E n \in 1..outq : outq' = outq - n ELSE UNCHANGED outq
    /\ Goto("hup")
    /\ UNCHANGED <<cfg, procVars, handleVars, ttyVars, stdin, typed, pending,
                   inq, slave, rev, left>>

(* 2. After a hang-up the rest is read, input is discarded, the loop ends. *)
LoopHup ==
    /\ pc = "hup"
    /\ IF "hup" \in rev
       THEN outq' = 0 /\ pending' = 0 /\ left' = "hup" /\ Goto("restore")
       ELSE Goto("out") /\ UNCHANGED <<outq, pending, left>>
    /\ UNCHANGED <<cfg, procVars, handleVars, ttyVars, stdin, typed, inq,
                   slave, rev>>

(* Mutant of LoopOut: the write is tried again until all is written.       *)
LoopOutBlocking ==
    /\ pc = "out"
    /\ IF pending = 0
       THEN Goto("stdin") /\ UNCHANGED <<pending, inq>>
       ELSE /\ inq' = IF inq < InCap THEN inq + 1 ELSE inq
            /\ pending' = IF inq < InCap THEN pending - 1 ELSE pending
            /\ UNCHANGED pc
    /\ UNCHANGED <<cfg, procVars, handleVars, ttyVars, stdin, typed, outq,
                   slave, rev, left>>

(* 3. Pending input goes to the master, as far as there is room; if the    *)
(* slave has gone since the poll, it is lost or the write fails.           *)
LoopOut ==
    /\ pc = "out"
    /\ \/ ~("out" \in rev /\ pending > 0) /\ Goto("stdin") /\ UNCHANGED <<pending, inq, left>>
       \/ /\ "out" \in rev /\ pending > 0 /\ ~Hungup
          /\ \E n \in 0..Least(pending, InCap - inq) :
                 /\ n = 0 => inq = InCap
                 /\ pending' = pending - n /\ inq' = inq + n
          /\ Goto("stdin") /\ UNCHANGED left
       \/ /\ "out" \in rev /\ pending > 0 /\ Hungup
          /\ \/ pending' = 0 /\ Goto("stdin") /\ UNCHANGED left
             \/ left' = "error" /\ Goto("restore") /\ UNCHANGED pending
          /\ UNCHANGED inq
    /\ UNCHANGED <<cfg, procVars, handleVars, ttyVars, stdin, typed, outq,
                   slave, rev>>

(* 4. What the user typed is buffered; at the end of file stdin is dropped *)
(* from the poll set.                                                      *)
LoopStdin ==
    /\ pc = "stdin"
    /\ \/ /\ "stdin" \in rev
          /\ \E n \in 1..Least(typed, Chunk) :
                 typed' = typed - n /\ pending' = pending + n
          /\ UNCHANGED stdin
       \/ "eof" \in rev /\ stdin' = FALSE /\ UNCHANGED <<typed, pending>>
       \/ rev \cap {"stdin", "eof"} = {} /\ UNCHANGED <<stdin, typed, pending>>
    /\ Goto("poll")
    /\ UNCHANGED <<cfg, procVars, handleVars, ttyVars, inq, outq, slave,
                   rev, left>>

(* The saved flags, then RawModeGuard::drop.                               *)
RestoreFlags ==
    /\ pc = "restore"
    /\ nonblock' = FALSE
    /\ Goto("cooked")
    /\ UNCHANGED <<cfg, procVars, handleVars, term, cleanupFd, flowVars>>

RestoreTerm ==
    /\ pc = "cooked"
    /\ term' = "cooked"
    /\ Goto("disarm")
    /\ UNCHANGED <<cfg, procVars, handleVars, cleanupFd, nonblock, flowVars>>

Disarm ==
    /\ pc = "disarm"
    /\ cleanupFd' = FALSE
    /\ Goto("wait")
    /\ UNCHANGED <<cfg, procVars, handleVars, term, nonblock, flowVars>>

TtyTarget == TargetAnswers \/ TargetCloses

Loop ==
    \/ RawArm \/ RawSet \/ Poll \/ LoopIn \/ LoopHup \/ LoopOut \/ LoopStdin
    \/ RestoreFlags \/ RestoreTerm \/ Disarm

InLoop == {"poll", "in", "hup", "out", "stdin"}
=============================================================================
