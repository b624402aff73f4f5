--------------------------- MODULE WindowsSandbox ---------------------------
(***************************************************************************)
(* Sandboxes on Windows (platform/windows.rs and the Windows half of       *)
(* process.rs).  launch() gives an AppContainer access to the caller's     *)
(* paths by editing the paths' DACLs, which every sandbox shares, and a    *)
(* rollback, cleanup() or Drop writes back what it saved.  The entries are *)
(* inheritable: what a directory has been granted reaches what is below    *)
(* it.  Each call of the system is a step of its own, and every launch may *)
(* be beside others, of its own process or of another.                     *)
(***************************************************************************)
EXTENDS Naturals, Sequences, Functions, FiniteSets

CONSTANTS Sandboxes,  \* launches
          Tree,       \* pairs <<d, p>>: the path p is below the directory d
          WinConfigs  \* for each, its container's name, its paths and its use

(* What is below a directory that is below d is below d.                   *)
ASSUME WinTree ==
    \A x, y \in Tree : /\ x = <<x[1], x[2]>> /\ x[1] # x[2]
                       /\ x[2] = y[1] => <<x[1], y[2]>> \in Tree

(* A configuration gives each launch its container's name, the profile's   *)
(* two lists of paths, and how the caller ends the handle.                 *)
ASSUME WinShapes ==
    WinConfigs \subseteq [Sandboxes -> [name : STRING, reads : Seq(STRING), writes : Seq(STRING),
                                       use : {"wait", "drop"}]]

VARIABLES
    win,      \* the configuration
    at,       \* where each launch or handle is
    dacl,     \* of each path: its own entries, and whether it still inherits
    saved,    \* saved_dacls of each, in the order they were pushed
    sd,       \* the descriptor that save_dacl has just returned
    merged,   \* the list that SetEntriesInAclW has just made
    undone,   \* how many of saved_dacls a rollback or cleanup has written
    profiles, \* names of AppContainer profiles in the registry
    job,      \* the Job Object: a job that is closed kills its processes
    proc,     \* the sandboxed process
    tmp,      \* sandboxes whose temporary directory exists
    failing,  \* sandboxes that return an error
    mixed,    \* sandboxes that had a path while another had it or one above
    botched   \* sandboxes that could not undo something

paths == <<dacl, saved, sd, merged, undone>>
marks == <<failing, mixed, botched>>
winVars == <<win, at, paths, profiles, job, proc, tmp, marks>>

Name(s) == win[s].name
TmpOf(s) == s              \* a sandbox stands for its own directory
Paths == UNION {Range(win[s].reads) \cup Range(win[s].writes) \cup {TmpOf(s)} : s \in Sandboxes}

(* What launch() grants, in its order: the paths to read, the paths to     *)
(* write, and the temporary directory.                                     *)
Grants(s) ==
    [i \in DOMAIN win[s].reads |-> [path |-> win[s].reads[i], access |-> "r"]]
    \o [i \in DOMAIN win[s].writes |-> [path |-> win[s].writes[i], access |-> "rw"]]
    \o <<[path |-> TmpOf(s), access |-> "rw"]>>

Current(s) == Grants(s)[Len(saved[s]) + 1]

(* What is granted on d applies to p, unless p or something between them   *)
(* has stopped inheriting.                                                 *)
Reaches(d, p) == d = p \/ <<d, p>> \in Tree
Inherits(p, d) ==
    /\ <<d, p>> \in Tree
    /\ \A q \in Paths : <<d, q>> \in Tree /\ Reaches(q, p) => dacl[q].inherits

(* The list that GetNamedSecurityInfoW returns: the path's own entries and *)
(* the inherited ones, which SetNamedSecurityInfoW keeps up to date below  *)
(* the directory it writes.                                                *)
ListOf(p) ==
    [aces |-> dacl[p].aces \cup UNION {dacl[d].aces : d \in {e \in Paths : Inherits(p, e)}},
     inherits |-> dacl[p].inherits]

WinInit ==
    /\ win \in WinConfigs
    /\ at = [s \in Sandboxes |-> "tmp"]
    /\ dacl = [p \in Paths |-> [aces |-> {}, inherits |-> TRUE]]
    /\ saved = [s \in Sandboxes |-> <<>>]
    /\ sd = [s \in Sandboxes |-> "none"] /\ merged = [s \in Sandboxes |-> "none"]
    /\ undone = [s \in Sandboxes |-> 0]
    /\ profiles = {} /\ tmp = {}
    /\ job = [s \in Sandboxes |-> "none"] /\ proc = [s \in Sandboxes |-> "none"]
    /\ failing = {} /\ mixed = {} /\ botched = {}

-----------------------------------------------------------------------------
(***************************************************************************)
(* launch(), up to the container.                                          *)
(***************************************************************************)
Goto(s, from, to) == at[s] = from /\ at' = [at EXCEPT ![s] = to]

(* A handle that goes out of scope closes the job, which kills.            *)
CloseJob(s) ==
    /\ job' = [job EXCEPT ![s] = IF @ = "open" THEN "closed" ELSE @]
    /\ proc' = [proc EXCEPT ![s] = IF @ = "runs" THEN "dead" ELSE @]

MakeScratch(s) ==
    /\ Goto(s, "tmp", "job")
    /\ tmp' = tmp \cup {s}
    /\ UNCHANGED <<win, paths, profiles, job, proc, marks>>

CreateJobObject(s) ==
    /\ Goto(s, "job", "stdio")
    /\ job' = [job EXCEPT ![s] = "open"]
    /\ UNCHANGED <<win, paths, profiles, proc, tmp, marks>>

DuplicateStdio(s) ==
    /\ Goto(s, "stdio", "create")
    /\ UNCHANGED <<win, paths, profiles, job, proc, tmp, marks>>

(* A profile of the same name counts as stale: it is deleted, and the      *)
(* creation tried once more.                                               *)
CreateContainer(s) ==
    /\ at[s] \in {"create", "recreate"}
    /\ \/ /\ Name(s) \notin profiles
          /\ profiles' = profiles \cup {Name(s)}
          /\ at' = [at EXCEPT ![s] = "save"]
       \/ /\ Name(s) \in profiles /\ at[s] = "create"
          /\ at' = [at EXCEPT ![s] = "stale"]
          /\ UNCHANGED profiles
    /\ UNCHANGED <<win, paths, job, proc, tmp, marks>>

DeleteStale(s) ==
    /\ Goto(s, "stale", "recreate")
    /\ profiles' = profiles \ {Name(s)}
    /\ UNCHANGED <<win, paths, job, proc, tmp, marks>>

(* The result of remove_dir_all is ignored.                                *)
RemoveScratch(s) ==
    \/ tmp' = tmp \ {s} /\ UNCHANGED botched
    \/ s \in tmp /\ UNCHANGED tmp /\ botched' = botched \cup {s}

(* Until the container exists, an error removes the directory only.        *)
EarlyFailure(s) ==
    /\ at[s] \in {"tmp", "job", "stdio", "create", "stale", "recreate"}
    /\ at' = [at EXCEPT ![s] = "err"]
    /\ RemoveScratch(s) /\ CloseJob(s)
    /\ failing' = failing \cup {s}
    /\ UNCHANGED <<win, paths, profiles, mixed>>

-----------------------------------------------------------------------------
(***************************************************************************)
(* launch(), the paths and the process.                                    *)
(***************************************************************************)
(* Paths a sandbox has saved, or is about to change, and not yet restored. *)
Uses(s) ==
    IF at[s] = "crashed" THEN {}
    ELSE {saved[s][i].path : i \in (undone[s] + 1)..Len(saved[s])}
         \cup (IF at[s] \in {"merge", "set"} THEN {Current(s).path} ELSE {})

SaveDacl(s) ==
    /\ at[s] = "save" /\ Len(saved[s]) < Len(Grants(s))
    /\ at' = [at EXCEPT ![s] = "merge"]
    /\ sd' = [sd EXCEPT ![s] = ListOf(Current(s).path)]
    /\ mixed' = LET others == {t \in Sandboxes \ {s} :
                                 \E p \in Uses(t) : Reaches(p, Current(s).path)}
                IN  IF others = {} THEN mixed ELSE mixed \cup others \cup {s}
    /\ UNCHANGED <<win, dacl, saved, merged, undone, profiles, job, proc, tmp, failing, botched>>

(* grant_path_access reads the DACL again; SET_ACCESS replaces the entry   *)
(* of its own the container may have.  The inherited ones are not written  *)
(* back with the list: the system derives them anew.                       *)
MergeEntry(s) ==
    LET now == dacl[Current(s).path] IN
    /\ Goto(s, "merge", "set")
    /\ merged' = [merged EXCEPT ![s] =
          [now EXCEPT !.aces = {a \in @ : a.sid # Name(s)}
                               \cup {[sid |-> Name(s), access |-> Current(s).access]}]]
    /\ UNCHANGED <<win, dacl, saved, sd, undone, profiles, job, proc, tmp, marks>>

ApplyEntryUnsaved(s) ==
    /\ Goto(s, "set", "save")
    /\ dacl' = [dacl EXCEPT ![Current(s).path] = merged[s]]
    /\ saved' = [saved EXCEPT ![s] = Append(@, [path |-> Current(s).path, dacl |-> merged[s]])]
    /\ sd' = [sd EXCEPT ![s] = "none"] /\ merged' = [merged EXCEPT ![s] = "none"]
    /\ UNCHANGED <<win, undone, profiles, job, proc, tmp, marks>>

ApplyEntry(s) ==
    /\ Goto(s, "set", "save")
    /\ dacl' = [dacl EXCEPT ![Current(s).path] = merged[s]]
    /\ saved' = [saved EXCEPT ![s] = Append(@, [path |-> Current(s).path, dacl |-> sd[s]])]
    /\ sd' = [sd EXCEPT ![s] = "none"] /\ merged' = [merged EXCEPT ![s] = "none"]
    /\ UNCHANGED <<win, undone, profiles, job, proc, tmp, marks>>

(* The capabilities and the attribute list: job, handles, mitigations.     *)
AddAttributes(s) ==
    /\ Goto(s, "save", "spawn") /\ Len(saved[s]) = Len(Grants(s))
    /\ UNCHANGED <<win, paths, profiles, job, proc, tmp, marks>>

(* CreateProcessW puts the process into the job and the container.         *)
CreateProcess(s) ==
    /\ Goto(s, "spawn", "ok")
    /\ proc' = [proc EXCEPT ![s] = "runs"]
    /\ UNCHANGED <<win, paths, profiles, job, tmp, marks>>

(* An error from the first path on rolls back what was saved.              *)
LateFailure(s) ==
    /\ at[s] \in {"save", "merge", "set", "spawn"}
    /\ at' = [at EXCEPT ![s] = "undo"]
    /\ sd' = [sd EXCEPT ![s] = "none"] /\ merged' = [merged EXCEPT ![s] = "none"]
    /\ failing' = failing \cup {s}
    /\ UNCHANGED <<win, dacl, saved, undone, profiles, job, proc, tmp, mixed, botched>>

-----------------------------------------------------------------------------
(***************************************************************************)
(* The end of a handle: wait() and cleanup(), or Drop, which does not wait *)
(* for the process; and the rollback of a launch, which does the same.     *)
(***************************************************************************)
ProcessExits(s) ==
    /\ proc[s] = "runs" /\ proc' = [proc EXCEPT ![s] = "dead"]
    /\ UNCHANGED <<win, at, paths, profiles, job, tmp, marks>>

EndHandle(s) ==
    /\ win[s].use = "wait" => proc[s] = "dead"
    /\ Goto(s, "ok", "undo")
    /\ UNCHANGED <<win, paths, profiles, job, proc, tmp, marks>>

(* The saved list, inherited entries included, is written as the path's    *)
(* own: it no longer inherits.                                             *)
RestoreDacl(s) ==
    LET next == saved[s][undone[s] + 1] IN
    /\ at[s] = "undo" /\ undone[s] < Len(saved[s])
    /\ undone' = [undone EXCEPT ![s] = @ + 1]
    /\ \/ /\ dacl' = [dacl EXCEPT ![next.path] = [next.dacl EXCEPT !.inherits = FALSE]]
          /\ UNCHANGED botched
       \/ UNCHANGED dacl /\ botched' = botched \cup {s}
    /\ UNCHANGED <<win, at, saved, sd, merged, profiles, job, proc, tmp, failing, mixed>>

DeleteContainer(s) ==
    /\ Goto(s, "undo", "rmtmp") /\ undone[s] = Len(saved[s])
    /\ \/ profiles' = profiles \ {Name(s)} /\ UNCHANGED botched
       \/ UNCHANGED profiles /\ botched' = botched \cup {s}
    /\ UNCHANGED <<win, paths, job, proc, tmp, failing, mixed>>

(* The directory goes, and with the handle its job.                        *)
RemoveTmp(s) ==
    /\ Goto(s, "rmtmp", IF s \in failing THEN "err" ELSE "done")
    /\ RemoveScratch(s) /\ CloseJob(s)
    /\ UNCHANGED <<win, paths, profiles, failing, mixed>>

(* The launching process is killed: the system closes its job.             *)
Crash(s) ==
    /\ at[s] \notin {"err", "done", "crashed"}
    /\ at' = [at EXCEPT ![s] = "crashed"]
    /\ CloseJob(s)
    /\ UNCHANGED <<win, paths, profiles, tmp, marks>>

WinStep(s) ==
    \/ MakeScratch(s) \/ CreateJobObject(s) \/ DuplicateStdio(s) \/ CreateContainer(s)
    \/ DeleteStale(s) \/ EarlyFailure(s) \/ SaveDacl(s) \/ MergeEntry(s) \/ ApplyEntry(s)
    \/ AddAttributes(s) \/ CreateProcess(s) \/ LateFailure(s) \/ ProcessExits(s)
    \/ EndHandle(s) \/ RestoreDacl(s) \/ DeleteContainer(s) \/ RemoveTmp(s) \/ Crash(s)

WinNext == \E s \in Sandboxes : WinStep(s)

-----------------------------------------------------------------------------
(* No path is granted after itself or after a directory above it, so that  *)
(* no list that is saved has the container's entry already.                *)
Unreached(s) ==
    \A i, j \in DOMAIN Grants(s) : i < j => ~Reaches(Grants(s)[i].path, Grants(s)[j].path)
Unshared(s) == s \notin mixed /\ \A t \in Sandboxes \ {s} : Name(t) # Name(s)
EntriesOf(s, p) == {a \in ListOf(p).aces : a.sid = Name(s)}

(* What the profile names for a path: the strongest of its lists.          *)
AccessOf(s, p) ==
    LET wanted == {g.access : g \in {h \in Range(Grants(s)) : h.path = p}}
    IN  IF wanted = {} THEN {}
        ELSE {[sid |-> Name(s), access |-> IF "rw" \in wanted THEN "rw" ELSE "r"]}

(* A process that launch() has started has on each path the access its     *)
(* profile names for it, and no other than that and what the profile names *)
(* for a directory above.  A launch that failed at any step, or a handle   *)
(* that ended, leaves no entry of its container on any path, its own or    *)
(* inherited, no profile, directory or process: if every call of the       *)
(* undoing succeeded, no other sandbox had the name, or one of the paths   *)
(* or a directory above, at the same time, and no path was granted after   *)
(* itself or after a directory above it.  Of such a path the list that     *)
(* save_dacl returned has the container's entry, and restore_dacl writes   *)
(* it back: a write path below a read path keeps it.                       *)
GrantsExact ==
    \A s \in Sandboxes :
        /\ at[s] = "ok" /\ Unshared(s) => \A p \in Paths :
              /\ AccessOf(s, p) \subseteq EntriesOf(s, p)
              /\ \A a \in EntriesOf(s, p) : \E d \in Paths : Reaches(d, p) /\ a \in AccessOf(s, d)
        /\ at[s] \in {"err", "done"} =>
              /\ proc[s] # "runs" /\ job[s] # "open"
              /\ s \notin botched => s \notin tmp
              /\ Unshared(s) /\ Unreached(s) /\ s \notin botched =>
                    Name(s) \notin profiles /\ \A p \in Paths : EntriesOf(s, p) = {}

(* "filesystem permissions granted to the AppContainer SID are restored to *)
(* their original state during cleanup, even on error paths": of a sandbox *)
(* that is alone, and whose every call succeeds.                           *)
PermissionsRestored ==
    \A s \in Sandboxes : at[s] \in {"err", "done"} /\ Unshared(s) /\ s \notin botched =>
        \A p \in Paths : EntriesOf(s, p) = {}
=============================================================================
