----------------------------- MODULE ImageCache -----------------------------
(***************************************************************************)
(* The image cache (images/cache.rs), the Fedora and CentOS providers that *)
(* fill it (images/fedora.rs, images/centos.rs, images/download.rs), the   *)
(* sidecars (images/metadata.rs) and the setup layers (images/setup.rs),   *)
(* used by several commands of one user at the same time: image pull, with *)
(* and without --check and --force, image rm, image setup and vm run.      *)
(* Nothing in this code takes a lock: what protects the cache is the order *)
(* of its file operations.                                                 *)
(*                                                                         *)
(* One distribution is cached, with one setup layer.  A file is an inode,  *)
(* named by the directory or held open by a command; an image is Size      *)
(* blocks of one build, and its SHA256 is the sequence of its blocks.      *)
(***************************************************************************)
EXTENDS Naturals, Sequences, FiniteSets, FiniteSetsExt

CONSTANTS
    None,
    Commands,
    Inodes,     \* numbers of inodes: enough for the files in use
    Size,       \* blocks of an image
    Tables,     \* the partition table of each build, see TableShapes
    Configs     \* records, see ConfigShapes

ConfigShapes ==
    [does : [Commands -> {"pull", "check", "force", "rm", "setup", "run", "none"}],
     cache : {"cold", "warm", "layered"},
     faults : SUBSET {"net", "nosum", "mirror", "crash", "setup", "passt", "guest",
                      "disk", "probe", "wait"},
     distro : {"fedora", "centos"}, net : BOOLEAN]

(* The partitions of an image: the type of each, its size, and whether it  *)
(* really holds the root file system.                                      *)
TableShapes ==
    Seq([type : {"root", "linux", "other"}, size : Nat, isRoot : BOOLEAN])

ASSUME ImageConfigs ==
    Configs \subseteq ConfigShapes /\ Size \in Nat \ {0} /\ Tables \in Seq(TableShapes)

VARIABLES
    cfg,
    mirror,     \* the build the mirror serves
    dir,        \* the images directory: the inode of each name
    data,       \* the contents of each inode
    fd,         \* what each command holds open
    pc,
    loc,        \* local variables of each command
    ghost       \* history: see Note

cacheVars == <<cfg, mirror, dir, data, fd, pc, loc, ghost>>

Names == {"partial", "tmp", "image", "meta", "ltmp", "layer", "lmeta"}
Slots == {"out", "src", "disk", "base"}

(* Without a temporary file.                                               *)
InPlace(to) == to

(* {name}.qcow2.tmp, {name}.qcow2 and its sidecar, for the image and for a *)
(* setup layer.                                                            *)
Tmp(to) == IF to = "image" THEN "tmp" ELSE "ltmp"
Sidecar(to) == IF to = "image" THEN "meta" ELSE "lmeta"

(* The contents of a file: the blocks of an image, or the fields of a      *)
(* sidecar, whose sha is empty while the file has been truncated and not   *)
(* yet written.                                                            *)
Blank == [blocks |-> <<>>, sha |-> <<>>, base |-> <<>>, layout |-> 0]
Filled(b) == [i \in 1..Size |-> b]

(* load_sidecar: a sidecar that is missing or torn cannot be read.         *)
ReadSidecar(n) == IF dir[n] = None THEN Blank ELSE data[dir[n]]
Readable(n) == ReadSidecar(n).sha # <<>>

Does(c) == cfg.does[c]
Fault(f) == f \in cfg.faults
Over == {"idle", "done", "fail", "exit", "killed"}
Active(c) == pc[c] \notin Over

(* Inodes that a name or a command still refers to; the contents of the    *)
(* others are gone.                                                        *)
Held(d, f) == {d[n] : n \in Names} \cup {f[c][s] : c \in Commands, s \in Slots}
Swept(d, f, x) == [i \in Inodes |-> IF i \in Held(d, f) THEN x[i] ELSE Blank]

(* File::create: an existing file is truncated, not replaced.              *)
Create(c, n, slot) ==
    LET i == IF dir[n] # None THEN dir[n] ELSE Min(Inodes \ Held(dir, fd))
    IN  /\ dir' = [dir EXCEPT ![n] = i]
        /\ fd' = [fd EXCEPT ![c][slot] = i]
        /\ data' = Swept(dir', fd', [data EXCEPT ![i] = Blank])

Unlink(n) ==
    /\ dir' = [dir EXCEPT ![n] = None]
    /\ data' = Swept(dir', fd, data)
    /\ UNCHANGED fd

Files == <<dir, data, fd>>

(* b at position k, with a hole of zeroes below when the file is shorter.  *)
PutAt(s, k, b) ==
    [i \in 1..(IF Len(s) > k THEN Len(s) ELSE k) |->
        IF i = k THEN b ELSE IF i <= Len(s) THEN s[i] ELSE 0]

(* Between the rename and the end of the sidecar's write.                  *)
Halfway(c) == pc[c] \in {"truncate", "sidecar"}

(* Between opening a temporary file of the cache and that.                 *)
Storing(c) ==
    Halfway(c) \/ pc[c] \in {"fetch", "sum", "probe", "copy", "copying", "rename"}

Goto(c, p) == pc' = [pc EXCEPT ![c] = p]
Local == [build |-> 0, off |-> 0, sha |-> <<>>, base |-> <<>>, layout |-> 0,
          to |-> "image", err |-> FALSE, again |-> FALSE, firstLayout |-> 0]

(* Where a store returns to: the provider's closure, or image_setup.       *)
Back(c) == IF loc[c].to = "image" THEN "drop" ELSE "cleanup"

-----------------------------------------------------------------------------
(* resolve()                                                               *)

Begin(c) ==
    /\ pc[c] = "idle" /\ Does(c) # "none"
    /\ Goto(c, CASE Does(c) = "rm" -> "rm" [] Does(c) = "run" -> "tmpdir"
                 [] OTHER -> "look")
    /\ ghost' = [ghost EXCEPT !.alone =
                    {d \in @ : ~Active(d)} \cup
                    {d \in {c} : \A e \in Commands : ~Active(e)}]
    /\ UNCHANGED <<cfg, mirror, loc, Files>>

(* The lookup finds a file by name, or not; --force does not look.         *)
Look(c) ==
    /\ pc[c] = "look"
    /\ Goto(c, IF Does(c) = "force" \/ dir["image"] = None THEN "get" ELSE "side")
    /\ UNCHANGED <<cfg, mirror, loc, ghost, Files>>

(* The sidecar is read in a second step; without one the lookup is an      *)
(* error, not a miss.                                                      *)
LoadSidecar(c) ==
    LET m == ReadSidecar("meta")
    IN  /\ pc[c] = "side"
        /\ IF Readable("meta")
           THEN /\ Goto(c, IF Does(c) = "check" THEN "fresh" ELSE "have")
                /\ loc' = [loc EXCEPT ![c].sha = m.sha, ![c].layout = m.layout]
           ELSE Goto(c, "lost") /\ UNCHANGED loc
        /\ UNCHANGED <<cfg, mirror, ghost, Files>>

(* The digest in the mirror's checksum file, fetched now.                  *)
RemoteSha == Filled(mirror)

(* check_freshness: an error counts as fresh.                              *)
CheckFreshness(c) ==
    /\ pc[c] = "fresh"
    /\ \/ Goto(c, IF loc[c].sha = RemoteSha THEN "have" ELSE "get")
       \/ Fault("net") /\ Goto(c, "have")
    /\ UNCHANGED <<cfg, mirror, loc, ghost, Files>>

(* Fedora's directory listing fails: nothing has been created yet.         *)
DiscoverFails(c) ==
    /\ pc[c] = "get" /\ Fault("net") /\ cfg.distro = "fedora"
    /\ Goto(c, "lost")
    /\ UNCHANGED <<cfg, mirror, loc, ghost, Files>>

(* A download that resumes what an earlier one left.                       *)
GetResumes(c) ==
    /\ pc[c] = "get"
    /\ IF dir["partial"] = None
       THEN Create(c, "partial", "out")
       ELSE fd' = [fd EXCEPT ![c].out = dir["partial"]] /\ UNCHANGED <<dir, data>>
    /\ loc' = [loc EXCEPT ![c].build = mirror, ![c].to = "image",
                          ![c].off = Len(data'[fd'[c].out].blocks)]
    /\ Goto(c, "fetch")
    /\ UNCHANGED <<cfg, mirror, ghost>>

(* GET answers with one build; .partial is opened and truncated.           *)
Get(c) ==
    /\ pc[c] = "get"
    /\ Create(c, "partial", "out")
    /\ loc' = [loc EXCEPT ![c].build = mirror, ![c].off = 0, ![c].to = "image"]
    /\ Goto(c, "fetch")
    /\ ghost' = [ghost EXCEPT !.overlap = @ \/ \E d \in Commands \ {c} :
                    Storing(d) /\ loc[d].to = "image"]
    /\ UNCHANGED <<cfg, mirror>>

(* One read and one write at the writer's own position.  The digest is of  *)
(* what was received, not of what the file holds.                          *)
Fetch(c) ==
    /\ pc[c] = "fetch"
    /\ LET k == loc[c].off + 1
           i == fd[c].out
       IN  IF k <= Size
           THEN /\ data' = [data EXCEPT ![i].blocks = PutAt(@, k, loc[c].build)]
                /\ loc' = [loc EXCEPT ![c].off = k]
                /\ UNCHANGED <<fd, pc>>
           ELSE /\ fd' = [fd EXCEPT ![c].out = None]
                /\ data' = Swept(dir, fd', data)
                /\ loc' = [loc EXCEPT ![c].sha = Filled(loc[c].build), ![c].off = 0]
                /\ Goto(c, "sum")
    /\ UNCHANGED <<cfg, mirror, dir, ghost>>

(* The request fails, before .partial is opened, or the download breaks    *)
(* off.                                                                    *)
FetchFails(c) ==
    /\ pc[c] \in {"get", "fetch"} /\ Fault("net")
    /\ fd' = [fd EXCEPT ![c].out = None]
    /\ data' = Swept(dir, fd', data)
    /\ loc' = [loc EXCEPT ![c].err = TRUE]
    /\ Goto(c, "drop")
    /\ UNCHANGED <<cfg, mirror, dir, ghost>>

(* The mirror's checksum file, which may be of a newer build by now; one   *)
(* that cannot be fetched, or has no entry, is only worth a warning.       *)
Checksum(c) ==
    /\ pc[c] = "sum"
    /\ \/ Goto(c, "probe") /\ Fault("nosum") /\ UNCHANGED loc
       \/ /\ loc[c].sha = RemoteSha
          /\ Goto(c, "probe") /\ UNCHANGED loc
       \/ /\ loc[c].sha # RemoteSha
          /\ Goto(c, "drop")
          /\ loc' = [loc EXCEPT ![c].err = TRUE]
    /\ UNCHANGED <<cfg, mirror, ghost, Files>>

(* find_root_partition: the first partition with the root type, or else    *)
(* the first of the largest Linux partitions; 0 is an error.               *)
RootPartition(table) ==
    LET Of(type) == {p \in DOMAIN table : table[p].type = type}
        Largest == {p \in Of("linux") : \A q \in Of("linux") : table[q].size <= table[p].size}
    IN  CASE Of("root") # {} -> Min(Of("root"))
          [] Of("root") = {} /\ Largest # {} -> Min(Largest)
          [] OTHER -> 0

(* probe_image reads the partition table and the superblock of .partial;   *)
(* when it fails, on a complete image too (no qemu-nbd, no socket within   *)
(* 5 seconds, an NBD error), the provider's default layout, 0, is used.    *)
Layout(blocks) ==
    IF blocks # <<>> /\ blocks = Filled(blocks[1])
    THEN RootPartition(Tables[blocks[1]]) ELSE 0

Probe(c) ==
    LET i == dir["partial"]
    IN  /\ pc[c] = "probe"
        /\ \/ loc' = [loc EXCEPT ![c].layout =
                         IF i = None THEN 0 ELSE Layout(data[i].blocks)]
           \/ Fault("probe") /\ loc' = [loc EXCEPT ![c].layout = 0]
        /\ Goto(c, "copy")
        /\ UNCHANGED <<cfg, mirror, ghost, Files>>

-----------------------------------------------------------------------------
(* cache::store: copy to .tmp, rename, write the sidecar                   *)

Source(c) == IF loc[c].to = "image" THEN dir["partial"] ELSE fd[c].disk

CopyOpen(c) ==
    /\ pc[c] = "copy"
    /\ IF Source(c) = None
       THEN /\ Goto(c, Back(c))
            /\ loc' = [loc EXCEPT ![c].err = TRUE]
            /\ UNCHANGED <<ghost, Files>>
       ELSE LET n == Tmp(loc[c].to)
                i == IF dir[n] # None THEN dir[n] ELSE Min(Inodes \ Held(dir, fd))
            IN  /\ dir' = [dir EXCEPT ![n] = i]
                /\ fd' = [fd EXCEPT ![c].src = Source(c), ![c].out = i]
                /\ data' = [data EXCEPT ![i] = Blank]
                /\ Goto(c, "copying")
                /\ loc' = [loc EXCEPT ![c].off = 0]
                /\ ghost' = [ghost EXCEPT !.overlap = @ \/ \E d \in Commands \ {c} :
                                Storing(d) /\ loc[d].to = loc[c].to]
    /\ UNCHANGED <<cfg, mirror>>

Copy(c) ==
    LET k == loc[c].off + 1
        s == data[fd[c].src].blocks
    IN  /\ pc[c] = "copying"
        /\ IF k <= Len(s)
           THEN /\ data' = [data EXCEPT ![fd[c].out].blocks = PutAt(@, k, s[k])]
                /\ loc' = [loc EXCEPT ![c].off = k]
                /\ UNCHANGED <<fd, pc>>
           ELSE /\ fd' = [fd EXCEPT ![c].src = None, ![c].out = None]
                /\ data' = Swept(dir, fd', data)
                /\ loc' = [loc EXCEPT ![c].off = 0]
                /\ Goto(c, "rename")
        /\ UNCHANGED <<cfg, mirror, dir, ghost>>

(* Whatever .tmp names by now becomes the cached file.                     *)
Rename(c) ==
    LET to == loc[c].to
    IN  /\ pc[c] = "rename"
        /\ IF dir[Tmp(to)] = None
           THEN /\ Goto(c, Back(c))
                /\ loc' = [loc EXCEPT ![c].err = TRUE]
                /\ UNCHANGED <<ghost, Files>>
           ELSE /\ dir' = [dir EXCEPT ![to] = dir[Tmp(to)], ![Tmp(to)] = None]
                /\ data' = Swept(dir', fd, data)
                /\ Goto(c, "truncate")
                /\ ghost' = [ghost EXCEPT !.left = @ \ {Tmp(to)}]
                /\ UNCHANGED <<fd, loc>>
        /\ UNCHANGED <<cfg, mirror>>

(* save_sidecar: fs::write truncates, then writes.                         *)
SidecarOpen(c) ==
    /\ pc[c] = "truncate"
    /\ Create(c, Sidecar(loc[c].to), "out")
    /\ Goto(c, "sidecar")
    /\ UNCHANGED <<cfg, mirror, loc, ghost>>

SidecarWrite(c) ==
    LET l == loc[c]
        m == IF l.to = "image"
             THEN [Blank EXCEPT !.sha = l.sha, !.layout = l.layout]
             ELSE [Blank EXCEPT !.sha = l.sha, !.base = l.base,
                                !.layout = l.firstLayout]
    IN  /\ pc[c] = "sidecar"
        /\ fd' = [fd EXCEPT ![c].out = None]
        /\ data' = Swept(dir, fd', [data EXCEPT ![fd[c].out] = m])
        /\ Goto(c, IF l.to = "image" THEN "clean" ELSE "cleanup")
        /\ UNCHANGED <<cfg, mirror, dir, loc, ghost>>

(* A file cannot be opened, written or renamed (a full disk): store()      *)
(* returns the error from where it is.  What it has written stays, a part  *)
(* of .tmp or a torn sidecar beside the new image: no error path takes it  *)
(* back.                                                                   *)
StoreFails(c) ==
    /\ pc[c] \in {"copy", "copying", "rename", "truncate", "sidecar"} /\ Fault("disk")
    /\ fd' = [fd EXCEPT ![c].src = None, ![c].out = None]
    /\ data' = Swept(dir, fd', data)
    /\ loc' = [loc EXCEPT ![c].err = TRUE, ![c].off = 0]
    /\ Goto(c, Back(c))
    /\ ghost' = [ghost EXCEPT !.cut = @ \/ Halfway(c),
                     !.left = @ \cup {n \in {Tmp(loc[c].to)} : pc[c] \in {"copying", "rename"}}]
    /\ UNCHANGED <<cfg, mirror, dir>>

(* cache::list leaves out an image whose sidecar cannot be read.           *)
Listed(to) == dir[to] # None /\ Readable(Sidecar(to))

(* clean_orphaned: a layer whose sidecar names another base is removed.    *)
CleanOrphaned(c) ==
    /\ pc[c] = "clean"
    /\ Goto(c, IF Listed("layer") /\ ReadSidecar("lmeta").base # loc[c].sha
               THEN "unlayer" ELSE "drop")
    /\ UNCHANGED <<cfg, mirror, loc, ghost, Files>>

(* cache::remove of the layer: the image first, then its sidecar, which is *)
(* left alone when the image has gone by now.                              *)
RemoveLayer(c) ==
    /\ pc[c] = "unlayer"
    /\ IF dir["layer"] = None
       THEN Goto(c, "drop") /\ UNCHANGED Files
       ELSE Unlink("layer") /\ Goto(c, "unlmeta")
    /\ UNCHANGED <<cfg, mirror, loc, ghost>>

RemoveLayerSidecar(c) ==
    /\ pc[c] = "unlmeta"
    /\ Unlink("lmeta")
    /\ Goto(c, "drop")
    /\ UNCHANGED <<cfg, mirror, loc, ghost>>

(* The closure has returned: .partial is removed in either case.           *)
DropPartial(c) ==
    /\ pc[c] = "drop"
    /\ Unlink("partial")
    /\ Goto(c, IF loc[c].err THEN "lost" ELSE "have")
    /\ loc' = [loc EXCEPT ![c].build = 0]
    /\ UNCHANGED <<cfg, mirror, ghost>>

(* image_pull prints the path, or the error and exits with 1.              *)
PullEnds(c) ==
    /\ Does(c) \in {"pull", "check", "force"}
    /\ \/ pc[c] = "have" /\ Goto(c, "done")
       \/ pc[c] = "lost" /\ Goto(c, "fail")
    /\ loc' = [loc EXCEPT ![c] = Local]
    /\ UNCHANGED <<cfg, mirror, ghost, Files>>

-----------------------------------------------------------------------------
(* image rm                                                                *)

Remove(c) ==
    /\ pc[c] = "rm"
    /\ IF dir["image"] = None
       THEN Goto(c, "fail") /\ UNCHANGED Files
       ELSE Unlink("image") /\ Goto(c, "rmmeta")
    /\ UNCHANGED <<cfg, mirror, loc, ghost>>

RemoveSidecar(c) ==
    /\ pc[c] = "rmmeta"
    /\ Unlink("meta")
    /\ Goto(c, "done")
    /\ UNCHANGED <<cfg, mirror, loc, ghost>>

-----------------------------------------------------------------------------
(* setup::lookup: cache::lookup of the layer, then the comparison of the   *)
(* base it was built on with the base that was resolved.                   *)
SetupLook(c) ==
    /\ Does(c) = "setup" /\ ~loc[c].again
    /\ pc[c] = "have"
    /\ Goto(c, IF dir["layer"] = None THEN "tmpdir" ELSE "lside")
    /\ loc' = [loc EXCEPT ![c].base = loc[c].sha, ![c].again = TRUE,
                           ![c].firstLayout = loc[c].layout]
    /\ UNCHANGED <<cfg, mirror, ghost, Files>>

SetupCompare(c) ==
    LET same == ReadSidecar("lmeta").base = loc[c].base
    IN  /\ pc[c] = "lside"
        /\ \/ /\ Readable("lmeta") /\ ~same
              /\ Goto(c, "tmpdir") /\ UNCHANGED loc
           \/ /\ Readable("lmeta") => same
              /\ Goto(c, IF Readable("lmeta") THEN "done" ELSE "fail")
              /\ loc' = [loc EXCEPT ![c] = Local]
        /\ UNCHANGED <<cfg, mirror, ghost, Files>>

-----------------------------------------------------------------------------
(* The mirror publishes the next build.                                    *)
Publish ==
    /\ Fault("mirror") /\ mirror = 1
    /\ mirror' = 2
    /\ UNCHANGED <<cfg, dir, data, fd, pc, loc, ghost>>

ImageInit ==
    /\ cfg \in Configs
    /\ mirror = 1
    /\ dir = [n \in Names |->
                CASE n = "image" /\ cfg.cache # "cold" -> 1
                  [] n = "meta" /\ cfg.cache # "cold" -> 2
                  [] n = "layer" /\ cfg.cache = "layered" -> 3
                  [] n = "lmeta" /\ cfg.cache = "layered" -> 4
                  [] OTHER -> None]
    /\ fd = [c \in Commands |-> [s \in Slots |-> None]]
    /\ data = Swept(dir, fd, [i \in Inodes |->
                CASE i = 1 -> [Blank EXCEPT !.blocks = Filled(1)]
                  [] i = 2 -> [Blank EXCEPT !.sha = Filled(1), !.layout = Layout(Filled(1))]
                  [] i = 3 -> [Blank EXCEPT !.blocks = Filled(11)]
                  [] i = 4 -> [Blank EXCEPT !.sha = Filled(11), !.base = Filled(1),
                                            !.layout = Layout(Filled(1))]
                  [] OTHER -> Blank])
    /\ pc = [c \in Commands |-> "idle"]
    /\ loc = [c \in Commands |-> Local]
    /\ ghost = [overlap |-> FALSE, cut |-> FALSE, unarmed |-> FALSE, alone |-> {},
                left |-> {}]

Resolve(c) ==
    \/ Begin(c) \/ Look(c) \/ LoadSidecar(c) \/ CheckFreshness(c)
    \/ DiscoverFails(c) \/ Get(c) \/ Fetch(c) \/ FetchFails(c) \/ Checksum(c)
    \/ Probe(c) \/ CopyOpen(c) \/ Copy(c) \/ Rename(c)
    \/ SidecarOpen(c) \/ SidecarWrite(c) \/ StoreFails(c) \/ CleanOrphaned(c)
    \/ RemoveLayer(c) \/ RemoveLayerSidecar(c) \/ DropPartial(c)

ImageStep(c) ==
    \/ Resolve(c) \/ PullEnds(c) \/ Remove(c) \/ RemoveSidecar(c)
    \/ SetupLook(c) \/ SetupCompare(c)
=============================================================================
