---------------------------- MODULE LibraryIndex ----------------------------
(***************************************************************************)
(* The library index of the TUI: the per-file cache on disk, the worker    *)
(* that scans the music directory or rereads the files it has retagged,    *)
(* the detached threads that fill in acoustic ids, and the library the App *)
(* shows.  Worker and threads share the cache file; the worker reads it    *)
(* without the lock that guards the writes.                                *)
(*                                                                         *)
(* A file is [v, kind]: v changes with every edit and stands for mtime and *)
(* size, the tags, and the audio; kind says whether the id is embedded in  *)
(* the tags, must be computed from the audio, or cannot be had.  The id of *)
(* a file is its v.                                                        *)
(***************************************************************************)
EXTENDS Integers, Sequences, FiniteSets

CONSTANTS Files,      \* paths under the music directory
          Kinds,      \* the kinds of files there are
          MaxLoads,   \* bound: LoadLibrary commands, over all restarts
          MaxUpsets   \* bound: edits of others, retaggings, ends of the process

ASSUME LibraryAssumption ==
    /\ Kinds \subseteq {"tagged", "plain", "mute"} /\ Kinds # {}
    /\ MaxLoads \in Nat /\ MaxUpsets \in Nat

VARIABLES disk,    \* path -> the file there
          stored,  \* path -> entry of the cache file
          w,       \* the worker
          bf,      \* generation -> its backfill thread
          gen,     \* ACOUSTIC_GEN
          epoch,   \* ACOUSTIC_EPOCH
          events,  \* the channel to the App
          lib,     \* the App's library: path -> track
          last,    \* the last version given out
          used     \* how often each bounded thing was done

vars == <<disk, stored, w, bf, gen, epoch, events, lib, last, used>>

NoFile == [v |-> 0, kind |-> "none"]
NoEntry == [stamp |-> 0, meta |-> 0, id |-> 0, failed |-> FALSE]
NoTrack == [there |-> FALSE, meta |-> 0, id |-> 0]
None == 0
NoLib == [f \in Files |-> NoTrack]

Embedded(file) == IF file.kind = "tagged" THEN file.v ELSE None
Computed(file) == IF file.kind = "mute" THEN None ELSE file.v

Idle == [pc |-> "idle", since |-> 0, cached |-> [f \in Files |-> NoEntry],
         work |-> [f \in Files |-> NoEntry], paths |-> {}, todo |-> {},
         at |-> NoEntry, dirty |-> FALSE]
NoThread == [pc |-> "none", pending |-> {}, hits |-> {}, misses |-> {}, out |-> {}]

Init ==
    /\ disk \in [Files -> {[v |-> 1, kind |-> k] : k \in Kinds}]
    /\ stored = [f \in Files |-> NoEntry]
    /\ w = Idle
    /\ bf = [g \in 1..MaxLoads |-> NoThread]
    /\ gen = 0
    /\ epoch = 0
    /\ events = <<>>
    /\ lib = NoLib
    /\ last = 1
    /\ used = [edits |-> 0, loads |-> 0, rereads |-> 0, quits |-> 0]

(* dirlib_write_lock                                                       *)
Unlocked == \A g \in 1..MaxLoads : bf[g].pc \notin {"locked", "written"}

Count(what) == used' = [used EXCEPT ![what] = @ + 1]
Upset(what) ==
    /\ used.edits + used.rereads + used.quits < MaxUpsets
    /\ Count(what)

(***************************************************************************)
(* The files change under the program; and the program may end at any      *)
(* moment, with every thread and every static of its own.                  *)
(***************************************************************************)
Edit(f) ==
    /\ Upset("edits")
    /\ \E k \in Kinds \cup {"none"} :
          /\ disk' = [disk EXCEPT ![f] = IF k = "none" THEN NoFile
                                         ELSE [v |-> last + 1, kind |-> k]]
          /\ disk' # disk
    /\ last' = last + 1
    /\ UNCHANGED <<stored, w, bf, gen, epoch, events, lib>>

Quit ==
    /\ Upset("quits")
    /\ w' = Idle
    /\ bf' = [g \in 1..MaxLoads |-> NoThread]
    /\ gen' = 0
    /\ epoch' = 0
    /\ events' = <<>>
    /\ lib' = NoLib
    /\ UNCHANGED <<disk, stored, last>>

(***************************************************************************)
(* LoadLibrary: the worker's scan, without fingerprints.                   *)
(***************************************************************************)
(* The generation is raised and the epoch sampled; then the cache is read, *)
(* without the lock: the rename makes it a whole file, though maybe not    *)
(* the newest; then the directories are walked.                            *)
LoadLibrary ==
    /\ w.pc = "idle"
    /\ used.loads < MaxLoads
    /\ gen' = gen + 1
    /\ w' = [w EXCEPT !.pc = "load", !.since = epoch]
    /\ Count("loads")
    /\ UNCHANGED <<disk, stored, bf, epoch, events, lib, last>>

LoadCache ==
    /\ w.pc = "load"
    /\ LET there == {f \in Files : disk[f] # NoFile}
       IN w' = [w EXCEPT !.pc = "scan", !.cached = stored, !.work = stored,
                         !.paths = there, !.todo = there]
    /\ UNCHANGED <<disk, stored, bf, gen, epoch, events, lib, last, used>>

(* One file: stat; the cached entry is kept when the stamp is the same.    *)
StatFile(f) ==
    /\ w.pc = "scan"
    /\ f \in w.todo
    /\ w' = IF disk[f] = NoFile \/ w.cached[f].stamp = disk[f].v
            THEN [w EXCEPT !.todo = @ \ {f}]
            ELSE [w EXCEPT !.pc = "parse", !.at = [f |-> f, stamp |-> disk[f].v]]
    /\ UNCHANGED <<disk, stored, bf, gen, epoch, events, lib, last, used>>

Parsed_Now(stamp, file) ==
    [stamp |-> file.v, meta |-> stamp, id |-> Embedded(file), failed |-> FALSE]

(* build_track reads the tags of whatever is there by now: track_from_path *)
(* stands in for a file that is gone.                                      *)
Parsed(stamp, file) ==
    [stamp |-> stamp, meta |-> file.v, id |-> Embedded(file), failed |-> FALSE]

ParseFile ==
    /\ w.pc = "parse"
    /\ LET f == w.at.f
       IN w' = [w EXCEPT !.pc = "scan", !.todo = @ \ {f}, !.dirty = TRUE, !.at = NoEntry,
                         !.work[f] = Parsed(w.at.stamp, disk[f])]
    /\ UNCHANGED <<disk, stored, bf, gen, epoch, events, lib, last, used>>

Finished_Unmerged(files) == files

(* merge_disk_acoustic_ids: what a backfill has stored since the scan read *)
(* the cache goes onto the entries with the same stamp.                    *)
Merged(files) ==
    [f \in Files |->
        IF files[f].id = None /\ stored[f] # NoEntry /\ files[f].stamp = stored[f].stamp
        THEN [files[f] EXCEPT !.id = stored[f].id,
                              !.failed = IF stored[f].id # None THEN FALSE
                                         ELSE @ \/ stored[f].failed]
        ELSE files[f]]

Finished(files) == IF epoch # w.since THEN Merged(files) ELSE files

(* A checkpoint in the middle of a scan keeps the files not yet reached.   *)
Checkpoint ==
    /\ w.pc = "scan"
    /\ w.dirty
    /\ Unlocked
    /\ stored' = Finished(w.work)
    /\ w' = [w EXCEPT !.dirty = FALSE]
    /\ UNCHANGED <<disk, bf, gen, epoch, events, lib, last, used>>

Kept(files) == [f \in Files |-> IF f \in w.paths THEN files[f] ELSE NoEntry]

FinishScan ==
    /\ w.pc = "scan"
    /\ w.todo = {}
    /\ Unlocked
    /\ LET pruned == Kept(w.work) # w.work
           final == Finished(Kept(w.work))
       IN /\ stored' = IF w.dirty \/ pruned THEN final ELSE stored
          /\ w' = [Idle EXCEPT !.pc = "loaded", !.work = final]
    /\ UNCHANGED <<disk, bf, gen, epoch, events, lib, last, used>>

Tracks(files) ==
    [f \in Files |-> [there |-> files[f] # NoEntry, meta |-> files[f].meta, id |-> files[f].id]]

(* LibraryLoaded goes out, and the backfill of this generation starts.     *)
Loaded ==
    /\ w.pc = "loaded"
    /\ events' = Append(events, [kind |-> "library", lib |-> Tracks(w.work)])
    /\ bf' = [bf EXCEPT ![gen] = [NoThread EXCEPT !.pc = "start"]]
    /\ w' = Idle
    /\ UNCHANGED <<disk, stored, gen, epoch, lib, last, used>>

(***************************************************************************)
(* ApplyTagDiff: the worker has written the tags of src and renamed it to  *)
(* dst; it rereads both from a copy of the cache and writes that back.     *)
(***************************************************************************)
ApplyTags(src, dst) ==
    /\ w.pc = "idle"
    /\ Upset("rereads")
    /\ disk[src] # NoFile
    /\ dst = src \/ disk[dst] = NoFile
    /\ disk' = [disk EXCEPT ![src] = NoFile, ![dst] = [v |-> last + 1, kind |-> disk[src].kind]]
    /\ last' = last + 1
    /\ w' = [w EXCEPT !.pc = "copy", !.todo = {src, dst}]
    /\ UNCHANGED <<stored, bf, gen, epoch, events, lib>>

CopyCache ==
    /\ w.pc = "copy"
    /\ w' = [w EXCEPT !.pc = "reread", !.work = stored]
    /\ UNCHANGED <<disk, stored, bf, gen, epoch, events, lib, last, used>>

Reread(f) ==
    /\ w.pc = "reread"
    /\ f \in w.todo
    /\ LET id == Computed(disk[f])
       IN w' = [w EXCEPT !.todo = @ \ {f},
                         !.work[f] = IF disk[f] = NoFile THEN NoEntry
                                     ELSE [stamp |-> disk[f].v, meta |-> disk[f].v,
                                           id |-> id, failed |-> id = None]]
    /\ UNCHANGED <<disk, stored, bf, gen, epoch, events, lib, last, used>>

SaveReread ==
    /\ w.pc = "reread"
    /\ w.todo = {}
    /\ Unlocked
    /\ stored' = w.work
    /\ w' = [w EXCEPT !.pc = "reread_done"]
    /\ UNCHANGED <<disk, bf, gen, epoch, events, lib, last, used>>

RereadComplete ==
    /\ w.pc = "reread_done"
    /\ events' = Append(events, [kind |-> "library", lib |-> Tracks(w.work)])
    /\ w' = Idle
    /\ UNCHANGED <<disk, stored, bf, gen, epoch, lib, last, used>>

Cancelled_Never(g) == FALSE

(***************************************************************************)
(* A backfill thread: reads the list of files without an id, then the tags *)
(* of all of them, then decodes the rest one by one.                       *)
(***************************************************************************)
Cancelled(g) == gen # g
Becomes(g, t) == bf' = [bf EXCEPT ![g] = t]

ListPending(g) ==
    /\ bf[g].pc = "start"
    /\ LET lack == {f \in Files : stored[f] # NoEntry /\ stored[f].id = None /\ ~stored[f].failed}
       IN IF Cancelled(g) \/ lack = {}
          THEN Becomes(g, NoThread)
          ELSE Becomes(g, [NoThread EXCEPT !.pc = "tags",
                              !.pending = {[f |-> f, stamp |-> stored[f].stamp] : f \in lack}])
    /\ UNCHANGED <<disk, stored, w, gen, epoch, events, lib, last, used>>

Hit(p, id) == [f |-> p.f, stamp |-> p.stamp, id |-> id]

ReadTags(g) ==
    /\ bf[g].pc = "tags"
    /\ Becomes(g, [bf[g] EXCEPT !.pc = "commit",
                      !.hits = {Hit(p, Embedded(disk[p.f])) :
                                   p \in {q \in bf[g].pending : Embedded(disk[q.f]) # None}}])
    /\ UNCHANGED <<disk, stored, w, gen, epoch, events, lib, last, used>>

Decode(g) ==
    /\ bf[g].pc = "decode"
    /\ IF Cancelled(g) \/ bf[g].pending = {}
       THEN Becomes(g, NoThread)
       ELSE \E p \in bf[g].pending :
               LET id == Computed(disk[p.f])
               IN Becomes(g, [bf[g] EXCEPT !.pc = "commit", !.pending = @ \ {p},
                                 !.hits = IF id = None THEN {} ELSE {Hit(p, id)},
                                 !.misses = IF id = None THEN {p} ELSE {}])
    /\ UNCHANGED <<disk, stored, w, gen, epoch, events, lib, last, used>>

Open_Any(p) == stored[p.f] # NoEntry /\ stored[p.f].id = None

(* commit_fingerprint_progress: what lands is for entries with the stamp   *)
(* the file had when it was listed.                                        *)
Open(p) == stored[p.f].stamp = p.stamp /\ stored[p.f].id = None
Landing(g) == {h \in bf[g].hits : Open(h)}
Missing(g) == {p \in bf[g].misses : Open(p) /\ ~stored[p.f].failed}

(* The lock is taken, and the generation looked at: LoadLibrary may raise  *)
(* it before the write that follows.                                       *)
Lock(g) ==
    /\ bf[g].pc = "commit"
    /\ Unlocked
    /\ Becomes(g, IF Cancelled(g) \/ bf[g].hits \cup bf[g].misses = {}
                  THEN [bf[g] EXCEPT !.pc = "decode", !.hits = {}, !.misses = {}]
                  ELSE [bf[g] EXCEPT !.pc = "locked"])
    /\ UNCHANGED <<disk, stored, w, gen, epoch, events, lib, last, used>>

Commit(g) ==
    /\ bf[g].pc = "locked"
    /\ LET in == Landing(g)
           out == Missing(g)
           IdFor(f) == (CHOOSE h \in in : h.f = f).id
       IN /\ stored' = [f \in Files |->
                 IF \E h \in in : h.f = f
                 THEN [stored[f] EXCEPT !.id = IdFor(f), !.failed = FALSE]
                 ELSE IF \E p \in out : p.f = f THEN [stored[f] EXCEPT !.failed = TRUE]
                 ELSE stored[f]]
          /\ Becomes(g, [bf[g] EXCEPT !.pc = IF in \cup out = {} THEN "decode" ELSE "written",
                            !.out = in, !.pending = {p \in @ : \A h \in in : h.f # p.f},
                            !.hits = {}, !.misses = {}])
    /\ UNCHANGED <<disk, w, gen, epoch, events, lib, last, used>>

(* The epoch is raised after the write, and the lock released.             *)
Unlock(g) ==
    /\ bf[g].pc = "written"
    /\ epoch' = epoch + 1
    /\ Becomes(g, [bf[g] EXCEPT !.pc = IF bf[g].out = {} THEN "decode" ELSE "send"])
    /\ UNCHANGED <<disk, stored, w, gen, events, lib, last, used>>

(* on_batch: AcousticIdsUpdated names tracks, not versions of them.        *)
SendIds(g) ==
    /\ bf[g].pc = "send"
    /\ events' = Append(events, [kind |-> "ids", ids |-> bf[g].out])
    /\ Becomes(g, [bf[g] EXCEPT !.pc = "decode", !.out = {}])
    /\ UNCHANGED <<disk, stored, w, gen, epoch, lib, last, used>>

(***************************************************************************)
(* The App takes its events in order.                                      *)
(***************************************************************************)
WithIds(ids) ==
    [f \in Files |->
        IF lib[f].there /\ lib[f].id = None /\ \E h \in ids : h.f = f
        THEN [lib[f] EXCEPT !.id = (CHOOSE h \in ids : h.f = f).id]
        ELSE lib[f]]

Handle ==
    /\ events # <<>>
    /\ lib' = IF Head(events).kind = "library" THEN Head(events).lib
              ELSE WithIds(Head(events).ids)
    /\ events' = Tail(events)
    /\ UNCHANGED <<disk, stored, w, bf, gen, epoch, last, used>>

WorkerStep ==
    \/ LoadCache \/ ParseFile \/ FinishScan \/ Loaded
    \/ CopyCache \/ SaveReread \/ RereadComplete
    \/ \E f \in Files : StatFile(f) \/ Reread(f)
Backfill(g) == ListPending(g) \/ ReadTags(g) \/ Decode(g) \/ Lock(g) \/ Commit(g) \/ Unlock(g)
               \/ SendIds(g)

Next ==
    \/ LoadLibrary \/ WorkerStep \/ Checkpoint
    \/ \E src, dst \in Files : ApplyTags(src, dst)
    \/ \E g \in 1..MaxLoads : Backfill(g)
    \/ Handle
    \/ Quit
    \/ \E f \in Files : Edit(f)

Spec == Init /\ [][Next]_vars
-----------------------------------------------------------------------------
Entry == [stamp : 0..last, meta : 0..last, id : 0..last, failed : BOOLEAN]

(* The cache and the library are of versions that exist; an entry with an  *)
(* id is never also marked as failed.                                      *)
TypeOK ==
    /\ stored \in [Files -> Entry]
    /\ lib \in [Files -> [there : BOOLEAN, meta : 0..last, id : 0..last]]
    /\ w.pc \in {"idle", "load", "scan", "parse", "loaded",
                 "copy", "reread", "reread_done"}
    /\ w.work \in [Files -> Entry]
    /\ \A g \in 1..MaxLoads : bf[g].pc \in {"none", "start", "tags", "decode", "commit", "locked", "written", "send"}
    /\ gen \in 0..MaxLoads /\ epoch \in Nat
    /\ \A f \in Files : stored[f].id # None => ~stored[f].failed

(* An entry whose stamp is that of the file on disk describes that file:   *)
(* its tags, its id if it has one, and a failure only if there is none.    *)
(* The next scan trusts such an entry without opening the file             *)
(* (dirlib.rs:199).                                                        *)
Describes(entry, file) ==
    /\ entry.meta = file.v
    /\ entry.id \in {None, Computed(file)}
    /\ entry.failed => Computed(file) = None
CacheTrue ==
    \A f \in Files : disk[f] # NoFile /\ stored[f].stamp = disk[f].v => Describes(stored[f], disk[f])

(* No write of a scan or of a backfill takes an id from an entry that      *)
(* still has the same stamp, and none but the last one of a scan drops an  *)
(* entry, for a file the walk did not find (dirlib.rs:167, cache.rs:349).  *)
Keeps(f) ==
    /\ stored[f].id # None /\ stored'[f].stamp = stored[f].stamp => stored'[f].id = stored[f].id
    /\ stored[f] # NoEntry /\ stored'[f] = NoEntry => w.pc = "scan" /\ w'.pc = "loaded" /\ f \notin w.paths
ScanKeepsIds == [][w'.pc = "reread_done" \/ (\A f \in Files : Keeps(f))]_vars

AtRest ==
    /\ w.pc = "idle" /\ events = <<>> /\ gen > 0
    /\ \A g \in 1..MaxLoads : bf[g].pc = "none"

(* When worker, threads and events have come to rest, the App has every id *)
(* the cache has for the file it shows, and an id is missing only of a     *)
(* file that has none, unless a reread ran against a backfill.             *)
Indexed ==
    AtRest /\ used.rereads = 0 =>
       \A f \in Files : stored[f] # NoEntry /\ lib[f].there /\ lib[f].meta = stored[f].meta =>
          /\ stored[f].id # None => lib[f].id # None
          /\ stored[f].id = None => stored[f].failed
=============================================================================
