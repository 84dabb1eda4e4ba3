------------------------ MODULE LibraryIndex_proofs ------------------------
(* Theorems about LibraryIndex, for every music directory and any number of  *)
(* scans, edits and restarts; and about RipImport, which puts files into it,  *)
(* for every disc and release.                                               *)
EXTENDS LibraryIndex, RipImport, FiniteSetTheorems, SequenceTheorems, WellFoundedInduction, TLAPS

-----------------------------------------------------------------------------
(* Types.  Versions grow with the edits: the sets have the last one as their  *)
(* parameter.                                                                 *)

Entries(n) == {e \in [stamp : 0..n, meta : 0..n, id : 0..n, failed : BOOLEAN] :
                  e.stamp = 0 => e = NoEntry}
Marks(n)   == [f : Files, stamp : 1..n]
Hits(n)    == [f : Files, stamp : 1..n, id : 1..n]
TracksOf(n) == [there : BOOLEAN, meta : 0..n, id : 0..n]
Libs(n)    == [Files -> TracksOf(n)]
Caches(n)  == [Files -> Entries(n)]

WorkerPc == {"idle", "load", "scan", "parse", "loaded", "copy", "reread", "reread_done"}
ThreadPc == {"none", "start", "tags", "decode", "commit", "locked", "written", "send"}

Workers(n) ==
    [pc : WorkerPc, since : Nat, cached : Caches(n), work : Caches(n),
     paths : SUBSET Files, todo : SUBSET Files, at : {NoEntry} \cup Marks(n), dirty : BOOLEAN]

Threads(n) ==
    [pc : ThreadPc, pending : SUBSET Marks(n), hits : SUBSET Hits(n),
     misses : SUBSET Marks(n), out : SUBSET Hits(n)]

EventsOf(n) == [kind : {"library"}, lib : Libs(n)] \cup [kind : {"ids"}, ids : SUBSET Hits(n)]

Disks(n) == [Files -> {NoFile} \cup [v : 1..n, kind : Kinds]]

Typed(n) ==
    /\ stored \in Caches(n) /\ w \in Workers(n)
    /\ bf \in [1..MaxLoads -> Threads(n)]
    /\ lib \in Libs(n)
    /\ events \in Seq(EventsOf(n))

Types ==
    /\ last \in Nat \ {0}
    /\ disk \in Disks(last)
    /\ Typed(last)
    /\ gen \in 0..used.loads /\ epoch \in Nat
    /\ used \in [edits : Nat, loads : 0..MaxLoads, rereads : Nat, quits : Nat]
    /\ w.pc = "parse" => w.at \in Marks(last)

LEMMA SetsGrow ==
    ASSUME NEW n \in Nat, NEW m \in Nat, n <= m
    PROVE  /\ Caches(n) \subseteq Caches(m) /\ Libs(n) \subseteq Libs(m)
           /\ Workers(n) \subseteq Workers(m) /\ Threads(n) \subseteq Threads(m)
           /\ EventsOf(n) \subseteq EventsOf(m) /\ Disks(n) \subseteq Disks(m)
           /\ Marks(n) \subseteq Marks(m)
<1>1. 0..n \subseteq 0..m /\ 1..n \subseteq 1..m
  OBVIOUS
<1>2. Entries(n) \subseteq Entries(m) /\ TracksOf(n) \subseteq TracksOf(m)
  BY <1>1 DEF Entries, TracksOf
<1>3. Marks(n) \subseteq Marks(m) /\ Hits(n) \subseteq Hits(m)
  BY <1>1 DEF Marks, Hits
<1>4. Caches(n) \subseteq Caches(m) /\ Libs(n) \subseteq Libs(m)
  BY <1>2 DEF Caches, Libs
<1>5. Workers(n) \subseteq Workers(m)
  BY <1>3, <1>4 DEF Workers
<1>6. Threads(n) \subseteq Threads(m)
  BY <1>3 DEF Threads
<1>7. EventsOf(n) \subseteq EventsOf(m)
  BY <1>3, <1>4 DEF EventsOf
<1>8. Disks(n) \subseteq Disks(m)
  <2>1. [v : 1..n, kind : Kinds] \subseteq [v : 1..m, kind : Kinds]
    BY <1>1
  <2> QED BY <2>1 DEF Disks
<1> QED BY <1>3, <1>4, <1>5, <1>6, <1>7, <1>8

LEMMA TypedGrows ==
    ASSUME NEW n \in Nat, NEW m \in Nat, n <= m, Typed(n)
    PROVE  Typed(m)
<1>1. events \in Seq(EventsOf(m))
  BY SetsGrow, SeqMonotonic DEF Typed
<1> QED BY <1>1, SetsGrow DEF Typed

\* The states of rest.
LEMMA RestTypes ==
    \A n \in Nat : /\ NoEntry \in Entries(n) /\ [f \in Files |-> NoEntry] \in Caches(n)
                   /\ Idle \in Workers(n) /\ NoThread \in Threads(n) /\ NoLib \in Libs(n)
<1> SUFFICES ASSUME NEW n \in Nat
             PROVE  /\ NoEntry \in Entries(n) /\ [f \in Files |-> NoEntry] \in Caches(n)
                    /\ Idle \in Workers(n) /\ NoThread \in Threads(n) /\ NoLib \in Libs(n)
  OBVIOUS
<1>1. NoEntry \in Entries(n) /\ NoTrack \in TracksOf(n)
  BY DEF NoEntry, Entries, NoTrack, TracksOf
<1>2. [f \in Files |-> NoEntry] \in Caches(n) /\ NoLib \in Libs(n)
  BY <1>1 DEF Caches, NoLib, Libs
<1>3. Idle \in Workers(n)
  BY <1>2 DEF Idle, Workers, WorkerPc
<1>4. NoThread \in Threads(n)
  BY DEF NoThread, Threads, ThreadPc
<1> QED BY <1>1, <1>2, <1>3, <1>4

LEMMA InitTypes == Init => Types
<1> SUFFICES ASSUME Init PROVE Types
  OBVIOUS
<1>1. disk \in Disks(1) /\ last = 1
  BY DEF Init, Disks
<1>2. /\ stored \in Caches(1) /\ w \in Workers(1) /\ lib \in Libs(1)
      /\ bf \in [1..MaxLoads -> Threads(1)] /\ events \in Seq(EventsOf(1))
  BY RestTypes, EmptySeq DEF Init
<1>3. w.pc # "parse"
  BY DEF Init, Idle
<1>4. gen = 0 /\ epoch = 0 /\ used = [edits |-> 0, loads |-> 0, rereads |-> 0, quits |-> 0]
  BY DEF Init
<1> QED BY <1>1, <1>2, <1>3, <1>4, LibraryAssumption DEF Types, Typed

\* What a step may change, given that the sets stay.
LEMMA TypesSame ==
    ASSUME Types, UNCHANGED <<disk, last>>,
           stored' \in Caches(last), w' \in Workers(last),
           bf' \in [1..MaxLoads -> Threads(last)], lib' \in Libs(last),
           events' \in Seq(EventsOf(last)),
           gen' \in 0..used'.loads, epoch' \in Nat,
           used' \in [edits : Nat, loads : 0..MaxLoads, rereads : Nat, quits : Nat],
           w'.pc = "parse" => w'.at \in Marks(last)
    PROVE  Types'
BY DEF Types, Typed

\* The entry of a file, and what is read from it.
LEMMA FileTypes ==
    ASSUME Types, NEW f \in Files
    PROVE  /\ disk[f].v \in 0..last
           /\ disk[f].v = 0 <=> disk[f] = NoFile
           /\ Embedded(disk[f]) \in 0..last /\ Computed(disk[f]) \in 0..last
           /\ Embedded(disk[f]) # None => Computed(disk[f]) = Embedded(disk[f])
           /\ disk[f] # NoFile => disk[f].kind \in Kinds
<1>1. disk[f] \in {NoFile} \cup [v : 1..last, kind : Kinds] /\ last \in Nat
  BY DEF Types, Disks
<1> QED BY <1>1 DEF NoFile, Embedded, Computed, None


LEMMA EditTypes ==
    ASSUME Types, \/ \E f \in Files : Edit(f)
                  \/ \E src, dst \in Files : ApplyTags(src, dst)
    PROVE  Types'
<1>1. last' = last + 1 /\ last \in Nat \ {0}
  BY DEF Edit, ApplyTags, Types
<1>2. disk' \in Disks(last')
  <2>1. disk \in Disks(last')
    BY <1>1, SetsGrow DEF Types
  <2>2. ASSUME NEW f \in Files, Edit(f) PROVE disk' \in Disks(last')
    <3>1. PICK k \in Kinds \cup {"none"} :
             disk' = [disk EXCEPT ![f] = IF k = "none" THEN NoFile ELSE [v |-> last + 1, kind |-> k]]
      BY <2>2 DEF Edit
    <3> QED BY <1>1, <2>1, <3>1, LibraryAssumption DEF Disks
  <2>3. ASSUME NEW src \in Files, NEW dst \in Files, ApplyTags(src, dst) PROVE disk' \in Disks(last')
    <3>1. disk[src].kind \in Kinds
      BY <2>3, FileTypes DEF ApplyTags
    <3> DEFINE new == [v |-> last + 1, kind |-> disk[src].kind]
    <3>2. disk' = [disk EXCEPT ![src] = NoFile, ![dst] = new]
      BY <2>3 DEF ApplyTags
    <3>3. new \in [v : 1..last', kind : Kinds]
      BY <1>1, <3>1
    <3> DEFINE S == {NoFile} \cup [v : 1..last', kind : Kinds]
    <3>4. disk \in [Files -> S] /\ new \in S /\ NoFile \in S
      BY <2>1, <3>3 DEF Disks
    <3> HIDE DEF new, S
    <3> DEFINE one == [disk EXCEPT ![src] = NoFile]
    <3>6. disk' = [one EXCEPT ![dst] = new]
      BY <3>2
    <3>7. one \in [Files -> S]
      BY <3>4
    <3> HIDE DEF one
    <3>5. disk' \in [Files -> S]
      BY <3>4, <3>6, <3>7
    <3> QED BY <3>5 DEF S, Disks
  <2> QED BY <2>2, <2>3
<1>3. Typed(last')
  BY <1>1, TypedGrows DEF Types
<1>4. used' \in [edits : Nat, loads : 0..MaxLoads, rereads : Nat, quits : Nat] /\ used'.loads = used.loads
  <2>1. \/ used' = [used EXCEPT !["edits"] = @ + 1]
        \/ used' = [used EXCEPT !["rereads"] = @ + 1]
    BY DEF Edit, ApplyTags, Upset, Count
  <2> QED BY <2>1 DEF Types
<1>5. UNCHANGED <<stored, bf, lib, events, gen, epoch>>
  BY DEF Edit, ApplyTags
<1>6. w' \in Workers(last') /\ (w'.pc = "parse" => w'.at \in Marks(last'))
  <2>1. ASSUME NEW f \in Files, Edit(f) PROVE w' \in Workers(last') /\ (w'.pc = "parse" => w'.at \in Marks(last'))
    BY <1>1, <1>3, <2>1, SetsGrow DEF Edit, Types, Typed
  <2>2. ASSUME NEW src \in Files, NEW dst \in Files, ApplyTags(src, dst)
        PROVE  w' \in Workers(last') /\ (w'.pc = "parse" => w'.at \in Marks(last'))
    <3>1. w' = [w EXCEPT !.pc = "copy", !.todo = {src, dst}]
      BY <2>2 DEF ApplyTags
    <3> QED BY <1>3, <3>1 DEF Typed, Workers, WorkerPc
  <2> QED BY <2>1, <2>2
<1> QED BY <1>1, <1>2, <1>3, <1>4, <1>5, <1>6 DEF Types, Typed

\* What a scan writes is built of entries.
LEMMA FinishedTypes ==
    ASSUME Types, NEW files \in Caches(last)
    PROVE  Finished(files) \in Caches(last) /\ Kept(files) \in Caches(last)
<1>1. Kept(files) \in Caches(last)
  BY RestTypes DEF Kept, Caches, Types
<1>2. Merged(files) \in Caches(last)
  <2>1. ASSUME NEW f \in Files, stored[f] # NoEntry, files[f].stamp = stored[f].stamp
        PROVE  [files[f] EXCEPT !.id = stored[f].id,
                                !.failed = IF stored[f].id # None THEN FALSE
                                           ELSE @ \/ stored[f].failed] \in Entries(last)
    <3>1. files[f] \in Entries(last) /\ stored[f] \in Entries(last)
      BY DEF Caches, Types, Typed
    <3>2. files[f].stamp # 0
      BY <2>1, <3>1 DEF Entries
    <3> QED BY <3>1, <3>2 DEF Entries
  <2> QED BY <2>1 DEF Merged, Caches
<1> QED BY <1>1, <1>2 DEF Finished

LEMMA ParsedTypes ==
    ASSUME Types, NEW f \in Files, NEW s \in 1..last
    PROVE  Parsed(s, disk[f]) \in Entries(last)
BY FileTypes DEF Parsed, Entries, Types

LEMMA TracksTypes ==
    ASSUME Types, NEW files \in Caches(last)
    PROVE  Tracks(files) \in Libs(last)
BY DEF Tracks, Caches, Entries, Libs, TracksOf, Types

\* The worker's steps, and the end of the process.
LEMMA WorkerTypes ==
    ASSUME Types, LoadLibrary \/ WorkerStep \/ Checkpoint \/ Quit
    PROVE  Types'
<1>1. /\ last \in Nat \ {0} /\ w \in Workers(last) /\ stored \in Caches(last)
      /\ w.work \in Caches(last)
  BY DEF Types, Typed, Workers
<1>2. UNCHANGED <<disk, last>>
  BY DEF LoadLibrary, Checkpoint, Quit, WorkerStep, LoadCache, ParseFile, FinishScan, Loaded,
     CopyCache, SaveReread, RereadComplete, StatFile, Reread
<1>3. CASE LoadLibrary
  <2>1. w' = [w EXCEPT !.pc = "load", !.since = epoch]
    BY <1>3 DEF LoadLibrary
  <2>2. w' \in Workers(last) /\ w'.pc # "parse"
    BY <1>1, <2>1 DEF Workers, WorkerPc, Types
  <2>3. gen' = gen + 1 /\ used' = [used EXCEPT !["loads"] = @ + 1] /\ used.loads < MaxLoads
    BY <1>3 DEF LoadLibrary, Count
  <2>4. /\ gen' \in 0..used'.loads
        /\ used' \in [edits : Nat, loads : 0..MaxLoads, rereads : Nat, quits : Nat]
    BY <2>3, LibraryAssumption DEF Types
  <2>5. UNCHANGED <<stored, bf, epoch, events, lib>>
    BY <1>3 DEF LoadLibrary
  <2> QED BY <1>2, <2>2, <2>4, <2>5, TypesSame DEF Types, Typed
<1>4. CASE Quit
  <2>1. /\ w' = Idle /\ bf' = [g \in 1..MaxLoads |-> NoThread] /\ gen' = 0 /\ epoch' = 0
        /\ events' = <<>> /\ lib' = NoLib /\ stored' = stored
        /\ used' = [used EXCEPT !["quits"] = @ + 1]
    BY <1>4 DEF Quit, Upset, Count
  <2>2. /\ w' \in Workers(last) /\ w'.pc # "parse" /\ lib' \in Libs(last)
        /\ bf' \in [1..MaxLoads -> Threads(last)]
    BY <1>1, <2>1, RestTypes DEF Idle
  <2>3. /\ gen' \in 0..used'.loads
        /\ used' \in [edits : Nat, loads : 0..MaxLoads, rereads : Nat, quits : Nat]
    BY <2>1 DEF Types
  <2>4. events' \in Seq(EventsOf(last))
    BY <2>1, EmptySeq
  <2> QED BY <1>1, <1>2, <2>1, <2>2, <2>3, <2>4, TypesSame
<1>5. CASE Loaded \/ RereadComplete
  <2>1. PICK L \in Libs(last) : events' = Append(events, [kind |-> "library", lib |-> L])
    BY <1>1, <1>5, TracksTypes DEF Loaded, RereadComplete
  <2>2. events' \in Seq(EventsOf(last))
    <3>1. [kind |-> "library", lib |-> L] \in EventsOf(last)
      BY DEF EventsOf
    <3> QED BY <2>1, <3>1, AppendProperties DEF Types, Typed
  <2>3. bf' \in [1..MaxLoads -> Threads(last)]
    <3>1. [NoThread EXCEPT !.pc = "start"] \in Threads(last)
      BY DEF NoThread, Threads, ThreadPc
    <3>2. bf' = bf \/ bf' = [bf EXCEPT ![gen] = [NoThread EXCEPT !.pc = "start"]]
      BY <1>5 DEF Loaded, RereadComplete
    <3> QED BY <3>1, <3>2 DEF Types, Typed
  <2>4. w' = Idle /\ UNCHANGED <<stored, gen, epoch, lib, used>>
    BY <1>5 DEF Loaded, RereadComplete
  <2>5. w' \in Workers(last) /\ w'.pc # "parse"
    BY <1>1, <2>4, RestTypes DEF Idle
  <2> QED BY <1>1, <1>2, <2>2, <2>3, <2>4, <2>5, TypesSame DEF Types, Typed
<1>6. CASE \/ LoadCache \/ ParseFile \/ FinishScan \/ CopyCache \/ SaveReread \/ Checkpoint
           \/ \E f \in Files : StatFile(f) \/ Reread(f)
  <2>1. UNCHANGED <<bf, gen, epoch, events, lib, used>>
    BY <1>6 DEF LoadCache, ParseFile, FinishScan, CopyCache, SaveReread, Checkpoint,
       StatFile, Reread
  <2> SUFFICES stored' \in Caches(last) /\ w' \in Workers(last)
               /\ (w'.pc = "parse" => w'.at \in Marks(last))
    BY <1>2, <2>1, TypesSame DEF Types, Typed
  <2>2. CASE LoadCache
    <3>1. PICK there \in SUBSET Files :
             w' = [w EXCEPT !.pc = "scan", !.cached = stored, !.work = stored,
                            !.paths = there, !.todo = there]
      BY <2>2 DEF LoadCache
    <3>2. w' \in Workers(last) /\ w'.pc # "parse"
      BY <1>1, <3>1 DEF Workers, WorkerPc
    <3> QED BY <1>1, <2>2, <3>2 DEF LoadCache
  <2>3. CASE ParseFile
    <3>1. w.at \in Marks(last) /\ w.at.f \in Files /\ w.at.stamp \in 1..last
      BY <2>3 DEF ParseFile, Types, Marks
    <3> DEFINE e == Parsed(w.at.stamp, disk[w.at.f])
    <3>2. e \in Entries(last)
      BY <3>1, ParsedTypes
    <3>3. w' = [w EXCEPT !.pc = "scan", !.todo = @ \ {w.at.f}, !.dirty = TRUE, !.at = NoEntry,
                         !.work[w.at.f] = e]
      BY <2>3 DEF ParseFile
    <3> HIDE DEF e
    <3>4. w' \in Workers(last) /\ w'.pc # "parse"
      BY <1>1, <3>1, <3>2, <3>3 DEF Workers, WorkerPc, Caches
    <3> QED BY <1>1, <2>3, <3>4 DEF ParseFile
  <2>4. CASE FinishScan
    <3> DEFINE final == Finished(Kept(w.work))
    <3>1. final \in Caches(last)
      BY <1>1, FinishedTypes
    <3>2. stored' \in {stored, final} /\ w' = [Idle EXCEPT !.pc = "loaded", !.work = final]
      BY <2>4 DEF FinishScan
    <3> HIDE DEF final
    <3>3. w' \in Workers(last) /\ w'.pc # "parse"
      BY <1>1, <3>1, <3>2, RestTypes DEF Workers, WorkerPc, Idle
    <3> QED BY <1>1, <3>1, <3>2, <3>3
  <2>5. CASE CopyCache
    <3>1. w' = [w EXCEPT !.pc = "reread", !.work = stored] /\ stored' = stored
      BY <2>5 DEF CopyCache
    <3> QED BY <1>1, <3>1 DEF Workers, WorkerPc
  <2>6. CASE SaveReread
    <3>1. w' = [w EXCEPT !.pc = "reread_done"] /\ stored' = w.work
      BY <2>6 DEF SaveReread
    <3> QED BY <1>1, <3>1 DEF Workers, WorkerPc
  <2>7. CASE Checkpoint
    <3>1. w' = [w EXCEPT !.dirty = FALSE] /\ stored' = Finished(w.work) /\ w.pc = "scan"
      BY <2>7 DEF Checkpoint
    <3>2. w' \in Workers(last) /\ w'.pc # "parse"
      BY <1>1, <3>1 DEF Workers
    <3> QED BY <1>1, <3>1, <3>2, FinishedTypes
  <2>8. ASSUME NEW f \in Files, StatFile(f)
        PROVE  stored' \in Caches(last) /\ w' \in Workers(last)
               /\ (w'.pc = "parse" => w'.at \in Marks(last))
    <3>1. CASE disk[f] = NoFile \/ w.cached[f].stamp = disk[f].v
      <4>1. w' = [w EXCEPT !.todo = @ \ {f}] /\ w.pc = "scan" /\ stored' = stored
        BY <2>8, <3>1 DEF StatFile
      <4> QED BY <1>1, <4>1 DEF Workers
    <3>2. CASE ~(disk[f] = NoFile \/ w.cached[f].stamp = disk[f].v)
      <4>1. w' = [w EXCEPT !.pc = "parse", !.at = [f |-> f, stamp |-> disk[f].v]] /\ stored' = stored
        BY <2>8, <3>2 DEF StatFile
      <4>2. [f |-> f, stamp |-> disk[f].v] \in Marks(last)
        BY <1>1, <3>2, FileTypes DEF Marks
      <4> QED BY <1>1, <4>1, <4>2 DEF Workers, WorkerPc
    <3> QED BY <3>1, <3>2
  <2>9. ASSUME NEW f \in Files, Reread(f)
        PROVE  stored' \in Caches(last) /\ w' \in Workers(last)
               /\ (w'.pc = "parse" => w'.at \in Marks(last))
    <3> DEFINE e == IF disk[f] = NoFile THEN NoEntry
                    ELSE [stamp |-> disk[f].v, meta |-> disk[f].v,
                          id |-> Computed(disk[f]), failed |-> Computed(disk[f]) = None]
    <3>1. e \in Entries(last)
      BY <1>1, FileTypes, RestTypes DEF Entries
    <3>2. w' = [w EXCEPT !.todo = @ \ {f}, !.work[f] = e] /\ stored' = stored /\ w.pc = "reread"
      BY <2>9 DEF Reread
    <3> HIDE DEF e
    <3> QED BY <1>1, <3>1, <3>2 DEF Workers, Caches
  <2> QED BY <1>6, <2>2, <2>3, <2>4, <2>5, <2>6, <2>7, <2>8, <2>9
<1> QED BY <1>3, <1>4, <1>5, <1>6 DEF WorkerStep

\* What a thread finds, and what it writes.
LEMMA HitTypes ==
    ASSUME Types, NEW p \in Marks(last), NEW id \in 1..last
    PROVE  Hit(p, id) \in Hits(last) /\ p.f \in Files
BY DEF Marks, Hits, Hit

LEMMA CommitTypes ==
    ASSUME Types, NEW g \in 1..MaxLoads, Commit(g)
    PROVE  stored' \in Caches(last)
<1> DEFINE in == Landing(g)
           out == Missing(g)
           IdFor(f) == (CHOOSE h \in in : h.f = f).id
<1>1. in \subseteq Hits(last) /\ stored \in Caches(last)
  BY DEF Types, Typed, Threads, Landing
<1>2. stored' = [f \in Files |->
                 IF \E h \in in : h.f = f
                 THEN [stored[f] EXCEPT !.id = IdFor(f), !.failed = FALSE]
                 ELSE IF \E p \in out : p.f = f THEN [stored[f] EXCEPT !.failed = TRUE]
                 ELSE stored[f]]
  BY DEF Commit
<1>3. ASSUME NEW f \in Files, \E h \in in : h.f = f
      PROVE  IdFor(f) \in 0..last /\ stored[f].stamp # 0
  <2>1. PICK h \in in : h.f = f
    BY <1>3
  <2>2. (CHOOSE k \in in : k.f = f) \in in
    BY <2>1
  <2>3. stored[f].stamp = h.stamp
    BY <2>1 DEF Landing, Open
  <2> QED BY <1>1, <2>1, <2>2, <2>3 DEF Hits
<1>4. ASSUME NEW f \in Files, \E p \in out : p.f = f PROVE stored[f].stamp # 0
  <2>1. PICK p \in out : p.f = f
    BY <1>4
  <2>2. out \subseteq Marks(last) /\ stored[f].stamp = p.stamp
    BY <2>1 DEF Missing, Open, Types, Typed, Threads
  <2> QED BY <2>1, <2>2 DEF Marks
<1> HIDE DEF in, out, IdFor
<1>5. ASSUME NEW f \in Files PROVE stored'[f] \in Entries(last)
  <2>1. stored[f] \in Entries(last)
    BY <1>1 DEF Caches
  <2>2. CASE \E h \in in : h.f = f
    <3>1. stored'[f] = [stored[f] EXCEPT !.id = IdFor(f), !.failed = FALSE]
      BY <1>2, <2>2
    <3> QED BY <1>3, <2>1, <2>2, <3>1 DEF Entries
  <2>3. CASE ~(\E h \in in : h.f = f) /\ \E p \in out : p.f = f
    <3>1. stored'[f] = [stored[f] EXCEPT !.failed = TRUE]
      BY <1>2, <2>3
    <3> QED BY <1>4, <2>1, <2>3, <3>1 DEF Entries
  <2>4. CASE ~(\E h \in in : h.f = f) /\ ~(\E p \in out : p.f = f)
    BY <1>2, <2>1, <2>4
  <2> QED BY <2>2, <2>3, <2>4
<1> QED BY <1>2, <1>5 DEF Caches

LEMMA BackfillTypes ==
    ASSUME Types, NEW g \in 1..MaxLoads, Backfill(g)
    PROVE  Types'
<1>1. /\ last \in Nat \ {0} /\ bf \in [1..MaxLoads -> Threads(last)] /\ stored \in Caches(last)
      /\ bf[g] \in Threads(last) /\ NoThread \in Threads(last)
  BY RestTypes DEF Types, Typed
<1>2. UNCHANGED <<disk, last, w, gen, lib, used>>
  BY DEF Backfill, ListPending, ReadTags, Decode, Lock, Commit, Unlock, SendIds
<1>3. PICK t : bf' = [bf EXCEPT ![g] = t]
  BY DEF Backfill, ListPending, ReadTags, Decode, Lock, Commit, Unlock, SendIds, Becomes
<1>4. bf'[g] = t
  BY <1>1, <1>3
<1>5. \A p \in bf[g].pending \cup bf[g].misses : p \in Marks(last) /\ p.f \in Files
  BY <1>1 DEF Threads, Marks
<1>6. t \in Threads(last)
  <2>1. CASE ListPending(g)
    <3> DEFINE lack == {f \in Files : stored[f] # NoEntry /\ stored[f].id = None /\ ~stored[f].failed}
               marks == {[f |-> f, stamp |-> stored[f].stamp] : f \in lack}
    <3>1. t = NoThread \/ t = [NoThread EXCEPT !.pc = "tags", !.pending = marks]
      <4>1. \/ Becomes(g, NoThread)
            \/ Becomes(g, [NoThread EXCEPT !.pc = "tags", !.pending = marks])
        BY <2>1 DEF ListPending
      <4> QED BY <1>1, <1>4, <4>1 DEF Becomes
    <3>2. marks \subseteq Marks(last)
      <4>1. \A f \in lack : stored[f].stamp \in 1..last
        BY <1>1 DEF Caches, Entries
      <4> QED BY <4>1 DEF Marks
    <3> HIDE DEF marks
    <3> QED BY <1>1, <3>1, <3>2 DEF NoThread, Threads, ThreadPc
  <2>2. CASE ReadTags(g)
    <3> DEFINE hits == {Hit(p, Embedded(disk[p.f])) :
                          p \in {q \in bf[g].pending : Embedded(disk[q.f]) # None}}
    <3>1. t = [bf[g] EXCEPT !.pc = "commit", !.hits = hits]
      BY <1>1, <1>4, <2>2 DEF ReadTags, Becomes
    <3>2. hits \subseteq Hits(last)
      <4>1. ASSUME NEW p \in bf[g].pending, Embedded(disk[p.f]) # None
            PROVE  Hit(p, Embedded(disk[p.f])) \in Hits(last)
        BY <1>1, <1>5, <4>1, HitTypes, FileTypes DEF None
      <4> QED BY <4>1
    <3> HIDE DEF hits
    <3> QED BY <1>1, <3>1, <3>2 DEF Threads, ThreadPc
  <2>3. CASE Decode(g)
    <3>1. CASE Cancelled(g) \/ bf[g].pending = {}
      BY <1>1, <1>4, <2>3, <3>1 DEF Decode, Becomes
    <3>2. CASE ~(Cancelled(g) \/ bf[g].pending = {})
      <4>1. PICK p \in bf[g].pending :
               Becomes(g, [bf[g] EXCEPT !.pc = "commit", !.pending = @ \ {p},
                             !.hits = IF Computed(disk[p.f]) = None THEN {}
                                      ELSE {Hit(p, Computed(disk[p.f]))},
                             !.misses = IF Computed(disk[p.f]) = None THEN {p} ELSE {}])
        BY <2>3, <3>2 DEF Decode
      <4> DEFINE hs == IF Computed(disk[p.f]) = None THEN {} ELSE {Hit(p, Computed(disk[p.f]))}
                 ms == IF Computed(disk[p.f]) = None THEN {p} ELSE {}
      <4>2. hs \subseteq Hits(last) /\ ms \subseteq Marks(last)
        <5>1. Computed(disk[p.f]) # None => Hit(p, Computed(disk[p.f])) \in Hits(last)
          BY <1>1, <1>5, HitTypes, FileTypes DEF None
        <5> QED BY <1>5, <5>1
      <4>3. t = [bf[g] EXCEPT !.pc = "commit", !.pending = @ \ {p}, !.hits = hs, !.misses = ms]
        BY <1>1, <1>4, <4>1 DEF Becomes
      <4> HIDE DEF hs, ms
      <4> QED BY <1>1, <4>2, <4>3 DEF Threads, ThreadPc
    <3> QED BY <3>1, <3>2
  <2>4. CASE Lock(g)
    <3>1. \/ t = [bf[g] EXCEPT !.pc = "decode", !.hits = {}, !.misses = {}]
          \/ t = [bf[g] EXCEPT !.pc = "locked"]
      BY <1>1, <1>4, <2>4 DEF Lock, Becomes
    <3> QED BY <1>1, <3>1 DEF Threads, ThreadPc
  <2>5. CASE Commit(g)
    <3> DEFINE in == Landing(g)
    <3>1. PICK pc \in {"decode", "written"} :
             t = [bf[g] EXCEPT !.pc = pc, !.out = in,
                               !.pending = {p \in @ : \A h \in in : h.f # p.f},
                               !.hits = {}, !.misses = {}]
      BY <1>1, <1>4, <2>5 DEF Commit, Becomes
    <3>2. in \subseteq Hits(last)
      BY <1>1 DEF Landing, Threads
    <3> HIDE DEF in
    <3> QED BY <1>1, <3>1, <3>2 DEF Threads, ThreadPc
  <2>6. CASE Unlock(g)
    <3>1. PICK pc \in {"decode", "send"} : t = [bf[g] EXCEPT !.pc = pc]
      BY <1>1, <1>4, <2>6 DEF Unlock, Becomes
    <3> QED BY <1>1, <3>1 DEF Threads, ThreadPc
  <2>7. CASE SendIds(g)
    <3>1. t = [bf[g] EXCEPT !.pc = "decode", !.out = {}]
      BY <1>1, <1>4, <2>7 DEF SendIds, Becomes
    <3> QED BY <1>1, <3>1 DEF Threads, ThreadPc
  <2> QED BY <2>1, <2>2, <2>3, <2>4, <2>5, <2>6, <2>7 DEF Backfill
<1>7. bf' \in [1..MaxLoads -> Threads(last)]
  BY <1>1, <1>3, <1>6
<1>8. stored' \in Caches(last)
  <2>1. CASE Commit(g)
    BY <2>1, CommitTypes
  <2>2. CASE ~Commit(g)
    BY <1>1, <2>2 DEF Backfill, ListPending, ReadTags, Decode, Lock, Unlock, SendIds
  <2> QED BY <2>1, <2>2
<1>9. events' \in Seq(EventsOf(last))
  <2>1. CASE SendIds(g)
    <3>1. [kind |-> "ids", ids |-> bf[g].out] \in EventsOf(last)
      BY <1>1 DEF EventsOf, Threads
    <3> QED BY <2>1, <3>1, AppendProperties DEF SendIds, Types, Typed
  <2>2. CASE ~SendIds(g)
    BY <2>2 DEF Backfill, ListPending, ReadTags, Decode, Lock, Unlock, Commit, Types, Typed
  <2> QED BY <2>1, <2>2
<1>10. epoch' \in Nat
  <2>1. epoch' \in {epoch, epoch + 1}
    BY DEF Backfill, ListPending, ReadTags, Decode, Lock, Commit, Unlock, SendIds
  <2> QED BY <2>1 DEF Types
<1> QED BY <1>2, <1>7, <1>8, <1>9, <1>10, TypesSame DEF Types, Typed

LEMMA HandleTypes == Types /\ Handle => Types'
<1> SUFFICES ASSUME Types, Handle PROVE Types'
  OBVIOUS
<1>1. events \in Seq(EventsOf(last)) /\ events # <<>> /\ lib \in Libs(last)
  BY DEF Handle, Types, Typed
<1>2. Head(events) \in EventsOf(last) /\ Tail(events) \in Seq(EventsOf(last))
  BY <1>1, HeadTailProperties
<1>3. lib' \in Libs(last)
  <2>1. CASE Head(events).kind = "library"
    <3>1. lib' = Head(events).lib
      BY <2>1 DEF Handle
    <3>2. Head(events).lib \in Libs(last)
      BY <1>2, <2>1 DEF EventsOf
    <3> QED BY <3>1, <3>2
  <2>2. CASE Head(events).kind # "library"
    <3> DEFINE ids == Head(events).ids
    <3>1. ids \subseteq Hits(last) /\ lib' = WithIds(ids)
      BY <1>2, <2>2 DEF Handle, EventsOf
    <3> DEFINE IdFor(f) == (CHOOSE h \in ids : h.f = f).id
    <3>2. ASSUME NEW f \in Files, \E h \in ids : h.f = f PROVE IdFor(f) \in 0..last
      <4>1. (CHOOSE h \in ids : h.f = f) \in ids
        BY <3>2
      <4> QED BY <3>1, <4>1 DEF Hits, Types
    <3>3. lib' = [f \in Files |-> IF lib[f].there /\ lib[f].id = None /\ \E h \in ids : h.f = f
                                  THEN [lib[f] EXCEPT !.id = IdFor(f)] ELSE lib[f]]
      BY <3>1 DEF WithIds
    <3> HIDE DEF ids, IdFor
    <3> QED BY <1>1, <3>2, <3>3 DEF Libs, TracksOf
  <2> QED BY <2>1, <2>2
<1>4. UNCHANGED <<disk, stored, w, bf, gen, epoch, last, used>> /\ events' = Tail(events)
  BY DEF Handle
<1> QED BY <1>2, <1>3, <1>4, TypesSame DEF Types, Typed

LEMMA TypesNext == Types /\ [Next]_vars => Types'
<1> SUFFICES ASSUME Types, [Next]_vars PROVE Types'
  OBVIOUS
<1>1. CASE UNCHANGED vars
  BY <1>1 DEF vars, Types, Typed
<1>2. CASE LoadLibrary \/ WorkerStep \/ Checkpoint \/ Quit
  BY <1>2, WorkerTypes
<1>3. CASE \E g \in 1..MaxLoads : Backfill(g)
  BY <1>3, BackfillTypes
<1>4. CASE (\E f \in Files : Edit(f)) \/ \E src, dst \in Files : ApplyTags(src, dst)
  BY <1>4, EditTypes
<1> QED BY <1>1, <1>2, <1>3, <1>4, HandleTypes DEF Next

-----------------------------------------------------------------------------
(* The cache describes the files.  What is inductive is more than CacheTrue:  *)
(* the work of the worker, and what a thread is about to commit, were read     *)
(* after the stamp they are kept under, so that they are right if the file     *)
(* still has it; and a stamp does not come back.                               *)

Sound(file, e) ==
    /\ e.id # None => ~e.failed
    /\ file # NoFile /\ e.stamp = file.v => Describes(e, file)

SoundHit(file, h)  == file # NoFile /\ h.stamp = file.v => h.id = Computed(file)
SoundMiss(file, p) == file # NoFile /\ p.stamp = file.v => Computed(file) = None

SoundCache(files) == \A f \in Files : Sound(disk[f], files[f])

SoundThread(t) ==
    /\ \A h \in t.hits : SoundHit(disk[h.f], h)
    /\ \A p \in t.misses : SoundMiss(disk[p.f], p)

SoundInv ==
    /\ SoundCache(stored)
    /\ SoundCache(w.work)
    /\ \A g \in 1..MaxLoads : SoundThread(bf[g])

LEMMA SoundRest ==
    ASSUME Types
    PROVE  SoundCache([f \in Files |-> NoEntry]) /\ SoundThread(NoThread)
<1>1. \A f \in Files : Sound(disk[f], NoEntry)
  BY FileTypes DEF Sound, NoEntry, None
<1> QED BY <1>1 DEF SoundCache, SoundThread, NoThread

LEMMA InitSound == Types /\ Init => SoundInv
BY SoundRest DEF Init, SoundInv, Idle

\* A file that changes gets a version nothing has been read under.
LEMMA EditSound ==
    ASSUME Types, SoundInv, UNCHANGED <<stored, bf>>, w'.work = w.work,
           \A f \in Files : disk'[f] \in {disk[f], NoFile} \/ disk'[f].v = last + 1
    PROVE  SoundInv'
<1>1. \A f \in Files, e \in Entries(last) : Sound(disk[f], e) => Sound(disk'[f], e)
  BY DEF Sound, Entries, Types
<1>2. stored \in Caches(last) /\ w.work \in Caches(last) /\ bf \in [1..MaxLoads -> Threads(last)]
  BY DEF Types, Typed, Workers
<1>3. \A f \in Files : Sound(disk'[f], stored[f]) /\ Sound(disk'[f], w.work[f])
  BY <1>1, <1>2 DEF SoundInv, SoundCache, Caches
<1>4. ASSUME NEW g \in 1..MaxLoads
      PROVE  /\ \A h \in bf[g].hits : SoundHit(disk'[h.f], h)
             /\ \A p \in bf[g].misses : SoundMiss(disk'[p.f], p)
  <2>1. bf[g].hits \subseteq Hits(last) /\ bf[g].misses \subseteq Marks(last) /\ SoundThread(bf[g])
    BY <1>2 DEF Threads, SoundInv
  <2>2. \A h \in Hits(last) : SoundHit(disk[h.f], h) => SoundHit(disk'[h.f], h)
    BY DEF SoundHit, Hits, Types
  <2>3. \A p \in Marks(last) : SoundMiss(disk[p.f], p) => SoundMiss(disk'[p.f], p)
    BY DEF SoundMiss, Marks, Types
  <2> QED BY <2>1, <2>2, <2>3 DEF SoundThread
<1> QED BY <1>3, <1>4 DEF SoundInv, SoundCache, SoundThread

\* What the worker reads of a file, and what it merges.
LEMMA ParsedSound ==
    ASSUME Types, NEW f \in Files, NEW s
    PROVE  Sound(disk[f], Parsed(s, disk[f]))
BY FileTypes DEF Sound, Parsed, Describes, None

LEMMA RereadSound ==
    ASSUME Types, NEW f \in Files, disk[f] # NoFile
    PROVE  Sound(disk[f], [stamp |-> disk[f].v, meta |-> disk[f].v, id |-> Computed(disk[f]),
                           failed |-> Computed(disk[f]) = None])
BY FileTypes DEF Sound, Describes, None

LEMMA FinishedSound ==
    ASSUME Types, SoundCache(stored), NEW files \in Caches(last), SoundCache(files)
    PROVE  SoundCache(Finished(files)) /\ SoundCache(Kept(files))
<1>1. SoundCache(Kept(files))
  BY SoundRest DEF Kept, SoundCache
<1>2. SoundCache(Merged(files))
  <2>1. ASSUME NEW f \in Files, files[f].id = None, stored[f] # NoEntry,
               files[f].stamp = stored[f].stamp
        PROVE  Sound(disk[f], [files[f] EXCEPT !.id = stored[f].id,
                                 !.failed = IF stored[f].id # None THEN FALSE
                                            ELSE @ \/ stored[f].failed])
    <3>1. files[f] \in Entries(last) /\ stored[f] \in Entries(last)
      BY DEF Caches, Types, Typed
    <3>2. Sound(disk[f], files[f]) /\ Sound(disk[f], stored[f])
      BY DEF SoundCache
    <3> QED BY <2>1, <3>1, <3>2 DEF Sound, Describes, Entries
  <2> QED BY <2>1 DEF SoundCache, Merged
<1> QED BY <1>1, <1>2 DEF Finished

LEMMA WorkerSound ==
    ASSUME Types, SoundInv, LoadLibrary \/ WorkerStep \/ Checkpoint \/ Quit
    PROVE  SoundInv'
<1>1. UNCHANGED disk
  BY DEF LoadLibrary, Checkpoint, Quit, WorkerStep, LoadCache, ParseFile, FinishScan, Loaded,
     CopyCache, SaveReread, RereadComplete, StatFile, Reread
<1>2. /\ w \in Workers(last) /\ w.work \in Caches(last)
      /\ SoundCache(stored) /\ SoundCache(w.work)
  BY DEF Types, Typed, Workers, SoundInv
<1>3. \A g \in 1..MaxLoads : SoundThread(bf[g])'
  <2>1. CASE Quit
    BY <1>1, <2>1 DEF Quit, SoundThread, NoThread
  <2>2. CASE Loaded
    <3>1. bf' = [bf EXCEPT ![gen] = [NoThread EXCEPT !.pc = "start"]]
      BY <2>2 DEF Loaded
    <3>2. bf \in [1..MaxLoads -> Threads(last)]
      BY DEF Types, Typed
    <3>3. \A g \in 1..MaxLoads : \/ bf'[g] = bf[g]
                                 \/ bf'[g].hits = {} /\ bf'[g].misses = {}
      BY <3>1, <3>2 DEF NoThread
    <3> QED BY <1>1, <3>3 DEF SoundThread, SoundInv
  <2>3. CASE ~Quit /\ ~Loaded
    <3>1. bf' = bf
      BY <2>3 DEF LoadLibrary, Checkpoint, WorkerStep, LoadCache, ParseFile, FinishScan,
         CopyCache, SaveReread, RereadComplete, StatFile, Reread
    <3> QED BY <1>1, <3>1 DEF SoundThread, SoundInv
  <2> QED BY <2>1, <2>2, <2>3
<1> SUFFICES (\A f \in Files : Sound(disk[f], stored'[f])) /\ (\A f \in Files : Sound(disk[f], w'.work[f]))
  BY <1>1, <1>3 DEF SoundInv, SoundCache
<1>4. CASE LoadLibrary \/ CopyCache \/ LoadCache \/ SaveReread \/ \E f \in Files : StatFile(f)
  <2>1. stored' \in {stored, w.work} /\ w'.work \in {stored, w.work}
    BY <1>2, <1>4 DEF LoadLibrary, CopyCache, LoadCache, SaveReread, StatFile, Workers
  <2> QED BY <1>2, <2>1 DEF SoundCache
<1>5. CASE Quit \/ Loaded \/ RereadComplete
  <2>1. stored' = stored /\ w'.work = [f \in Files |-> NoEntry]
    BY <1>5 DEF Quit, Loaded, RereadComplete, Idle
  <2> QED BY <1>2, <2>1, SoundRest DEF SoundCache
<1>6. CASE ParseFile
  <2>1. w.at.f \in Files
    BY <1>6 DEF ParseFile, Types, Marks
  <2> DEFINE e == Parsed(w.at.stamp, disk[w.at.f])
  <2>2. Sound(disk[w.at.f], e)
    BY <2>1, ParsedSound
  <2>3. stored' = stored /\ w'.work = [w.work EXCEPT ![w.at.f] = e]
    BY <1>2, <1>6 DEF ParseFile, Workers
  <2> HIDE DEF e
  <2> QED BY <1>2, <2>1, <2>2, <2>3 DEF SoundCache, Caches
<1>7. CASE FinishScan
  <2>1. SoundCache(Finished(Kept(w.work)))
    BY <1>2, FinishedSound, FinishedTypes
  <2> DEFINE final == Finished(Kept(w.work))
  <2>2. stored' \in {stored, final} /\ w'.work = final
    BY <1>7 DEF FinishScan, Idle
  <2> HIDE DEF final
  <2> QED BY <1>2, <2>1, <2>2 DEF SoundCache, final
<1>8. CASE Checkpoint
  <2>1. stored' = Finished(w.work) /\ w'.work = w.work
    BY <1>2, <1>8 DEF Checkpoint, Workers
  <2> QED BY <1>2, <2>1, FinishedSound DEF SoundCache
<1>9. ASSUME NEW f \in Files, Reread(f)
      PROVE  (\A k \in Files : Sound(disk[k], stored'[k])) /\ (\A k \in Files : Sound(disk[k], w'.work[k]))
  <2> DEFINE e == IF disk[f] = NoFile THEN NoEntry
                  ELSE [stamp |-> disk[f].v, meta |-> disk[f].v,
                        id |-> Computed(disk[f]), failed |-> Computed(disk[f]) = None]
  <2>1. Sound(disk[f], e)
    BY RereadSound, SoundRest DEF SoundCache
  <2>2. stored' = stored /\ w'.work = [w.work EXCEPT ![f] = e]
    BY <1>2, <1>9 DEF Reread, Workers
  <2> HIDE DEF e
  <2> QED BY <1>2, <2>1, <2>2 DEF SoundCache, Caches
<1> QED BY <1>4, <1>5, <1>6, <1>7, <1>8, <1>9 DEF WorkerStep

\* What a thread has found goes onto the entries that still have the stamp.
LEMMA CommitSound ==
    ASSUME Types, SoundInv, NEW g \in 1..MaxLoads, Commit(g), NEW f \in Files
    PROVE  Sound(disk[f], stored'[f])
<1> DEFINE in == Landing(g)
           out == Missing(g)
           IdFor == (CHOOSE h \in in : h.f = f).id
<1>1. stored'[f] = IF \E h \in in : h.f = f
                   THEN [stored[f] EXCEPT !.id = IdFor, !.failed = FALSE]
                   ELSE IF \E p \in out : p.f = f THEN [stored[f] EXCEPT !.failed = TRUE]
                   ELSE stored[f]
  BY DEF Commit
<1>2. stored[f] \in Entries(last) /\ Sound(disk[f], stored[f]) /\ SoundThread(bf[g])
  BY DEF Types, Typed, Caches, SoundInv, SoundCache
<1>3. CASE \E h \in in : h.f = f
  <2>1. PICK h \in in : h.f = f /\ h.id = IdFor
    <3>1. (CHOOSE h \in in : h.f = f) \in in /\ (CHOOSE h \in in : h.f = f).f = f
      BY <1>3
    <3> QED BY <3>1
  <2>2. stored[f].stamp = h.stamp /\ SoundHit(disk[f], h)
    BY <1>2, <2>1 DEF Landing, Open, SoundThread
  <2>3. stored'[f] = [stored[f] EXCEPT !.id = h.id, !.failed = FALSE]
    BY <1>1, <1>3, <2>1
  <2> HIDE DEF in, out, IdFor
  <2> QED BY <1>2, <2>2, <2>3 DEF Sound, SoundHit, Describes, Entries
<1>4. CASE ~(\E h \in in : h.f = f) /\ \E p \in out : p.f = f
  <2>1. PICK p \in out : p.f = f
    BY <1>4
  <2>2. stored[f].stamp = p.stamp /\ stored[f].id = None /\ SoundMiss(disk[f], p)
    BY <1>2, <2>1 DEF Missing, Open, SoundThread
  <2>3. stored'[f] = [stored[f] EXCEPT !.failed = TRUE]
    BY <1>1, <1>4
  <2> HIDE DEF in, out, IdFor
  <2> QED BY <1>2, <2>2, <2>3 DEF Sound, SoundMiss, Describes, Entries
<1>5. CASE ~(\E h \in in : h.f = f) /\ ~(\E p \in out : p.f = f)
  BY <1>1, <1>2, <1>5
<1> QED BY <1>3, <1>4, <1>5

LEMMA BackfillSound ==
    ASSUME Types, SoundInv, NEW g \in 1..MaxLoads, Backfill(g)
    PROVE  SoundInv'
<1>1. UNCHANGED <<disk, w>>
  BY DEF Backfill, ListPending, ReadTags, Decode, Lock, Commit, Unlock, SendIds
<1>2. PICK t : bf' = [bf EXCEPT ![g] = t]
  BY DEF Backfill, ListPending, ReadTags, Decode, Lock, Commit, Unlock, SendIds, Becomes
<1>3. bf \in [1..MaxLoads -> Threads(last)] /\ bf[g] \in Threads(last) /\ bf'[g] = t
  BY <1>2 DEF Types, Typed
<1>4. /\ \A h \in t.hits : SoundHit(disk[h.f], h)
      /\ \A p \in t.misses : SoundMiss(disk[p.f], p)
  <2>1. CASE ListPending(g)
    <3>1. \/ Becomes(g, NoThread)
          \/ \E P : Becomes(g, [NoThread EXCEPT !.pc = "tags", !.pending = P])
      BY <2>1 DEF ListPending
    <3>2. t = NoThread \/ \E P : t = [NoThread EXCEPT !.pc = "tags", !.pending = P]
      BY <1>3, <3>1 DEF Becomes
    <3>3. CASE t = NoThread
      BY <3>3 DEF NoThread
    <3>4. ASSUME NEW P, t = [NoThread EXCEPT !.pc = "tags", !.pending = P]
          PROVE  t.hits = {} /\ t.misses = {}
      BY <3>4 DEF NoThread
    <3> QED BY <3>2, <3>3, <3>4 DEF NoThread
  <2>2. CASE ReadTags(g)
    <3> DEFINE hits == {Hit(p, Embedded(disk[p.f])) :
                          p \in {q \in bf[g].pending : Embedded(disk[q.f]) # None}}
    <3>1. t.hits = hits /\ t.misses = bf[g].misses
      BY <1>3, <2>2 DEF ReadTags, Becomes, Threads
    <3>2. ASSUME NEW p \in bf[g].pending, Embedded(disk[p.f]) # None
          PROVE  SoundHit(disk[p.f], Hit(p, Embedded(disk[p.f]))) /\ Hit(p, Embedded(disk[p.f])).f = p.f
      <4>1. p.f \in Files
        BY <1>3 DEF Threads, Marks
      <4> QED BY <3>2, <4>1, FileTypes DEF SoundHit, Hit
    <3>3. ASSUME NEW h \in hits PROVE SoundHit(disk[h.f], h)
      <4>1. PICK p \in bf[g].pending : Embedded(disk[p.f]) # None /\ h = Hit(p, Embedded(disk[p.f]))
        BY <3>3
      <4> QED BY <3>2, <4>1
    <3> HIDE DEF hits
    <3> QED BY <3>1, <3>3 DEF SoundInv, SoundThread
  <2>3. CASE Decode(g)
    <3>1. CASE Cancelled(g) \/ bf[g].pending = {}
      <4>1. Becomes(g, NoThread)
        BY <2>3, <3>1 DEF Decode
      <4>2. t = NoThread
        BY <1>3, <4>1 DEF Becomes
      <4> QED BY <4>2 DEF NoThread
    <3>2. CASE ~(Cancelled(g) \/ bf[g].pending = {})
      <4>1. PICK p \in bf[g].pending :
               Becomes(g, [bf[g] EXCEPT !.pc = "commit", !.pending = @ \ {p},
                             !.hits = IF Computed(disk[p.f]) = None THEN {}
                                      ELSE {Hit(p, Computed(disk[p.f]))},
                             !.misses = IF Computed(disk[p.f]) = None THEN {p} ELSE {}])
        BY <2>3, <3>2 DEF Decode
      <4>2. /\ \A h \in t.hits : h = Hit(p, Computed(disk[p.f]))
            /\ \A q \in t.misses : q = p /\ Computed(disk[p.f]) = None
        BY <1>3, <4>1 DEF Becomes, Threads
      <4>3. Hit(p, Computed(disk[p.f])).f = p.f /\ Hit(p, Computed(disk[p.f])).id = Computed(disk[p.f])
        BY DEF Hit
      <4> QED BY <4>2, <4>3 DEF SoundHit, SoundMiss
    <3> QED BY <3>1, <3>2
  <2>4. CASE Lock(g) \/ Commit(g) \/ Unlock(g) \/ SendIds(g)
    <3>1. /\ t.hits = {} \/ t.hits = bf[g].hits
          /\ t.misses = {} \/ t.misses = bf[g].misses
      <4>1. CASE Lock(g)
        <5>1. \/ Becomes(g, [bf[g] EXCEPT !.pc = "decode", !.hits = {}, !.misses = {}])
              \/ Becomes(g, [bf[g] EXCEPT !.pc = "locked"])
          BY <4>1 DEF Lock
        <5> QED BY <1>3, <5>1 DEF Becomes, Threads
      <4>2. CASE Commit(g)
        <5>1. \E pc, out, P : Becomes(g, [bf[g] EXCEPT !.pc = pc, !.out = out, !.pending = P,
                                                      !.hits = {}, !.misses = {}])
          BY <4>2 DEF Commit
        <5> QED BY <1>3, <5>1 DEF Becomes, Threads
      <4>3. CASE Unlock(g) \/ SendIds(g)
        <5>1. \E pc, out : Becomes(g, [bf[g] EXCEPT !.pc = pc, !.out = out])
                           \/ Becomes(g, [bf[g] EXCEPT !.pc = pc])
          BY <4>3 DEF Unlock, SendIds
        <5> QED BY <1>3, <5>1 DEF Becomes, Threads
      <4> QED BY <2>4, <4>1, <4>2, <4>3
    <3> QED BY <3>1 DEF SoundInv, SoundThread
  <2> QED BY <2>1, <2>2, <2>3, <2>4 DEF Backfill
<1>5. \A k \in 1..MaxLoads : SoundThread(bf[k])'
  <2>1. \A k \in 1..MaxLoads : bf'[k] = IF k = g THEN t ELSE bf[k]
    BY <1>2, <1>3
  <2> QED BY <1>1, <1>4, <2>1 DEF SoundInv, SoundThread
<1>6. SoundCache(stored)'
  <2>1. CASE Commit(g)
    BY <1>1, <2>1, CommitSound DEF SoundCache
  <2>2. CASE ~Commit(g)
    <3>1. stored' = stored
      BY <2>2 DEF Backfill, ListPending, ReadTags, Decode, Lock, Unlock, SendIds
    <3> QED BY <1>1, <3>1 DEF SoundCache, SoundInv
  <2> QED BY <2>1, <2>2
<1> QED BY <1>1, <1>5, <1>6 DEF SoundInv, SoundCache

LEMMA SoundNext == Types /\ SoundInv /\ [Next]_vars => SoundInv'
<1> SUFFICES ASSUME Types, SoundInv, [Next]_vars PROVE SoundInv'
  OBVIOUS
<1>1. CASE UNCHANGED vars \/ Handle
  <2>1. UNCHANGED <<disk, stored, w, bf>>
    BY <1>1 DEF vars, Handle
  <2> QED BY <2>1 DEF SoundInv, SoundCache, SoundThread
<1>2. CASE LoadLibrary \/ WorkerStep \/ Checkpoint \/ Quit
  BY <1>2, WorkerSound
<1>3. CASE \E g \in 1..MaxLoads : Backfill(g)
  BY <1>3, BackfillSound
<1>4. ASSUME NEW f \in Files, Edit(f) PROVE SoundInv'
  <2>1. UNCHANGED <<stored, bf, w>>
    BY <1>4 DEF Edit
  <2>2. \A k \in Files : disk'[k] \in {disk[k], NoFile} \/ disk'[k].v = last + 1
    BY <1>4 DEF Edit, Types, Disks
  <2> QED BY <2>1, <2>2, EditSound
<1>5. ASSUME NEW src \in Files, NEW dst \in Files, ApplyTags(src, dst) PROVE SoundInv'
  <2>1. UNCHANGED <<stored, bf>> /\ w'.work = w.work
    BY <1>5 DEF ApplyTags, Types, Typed, Workers
  <2> DEFINE new == [v |-> last + 1, kind |-> disk[src].kind]
  <2>2. disk' = [disk EXCEPT ![src] = NoFile, ![dst] = new] /\ new.v = last + 1
    BY <1>5 DEF ApplyTags
  <2> HIDE DEF new
  <2>3. \A k \in Files : disk'[k] \in {disk[k], NoFile} \/ disk'[k].v = last + 1
    BY <2>2 DEF Types, Disks
  <2> QED BY <2>1, <2>3, EditSound
<1> QED BY <1>1, <1>2, <1>3, <1>4, <1>5 DEF Next

LEMMA SoundHolds == Spec => [](Types /\ SoundInv)
BY InitTypes, InitSound, TypesNext, SoundNext, PTL DEF Spec

\* The cache and the library name versions that exist, whoever writes when.
THEOREM IndexTypes == Spec => []TypeOK
<1>1. Types /\ SoundInv => TypeOK
  <2> SUFFICES ASSUME Types, SoundInv PROVE TypeOK
    OBVIOUS
  <2>1. stored \in [Files -> Entry] /\ w.work \in [Files -> Entry]
    BY DEF Types, Typed, Workers, Caches, Entries, Entry
  <2>2. lib \in [Files -> [there : BOOLEAN, meta : 0..last, id : 0..last]]
    BY DEF Types, Typed, Libs, TracksOf
  <2>3. w.pc \in {"idle", "load", "scan", "parse", "loaded", "copy", "reread", "reread_done"}
    BY DEF Types, Typed, Workers, WorkerPc
  <2>4. \A g \in 1..MaxLoads :
           bf[g].pc \in {"none", "start", "tags", "decode", "commit", "locked", "written", "send"}
    BY DEF Types, Typed, Threads, ThreadPc
  <2>5. gen \in 0..MaxLoads /\ epoch \in Nat
    BY LibraryAssumption DEF Types
  <2>6. \A f \in Files : stored[f].id # None => ~stored[f].failed
    BY DEF SoundInv, SoundCache, Sound
  <2> QED BY <2>1, <2>2, <2>3, <2>4, <2>5, <2>6 DEF TypeOK
<1> QED BY <1>1, SoundHolds, PTL

\* An entry of the cache whose stamp is that of the file describes the file, so that
\* the next scan may trust it unread (dirlib.rs:199): whatever is edited between
\* stat and parse, between decode and commit, or while a scan merges.
THEOREM CacheIsTrue == Spec => []CacheTrue
<1>1. Types /\ SoundInv => CacheTrue
  BY DEF SoundInv, SoundCache, Sound, CacheTrue
<1> QED BY <1>1, SoundHolds, PTL

-----------------------------------------------------------------------------
(* A scan loses no id.  The copy a scan works on follows the cache file: an    *)
(* entry it has not parsed has the stamp it was read with, and an id the file   *)
(* has and the copy has not was stored by a thread that has raised the epoch,   *)
(* or is about to before it gives the lock back.                                *)

Written == \E g \in 1..MaxLoads : bf[g].pc = "written"
Unread  == epoch # w.since \/ Written

Follows(f) ==
    /\ f \in w.todo => /\ w.work[f].stamp = stored[f].stamp
                       /\ w.work[f].stamp = w.cached[f].stamp
    /\ w.work[f].stamp = stored[f].stamp /\ stored[f].id # w.work[f].id
         => w.work[f].id = None /\ Unread
    /\ w.work[f] = NoEntry => stored[f] = NoEntry

ScanInv ==
    /\ w.pc \in {"load", "scan", "parse"} => w.since <= epoch
    /\ w.pc = "parse" => w.at.f \in w.todo /\ w.at.stamp # w.cached[w.at.f].stamp
    /\ w.pc \in {"scan", "parse"} => \A f \in Files : Follows(f)

LEMMA InitScan == Init => ScanInv
BY DEF Init, ScanInv, Idle

\* What a scan writes of an entry it has.
LEMMA FinishedFollows ==
    ASSUME Types, ScanInv, w.pc = "scan", Unlocked,
           NEW files \in Caches(last), NEW f \in Files, files[f] = w.work[f]
    PROVE  /\ Finished(files)[f].stamp = w.work[f].stamp
           /\ Finished(files)[f].id # w.work[f].id => w.work[f].id = None /\ epoch # w.since
           /\ Finished(files)[f].stamp = stored[f].stamp /\ stored[f].id # None
                => Finished(files)[f].id = stored[f].id
           /\ Finished(files)[f] = NoEntry => stored[f] = NoEntry
           /\ w.work[f] = NoEntry => Finished(files)[f] = NoEntry
<1> DEFINE e == w.work[f]
           s == stored[f]
           r == Finished(files)[f]
<1>1. e \in Entries(last) /\ s \in Entries(last)
  BY DEF Types, Typed, Workers, Caches
<1>2. ~Written
  BY DEF Unlocked, Written
<1>3. /\ e.stamp = s.stamp /\ s.id # e.id => e.id = None /\ epoch # w.since
      /\ e = NoEntry => s = NoEntry
  BY <1>2 DEF ScanInv, Follows, Unread
<1>4. CASE epoch = w.since
  <2>1. r = e
    BY <1>4 DEF Finished
  <2> HIDE DEF r, e, s
  <2> QED BY <1>3, <1>4, <2>1 DEF r, e, s
<1>5. CASE epoch # w.since
  <2>1. r = IF e.id = None /\ s # NoEntry /\ e.stamp = s.stamp
            THEN [e EXCEPT !.id = s.id, !.failed = IF s.id # None THEN FALSE ELSE @ \/ s.failed]
            ELSE e
    BY <1>5 DEF Finished, Merged
  <2> SUFFICES /\ r.stamp = e.stamp
               /\ r.id # e.id => e.id = None
               /\ r.stamp = s.stamp /\ s.id # None => r.id = s.id
               /\ r = NoEntry => s = NoEntry
               /\ e = NoEntry => r = NoEntry
    BY <1>5
  <2> HIDE DEF r, e, s
  <2>2. CASE e.id = None /\ s # NoEntry /\ e.stamp = s.stamp
    <3>1. r.stamp = e.stamp /\ r.id = s.id
      BY <1>1, <2>1, <2>2 DEF Entries
    <3>2. e.stamp # 0
      BY <1>1, <2>2 DEF Entries
    <3> QED BY <2>2, <3>1, <3>2 DEF NoEntry
  <2>3. CASE ~(e.id = None /\ s # NoEntry /\ e.stamp = s.stamp)
    <3>1. r = e
      BY <2>1, <2>3
    <3>2. s.id # None => s # NoEntry
      BY DEF NoEntry, None
    <3> QED BY <1>3, <2>3, <3>1, <3>2
  <2> QED BY <2>2, <2>3
<1> QED BY <1>4, <1>5

LEMMA WorkerScan ==
    ASSUME Types, ScanInv, LoadLibrary \/ WorkerStep \/ Checkpoint \/ Quit
    PROVE  ScanInv'
<1>1. w \in Workers(last) /\ w.work \in Caches(last) /\ stored \in Caches(last)
  BY DEF Types, Typed, Workers
<1>2. CASE LoadLibrary
  <2>1. w'.pc = "load" /\ w'.since = epoch /\ epoch' = epoch
    BY <1>1, <1>2 DEF LoadLibrary, Workers
  <2> QED BY <2>1 DEF ScanInv, Types
<1>3. CASE \/ Quit \/ FinishScan \/ Loaded \/ CopyCache \/ SaveReread \/ RereadComplete
           \/ \E f \in Files : Reread(f)
  <2>1. w'.pc \notin {"load", "scan", "parse"}
    <3>1. CASE Quit \/ Loaded \/ RereadComplete
      <4>1. w' = Idle
        BY <3>1 DEF Quit, Loaded, RereadComplete
      <4> QED BY <4>1 DEF Idle
    <3>2. CASE FinishScan
      BY <3>2 DEF FinishScan, Idle
    <3>3. CASE CopyCache \/ SaveReread
      BY <1>1, <3>3 DEF CopyCache, SaveReread, Workers
    <3>4. CASE \E f \in Files : Reread(f)
      BY <1>1, <3>4 DEF Reread, Workers
    <3> QED BY <1>3, <3>1, <3>2, <3>3, <3>4
  <2> QED BY <2>1 DEF ScanInv
<1>4. CASE LoadCache
  <2>1. /\ w'.pc = "scan" /\ w'.work = stored /\ w'.cached = stored /\ w'.since = w.since
        /\ stored' = stored /\ epoch' = epoch /\ w.pc = "load"
    BY <1>1, <1>4 DEF LoadCache, Workers
  <2>2. \A f \in Files : Follows(f)'
    BY <2>1 DEF Follows
  <2> QED BY <2>1, <2>2 DEF ScanInv
<1>5. ASSUME NEW f \in Files, StatFile(f) PROVE ScanInv'
  <2>1. /\ UNCHANGED <<stored, epoch, bf>> /\ w.pc = "scan" /\ f \in w.todo
        /\ w'.work = w.work /\ w'.cached = w.cached /\ w'.since = w.since
        /\ w'.todo \subseteq w.todo /\ w'.pc \in {"scan", "parse"}
    BY <1>1, <1>5 DEF StatFile, Workers
  <2>2. w'.pc = "parse" => w'.at.f \in w'.todo /\ w'.at.stamp # w'.cached[w'.at.f].stamp
    BY <1>1, <1>5 DEF StatFile, Workers
  <2>3. \A k \in Files : Follows(k)'
    BY <2>1 DEF ScanInv, Follows, Unread, Written
  <2> QED BY <2>1, <2>2, <2>3 DEF ScanInv
<1>6. CASE ParseFile
  <2>0. PICK f \in Files : f = w.at.f
    BY <1>6 DEF ParseFile, Types, Marks
  <2>7. PICK e : e = Parsed(w.at.stamp, disk[f])
    OBVIOUS
  <2>1. /\ w.pc = "parse" /\ f \in w.todo /\ w.at.stamp \in 1..last
        /\ w.at.stamp # w.cached[f].stamp
    BY <1>6, <2>0 DEF ParseFile, Types, Marks, ScanInv
  <2>2. /\ UNCHANGED <<stored, epoch, bf>>
        /\ w'.pc = "scan" /\ w'.since = w.since /\ w'.cached = w.cached
        /\ w'.todo = w.todo \ {f} /\ w'.work = [w.work EXCEPT ![f] = e]
    BY <1>1, <1>6, <2>0, <2>7 DEF ParseFile, Workers
  <2>3. e.stamp = w.at.stamp /\ e # NoEntry
    BY <2>1, <2>7 DEF Parsed, NoEntry
  <2>4. w'.work[f] = e
    BY <1>1, <2>1, <2>2 DEF Caches
  <2>5. Follows(f)'
    <3>1. w.at.stamp # stored[f].stamp
      BY <2>1 DEF ScanInv, Follows
    <3>2. w'.work[f].stamp # stored'[f].stamp /\ f \notin w'.todo /\ w'.work[f] # NoEntry
      BY <2>2, <2>3, <2>4, <3>1
    <3> QED BY <3>2 DEF Follows
  <2>6. ASSUME NEW k \in Files, k # f PROVE Follows(k)'
    <3>1. w'.work[k] = w.work[k] /\ (k \in w'.todo => k \in w.todo)
      BY <1>1, <2>2, <2>6 DEF Caches
    <3>2. Follows(k)
      BY <2>1 DEF ScanInv
    <3> QED BY <2>2, <3>1, <3>2 DEF Follows, Unread, Written
  <2> QED BY <2>1, <2>2, <2>5, <2>6 DEF ScanInv
<1>7. CASE Checkpoint
  <2>1. /\ w.pc = "scan" /\ Unlocked /\ stored' = Finished(w.work) /\ UNCHANGED <<epoch, bf>>
        /\ w'.pc = "scan" /\ w'.work = w.work /\ w'.cached = w.cached /\ w'.since = w.since
        /\ w'.todo = w.todo
    BY <1>1, <1>7 DEF Checkpoint, Workers
  <2>2. ASSUME NEW f \in Files PROVE Follows(f)'
    <3>1. Follows(f)
      BY <2>1 DEF ScanInv
    <3>2. /\ stored'[f].stamp = w.work[f].stamp
          /\ stored'[f].id # w.work[f].id => w.work[f].id = None /\ epoch # w.since
          /\ w.work[f] = NoEntry => stored'[f] = NoEntry
      BY <1>1, <2>1, FinishedFollows
    <3> QED BY <2>1, <3>1, <3>2 DEF Follows, Unread
  <2> QED BY <2>1, <2>2 DEF ScanInv
<1> QED BY <1>2, <1>3, <1>4, <1>5, <1>6, <1>7 DEF WorkerStep

\* What a commit does to an entry.
LEMMA CommitEntry ==
    ASSUME Types, NEW g \in 1..MaxLoads, Commit(g), NEW f \in Files
    PROVE  /\ stored'[f].stamp = stored[f].stamp
           /\ stored'[f].id # stored[f].id => stored[f].id = None /\ bf'[g].pc = "written"
           /\ stored'[f] = NoEntry <=> stored[f] = NoEntry
<1> DEFINE in == Landing(g)
           out == Missing(g)
           IdFor == (CHOOSE h \in in : h.f = f).id
<1>1. stored'[f] = IF \E h \in in : h.f = f
                   THEN [stored[f] EXCEPT !.id = IdFor, !.failed = FALSE]
                   ELSE IF \E p \in out : p.f = f THEN [stored[f] EXCEPT !.failed = TRUE]
                   ELSE stored[f]
  BY DEF Commit
<1>2. /\ stored[f] \in Entries(last) /\ bf \in [1..MaxLoads -> Threads(last)]
      /\ bf[g] \in Threads(last)
  BY DEF Types, Typed, Caches
<1>3. bf'[g].pc = IF in \cup out = {} THEN "decode" ELSE "written"
  <2>1. \E o, P : Becomes(g, [bf[g] EXCEPT !.pc = IF in \cup out = {} THEN "decode" ELSE "written",
                                !.out = o, !.pending = P, !.hits = {}, !.misses = {}])
    BY DEF Commit
  <2> HIDE DEF in, out
  <2> QED BY <1>2, <2>1 DEF Becomes, Threads
<1>4. CASE \E h \in in : h.f = f
  <2>1. PICK h \in in : h.f = f
    BY <1>4
  <2>2. h \in Hits(last) /\ stored[f].stamp = h.stamp /\ stored[f].id = None
    BY <1>2, <2>1 DEF Landing, Open, Threads
  <2>3. stored[f].stamp # 0
    BY <2>2 DEF Hits
  <2>4. stored'[f].stamp = stored[f].stamp
    BY <1>1, <1>2, <1>4 DEF Entries
  <2>5. bf'[g].pc = "written"
    BY <1>3, <2>1
  <2>6. stored[f] # NoEntry /\ stored'[f] # NoEntry
    BY <2>3, <2>4 DEF NoEntry
  <2> QED BY <2>2, <2>4, <2>5, <2>6
<1>5. CASE ~(\E h \in in : h.f = f) /\ \E p \in out : p.f = f
  <2>1. PICK p \in out : p.f = f
    BY <1>5
  <2>2. p \in Marks(last) /\ stored[f].stamp = p.stamp
    BY <1>2, <2>1 DEF Missing, Open, Threads
  <2>3. stored[f].stamp # 0
    BY <2>2 DEF Marks
  <2>4. stored'[f] = [stored[f] EXCEPT !.failed = TRUE]
    BY <1>1, <1>5
  <2>5. stored'[f].stamp = stored[f].stamp /\ stored'[f].id = stored[f].id
    BY <1>2, <2>4 DEF Entries
  <2>6. stored[f] # NoEntry /\ stored'[f] # NoEntry
    BY <2>3, <2>5 DEF NoEntry
  <2> QED BY <2>5, <2>6
<1>6. CASE ~(\E h \in in : h.f = f) /\ ~(\E p \in out : p.f = f)
  BY <1>1, <1>6
<1> QED BY <1>4, <1>5, <1>6

LEMMA BackfillScan ==
    ASSUME Types, ScanInv, NEW g \in 1..MaxLoads, Backfill(g)
    PROVE  ScanInv'
<1>1. w' = w /\ bf \in [1..MaxLoads -> Threads(last)]
  BY DEF Backfill, ListPending, ReadTags, Decode, Lock, Commit, Unlock, SendIds, Types, Typed
<1>2. epoch \in Nat /\ epoch' \in {epoch, epoch + 1}
  BY DEF Backfill, ListPending, ReadTags, Decode, Lock, Commit, Unlock, SendIds, Types
<1>3. w.pc \in {"load", "scan", "parse"} => w'.since <= epoch'
  BY <1>1, <1>2 DEF ScanInv, Types, Typed, Workers
<1> SUFFICES ASSUME w.pc \in {"scan", "parse"}, NEW f \in Files, Follows(f) PROVE Follows(f)'
  BY <1>1, <1>3 DEF ScanInv
<1>4. Unread => Unread'
  <2>1. CASE Unlock(g)
    <3>1. epoch' = epoch + 1 /\ w.since <= epoch /\ w.since \in Nat
      BY <2>1 DEF Unlock, ScanInv, Types, Typed, Workers
    <3> QED BY <1>1, <1>2, <3>1 DEF Unread
  <2>2. CASE ~Unlock(g)
    <3>1. epoch' = epoch /\ bf[g].pc # "written"
      BY <2>2 DEF Backfill, ListPending, ReadTags, Decode, Lock, Commit, SendIds
    <3>2. \A k \in 1..MaxLoads : k # g => bf'[k] = bf[k]
      BY <1>1 DEF Backfill, ListPending, ReadTags, Decode, Lock, Commit, Unlock, SendIds, Becomes
    <3>3. Written => Written'
      BY <3>1, <3>2 DEF Written
    <3> QED BY <1>1, <3>1, <3>3 DEF Unread
  <2> QED BY <2>1, <2>2
<1>5. /\ stored'[f].stamp = stored[f].stamp
      /\ stored'[f].id # stored[f].id => stored[f].id = None /\ Written'
      /\ stored[f] = NoEntry => stored'[f] = NoEntry
  <2>1. CASE Commit(g)
    BY <2>1, CommitEntry DEF Written
  <2>2. CASE ~Commit(g)
    <3>1. stored' = stored
      BY <2>2 DEF Backfill, ListPending, ReadTags, Decode, Lock, Unlock, SendIds
    <3> QED BY <3>1
  <2> QED BY <2>1, <2>2
<1> QED BY <1>1, <1>4, <1>5 DEF Follows, Unread

LEMMA ScanNext == Types /\ ScanInv /\ [Next]_vars => ScanInv'
<1> SUFFICES ASSUME Types, ScanInv, [Next]_vars PROVE ScanInv'
  OBVIOUS
<1>1. CASE UNCHANGED vars \/ Handle \/ \E f \in Files : Edit(f)
  <2>1. UNCHANGED <<stored, w, bf, epoch>>
    BY <1>1 DEF vars, Handle, Edit
  <2> QED BY <2>1 DEF ScanInv, Follows, Unread, Written
<1>2. CASE LoadLibrary \/ WorkerStep \/ Checkpoint \/ Quit
  BY <1>2, WorkerScan
<1>3. CASE \E g \in 1..MaxLoads : Backfill(g)
  BY <1>3, BackfillScan
<1>4. CASE \E src, dst \in Files : ApplyTags(src, dst)
  <2>1. w'.pc = "copy"
    BY <1>4 DEF ApplyTags, Types, Typed, Workers
  <2> QED BY <2>1 DEF ScanInv
<1> QED BY <1>1, <1>2, <1>3, <1>4 DEF Next

LEMMA ScanHolds == Spec => [](Types /\ SoundInv /\ ScanInv)
BY InitTypes, InitSound, InitScan, TypesNext, SoundNext, ScanNext, PTL DEF Spec

\* No step but the save of a reread takes an id off an entry or drops an entry.
LEMMA NextKeeps ==
    ASSUME Types, ScanInv, [Next]_vars
    PROVE  w'.pc = "reread_done" \/ \A f \in Files : Keeps(f)
<1>1. w \in Workers(last) /\ w.work \in Caches(last) /\ stored \in Caches(last)
  BY DEF Types, Typed, Workers
<1>2. CASE UNCHANGED stored
  BY <1>2 DEF Keeps
<1>3. CASE SaveReread
  <2>1. w'.pc = "reread_done"
    BY <1>1, <1>3 DEF SaveReread, Workers
  <2> QED BY <2>1
<1>4. CASE Checkpoint
  <2>1. w.pc = "scan" /\ Unlocked /\ stored' = Finished(w.work)
    BY <1>4 DEF Checkpoint
  <2> QED BY <1>1, <2>1, FinishedFollows DEF Keeps
<1>5. CASE FinishScan
  <2>1. /\ w.pc = "scan" /\ w'.pc = "loaded" /\ Unlocked
        /\ stored' = stored \/ stored' = Finished(Kept(w.work))
    BY <1>5 DEF FinishScan, Idle
  <2>2. CASE stored' = stored
    BY <2>2 DEF Keeps
  <2>3. ASSUME stored' = Finished(Kept(w.work)), NEW f \in Files PROVE Keeps(f)
    <3>1. Kept(w.work) \in Caches(last)
      BY <1>1, FinishedTypes
    <3>2. CASE f \in w.paths
      <4>1. Kept(w.work)[f] = w.work[f]
        BY <3>2 DEF Kept
      <4> QED BY <2>1, <2>3, <3>1, <4>1, FinishedFollows DEF Keeps
    <3>3. CASE f \notin w.paths
      <4>1. Kept(w.work)[f] = NoEntry
        BY <3>3 DEF Kept
      <4>2. stored[f].stamp = 0 => stored[f] = NoEntry
        BY <1>1 DEF Caches, Entries
      <4>3. stored'[f] = NoEntry
        <5>1. \/ Finished(Kept(w.work))[f] = NoEntry
              \/ stored[f] # NoEntry /\ NoEntry.stamp = stored[f].stamp
          BY <4>1 DEF Finished, Merged
        <5>2. NoEntry.stamp = 0
          BY DEF NoEntry
        <5> QED BY <2>3, <4>2, <5>1, <5>2
      <4>4. stored'[f].stamp = 0 /\ (stored[f].id # None => stored[f] # NoEntry)
        BY <4>3 DEF NoEntry, None
      <4> QED BY <2>1, <3>3, <4>2, <4>4 DEF Keeps
    <3> QED BY <3>2, <3>3
  <2> QED BY <2>1, <2>2, <2>3
<1>6. ASSUME NEW g \in 1..MaxLoads, Commit(g) PROVE \A f \in Files : Keeps(f)
  BY <1>6, CommitEntry DEF Keeps
<1>7. CASE ~SaveReread /\ ~Checkpoint /\ ~FinishScan /\ ~\E g \in 1..MaxLoads : Commit(g)
  <2>1. UNCHANGED stored
    BY <1>7 DEF Next, vars, LoadLibrary, WorkerStep, LoadCache, ParseFile, Loaded, CopyCache,
       RereadComplete, StatFile, Reread, ApplyTags, Backfill, ListPending, ReadTags, Decode, Lock,
       Unlock, SendIds, Handle, Quit, Edit
  <2> QED BY <1>2, <2>1
<1> QED BY <1>3, <1>4, <1>5, <1>6, <1>7

\* The scan's checkpoints and its last write keep every id a backfill has stored in
\* the meantime, and drop only what the walk has not found (dirlib.rs:167,
\* cache.rs:349), although the scan read the cache without the lock.
THEOREM ScanKeeps == Spec => ScanKeepsIds
<1>1. Types /\ ScanInv /\ [Next]_vars
        => [w'.pc = "reread_done" \/ (\A f \in Files : Keeps(f))]_vars
  BY NextKeeps
<1> QED BY <1>1, ScanHolds, PTL DEF Spec, ScanKeepsIds

-----------------------------------------------------------------------------
(* What the App has when all is at rest.  RunInv: a thread keeps what it has   *)
(* found only while it commits, and what it has written until it has sent it;  *)
(* a generation's thread starts when its scan is over, and by then no thread   *)
(* of an earlier one can write any more.  Served: between two scans the thread *)
(* of the generation still has every entry that lacks an id in hand, and an id *)
(* of the cache is in the library the App will show, in an event behind it, or *)
(* in the hands of a thread that will send it.                                  *)

Shape(t) ==
    /\ t.pc \in {"none", "start"} => t.pending = {}
    /\ t.pc \notin {"commit", "locked"} => t.hits = {} /\ t.misses = {}
    /\ t.pc \notin {"written", "send"} => t.out = {}

Loading == w.pc \in {"load", "scan", "parse", "loaded"}

ShowsIds(files, f) ==
    stored[f].id # None /\ files[f] # NoEntry /\ files[f].meta = stored[f].meta => files[f].id # None

RunInv ==
    /\ \A g \in 1..MaxLoads : Shape(bf[g]) /\ (bf[g].pc # "none" => g <= gen)
    /\ Loading => gen >= 1 /\ bf[gen].pc = "none"
    /\ used.rereads = 0 => w.pc \notin {"copy", "reread", "reread_done"}
    /\ w.pc \in {"scan", "parse"} /\ ~w.dirty
         => \A f \in Files : w.work[f].stamp = stored[f].stamp
    /\ w.pc = "loaded" => Unlocked /\ \A f \in Files : ShowsIds(w.work, f)

LEMMA InitRun == Init => RunInv
<1> SUFFICES ASSUME Init PROVE RunInv
  OBVIOUS
<1>1. w.pc = "idle" /\ \A g \in 1..MaxLoads : bf[g] = NoThread
  BY DEF Init, Idle
<1>2. Shape(NoThread) /\ NoThread.pc = "none"
  BY DEF Shape, NoThread
<1> QED BY <1>1, <1>2 DEF RunInv, Loading

\* The thread after each of its steps.
LEMMA ThreadStep ==
    ASSUME Types, NEW g \in 1..MaxLoads, Backfill(g)
    PROVE  /\ bf' = [bf EXCEPT ![g] = bf'[g]]
           /\ \A k \in 1..MaxLoads : k # g => bf'[k] = bf[k]
           /\ bf[g].pc # "none"
           /\ bf[g] \in Threads(last)
<1>1. bf \in [1..MaxLoads -> Threads(last)]
  BY DEF Types, Typed
<1>2. PICK t : bf' = [bf EXCEPT ![g] = t]
  BY DEF Backfill, ListPending, ReadTags, Decode, Lock, Commit, Unlock, SendIds, Becomes
<1>3. bf[g].pc # "none"
  BY DEF Backfill, ListPending, ReadTags, Decode, Lock, Commit, Unlock, SendIds
<1> QED BY <1>1, <1>2, <1>3

LEMMA BecomesIs ==
    ASSUME Types, NEW g \in 1..MaxLoads, NEW t, Becomes(g, t)
    PROVE  bf'[g] = t
<1>1. bf \in [1..MaxLoads -> Threads(last)]
  BY DEF Types, Typed
<1> QED BY <1>1 DEF Becomes

LEMMA ListedThread ==
    ASSUME Types, NEW g \in 1..MaxLoads, ListPending(g)
    PROVE  LET lack == {f \in Files : stored[f] # NoEntry /\ stored[f].id = None /\ ~stored[f].failed}
           IN  \/ bf'[g] = NoThread /\ (Cancelled(g) \/ lack = {})
               \/ /\ bf'[g].pc = "tags" /\ bf'[g].hits = {} /\ bf'[g].misses = {} /\ bf'[g].out = {}
                  /\ bf'[g].pending = {[f |-> f, stamp |-> stored[f].stamp] : f \in lack}
<1> DEFINE lack == {f \in Files : stored[f] # NoEntry /\ stored[f].id = None /\ ~stored[f].failed}
           marks == {[f |-> f, stamp |-> stored[f].stamp] : f \in lack}
<1>1. CASE Cancelled(g) \/ lack = {}
  <2>1. Becomes(g, NoThread)
    BY <1>1 DEF ListPending
  <2> HIDE DEF lack, marks
  <2> QED BY <1>1, <2>1, BecomesIs DEF lack
<1>2. CASE ~(Cancelled(g) \/ lack = {})
  <2>1. Becomes(g, [NoThread EXCEPT !.pc = "tags", !.pending = marks])
    BY <1>2 DEF ListPending
  <2> HIDE DEF marks
  <2>2. bf'[g] = [NoThread EXCEPT !.pc = "tags", !.pending = marks]
    BY <2>1, BecomesIs
  <2>3. /\ bf'[g].pc = "tags" /\ bf'[g].hits = {} /\ bf'[g].misses = {} /\ bf'[g].out = {}
        /\ bf'[g].pending = marks
    BY <2>2 DEF NoThread
  <2> QED BY <2>3 DEF marks
<1> QED BY <1>1, <1>2

LEMMA ReadThread ==
    ASSUME Types, NEW g \in 1..MaxLoads, ReadTags(g)
    PROVE  /\ bf[g].pc = "tags" /\ bf'[g].pc = "commit"
           /\ bf'[g].pending = bf[g].pending /\ bf'[g].out = bf[g].out
<1>1. PICK hs : Becomes(g, [bf[g] EXCEPT !.pc = "commit", !.hits = hs])
  BY DEF ReadTags
<1>2. bf'[g] = [bf[g] EXCEPT !.pc = "commit", !.hits = hs]
  BY <1>1, BecomesIs
<1>3. bf[g] \in Threads(last) /\ bf[g].pc = "tags"
  BY DEF ReadTags, Types, Typed
<1> QED BY <1>2, <1>3 DEF Threads

LEMMA DecodedThread ==
    ASSUME Types, NEW g \in 1..MaxLoads, Decode(g)
    PROVE  /\ bf[g].pc = "decode"
           /\ \/ bf'[g] = NoThread /\ (Cancelled(g) \/ bf[g].pending = {})
              \/ /\ bf'[g].pc = "commit" /\ bf'[g].out = bf[g].out
                 /\ \E p \in bf[g].pending :
                       /\ bf'[g].pending = bf[g].pending \ {p}
                       /\ \/ bf'[g].misses = {p}
                          \/ \E h \in bf'[g].hits : h.f = p.f /\ h.stamp = p.stamp
<1>1. bf[g] \in Threads(last) /\ bf[g].pc = "decode"
  BY DEF Decode, Types, Typed
<1>2. CASE Cancelled(g) \/ bf[g].pending = {}
  <2>1. Becomes(g, NoThread)
    BY <1>2 DEF Decode
  <2> QED BY <1>1, <1>2, <2>1, BecomesIs
<1>3. CASE ~(Cancelled(g) \/ bf[g].pending = {})
  <2>1. PICK p \in bf[g].pending :
           Becomes(g, [bf[g] EXCEPT !.pc = "commit", !.pending = @ \ {p},
                         !.hits = IF Computed(disk[p.f]) = None THEN {}
                                  ELSE {Hit(p, Computed(disk[p.f]))},
                         !.misses = IF Computed(disk[p.f]) = None THEN {p} ELSE {}])
    BY <1>3 DEF Decode
  <2> DEFINE hs == IF Computed(disk[p.f]) = None THEN {} ELSE {Hit(p, Computed(disk[p.f]))}
             ms == IF Computed(disk[p.f]) = None THEN {p} ELSE {}
  <2>2. Becomes(g, [bf[g] EXCEPT !.pc = "commit", !.pending = @ \ {p}, !.hits = hs, !.misses = ms])
    BY <2>1
  <2>3. ms = {p} \/ \E h \in hs : h.f = p.f /\ h.stamp = p.stamp
    BY DEF Hit
  <2> HIDE DEF hs, ms
  <2>4. bf'[g] = [bf[g] EXCEPT !.pc = "commit", !.pending = @ \ {p}, !.hits = hs, !.misses = ms]
    BY <2>2, BecomesIs
  <2>5. /\ bf'[g].pc = "commit" /\ bf'[g].out = bf[g].out /\ bf'[g].pending = bf[g].pending \ {p}
        /\ bf'[g].hits = hs /\ bf'[g].misses = ms
    BY <1>1, <2>4 DEF Threads
  <2> QED BY <1>1, <2>3, <2>5
<1> QED BY <1>2, <1>3

LEMMA LockedThread ==
    ASSUME Types, NEW g \in 1..MaxLoads, Lock(g)
    PROVE  /\ bf[g].pc = "commit" /\ bf'[g].pending = bf[g].pending /\ bf'[g].out = bf[g].out
           /\ \/ /\ bf'[g].pc = "decode" /\ bf'[g].hits = {} /\ bf'[g].misses = {}
                 /\ Cancelled(g) \/ (bf[g].hits = {} /\ bf[g].misses = {})
              \/ /\ bf'[g].pc = "locked" /\ ~Cancelled(g)
                 /\ bf'[g].hits = bf[g].hits /\ bf'[g].misses = bf[g].misses
<1>1. bf[g] \in Threads(last) /\ bf[g].pc = "commit"
  BY DEF Lock, Types, Typed
<1>2. CASE Cancelled(g) \/ bf[g].hits \cup bf[g].misses = {}
  <2>1. Becomes(g, [bf[g] EXCEPT !.pc = "decode", !.hits = {}, !.misses = {}])
    BY <1>2 DEF Lock
  <2>2. bf'[g] = [bf[g] EXCEPT !.pc = "decode", !.hits = {}, !.misses = {}]
    BY <2>1, BecomesIs
  <2> QED BY <1>1, <1>2, <2>2 DEF Threads
<1>3. CASE ~(Cancelled(g) \/ bf[g].hits \cup bf[g].misses = {})
  <2>1. Becomes(g, [bf[g] EXCEPT !.pc = "locked"])
    BY <1>3 DEF Lock
  <2>2. bf'[g] = [bf[g] EXCEPT !.pc = "locked"]
    BY <2>1, BecomesIs
  <2> QED BY <1>1, <1>3, <2>2 DEF Threads
<1> QED BY <1>2, <1>3

LEMMA CommittedThread ==
    ASSUME Types, NEW g \in 1..MaxLoads, Commit(g)
    PROVE  /\ bf[g].pc = "locked" /\ bf'[g].hits = {} /\ bf'[g].misses = {}
           /\ bf'[g].out = Landing(g)
           /\ bf'[g].pending = {p \in bf[g].pending : \A h \in Landing(g) : h.f # p.f}
           /\ bf'[g].pc = IF Landing(g) \cup Missing(g) = {} THEN "decode" ELSE "written"
<1>1. bf[g] \in Threads(last) /\ bf[g].pc = "locked"
  BY DEF Commit, Types, Typed
<1>2. PICK in, pc, P : /\ in = Landing(g)
                       /\ pc = IF Landing(g) \cup Missing(g) = {} THEN "decode" ELSE "written"
                       /\ P = {p \in bf[g].pending : \A h \in in : h.f # p.f}
  OBVIOUS
<1>3. Becomes(g, [bf[g] EXCEPT !.pc = pc, !.out = in, !.pending = P, !.hits = {}, !.misses = {}])
  BY <1>2 DEF Commit
<1>4. bf'[g] = [bf[g] EXCEPT !.pc = pc, !.out = in, !.pending = P, !.hits = {}, !.misses = {}]
  BY <1>3, BecomesIs
<1>5. /\ bf'[g].hits = {} /\ bf'[g].misses = {} /\ bf'[g].out = in /\ bf'[g].pending = P
      /\ bf'[g].pc = pc
  BY <1>1, <1>4 DEF Threads
<1> QED BY <1>1, <1>2, <1>5

LEMMA SentThread ==
    ASSUME Types, NEW g \in 1..MaxLoads, Unlock(g) \/ SendIds(g)
    PROVE  /\ bf'[g].pending = bf[g].pending
           /\ bf'[g].hits = bf[g].hits /\ bf'[g].misses = bf[g].misses
           /\ Unlock(g) => /\ bf[g].pc = "written" /\ bf'[g].out = bf[g].out
                           /\ bf'[g].pc = IF bf[g].out = {} THEN "decode" ELSE "send"
           /\ SendIds(g) => bf[g].pc = "send" /\ bf'[g].out = {} /\ bf'[g].pc = "decode"
<1>1. bf[g] \in Threads(last)
  BY DEF Types, Typed
<1>2. CASE Unlock(g)
  <2>1. bf[g].pc = "written"
        /\ Becomes(g, [bf[g] EXCEPT !.pc = IF bf[g].out = {} THEN "decode" ELSE "send"])
    BY <1>2 DEF Unlock
  <2>2. bf'[g] = [bf[g] EXCEPT !.pc = IF bf[g].out = {} THEN "decode" ELSE "send"]
    BY <2>1, BecomesIs
  <2>3. ~SendIds(g)
    BY <2>1 DEF SendIds
  <2> QED BY <1>1, <2>1, <2>2, <2>3 DEF Threads
<1>3. CASE SendIds(g)
  <2>1. bf[g].pc = "send" /\ Becomes(g, [bf[g] EXCEPT !.pc = "decode", !.out = {}])
    BY <1>3 DEF SendIds
  <2>2. bf'[g] = [bf[g] EXCEPT !.pc = "decode", !.out = {}]
    BY <2>1, BecomesIs
  <2>3. ~Unlock(g)
    BY <2>1 DEF Unlock
  <2> QED BY <1>1, <2>1, <2>2, <2>3 DEF Threads
<1> QED BY <1>2, <1>3

\* A thread's step, whichever it is: what it may leave behind.
LEMMA BackfillShape ==
    ASSUME Types, NEW g \in 1..MaxLoads, Backfill(g), Shape(bf[g])
    PROVE  Shape(bf'[g])
<1>1. Shape(NoThread)
  BY DEF Shape, NoThread
<1>2. CASE ListPending(g)
  BY <1>1, <1>2, ListedThread DEF Shape
<1>3. CASE ReadTags(g)
  BY <1>3, ReadThread DEF Shape
<1>4. CASE Decode(g)
  BY <1>1, <1>4, DecodedThread DEF Shape
<1>5. CASE Lock(g)
  BY <1>5, LockedThread DEF Shape
<1>6. CASE Commit(g)
  <2>1. bf'[g].pc = "decode" => bf'[g].out = {}
    BY <1>6, CommittedThread
  <2>2. bf'[g].pc \in {"decode", "written"} /\ bf'[g].hits = {} /\ bf'[g].misses = {}
    BY <1>6, CommittedThread
  <2> QED BY <2>1, <2>2 DEF Shape
<1>7. CASE Unlock(g)
  <2>1. /\ bf[g].pc = "written" /\ bf'[g].hits = bf[g].hits /\ bf'[g].misses = bf[g].misses
        /\ bf'[g].out = bf[g].out /\ bf'[g].pc = IF bf[g].out = {} THEN "decode" ELSE "send"
    BY <1>7, SentThread
  <2> QED BY <2>1 DEF Shape
<1>8. CASE SendIds(g)
  BY <1>8, SentThread DEF Shape
<1> QED BY <1>2, <1>3, <1>4, <1>5, <1>6, <1>7, <1>8 DEF Backfill

\* A thread of an earlier generation writes nothing while the lock is free.
LEMMA LateThread ==
    ASSUME Types, NEW g \in 1..MaxLoads, Backfill(g), Cancelled(g), Unlocked
    PROVE  stored' = stored /\ Unlocked'
<1>1. bf[g].pc \notin {"locked", "written"}
  BY DEF Unlocked
<1>2. ~Commit(g) /\ ~Unlock(g)
  BY <1>1 DEF Commit, Unlock
<1>3. stored' = stored
  BY <1>2 DEF Backfill, ListPending, ReadTags, Decode, Lock, SendIds
<1>4. bf'[g].pc \notin {"locked", "written"}
  <2>1. CASE ListPending(g)
    BY <2>1, ListedThread DEF NoThread
  <2>2. CASE ReadTags(g)
    BY <2>2, ReadThread
  <2>3. CASE Decode(g)
    BY <2>3, DecodedThread DEF NoThread
  <2>4. CASE Lock(g)
    BY <2>4, LockedThread
  <2>5. CASE SendIds(g)
    BY <2>5, SentThread
  <2> QED BY <1>2, <2>1, <2>2, <2>3, <2>4, <2>5 DEF Backfill
<1> QED BY <1>3, <1>4, ThreadStep DEF Unlocked

LEMMA BackfillRun ==
    ASSUME Types, RunInv, NEW g \in 1..MaxLoads, Backfill(g)
    PROVE  RunInv'
<1>1. UNCHANGED <<w, gen, used>>
  BY DEF Backfill, ListPending, ReadTags, Decode, Lock, Commit, Unlock, SendIds
<1>2. /\ \A k \in 1..MaxLoads : k # g => bf'[k] = bf[k]
      /\ bf[g].pc # "none"
  BY ThreadStep
<1>3. \A k \in 1..MaxLoads : Shape(bf[k])' /\ (bf'[k].pc # "none" => k <= gen)
  <2>1. Shape(bf'[g]) /\ g <= gen
    BY <1>2, BackfillShape DEF RunInv
  <2>2. \A k \in 1..MaxLoads : Shape(bf'[k]) /\ (bf'[k].pc # "none" => k <= gen)
    BY <1>2, <2>1 DEF RunInv
  <2> QED BY <2>2 DEF Shape
<1>4. ASSUME Loading PROVE gen >= 1 /\ bf'[gen].pc = "none" /\ Cancelled(g)
  <2>1. gen >= 1 /\ bf[gen].pc = "none"
    BY <1>4 DEF RunInv
  <2>2. gen \in 1..MaxLoads /\ gen # g
    BY <1>2, <2>1, LibraryAssumption DEF Types
  <2> QED BY <1>2, <2>1, <2>2 DEF Cancelled
<1>5. \A f \in Files : stored'[f].stamp = stored[f].stamp
  <2>1. CASE Commit(g)
    BY <2>1, CommitEntry
  <2>2. CASE ~Commit(g)
    BY <2>2 DEF Backfill, ListPending, ReadTags, Decode, Lock, Unlock, SendIds
  <2> QED BY <2>1, <2>2
<1>6. w.pc = "loaded" => stored' = stored /\ Unlocked'
  BY <1>4, LateThread DEF RunInv, Loading
<1> QED BY <1>1, <1>3, <1>4, <1>5, <1>6 DEF RunInv, Loading, ShowsIds

\* Where each of the worker's steps takes it.
LEMMA WorkerGoes ==
    ASSUME Types
    PROVE  /\ LoadCache => w.pc = "load" /\ w'.pc = "scan"
           /\ ParseFile => w.pc = "parse" /\ w'.pc = "scan" /\ w'.dirty
           /\ Checkpoint => w.pc = "scan" /\ w'.pc = "scan"
           /\ FinishScan => w.pc = "scan" /\ w'.pc = "loaded"
           /\ Loaded => w.pc = "loaded" /\ w'.pc = "idle"
           /\ CopyCache => w.pc = "copy" /\ w'.pc = "reread"
           /\ SaveReread => w.pc = "reread" /\ w'.pc = "reread_done"
           /\ RereadComplete => w.pc = "reread_done" /\ w'.pc = "idle"
           /\ \A f \in Files : StatFile(f) => w.pc = "scan" /\ w'.pc \in {"scan", "parse"}
           /\ \A f \in Files : Reread(f) => w.pc = "reread" /\ w'.pc = "reread"
<1>1. w \in Workers(last)
  BY DEF Types, Typed
<1>2. LoadCache => w.pc = "load" /\ w'.pc = "scan"
  BY <1>1 DEF LoadCache, Workers
<1>3. ParseFile => w.pc = "parse" /\ w'.pc = "scan" /\ w'.dirty
  BY <1>1 DEF ParseFile, Workers
<1>4. Checkpoint => w.pc = "scan" /\ w'.pc = "scan"
  BY <1>1 DEF Checkpoint, Workers
<1>5. FinishScan => w.pc = "scan" /\ w'.pc = "loaded"
  BY DEF FinishScan, Idle
<1>6. /\ Loaded => w.pc = "loaded" /\ w'.pc = "idle"
      /\ RereadComplete => w.pc = "reread_done" /\ w'.pc = "idle"
  BY DEF Loaded, RereadComplete, Idle
<1>7. /\ CopyCache => w.pc = "copy" /\ w'.pc = "reread"
      /\ SaveReread => w.pc = "reread" /\ w'.pc = "reread_done"
  BY <1>1 DEF CopyCache, SaveReread, Workers
<1>8. \A f \in Files : StatFile(f) => w.pc = "scan" /\ w'.pc \in {"scan", "parse"}
  BY <1>1 DEF StatFile, Workers
<1>9. \A f \in Files : Reread(f) => w.pc = "reread" /\ w'.pc = "reread"
  BY <1>1 DEF Reread, Workers
<1> QED BY <1>2, <1>3, <1>4, <1>5, <1>6, <1>7, <1>8, <1>9

LEMMA WorkerRun ==
    ASSUME Types, ScanInv, RunInv, LoadLibrary \/ WorkerStep \/ Checkpoint \/ Quit
    PROVE  RunInv'
<1>1. /\ w \in Workers(last) /\ w.work \in Caches(last) /\ stored \in Caches(last)
      /\ gen \in 0..MaxLoads /\ gen <= used.loads /\ used.loads \in 0..MaxLoads
      /\ bf \in [1..MaxLoads -> Threads(last)] /\ MaxLoads \in Nat
  BY LibraryAssumption DEF Types, Typed, Workers
<1>2. /\ \A g \in 1..MaxLoads : Shape(bf[g]) /\ (bf[g].pc # "none" => g <= gen)
      /\ Loading => gen >= 1 /\ bf[gen].pc = "none"
  BY DEF RunInv
<1>3. CASE LoadLibrary
  <2>1. /\ w'.pc = "load" /\ gen' = gen + 1 /\ bf' = bf /\ gen + 1 \in 1..MaxLoads
    BY <1>1, <1>3 DEF LoadLibrary, Workers
  <2>2. bf[gen + 1].pc = "none"
    BY <1>1, <1>2, <2>1
  <2>3. \A g \in 1..MaxLoads : Shape(bf'[g]) /\ (bf'[g].pc # "none" => g <= gen')
    BY <1>1, <1>2, <2>1
  <2> QED BY <1>1, <2>1, <2>2, <2>3 DEF RunInv, Loading, Shape
<1>4. CASE Quit
  <2>1. w' = Idle /\ bf' = [g \in 1..MaxLoads |-> NoThread]
    BY <1>4 DEF Quit
  <2>2. \A g \in 1..MaxLoads : bf'[g] = NoThread
    BY <2>1
  <2>3. Shape(NoThread) /\ NoThread.pc = "none" /\ w'.pc = "idle"
    BY <2>1 DEF Shape, NoThread, Idle
  <2> QED BY <2>2, <2>3 DEF RunInv, Loading, Shape
<1>5. CASE Loaded
  <2>1. w'.pc = "idle" /\ gen' = gen /\ bf' = [bf EXCEPT ![gen] = [NoThread EXCEPT !.pc = "start"]]
        /\ w.pc = "loaded"
    BY <1>5 DEF Loaded, Idle
  <2>2. PICK t : t = [NoThread EXCEPT !.pc = "start"]
    OBVIOUS
  <2>3. Shape(t)
    BY <2>2 DEF Shape, NoThread
  <2>4. gen \in 1..MaxLoads
    BY <1>1, <1>2, <2>1 DEF Loading
  <2>5. \A g \in 1..MaxLoads : Shape(bf'[g]) /\ (bf'[g].pc # "none" => g <= gen')
    BY <1>1, <1>2, <2>1, <2>2, <2>3, <2>4
  <2> QED BY <2>1, <2>5 DEF RunInv, Loading, Shape
<1>6. CASE \/ LoadCache \/ ParseFile \/ FinishScan \/ CopyCache \/ SaveReread \/ Checkpoint
           \/ RereadComplete \/ \E f \in Files : StatFile(f) \/ Reread(f)
  <2>1. UNCHANGED <<bf, gen, used>>
    BY <1>6 DEF LoadCache, ParseFile, FinishScan, CopyCache, SaveReread, Checkpoint,
       RereadComplete, StatFile, Reread
  <2>2. \A g \in 1..MaxLoads : Shape(bf[g])' /\ (bf'[g].pc # "none" => g <= gen')
    BY <1>2, <2>1 DEF Shape
  <2>3. Loading' => Loading
    BY <1>6, WorkerGoes DEF Loading
  <2>4. used'.rereads = 0 => w'.pc \notin {"copy", "reread", "reread_done"}
    BY <1>6, <2>1, WorkerGoes DEF RunInv
  <2>5. w'.pc \in {"scan", "parse"} /\ ~w'.dirty
         => \A f \in Files : w'.work[f].stamp = stored'[f].stamp
    <3>1. CASE LoadCache
      BY <1>1, <3>1 DEF LoadCache, Workers
    <3>2. CASE ParseFile
      BY <3>2, WorkerGoes
    <3>3. CASE FinishScan \/ RereadComplete
      BY <3>3, WorkerGoes
    <3>4. CASE CopyCache \/ SaveReread
      BY <1>1, <3>4 DEF CopyCache, SaveReread, Workers
    <3>5. CASE Checkpoint
      <4>1. w.pc = "scan" /\ Unlocked /\ w'.work = w.work /\ stored' = Finished(w.work)
        BY <1>1, <3>5 DEF Checkpoint, Workers
      <4> QED BY <1>1, <4>1, FinishedFollows
    <3>6. ASSUME NEW f \in Files, StatFile(f) \/ Reread(f)
          PROVE  \/ w'.pc = "reread"
                 \/ w.pc = "scan" /\ w'.work = w.work /\ stored' = stored /\ w'.dirty = w.dirty
      BY <1>1, <3>6 DEF StatFile, Reread, Workers
    <3>7. CASE \E f \in Files : StatFile(f) \/ Reread(f)
      BY <3>6, <3>7 DEF RunInv
    <3> QED BY <1>6, <3>1, <3>2, <3>3, <3>4, <3>5, <3>7
  <2>6. w'.pc = "loaded" => Unlocked' /\ \A f \in Files : ShowsIds(w.work, f)'
    <3>1. CASE FinishScan
      <4>1. PICK kept, final : kept = Kept(w.work) /\ final = Finished(kept)
        OBVIOUS
      <4>2. /\ w.pc = "scan" /\ Unlocked /\ w'.work = final
            /\ stored' = IF w.dirty \/ kept # w.work THEN final ELSE stored
        BY <3>1, <4>1 DEF FinishScan, Idle
      <4>3. Unlocked'
        BY <2>1, <4>2 DEF Unlocked
      <4>4. CASE stored' = final
        BY <4>2, <4>3, <4>4 DEF ShowsIds
      <4>5. ASSUME stored' = stored, ~w.dirty, kept = w.work, NEW f \in Files PROVE ShowsIds(w.work, f)'
        <5>1. w.work[f].stamp = stored[f].stamp
          BY <4>2, <4>5 DEF RunInv
        <5>2. final[f].stamp = stored[f].stamp /\ (stored[f].id # None => final[f].id = stored[f].id)
          BY <1>1, <4>1, <4>2, <4>5, <5>1, FinishedFollows
        <5> QED BY <4>2, <4>5, <5>2 DEF ShowsIds
      <4> QED BY <4>2, <4>3, <4>4, <4>5
    <3>2. CASE ~FinishScan
      <4>1. w'.pc # "loaded"
        BY <1>6, <3>2, WorkerGoes
      <4> QED BY <4>1
    <3> QED BY <3>1, <3>2
  <2> QED BY <1>2, <2>1, <2>2, <2>3, <2>4, <2>5, <2>6 DEF RunInv
<1> QED BY <1>3, <1>4, <1>5, <1>6 DEF WorkerStep

LEMMA RunNext == Types /\ ScanInv /\ RunInv /\ [Next]_vars => RunInv'
<1> SUFFICES ASSUME Types, ScanInv, RunInv, [Next]_vars PROVE RunInv'
  OBVIOUS
<1>1. CASE UNCHANGED vars \/ Handle \/ \E f \in Files : Edit(f)
  <2>1. UNCHANGED <<stored, w, bf, gen>> /\ used'.rereads = used.rereads
    BY <1>1 DEF vars, Handle, Edit, Upset, Count, Types
  <2> QED BY <2>1 DEF RunInv, Loading, Shape, ShowsIds, Unlocked
<1>2. CASE LoadLibrary \/ WorkerStep \/ Checkpoint \/ Quit
  BY <1>2, WorkerRun
<1>3. CASE \E g \in 1..MaxLoads : Backfill(g)
  BY <1>3, BackfillRun
<1>4. CASE \E src, dst \in Files : ApplyTags(src, dst)
  <2>1. /\ w'.pc = "copy" /\ UNCHANGED <<stored, bf, gen>> /\ used'.rereads = used.rereads + 1
        /\ used.rereads \in Nat
    BY <1>4 DEF ApplyTags, Types, Typed, Workers, Upset, Count
  <2> QED BY <2>1 DEF RunInv, Loading, Shape
<1> QED BY <1>1, <1>2, <1>3, <1>4 DEF Next

About(S, f) == \E p \in S : p.f = f /\ p.stamp = stored[f].stamp
Covered(t, f) ==
    t.pc = "start" \/ About(t.pending, f) \/ About(t.hits, f) \/ About(t.misses, f)
Lacks(f) == stored[f] # NoEntry /\ stored[f].id = None /\ ~stored[f].failed

\* The library the App has after the first i of the events in the channel, when the
\* i-th of them (or, for 0, what the App has now) is the last one that is a library.
LibAt(i) == IF i = 0 THEN lib ELSE events[i].lib
LastLib(i) ==
    /\ i > 0 => events[i].kind = "library"
    /\ \A j \in (i + 1)..Len(events) : events[j].kind # "library"
NamedIn(S, f) == \E h \in S : h.f = f
InHand(f) == \E g \in 1..MaxLoads : NamedIn(bf[g].out, f)
WillShow(i, f) ==
    \/ LibAt(i)[f].there /\ LibAt(i)[f].meta = stored[f].meta => LibAt(i)[f].id # None
    \/ \E j \in (i + 1)..Len(events) : NamedIn(events[j].ids, f)
    \/ InHand(f)
Shown(f) == \A i \in 0..Len(events) : LastLib(i) => WillShow(i, f)

Between == used.rereads = 0 /\ w.pc = "idle" /\ gen > 0

Served ==
    Between => \A f \in Files : /\ Lacks(f) => Covered(bf[gen], f)
                                /\ stored[f].id # None => Shown(f)

\* What a commit writes into an entry.
LEMMA CommitFills ==
    ASSUME Types, NEW g \in 1..MaxLoads, Commit(g), NEW f \in Files
    PROVE  /\ stored'[f].meta = stored[f].meta
           /\ \/ /\ NamedIn(Landing(g), f) /\ stored'[f].id # None
              \/ /\ ~NamedIn(Landing(g), f) /\ stored'[f].id = stored[f].id
                 /\ NamedIn(Missing(g), f) \/ stored[f].failed => stored'[f].failed
<1> DEFINE in == Landing(g)
           out == Missing(g)
           IdFor == (CHOOSE h \in in : h.f = f).id
<1>1. stored'[f] = IF \E h \in in : h.f = f
                   THEN [stored[f] EXCEPT !.id = IdFor, !.failed = FALSE]
                   ELSE IF \E p \in out : p.f = f THEN [stored[f] EXCEPT !.failed = TRUE]
                   ELSE stored[f]
  BY DEF Commit
<1>2. /\ stored[f] \in Entries(last) /\ bf[g] \in Threads(last) /\ in \subseteq Hits(last)
  BY DEF Types, Typed, Caches, Threads, Landing
<1>3. CASE \E h \in in : h.f = f
  <2>1. (CHOOSE h \in in : h.f = f) \in in
    BY <1>3
  <2>2. IdFor # None
    BY <1>2, <2>1 DEF Hits, None
  <2>3. stored'[f] = [stored[f] EXCEPT !.id = IdFor, !.failed = FALSE]
    BY <1>1, <1>3
  <2>4. NamedIn(in, f)
    BY <1>3 DEF NamedIn
  <2> HIDE DEF IdFor
  <2>5. stored'[f].meta = stored[f].meta /\ stored'[f].id = IdFor
    BY <1>2, <2>3 DEF Entries
  <2> QED BY <2>2, <2>4, <2>5
<1>4. CASE ~(\E h \in in : h.f = f)
  <2>1. stored'[f] = IF \E p \in out : p.f = f THEN [stored[f] EXCEPT !.failed = TRUE] ELSE stored[f]
    BY <1>1, <1>4
  <2>2. ~NamedIn(in, f) /\ (NamedIn(out, f) <=> \E p \in out : p.f = f)
    BY <1>4 DEF NamedIn
  <2> HIDE DEF in, out
  <2>3. /\ stored'[f].meta = stored[f].meta /\ stored'[f].id = stored[f].id
        /\ (\E p \in out : p.f = f) => stored'[f].failed
        /\ stored[f].failed => stored'[f].failed
    BY <1>2, <2>1 DEF Entries
  <2> QED BY <2>2, <2>3 DEF in, out
<1> QED BY <1>3, <1>4

\* What any step of a thread leaves of an entry.
LEMMA BackfillEntry ==
    ASSUME Types, NEW g \in 1..MaxLoads, Backfill(g), NEW f \in Files
    PROVE  /\ stored'[f].stamp = stored[f].stamp /\ stored'[f].meta = stored[f].meta
           /\ Lacks(f)' => Lacks(f)
           /\ stored'[f].id # None => stored[f].id # None \/ NamedIn(bf'[g].out, f)
<1>1. CASE Commit(g)
  <2>1. bf'[g].out = Landing(g)
    BY <1>1, CommittedThread
  <2> QED BY <1>1, <2>1, CommitEntry, CommitFills DEF Lacks
<1>2. CASE ~Commit(g)
  <2>1. stored' = stored
    BY <1>2 DEF Backfill, ListPending, ReadTags, Decode, Lock, Unlock, SendIds
  <2> QED BY <2>1 DEF Lacks
<1> QED BY <1>1, <1>2

\* The thread of the generation drops an entry from its lists only when it has an
\* id, or is known to have none.
LEMMA ThreadCovers ==
    ASSUME Types, NEW g \in 1..MaxLoads, Backfill(g), Shape(bf[g]), ~Cancelled(g),
           NEW f \in Files, Lacks(f)', Covered(bf[g], f)
    PROVE  Covered(bf[g], f)'
<1>1. stored'[f].stamp = stored[f].stamp /\ Lacks(f)
  BY BackfillEntry
<1>2. PICK s : s = stored[f].stamp /\ s = stored'[f].stamp
  BY <1>1
<1> DEFINE On(S) == \E p \in S : p.f = f /\ p.stamp = s
<1>3. bf[g].pc = "start" \/ On(bf[g].pending) \/ On(bf[g].hits) \/ On(bf[g].misses)
  BY <1>2 DEF Covered, About
<1>4. SUFFICES On(bf'[g].pending) \/ On(bf'[g].hits) \/ On(bf'[g].misses)
  BY <1>2 DEF Covered, About
<1>5. CASE ListPending(g)
  <2> DEFINE lack == {k \in Files : stored[k] # NoEntry /\ stored[k].id = None /\ ~stored[k].failed}
  <2>1. f \in lack
    BY <1>1 DEF Lacks
  <2>2. bf'[g].pending = {[f |-> k, stamp |-> stored[k].stamp] : k \in lack}
    BY <1>5, <2>1, ListedThread
  <2>3. [f |-> f, stamp |-> stored[f].stamp] \in bf'[g].pending
    BY <2>1, <2>2
  <2> QED BY <1>2, <2>3
<1>6. CASE ReadTags(g)
  BY <1>3, <1>6, ReadThread DEF Shape
<1>7. CASE Decode(g)
  <2>1. On(bf[g].pending)
    BY <1>3, <1>7, DecodedThread DEF Shape
  <2>2. PICK p \in bf[g].pending :
           /\ bf'[g].pending = bf[g].pending \ {p}
           /\ bf'[g].misses = {p} \/ \E h \in bf'[g].hits : h.f = p.f /\ h.stamp = p.stamp
    BY <1>7, <2>1, DecodedThread
  <2> QED BY <2>1, <2>2
<1>8. CASE Lock(g)
  BY <1>3, <1>8, LockedThread
<1>9. CASE Commit(g)
  <2>1. /\ stored[f].id = None /\ ~stored[f].failed
        /\ ~NamedIn(Landing(g), f) /\ ~NamedIn(Missing(g), f)
    <3>1. stored'[f].id = None /\ ~stored'[f].failed
      BY DEF Lacks
    <3> QED BY <1>1, <1>9, <3>1, CommitFills DEF Lacks
  <2>2. bf'[g].pending = {p \in bf[g].pending : \A h \in Landing(g) : h.f # p.f} /\ bf[g].pc = "locked"
    BY <1>9, CommittedThread
  <2>3. ~On(bf[g].hits) /\ ~On(bf[g].misses)
    BY <1>2, <2>1 DEF NamedIn, Landing, Missing, Open
  <2>4. PICK p \in bf[g].pending : p.f = f /\ p.stamp = s
    BY <1>3, <2>2, <2>3
  <2>5. p \in bf'[g].pending
    BY <2>1, <2>2, <2>4 DEF NamedIn
  <2> QED BY <2>4, <2>5
<1>10. CASE Unlock(g) \/ SendIds(g)
  <2>1. /\ bf[g].pc # "start" /\ bf'[g].pending = bf[g].pending
        /\ bf'[g].hits = bf[g].hits /\ bf'[g].misses = bf[g].misses
    BY <1>10, SentThread
  <2> QED BY <1>3, <2>1
<1> QED BY <1>5, <1>6, <1>7, <1>8, <1>9, <1>10 DEF Backfill

\* An id that a thread has in hand it keeps until it has sent it.
LEMMA HandKept ==
    ASSUME Types, RunInv, NEW g \in 1..MaxLoads, Backfill(g), NEW f \in Files, InHand(f)
    PROVE  InHand(f)' \/ (SendIds(g) /\ NamedIn(bf[g].out, f))
<1>1. PICK k \in 1..MaxLoads : NamedIn(bf[k].out, f)
  BY DEF InHand
<1>2. CASE k # g
  BY <1>1, <1>2, ThreadStep DEF InHand, NamedIn
<1>3. CASE k = g
  <2>1. bf[g].pc \in {"written", "send"}
    BY <1>1, <1>3 DEF RunInv, Shape, NamedIn
  <2>2. Unlock(g) \/ SendIds(g)
    BY <2>1 DEF Backfill, ListPending, ReadTags, Decode, Lock, Commit
  <2>3. Unlock(g) => bf'[g].out = bf[g].out
    BY SentThread
  <2> QED BY <1>1, <1>3, <2>2, <2>3 DEF InHand, NamedIn
<1> QED BY <1>2, <1>3

\* An event at the end of the channel.
LEMMA AppendedEvents ==
    ASSUME Types, NEW e, events' = Append(events, e)
    PROVE  /\ Len(events) \in Nat /\ Len(events') = Len(events) + 1
           /\ \A i \in 1..Len(events) : events'[i] = events[i]
           /\ events'[Len(events) + 1] = e
<1>1. events \in Seq(EventsOf(last))
  BY DEF Types, Typed
<1> QED BY <1>1

LEMMA BackfillShown ==
    ASSUME Types, RunInv, NEW g \in 1..MaxLoads, Backfill(g), NEW f \in Files,
           stored[f].id # None => Shown(f), stored'[f].id # None
    PROVE  Shown(f)'
<1>1. lib' = lib /\ stored'[f].meta = stored[f].meta
  <2>1. lib' = lib
    BY DEF Backfill, ListPending, ReadTags, Decode, Lock, Commit, Unlock, SendIds
  <2> QED BY <2>1, BackfillEntry
<1>2. CASE ~SendIds(g)
  <2>1. events' = events
    BY <1>2 DEF Backfill, ListPending, ReadTags, Decode, Lock, Commit, Unlock
  <2>2. CASE NamedIn(bf'[g].out, f)
    <3>1. InHand(f)'
      BY <2>2 DEF InHand, NamedIn
    <3> QED BY <3>1 DEF Shown, WillShow
  <2>3. CASE ~NamedIn(bf'[g].out, f)
    <3>1. Shown(f)
      BY <2>3, BackfillEntry
    <3>2. InHand(f) => InHand(f)'
      BY <1>2, HandKept
    <3> QED BY <1>1, <2>1, <3>1, <3>2 DEF Shown, LastLib, LibAt, WillShow, NamedIn
  <2> QED BY <2>2, <2>3
<1>3. CASE SendIds(g)
  <2>1. stored' = stored /\ events' = Append(events, [kind |-> "ids", ids |-> bf[g].out])
    BY <1>3 DEF SendIds
  <2>2. PICK n \in Nat : /\ n = Len(events) /\ Len(events') = n + 1
                         /\ \A i \in 1..n : events'[i] = events[i]
                         /\ events'[n + 1].kind = "ids" /\ events'[n + 1].ids = bf[g].out
    BY <2>1, AppendedEvents
  <2>3. Shown(f)
    BY <2>1
  <2>4. InHand(f) => InHand(f)' \/ NamedIn(events'[n + 1].ids, f)
    BY <2>2, HandKept
  <2>5. ASSUME NEW i \in 0..(n + 1), LastLib(i)' PROVE WillShow(i, f)'
    <3>1. i <= n
      BY <2>2, <2>5 DEF LastLib
    <3>2. LastLib(i) /\ LibAt(i)' = LibAt(i)
      BY <1>1, <2>2, <2>5, <3>1 DEF LastLib, LibAt
    <3>3. WillShow(i, f)
      BY <2>2, <2>3, <3>1, <3>2 DEF Shown
    <3>4. CASE LibAt(i)[f].there /\ LibAt(i)[f].meta = stored[f].meta => LibAt(i)[f].id # None
      BY <2>1, <3>2, <3>4 DEF WillShow
    <3>5. CASE \E j \in (i + 1)..Len(events) : NamedIn(events[j].ids, f)
      <4>1. PICK j \in (i + 1)..n : NamedIn(events[j].ids, f)
        BY <2>2, <3>5
      <4>2. j \in (i + 1)..Len(events') /\ NamedIn(events'[j].ids, f)
        BY <2>2, <4>1
      <4> QED BY <4>2 DEF WillShow, NamedIn
    <3>6. CASE InHand(f)
      <4>1. n + 1 \in (i + 1)..Len(events')
        BY <2>2, <3>1
      <4> QED BY <2>4, <3>6, <4>1 DEF WillShow, NamedIn
    <3> QED BY <3>3, <3>4, <3>5, <3>6 DEF WillShow
  <2> QED BY <2>2, <2>5 DEF Shown
<1> QED BY <1>2, <1>3

LEMMA BackfillServed ==
    ASSUME Types, RunInv, Served, NEW g \in 1..MaxLoads, Backfill(g)
    PROVE  Served'
<1>1. UNCHANGED <<w, gen, used>>
  BY DEF Backfill, ListPending, ReadTags, Decode, Lock, Commit, Unlock, SendIds
<1> SUFFICES ASSUME Between, NEW f \in Files
             PROVE  /\ Lacks(f)' => Covered(bf[gen], f)'
                    /\ stored'[f].id # None => Shown(f)'
  BY <1>1 DEF Served, Between
<1>2. gen \in 1..MaxLoads
  BY LibraryAssumption DEF Between, Types
<1>3. ASSUME Lacks(f)' PROVE Covered(bf[gen], f)'
  <2>1. Covered(bf[gen], f)
    BY <1>3, BackfillEntry DEF Served
  <2>2. CASE g = gen
    <3>1. Shape(bf[g]) /\ ~Cancelled(g)
      BY <2>2 DEF RunInv, Cancelled
    <3>2. Covered(bf[g], f)'
      BY <1>3, <2>1, <2>2, <3>1, ThreadCovers
    <3> QED BY <1>1, <2>2, <3>2
  <2>3. CASE g # gen
    <3>1. bf'[gen] = bf[gen] /\ stored'[f].stamp = stored[f].stamp
      BY <1>2, <2>3, ThreadStep, BackfillEntry
    <3> QED BY <1>1, <2>1, <3>1 DEF Covered, About
  <2> QED BY <2>2, <2>3
<1>4. stored'[f].id # None => Shown(f)'
  BY BackfillShown DEF Served
<1> QED BY <1>3, <1>4

\* A scan that is over sends its library, and its thread has all of the cache before it.
LEMMA LoadedServed ==
    ASSUME Types, RunInv, Loaded
    PROVE  Served'
<1>1. /\ w.pc = "loaded" /\ UNCHANGED <<stored, gen, lib>>
      /\ events' = Append(events, [kind |-> "library", lib |-> Tracks(w.work)])
      /\ bf' = [bf EXCEPT ![gen] = [NoThread EXCEPT !.pc = "start"]]
  BY DEF Loaded
<1>2. gen \in 1..MaxLoads
  BY <1>1, LibraryAssumption DEF RunInv, Loading, Types
<1>3. bf'[gen].pc = "start"
  BY <1>1, <1>2 DEF Types, Typed, NoThread
<1>4. PICK n \in Nat : /\ n = Len(events) /\ Len(events') = n + 1
                       /\ events'[n + 1].kind = "library" /\ events'[n + 1].lib = Tracks(w.work)
  BY <1>1, AppendedEvents
<1>5. ASSUME NEW f \in Files, stored[f].id # None, NEW i \in 0..(n + 1), LastLib(i)'
      PROVE  WillShow(i, f)'
  <2>1. i = n + 1
    <3>1. CASE i <= n
      <4>1. n + 1 \in (i + 1)..Len(events')
        BY <1>4, <3>1
      <4> QED BY <1>4, <1>5, <4>1 DEF LastLib
    <3> QED BY <3>1
  <2>2. LibAt(i)' = Tracks(w.work)
    BY <1>4, <2>1 DEF LibAt
  <2>3. ShowsIds(w.work, f)
    BY <1>1 DEF RunInv
  <2>4. /\ Tracks(w.work)[f].there <=> w.work[f] # NoEntry
        /\ Tracks(w.work)[f].meta = w.work[f].meta /\ Tracks(w.work)[f].id = w.work[f].id
    BY DEF Tracks
  <2> QED BY <1>1, <1>5, <2>2, <2>3, <2>4 DEF WillShow, ShowsIds
<1>6. \A f \in Files : Covered(bf[gen], f)'
  BY <1>1, <1>3 DEF Covered
<1> QED BY <1>1, <1>4, <1>5, <1>6 DEF Served, Shown

\* The App takes the first event of the channel: the places of the others move up.
LEMMA HandleShown ==
    ASSUME Types, Handle, NEW f \in Files, Shown(f)
    PROVE  Shown(f)'
<1>1. /\ events # <<>> /\ events' = Tail(events) /\ UNCHANGED <<stored, bf>>
      /\ events \in Seq(EventsOf(last))
      /\ lib' = IF Head(events).kind = "library" THEN Head(events).lib
                ELSE WithIds(Head(events).ids)
  BY DEF Handle, Types, Typed
<1>2. PICK n \in Nat : /\ Len(events) = n + 1 /\ Len(events') = n
                       /\ \A i \in 1..n : events'[i] = events[i + 1]
                       /\ Head(events) = events[1] /\ events[1] \in EventsOf(last)
  <2>1. Len(events) \in Nat \ {0} /\ Len(Tail(events)) = Len(events) - 1
    BY <1>1, EmptySeq
  <2>2. \A i \in 1..(Len(events) - 1) : Tail(events)[i] = events[i + 1]
    BY <1>1, <2>1
  <2>3. Head(events) = events[1] /\ events[1] \in EventsOf(last)
    BY <1>1, <2>1
  <2>4. Len(events) - 1 \in Nat /\ Len(events) = (Len(events) - 1) + 1
    BY <2>1
  <2> WITNESS Len(events) - 1 \in Nat
  <2> QED BY <1>1, <2>1, <2>2, <2>3, <2>4
<1> SUFFICES ASSUME NEW i \in 0..n, LastLib(i)' PROVE WillShow(i, f)'
  BY <1>2 DEF Shown
<1>3. \A j \in (i + 2)..(n + 1) : /\ events[j].kind # "library"
                                  /\ NamedIn(events[j].ids, f) => WillShow(i, f)'
  <2> TAKE j \in (i + 2)..(n + 1)
  <2>1. j - 1 \in (i + 1)..Len(events') /\ j - 1 \in 1..n /\ events'[j - 1] = events[j]
    BY <1>2
  <2> QED BY <2>1 DEF LastLib, WillShow, NamedIn
<1>4. InHand(f) => WillShow(i, f)'
  BY <1>1 DEF WillShow, InHand, NamedIn
<1>5. CASE i > 0 \/ (i = 0 /\ events[1].kind = "library")
  <2>1. /\ LastLib(i + 1) /\ LibAt(i)' = LibAt(i + 1)
    BY <1>1, <1>2, <1>3, <1>5 DEF LastLib, LibAt
  <2>2. WillShow(i + 1, f)
    BY <1>2, <2>1 DEF Shown
  <2>3. CASE LibAt(i + 1)[f].there /\ LibAt(i + 1)[f].meta = stored[f].meta => LibAt(i + 1)[f].id # None
    BY <1>1, <2>1, <2>3 DEF WillShow
  <2> QED BY <1>2, <1>3, <1>4, <2>2, <2>3 DEF WillShow
<1>6. CASE i = 0 /\ events[1].kind # "library"
  <2>1. /\ events[1].ids \subseteq Hits(last) /\ lib' = WithIds(events[1].ids)
    BY <1>1, <1>2, <1>6 DEF EventsOf
  <2>2. LastLib(0) /\ LibAt(0) = lib /\ LibAt(0)' = lib'
    BY <1>2, <1>3, <1>6 DEF LastLib, LibAt
  <2>3. WillShow(0, f)
    BY <1>2, <2>2 DEF Shown
  <2>4. /\ lib'[f].there = lib[f].there /\ lib'[f].meta = lib[f].meta
        /\ lib[f].id # None => lib'[f].id = lib[f].id
        /\ lib[f].there /\ NamedIn(events[1].ids, f) => lib'[f].id # None
    <3>1. lib[f] \in TracksOf(last)
      BY DEF Types, Typed, Libs
    <3>2. PICK h : h = CHOOSE x \in events[1].ids : x.f = f
      OBVIOUS
    <3>3. lib'[f] = IF lib[f].there /\ lib[f].id = None /\ NamedIn(events[1].ids, f)
                    THEN [lib[f] EXCEPT !.id = h.id] ELSE lib[f]
      BY <2>1, <3>2 DEF WithIds, NamedIn
    <3>4. NamedIn(events[1].ids, f) => h.id # None
      BY <2>1, <3>2 DEF NamedIn, Hits, None
    <3> QED BY <3>1, <3>3, <3>4 DEF TracksOf
  <2>5. CASE lib[f].there /\ lib[f].meta = stored[f].meta => lib[f].id # None
    BY <1>1, <1>6, <2>2, <2>4, <2>5 DEF WillShow
  <2>6. ASSUME NEW j \in 1..(n + 1), NamedIn(events[j].ids, f) PROVE WillShow(0, f)'
    <3>1. CASE j = 1
      BY <2>2, <2>4, <2>6, <3>1 DEF WillShow
    <3>2. CASE j # 1
      BY <1>3, <1>6, <2>6, <3>2
    <3> QED BY <3>1, <3>2
  <2> QED BY <1>2, <1>4, <1>6, <2>2, <2>3, <2>5, <2>6 DEF WillShow
<1> QED BY <1>5, <1>6

LEMMA ServedNext == Types /\ RunInv /\ Served /\ [Next]_vars => Served'
<1> SUFFICES ASSUME Types, RunInv, Served, [Next]_vars PROVE Served'
  OBVIOUS
<1>1. CASE UNCHANGED vars \/ \E f \in Files : Edit(f)
  <2>1. UNCHANGED <<stored, w, bf, gen, events, lib>> /\ used'.rereads = used.rereads
    BY <1>1 DEF vars, Edit, Upset, Count, Types
  <2>2. /\ Between' = Between /\ \A f \in Files : Lacks(f)' = Lacks(f)
    BY <2>1 DEF Between, Lacks
  <2>3. \A f \in Files : Covered(bf[gen], f)' = Covered(bf[gen], f) /\ Shown(f)' = Shown(f)
    BY <2>1 DEF Covered, About, Shown, LastLib, LibAt, WillShow, InHand, NamedIn
  <2> QED BY <2>1, <2>2, <2>3 DEF Served
<1>2. CASE Handle
  <2>1. UNCHANGED <<stored, w, bf, gen, used>>
    BY <1>2 DEF Handle
  <2>2. \A f \in Files : Shown(f) => Shown(f)'
    BY <1>2, HandleShown
  <2>3. \A f \in Files : Covered(bf[gen], f) => Covered(bf[gen], f)'
    BY <2>1 DEF Covered, About
  <2> QED BY <2>1, <2>2, <2>3 DEF Served, Between, Lacks
<1>3. CASE \E g \in 1..MaxLoads : Backfill(g)
  BY <1>3, BackfillServed
<1>4. CASE Loaded
  BY <1>4, LoadedServed
<1>5. CASE LoadLibrary \/ Quit \/ (WorkerStep /\ ~Loaded) \/ Checkpoint \/ \E src, dst \in Files : ApplyTags(src, dst)
  <2>1. CASE LoadLibrary
    <3>1. w'.pc = "load"
      BY <2>1 DEF LoadLibrary, Types, Typed, Workers
    <3> QED BY <3>1 DEF Served, Between
  <2>2. CASE Quit
    <3>1. gen' = 0
      BY <2>2 DEF Quit
    <3> QED BY <3>1 DEF Served, Between
  <2>3. CASE \E src, dst \in Files : ApplyTags(src, dst)
    <3>1. w'.pc = "copy"
      BY <2>3 DEF ApplyTags, Types, Typed, Workers
    <3> QED BY <3>1 DEF Served, Between
  <2>4. CASE (WorkerStep /\ ~Loaded) \/ Checkpoint
    <3>1. w'.pc # "idle" \/ RereadComplete
      BY <2>4, WorkerGoes DEF WorkerStep
    <3>2. RereadComplete => used'.rereads # 0
      BY WorkerGoes DEF RunInv, RereadComplete
    <3> QED BY <3>1, <3>2 DEF Served, Between
  <2> QED BY <1>5, <2>1, <2>2, <2>3, <2>4
<1> QED BY <1>1, <1>2, <1>3, <1>4, <1>5 DEF Next

LEMMA ServedIndexes == Types /\ RunInv /\ Served => Indexed
<1> SUFFICES ASSUME Types, RunInv, Served, AtRest, used.rereads = 0, NEW f \in Files,
                    stored[f] # NoEntry, lib[f].there, lib[f].meta = stored[f].meta
             PROVE  /\ stored[f].id # None => lib[f].id # None
                    /\ stored[f].id = None => stored[f].failed
  BY DEF Indexed
<1>1. Between /\ events = <<>> /\ gen \in 1..MaxLoads
  BY LibraryAssumption DEF AtRest, Between, Types
<1>2. ~InHand(f)
  BY DEF AtRest, RunInv, Shape, InHand, NamedIn
<1>3. ~Covered(bf[gen], f)
  BY <1>1 DEF AtRest, RunInv, Shape, Covered, About
<1>4. ASSUME stored[f].id # None PROVE lib[f].id # None
  <2>1. Len(events) = 0
    BY <1>1
  <2>2. LastLib(0) /\ 0 \in 0..Len(events) /\ \A j \in (0 + 1)..Len(events) : FALSE
    BY <2>1 DEF LastLib
  <2>3. WillShow(0, f)
    BY <1>1, <1>4, <2>2 DEF Served, Shown
  <2> QED BY <1>2, <2>2, <2>3 DEF WillShow, LibAt
<1>5. ~Lacks(f)
  BY <1>1, <1>3 DEF Served
<1> QED BY <1>4, <1>5 DEF Lacks

LEMMA InitServed == Init => Served
BY DEF Init, Served, Between

\* When worker, threads and events are at rest, the App shows an id for every file
\* whose id the cache has, and the cache lacks an id only of files that have been
\* tried (fingerprint.rs:271, background.rs:1318): no batch of ids is overtaken by a
\* later library that lacks them, and no file falls off the lists of the thread.
THEOREM IndexedHolds == Spec => []Indexed
<1>1. Init => Types /\ ScanInv /\ RunInv /\ Served
  BY InitTypes, InitScan, InitRun, InitServed
<1>2. Types /\ ScanInv /\ RunInv /\ Served /\ [Next]_vars => (Types /\ ScanInv /\ RunInv /\ Served)'
  BY TypesNext, ScanNext, RunNext, ServedNext
<1> QED BY <1>1, <1>2, ServedIndexes, PTL DEF Spec

(***************************************************************************)
(* RipImport: the import of a CD.                                          *)
(***************************************************************************)

LEMMA RipMin ==
    ASSUME NEW S \in SUBSET Nat, S # {}
    PROVE  Min(S) \in S /\ \A n \in S : Min(S) <= n
<1>1. \E m \in S : \A n \in S : m <= n
  <2>1. PICK m \in S : \A n \in S : ~ (<<n, m>> \in OpToRel(<, Nat))
    BY NatLessThanWellFounded, WFMin, Zenon
  <2>2. ASSUME NEW n \in S PROVE m <= n
    <3>1. <<n, m>> \in Nat \X Nat
      OBVIOUS
    <3>2. ~(n < m)
      BY <2>1, <3>1 DEF OpToRel
    <3> QED BY <3>2
  <2> QED BY <2>2
<1> QED BY <1>1 DEF Min

LEMMA RipTail ==
    ASSUME NEW S, NEW q \in Seq(S), q # << >>
    PROVE  /\ Head(q) \in S /\ Tail(q) \in Seq(S)
           /\ 1 \in DOMAIN q /\ Head(q) = q[1]
           /\ \A i \in DOMAIN Tail(q) : i + 1 \in DOMAIN q /\ Tail(q)[i] = q[i + 1]
<1>1. Len(q) \in Nat \ {0} /\ DOMAIN q = 1..Len(q)
  BY EmptySeq, LenProperties
<1>2. /\ Head(q) = q[1] /\ Head(q) \in S /\ Tail(q) \in Seq(S)
      /\ Len(Tail(q)) = Len(q) - 1
      /\ \A i \in 1..Len(Tail(q)) : Tail(q)[i] = q[i + 1]
  BY HeadTailProperties, ElementOfSeq
<1>3. DOMAIN Tail(q) = 1..(Len(q) - 1)
  BY <1>2, LenProperties
<1> QED BY <1>1, <1>2, <1>3

LEMMA RipAppend ==
    ASSUME NEW S, NEW q \in Seq(S), NEW m \in S
    PROVE  /\ Append(q, m) \in Seq(S)
           /\ \A i \in DOMAIN Append(q, m) :
                 \/ i \in DOMAIN q /\ Append(q, m)[i] = q[i]
                 \/ Append(q, m)[i] = m
<1>1. Len(q) \in Nat /\ DOMAIN q = 1..Len(q)
  BY LenProperties
<1>2. /\ Append(q, m) \in Seq(S)
      /\ Len(Append(q, m)) = Len(q) + 1
      /\ \A i \in 1..Len(q) : Append(q, m)[i] = q[i]
      /\ Append(q, m)[Len(q) + 1] = m
  BY AppendProperties
<1>3. DOMAIN Append(q, m) = 1..(Len(q) + 1)
  BY <1>1, <1>2, LenProperties
<1> QED BY <1>1, <1>2, <1>3

-----------------------------------------------------------------------------
(* The types, and the rows that are selected, asked for and still to do.    *)

RipCommand == Request \cup {Cancel, Load, Sync}
RipWorker  == Ripping \cup {Resting, [at |-> "sync"]}

\* A request lists rows of its release, and how many.
RipFits(c) == c.todo \subseteq Rows[c.rel] /\ c.total = Cardinality(c.todo)

RipRows ==
    /\ overlay # Absent => overlay.sel \subseteq Rows[overlay.rel] /\ rips < MaxRips
    /\ \A i \in DOMAIN cmds : IsRip(cmds[i]) => RipFits(cmds[i])
    /\ worker \in Ripping => worker.todo \subseteq Rows[worker.rel]
    /\ worker.at \in {"ffmpeg", "tag", "sweep"} =>
          worker.todo # {} /\ Min(worker.todo) \in Position[worker.rel]
    /\ At("check") => worker.todo # {}

RipBase == RipTypeOK /\ RipRows

LEMMA RipConstants ==
    /\ First \in Release /\ Default \in Ext
    /\ \A r \in Release : /\ Rows[r] \in SUBSET Nat /\ IsFiniteSet(Rows[r])
                          /\ Position[r] \subseteq Rows[r]
                          /\ \A p \in Rows[r] : p \in Nat /\ <<r, p>> \in Track
    /\ \A t \in Track, e \in Ext : <<t, e>> \in File
    /\ \A f \in File : f[1] \in Track /\ f[2] \in Ext /\ f = <<f[1], f[2]>>
    /\ Track \subseteq Release \X Nat
    /\ Absent # "old" /\ Absent # "ripped"
<1>1. First \in Release /\ Default \in Ext /\ Absent # "old" /\ Absent # "ripped"
  BY RipAssumption
<1>2. ASSUME NEW r \in Release
      PROVE  /\ Rows[r] \in SUBSET Nat /\ IsFiniteSet(Rows[r])
             /\ Position[r] \subseteq Rows[r]
             /\ \A p \in Rows[r] : p \in Nat /\ <<r, p>> \in Track
  <2>1. Rows[r] \in SUBSET (Nat \ {0}) /\ IsFiniteSet(Rows[r]) /\ Position[r] \subseteq Rows[r]
    BY RipAssumption
  <2>2. ASSUME NEW p \in Rows[r] PROVE <<r, p>> \in Track
    BY DEF Track
  <2> QED BY <2>1, <2>2
<1>3. Track \subseteq Release \X Nat
  BY <1>2 DEF Track
<1>4. /\ \A t \in Track, e \in Ext : <<t, e>> \in File
      /\ \A f \in File : f[1] \in Track /\ f[2] \in Ext /\ f = <<f[1], f[2]>>
  BY DEF File
<1> QED BY <1>1, <1>2, <1>3, <1>4

\* The track at hand is one of the library's.
LEMMA RipHand ==
    ASSUME RipBase, worker.at \in {"ffmpeg", "tag", "sweep", "check"}
    PROVE  /\ worker \in Ripping /\ worker.rel \in Release /\ worker.ext \in Ext
           /\ Min(worker.todo) \in worker.todo
           /\ This \in Track
<1>1. worker \in Ripping
  BY DEF RipBase, RipTypeOK, Resting
<1>2. worker.rel \in Release /\ worker.ext \in Ext /\ worker.todo \in SUBSET Nat
  BY <1>1 DEF Ripping
<1>3. worker.todo # {} /\ worker.todo \subseteq Rows[worker.rel]
  BY <1>1 DEF RipBase, RipRows, At
<1>4. Min(worker.todo) \in worker.todo
  BY <1>2, <1>3, RipMin
<1>5. This \in Track
  BY <1>2, <1>3, <1>4, RipConstants DEF This
<1> QED BY <1>1, <1>2, <1>4, <1>5

LEMMA RipInitBase == RipInit => RipBase
<1> SUFFICES ASSUME RipInit PROVE RipBase
  OBVIOUS
<1>1. PICK F \in Libraries : /\ musicDir = [f \in File |-> IF f \in F THEN "old" ELSE Absent]
                             /\ shown = F
  BY DEF RipInit
<1>2. F \subseteq File
  BY RipAssumption DEF File, Track
<1>3. musicDir \in [File -> {Absent, "old", "ripped"}]
  BY <1>1
<1>4. RipTypeOK
  <2>1. 0 \in 0..MaxRips
    BY RipAssumption
  <2>2. cmds \in Seq(Request \cup {Cancel, Load, Sync}) /\ reports \in Seq(Report)
    BY DEF RipInit
  <2> QED BY <1>1, <1>2, <1>3, <2>1, <2>2 DEF RipInit, RipTypeOK
<1>5. RipRows
  BY DEF RipInit, RipRows, At, Resting, Ripping
<1> QED BY <1>4, <1>5 DEF RipBase

\* What is left of the commands after one is taken.
LEMMA RipTaken ==
    ASSUME RipBase, cmds # << >>, cmds' = Tail(cmds)
    PROVE  /\ cmds' \in Seq(RipCommand)
           /\ Head(cmds) \in RipCommand
           /\ IsRip(Head(cmds)) => Head(cmds) \in Request /\ RipFits(Head(cmds))
           /\ \A i \in DOMAIN cmds' : \E j \in DOMAIN cmds : cmds'[i] = cmds[j]
           /\ \E j \in DOMAIN cmds : Head(cmds) = cmds[j]
           /\ \A i \in DOMAIN cmds' : IsRip(cmds'[i]) => RipFits(cmds'[i])
<1>1. cmds \in Seq(RipCommand)
  BY DEF RipBase, RipTypeOK, RipCommand
<1>2. /\ Head(cmds) \in RipCommand /\ Tail(cmds) \in Seq(RipCommand)
      /\ 1 \in DOMAIN cmds /\ Head(cmds) = cmds[1]
      /\ \A i \in DOMAIN Tail(cmds) : i + 1 \in DOMAIN cmds /\ Tail(cmds)[i] = cmds[i + 1]
  BY <1>1, RipTail
<1>3. \A i \in DOMAIN cmds : IsRip(cmds[i]) => RipFits(cmds[i])
  BY DEF RipBase, RipRows
<1>4. IsRip(Head(cmds)) => Head(cmds) \in Request
  BY <1>2 DEF IsRip, RipCommand
<1> QED BY <1>2, <1>3, <1>4

\* And after one is sent.
LEMMA RipSent ==
    ASSUME RipBase, NEW c \in RipCommand, cmds' = Append(cmds, c), IsRip(c) => RipFits(c)
    PROVE  /\ cmds' \in Seq(RipCommand)
           /\ \A i \in DOMAIN cmds' : cmds'[i] = c \/ \E j \in DOMAIN cmds : cmds'[i] = cmds[j]
           /\ \A i \in DOMAIN cmds' : IsRip(cmds'[i]) => RipFits(cmds'[i])
<1>1. cmds \in Seq(RipCommand)
  BY DEF RipBase, RipTypeOK, RipCommand
<1>2. /\ Append(cmds, c) \in Seq(RipCommand)
      /\ \A i \in DOMAIN Append(cmds, c) :
            (i \in DOMAIN cmds /\ Append(cmds, c)[i] = cmds[i]) \/ Append(cmds, c)[i] = c
  BY <1>1, RipAppend
<1>3. \A i \in DOMAIN cmds : IsRip(cmds[i]) => RipFits(cmds[i])
  BY DEF RipBase, RipRows
<1> QED BY <1>2, <1>3

\* A report more.
LEMMA RipTold ==
    ASSUME RipBase, NEW r \in Report, reports' = Append(reports, r)
    PROVE  reports' \in Seq(Report)
BY RipAppend DEF RipBase, RipTypeOK

LEMMA RipEdited ==
    ASSUME RipBase, EditOverlay
    PROVE  RipBase'
<1> DEFINE o == overlay
<1>1. o \in Overlay /\ o # Absent /\ o.sel \subseteq Rows[o.rel]
  BY DEF RipBase, RipTypeOK, RipRows, EditOverlay
<1>2. \A r \in Release : Rows[r] \in SUBSET Nat
  BY RipConstants
<1>3. overlay' \in Overlay /\ overlay'.sel \subseteq Rows[overlay'.rel]
  <2>1. CASE \E r \in Rows[o.rel] : overlay' = Disarmed([o EXCEPT !.sel = SymDiff(@, {r})])
    <3>1. PICK r \in Rows[o.rel] : overlay' = Disarmed([o EXCEPT !.sel = SymDiff(@, {r})])
      BY <2>1
    <3>2. SymDiff(o.sel, {r}) \in SUBSET Nat /\ SymDiff(o.sel, {r}) \subseteq Rows[o.rel]
      BY <1>1, <1>2 DEF SymDiff, Overlay
    <3> QED BY <1>1, <3>1, <3>2 DEF Disarmed, Overlay
  <2>2. CASE \E S \in {{}, Rows[o.rel]} : overlay' = Disarmed([o EXCEPT !.sel = S])
    BY <1>1, <1>2, <2>2 DEF Disarmed, Overlay
  <2>3. CASE \E r \in Release \ {o.rel} : overlay' = Disarmed([o EXCEPT !.rel = r, !.sel = Rows[r]])
    BY <1>1, <1>2, <2>3, ZenonT(30) DEF Disarmed, Overlay
  <2>4. CASE \E e \in Ext \ {o.ext} : overlay' = Disarmed([o EXCEPT !.ext = e])
    BY <1>1, <2>4 DEF Disarmed, Overlay
  <2>5. CASE overlay' = [o EXCEPT !.eject = ~@]
    BY <1>1, <2>5 DEF Overlay
  <2> QED BY <2>1, <2>2, <2>3, <2>4, <2>5 DEF EditOverlay
<1>4. RipTypeOK'
  <2>1. /\ UNCHANGED <<rip, shown, disc, cmds, reports, worker, cancel, musicDir, part, unswept, rips, cancels, syncs, quits, lost>>
        /\ edits' = edits + 1
    BY DEF EditOverlay, ripFiles
  <2> QED BY <1>3, <2>1 DEF RipBase, RipTypeOK
<1>5. RipRows'
  BY <1>3 DEF EditOverlay, RipBase, RipRows, ripFiles, RipFits, IsRip, At
<1> QED BY <1>4, <1>5 DEF RipBase

LEMMA RipConfirmed ==
    ASSUME RipBase, ConfirmImport
    PROVE  RipBase'
<1> DEFINE o == overlay
           c == [n |-> rips + 1, rel |-> o.rel, ext |-> o.ext,
                 eject |-> o.eject, warned |-> o.warned, total |-> Cardinality(o.sel),
                 todo |-> o.sel]
<1>1. o \in Overlay /\ o # Absent /\ o.sel \subseteq Rows[o.rel] /\ o.sel \in SUBSET Nat
  BY DEF RipBase, RipTypeOK, RipRows, ConfirmImport, Overlay
<1>2. Cardinality(o.sel) \in Nat
  <2>1. IsFiniteSet(Rows[o.rel])
    BY <1>1, RipConstants DEF Overlay
  <2> QED BY <1>1, <2>1, FS_Subset, FS_CardinalityType
<1>3. CASE UNCHANGED <<cmds, rips>>
           /\ overlay' = [o EXCEPT !.armed = TRUE, !.warned = Conflicts(o)]
  <2>1. Conflicts(o) \subseteq Track
    <3>1. ASSUME NEW t \in {o.rel} \X (o.sel \cap Position[o.rel]) PROVE t \in Track
      BY <1>1, RipConstants DEF Overlay
    <3> QED BY <3>1 DEF Conflicts
  <2>2. overlay' \in Overlay /\ overlay'.sel = o.sel /\ overlay'.rel = o.rel
    BY <1>1, <1>3, <2>1 DEF Overlay
  <2>3. RipTypeOK'
    BY <1>3, <2>2 DEF ConfirmImport, RipBase, RipTypeOK, ripFiles
  <2>4. RipRows'
    BY <1>1, <1>3, <2>2 DEF ConfirmImport, RipBase, RipRows, ripFiles, RipFits, IsRip, At
  <2> QED BY <2>3, <2>4 DEF RipBase
<1>4. CASE rips' = rips + 1 /\ cmds' = Append(cmds, c) /\ overlay' = Absent
  <2>0. rips + 1 \in 1..MaxRips
    BY RipAssumption DEF RipBase, RipTypeOK, RipRows, ConfirmImport
  <2>1. c \in Request /\ RipFits(c)
    BY <1>1, <1>2, <2>0 DEF Overlay, Request, RipFits
  <2>2. cmds' \in Seq(RipCommand) /\ \A i \in DOMAIN cmds' : IsRip(cmds'[i]) => RipFits(cmds'[i])
    BY <1>4, <2>1, RipSent, Zenon DEF RipCommand
  <2>3. RipTypeOK'
    BY <1>4, <2>0, <2>2 DEF ConfirmImport, RipBase, RipTypeOK, ripFiles, RipCommand
  <2>4. RipRows'
    BY <1>4, <2>2 DEF ConfirmImport, RipBase, RipRows, ripFiles, RipFits, IsRip, At
  <2> QED BY <2>3, <2>4 DEF RipBase
<1> QED BY <1>3, <1>4 DEF ConfirmImport, Send

LEMMA RipBaseKeys == RipBase /\ (Keys \/ MoveDisc \/ QuitApp \/ HandleEvent) => RipBase'
<1> SUFFICES ASSUME RipBase, Keys \/ MoveDisc \/ QuitApp \/ HandleEvent PROVE RipBase'
  OBVIOUS
<1>1. CASE MoveDisc
  BY <1>1 DEF MoveDisc, RipBase, RipTypeOK, RipRows, RipFits, IsRip, At, app, ripFiles
<1>2. CASE OpenOverlay
  <2>1. overlay' \in Overlay /\ overlay'.sel \subseteq Rows[overlay'.rel]
    BY <1>2, RipConstants DEF OpenOverlay, Overlay
  <2>2. RipTypeOK'
    BY <1>2, <2>1 DEF OpenOverlay, RipBase, RipTypeOK, ripFiles, bounds
  <2>3. RipRows'
    BY <1>2, <2>1 DEF OpenOverlay, RipBase, RipRows, RipFits, IsRip, At, ripFiles, bounds
  <2> QED BY <2>2, <2>3 DEF RipBase
<1>3. CASE CloseOverlay
  BY <1>3 DEF CloseOverlay, RipBase, RipTypeOK, RipRows, RipFits, IsRip, At, ripFiles, bounds
<1>4. CASE EditOverlay
  BY <1>4, RipEdited
<1>5. CASE ConfirmImport
  BY <1>5, RipConfirmed
<1>6. CASE CancelRip
  <2>1. Cancel \in RipCommand /\ ~IsRip(Cancel) /\ cmds' = Append(cmds, Cancel)
    BY <1>6 DEF CancelRip, Send, RipCommand, IsRip
  <2>2. cmds' \in Seq(RipCommand) /\ \A i \in DOMAIN cmds' : IsRip(cmds'[i]) => RipFits(cmds'[i])
    BY <2>1, RipSent, Zenon
  <2>3. RipTypeOK'
    BY <1>6, <2>2 DEF CancelRip, RipBase, RipTypeOK, RipCommand, app, ripFiles
  <2>4. RipRows'
    BY <1>6, <2>2 DEF CancelRip, RipBase, RipRows, At, app, ripFiles
  <2> QED BY <2>3, <2>4 DEF RipBase
<1>7. CASE PressSync
  <2>1. Sync \in RipCommand /\ ~IsRip(Sync) /\ cmds' = Append(cmds, Sync)
    BY <1>7 DEF PressSync, Send, RipCommand, IsRip
  <2>2. cmds' \in Seq(RipCommand) /\ \A i \in DOMAIN cmds' : IsRip(cmds'[i]) => RipFits(cmds'[i])
    BY <2>1, RipSent, Zenon
  <2>3. RipTypeOK'
    BY <1>7, <2>2 DEF PressSync, RipBase, RipTypeOK, RipCommand, app, ripFiles
  <2>4. RipRows'
    BY <1>7, <2>2 DEF PressSync, RipBase, RipRows, At, app, ripFiles
  <2> QED BY <2>3, <2>4 DEF RipBase
<1>8. CASE QuitApp
  <2>1. OnDisk \subseteq File
    BY DEF OnDisk
  <2>2. cmds' \in Seq(Request \cup {Cancel, Load, Sync}) /\ reports' \in Seq(Report)
    BY <1>8 DEF QuitApp
  <2>3. RipTypeOK'
    <3>1. /\ overlay' = Absent /\ rip' = FALSE /\ shown' = OnDisk /\ worker' = Resting
          /\ cancel' = FALSE /\ lost' = FALSE /\ quits' = quits + 1
          /\ UNCHANGED <<disc, musicDir, part, unswept, edits, rips, cancels, syncs>>
      BY <1>8 DEF QuitApp, ripFiles
    <3>2. /\ disc \in BOOLEAN /\ musicDir \in [File -> {Absent, "old", "ripped"}] /\ part \subseteq Track
          /\ unswept \subseteq File
          /\ edits \in Nat /\ rips \in 0..MaxRips /\ cancels \in Nat /\ syncs \in Nat /\ quits + 1 \in Nat
      BY DEF RipBase, RipTypeOK
    <3> QED BY <2>1, <2>2, <3>1, <3>2 DEF RipTypeOK
  <2>4. RipRows'
    BY <1>8 DEF QuitApp, RipRows, At, Resting, Ripping
  <2> QED BY <2>3, <2>4 DEF RipBase
<1>9. CASE HandleEvent
  <2>1. reports \in Seq(Report) /\ reports # << >> /\ reports' = Tail(reports)
    BY <1>9 DEF HandleEvent, RipBase, RipTypeOK
  <2>2. Head(reports) \in Report /\ reports' \in Seq(Report)
    BY <2>1, RipTail
  <2>3. /\ rip' \in BOOLEAN /\ shown' \subseteq File
        /\ cmds' = cmds \/ cmds' = Append(cmds, Load)
    BY <1>9, <2>2 DEF HandleEvent, OnStarted, OnTrackDone, OnComplete, OnLoaded, Send, Report,
       RipBase, RipTypeOK
  <2>4. Load \in RipCommand /\ ~IsRip(Load)
    BY DEF RipCommand, IsRip
  <2>5. cmds' \in Seq(RipCommand) /\ \A i \in DOMAIN cmds' : IsRip(cmds'[i]) => RipFits(cmds'[i])
    <3>1. CASE cmds' = cmds
      BY <3>1 DEF RipBase, RipTypeOK, RipRows, RipCommand
    <3>2. CASE cmds' = Append(cmds, Load)
      BY <3>2, <2>4, RipSent, Zenon
    <3> QED BY <3>1, <3>2, <2>3
  <2>6. RipTypeOK'
    BY <1>9, <2>2, <2>3, <2>5 DEF HandleEvent, RipBase, RipTypeOK, RipCommand, ripFiles, bounds
  <2>7. RipRows'
    BY <1>9, <2>5 DEF HandleEvent, RipBase, RipRows, At, ripFiles, bounds
  <2> QED BY <2>6, <2>7 DEF RipBase
<1> QED BY <1>1, <1>2, <1>3, <1>4, <1>5, <1>6, <1>7, <1>8, <1>9 DEF Keys

LEMMA RipBaseLoop ==
    RipBase /\ (StartRip \/ OnCancel \/ OnLoadLibrary \/ StartSync \/ SyncDrain \/ EndSync) => RipBase'
<1> SUFFICES ASSUME RipBase,
                    StartRip \/ OnCancel \/ OnLoadLibrary \/ StartSync \/ SyncDrain \/ EndSync
             PROVE  RipBase'
  OBVIOUS
<1> DEFINE Some == cmds # << >> /\ cmds' = Tail(cmds)
<1>1. Some => /\ cmds' \in Seq(RipCommand)
              /\ \A i \in DOMAIN cmds' : IsRip(cmds'[i]) => RipFits(cmds'[i])
  BY RipTaken, Zenon
<1>2. CASE StartRip
  <2>1. Some /\ Head(cmds) \in Request /\ RipFits(Head(cmds)) /\ worker' = Begun(Head(cmds))
    BY <1>2, RipTaken, Zenon DEF StartRip, Take
  <2>2. worker' \in Ripping /\ worker'.at = "next" /\ worker'.todo \subseteq Rows[worker'.rel]
    BY <2>1 DEF Begun, Request, Ripping, RipFits
  <2>3. RipTypeOK'
    BY <1>1, <1>2, <2>1, <2>2 DEF StartRip, UnchangedApp, RipBase, RipTypeOK, RipCommand, app, ripFiles, bounds
  <2>4. RipRows'
    BY <1>1, <1>2, <2>1, <2>2 DEF StartRip, UnchangedApp, RipBase, RipRows, At, app, ripFiles, bounds
  <2> QED BY <2>3, <2>4 DEF RipBase
<1>3. CASE OnCancel
  <2>3. RipTypeOK'
    BY <1>1, <1>3 DEF OnCancel, Take, UnchangedApp, RipBase, RipTypeOK, RipCommand, app, ripFiles, bounds
  <2>4. RipRows'
    BY <1>1, <1>3 DEF OnCancel, Take, UnchangedApp, RipBase, RipRows, At, app, ripFiles, bounds
  <2> QED BY <2>3, <2>4 DEF RipBase
<1>4. CASE OnLoadLibrary
  <2>1. LibraryLoaded(OnDisk) \in Report
    BY DEF LibraryLoaded, Report, OnDisk
  <2>2. reports' \in Seq(Report)
    BY <1>4, <2>1, RipTold, Zenon DEF OnLoadLibrary, Emit
  <2>3. RipTypeOK'
    BY <1>1, <1>4, <2>2 DEF OnLoadLibrary, Take, UnchangedApp, RipBase, RipTypeOK, RipCommand, app, ripFiles, bounds
  <2>4. RipRows'
    BY <1>1, <1>4 DEF OnLoadLibrary, Take, UnchangedApp, RipBase, RipRows, At, app, ripFiles, bounds
  <2> QED BY <2>3, <2>4 DEF RipBase
<1>5. CASE StartSync
  <2>3. RipTypeOK'
    BY <1>1, <1>5 DEF StartSync, Take, UnchangedApp, RipBase, RipTypeOK, RipCommand, app, ripFiles, bounds
  <2>4. RipRows'
    BY <1>1, <1>5 DEF StartSync, Take, UnchangedApp, RipBase, RipRows, At, app, ripFiles, bounds, Ripping
  <2> QED BY <2>3, <2>4 DEF RipBase
<1>6. CASE SyncDrain
  <2>3. RipTypeOK'
    BY <1>1, <1>6 DEF SyncDrain, UnchangedApp, RipBase, RipTypeOK, RipCommand, app, ripFiles, bounds
  <2>4. RipRows'
    BY <1>1, <1>6 DEF SyncDrain, UnchangedApp, RipBase, RipRows, At, app, ripFiles, bounds
  <2> QED BY <2>3, <2>4 DEF RipBase
<1>7. CASE EndSync
  <2>3. RipTypeOK'
    BY <1>7 DEF EndSync, UnchangedApp, RipBase, RipTypeOK, app, ripFiles, bounds
  <2>4. RipRows'
    BY <1>7 DEF EndSync, UnchangedApp, RipBase, RipRows, RipFits, IsRip, At, app, ripFiles, bounds, Resting, Ripping
  <2> QED BY <2>3, <2>4 DEF RipBase
<1> QED BY <1>2, <1>3, <1>4, <1>5, <1>6, <1>7

\* What the step of a rip leaves alone.
LEMMA RipBaseSame ==
    ASSUME RipBase, UNCHANGED <<app, cmds, cancel, bounds, lost>>,
           disc' \in BOOLEAN, reports' \in Seq(Report), worker' \in RipWorker,
           musicDir' \in [File -> {Absent, "old", "ripped"}], part' \subseteq Track, unswept' \subseteq File,
           worker' \in Ripping => worker'.todo \subseteq Rows[worker'.rel],
           worker'.at \in {"ffmpeg", "tag", "sweep"} =>
               worker'.todo # {} /\ Min(worker'.todo) \in Position[worker'.rel],
           worker'.at = "check" => worker'.todo # {}
    PROVE  RipBase'
<1>1. RipTypeOK'
  BY DEF RipBase, RipTypeOK, RipWorker, app, bounds
<1>2. RipRows'
  BY DEF RipBase, RipRows, RipFits, IsRip, At, app, bounds
<1> QED BY <1>1, <1>2 DEF RipBase

LEMMA RipFailed ==
    ASSUME RipBase, worker.at \in {"ffmpeg", "tag"}, TrackFailed
    PROVE  /\ worker' \in Ripping /\ worker'.at = "check" /\ worker'.todo = worker.todo
           /\ worker'.rel = worker.rel /\ worker'.ext = worker.ext /\ worker'.warned = worker.warned
           /\ worker'.failed = worker.failed + 1 /\ worker'.ripped = worker.ripped
           /\ worker'.total = worker.total
           /\ reports' \in Seq(Report)
<1>1. worker \in Ripping /\ This \in Track
  BY RipHand
<1>2. Event("done", This) \in Report
  BY <1>1, RipConstants DEF Event, Report
<1>3. reports' \in Seq(Report)
  BY <1>2, RipTold, Zenon DEF TrackFailed, Emit
<1>4. worker' = [worker EXCEPT !.at = "check", !.failed = worker.failed + 1]
  BY DEF TrackFailed
<1>5. worker.failed + 1 \in Nat
  BY <1>1 DEF Ripping
<1> QED BY <1>1, <1>3, <1>4, <1>5 DEF Ripping

LEMMA RipBaseRip ==
    RipBase /\ (NextTrack \/ RipTrack \/ MoveIntoPlace \/ Sweep \/ CheckCancel \/ FinishRip) => RipBase'
<1> SUFFICES ASSUME RipBase,
                    NextTrack \/ RipTrack \/ MoveIntoPlace \/ Sweep \/ CheckCancel \/ FinishRip
             PROVE  RipBase'
  OBVIOUS
<1> USE DEF At
<1>0. /\ worker \in RipWorker /\ part \subseteq Track /\ unswept \subseteq File /\ reports \in Seq(Report) /\ disc \in BOOLEAN
      /\ musicDir \in [File -> {Absent, "old", "ripped"}]
      /\ worker \in Ripping => worker.todo \subseteq Rows[worker.rel]
      /\ worker.at \in {"ffmpeg", "tag", "sweep"} =>
             worker.todo # {} /\ Min(worker.todo) \in Position[worker.rel]
      /\ worker.at = "check" => worker.todo # {}
  BY DEF RipBase, RipTypeOK, RipRows, RipWorker
<1>1. CASE NextTrack
  <2>1. worker \in Ripping /\ worker.at = "next" /\ worker.todo # {}
    BY <1>0, <1>1 DEF NextTrack, RipWorker, Resting
  <2>2. worker.rel \in Release /\ worker.todo \in SUBSET Nat
    BY <2>1 DEF Ripping
  <2>3. Min(worker.todo) \in worker.todo /\ Rest \subseteq worker.todo
    BY <2>1, <2>2, RipMin DEF Rest
  <2>4. This \in Track
    BY <1>0, <2>1, <2>2, <2>3, RipConstants DEF This
  <2>5. Event("done", This) \in Report /\ Event("started", This) \in Report
    BY <2>4, RipConstants DEF Event, Report
  <2>6. reports' \in Seq(Report)
    BY <1>1, <2>5, RipTold, Zenon DEF NextTrack, Emit
  <2>7. CASE Min(worker.todo) \in Position[worker.rel]
    <3>1. worker' = [worker EXCEPT !.at = "ffmpeg"] /\ part' = part \cup {This}
      BY <1>1, <2>7 DEF NextTrack
    <3>2. worker' \in Ripping /\ worker'.at = "ffmpeg" /\ worker'.todo = worker.todo /\ worker'.rel = worker.rel
      BY <2>1, <3>1 DEF Ripping
    <3>3. UNCHANGED <<app, cmds, cancel, bounds, lost, disc, musicDir, unswept>>
      BY <1>1 DEF NextTrack, UnchangedRip
    <3> QED BY <1>0, <2>1, <2>4, <2>6, <2>7, <3>1, <3>2, <3>3, RipBaseSame DEF RipWorker
  <2>8. CASE Min(worker.todo) \notin Position[worker.rel]
    <3>1. worker' = [worker EXCEPT !.todo = Rest, !.failed = @ + 1] /\ part' = part
      BY <1>1, <2>8 DEF NextTrack
    <3>2. worker' \in Ripping /\ worker'.at = "next" /\ worker'.todo = Rest /\ worker'.rel = worker.rel
      <4>1. worker.failed + 1 \in Nat /\ Rest \in SUBSET Nat
        BY <2>1, <2>2, <2>3 DEF Ripping
      <4>2. worker' = [worker EXCEPT !.todo = Rest, !.failed = worker.failed + 1]
        BY <3>1
      <4> QED BY <2>1, <4>1, <4>2 DEF Ripping
    <3>3. UNCHANGED <<app, cmds, cancel, bounds, lost, disc, musicDir, unswept>>
      BY <1>1 DEF NextTrack, UnchangedRip
    <3> QED BY <1>0, <2>1, <2>3, <2>6, <3>1, <3>2, <3>3, RipBaseSame DEF RipWorker
  <2> QED BY <2>7, <2>8
<1>2. CASE RipTrack
  <2>1. /\ worker \in Ripping /\ worker.at = "ffmpeg" /\ This \in Track
        /\ UNCHANGED <<app, cmds, cancel, bounds, lost, disc, musicDir, unswept>>
    BY <1>2, RipHand DEF RipTrack, UnchangedRip
  <2>2. Event("done", This) \in Report
    BY <2>1, RipConstants DEF Event, Report
  <2>3. CASE worker' = [worker EXCEPT !.at = "tag"] /\ UNCHANGED <<part, reports>>
    <3>1. worker' \in Ripping /\ worker'.at = "tag" /\ worker'.todo = worker.todo /\ worker'.rel = worker.rel
      BY <2>1, <2>3 DEF Ripping
    <3> QED BY <1>0, <2>1, <2>3, <3>1, RipBaseSame DEF RipWorker
  <2>4. CASE part' = part \ {This} /\ TrackFailed
    <3>1. /\ worker' \in Ripping /\ worker'.at = "check" /\ worker'.todo = worker.todo /\ worker'.rel = worker.rel
          /\ reports' \in Seq(Report)
      BY <2>1, <2>4, RipFailed
    <3> QED BY <1>0, <2>1, <2>4, <3>1, RipBaseSame DEF RipWorker
  <2>5. CASE part' = part \ {This} /\ worker' = [worker EXCEPT !.at = "check"] /\ Emit(Event("done", This))
    <3>1. worker' \in Ripping /\ worker'.at = "check" /\ worker'.todo = worker.todo /\ worker'.rel = worker.rel
      BY <2>1, <2>5 DEF Ripping
    <3>2. reports' \in Seq(Report)
      BY <2>2, <2>5, RipTold, Zenon DEF Emit
    <3> QED BY <1>0, <2>1, <2>5, <3>1, <3>2, RipBaseSame DEF RipWorker
  <2> QED BY <1>2, <2>3, <2>4, <2>5 DEF RipTrack
<1>3. CASE MoveIntoPlace
  <2>1. /\ worker \in Ripping /\ worker.at = "tag" /\ This \in Track /\ worker.ext \in Ext
        /\ UNCHANGED <<app, cmds, cancel, bounds, lost, disc, unswept>>
    BY <1>3, RipHand DEF MoveIntoPlace, UnchangedRip
  <2>2. CASE /\ musicDir' = [musicDir EXCEPT ![<<This, worker.ext>>] = "ripped"]
             /\ part' = part \ {This}
             /\ worker' = [worker EXCEPT !.at = "sweep"] /\ UNCHANGED reports
    <3>1. worker' \in Ripping /\ worker'.at = "sweep" /\ worker'.todo = worker.todo /\ worker'.rel = worker.rel
      BY <2>1, <2>2 DEF Ripping
    <3>2. musicDir' \in [File -> {Absent, "old", "ripped"}]
      BY <1>0, <2>2
    <3> QED BY <1>0, <2>1, <2>2, <3>1, <3>2, RipBaseSame DEF RipWorker
  <2>3. CASE part' = Discard /\ TrackFailed /\ UNCHANGED musicDir
    <3>1. /\ worker' \in Ripping /\ worker'.at = "check" /\ worker'.todo = worker.todo /\ worker'.rel = worker.rel
          /\ reports' \in Seq(Report)
      BY <2>1, <2>3, RipFailed
    <3> QED BY <1>0, <2>1, <2>3, <3>1, RipBaseSame DEF RipWorker, Discard
  <2> QED BY <1>3, <2>2, <2>3 DEF MoveIntoPlace
<1>4. CASE Sweep
  <2>1. /\ worker \in Ripping /\ worker.at = "sweep" /\ This \in Track
        /\ UNCHANGED <<app, cmds, cancel, bounds, lost, disc, part>>
        /\ worker' = [worker EXCEPT !.at = "check", !.ripped = @ + 1]
        /\ Emit(Event("done", This))
    BY <1>4, RipHand DEF Sweep, UnchangedRip
  <2>2. Event("done", This) \in Report
    BY <2>1, RipConstants DEF Event, Report
  <2>3. reports' \in Seq(Report)
    BY <2>1, <2>2, RipTold, Zenon DEF Emit
  <2>4. worker' \in Ripping /\ worker'.at = "check" /\ worker'.todo = worker.todo /\ worker'.rel = worker.rel
    <3>1. worker.ripped + 1 \in Nat
      BY <2>1 DEF Ripping
    <3>2. worker' = [worker EXCEPT !.at = "check", !.ripped = worker.ripped + 1]
      BY <2>1
    <3> QED BY <2>1, <3>1, <3>2 DEF Ripping
  <2>5. musicDir' \in [File -> {Absent, "old", "ripped"}] /\ unswept' \subseteq File
    BY <1>0, <1>4 DEF Sweep, Others, OnDisk
  <2> QED BY <1>0, <2>1, <2>3, <2>4, <2>5, RipBaseSame DEF RipWorker
<1>5. CASE CheckCancel
  <2>1. /\ worker \in Ripping /\ worker.at = "check"
        /\ UNCHANGED <<app, cmds, cancel, bounds, lost, disc, part, musicDir, unswept, reports>>
        /\ worker' = [worker EXCEPT !.at = IF cancel THEN "finish" ELSE "next", !.todo = Rest,
                                    !.cancelled = cancel]
    BY <1>5, RipHand DEF CheckCancel, UnchangedRip, ripFiles
  <2>2. cancel \in BOOLEAN /\ Rest \subseteq worker.todo
    BY DEF RipBase, RipTypeOK, Rest
  <2>3. worker' \in Ripping /\ worker'.at \in {"next", "finish"} /\ worker'.todo = Rest /\ worker'.rel = worker.rel
    BY <2>1, <2>2 DEF Ripping
  <2> QED BY <1>0, <2>1, <2>2, <2>3, RipBaseSame DEF RipWorker
<1>6. CASE FinishRip
  <2>1. worker \in Ripping /\ worker.at \in {"finish", "next"}
    BY <1>0, <1>6 DEF FinishRip, RipWorker, Resting
  <2> DEFINE stopped == worker.cancelled \/ (cancel /\ worker.todo # {})
             done == [worker EXCEPT !.cancelled = stopped]
  <2>2. /\ UNCHANGED <<app, cmds, cancel, bounds, lost, musicDir, part, unswept>> /\ worker' = Resting
        /\ Emit(Complete(done))
        /\ disc' \in {disc, FALSE}
    BY <1>6 DEF FinishRip, ripFiles
  <2>3. Complete(done) \in Report
    <3>1. stopped \in BOOLEAN
      BY <2>1 DEF Ripping, RipBase, RipTypeOK
    <3> HIDE DEF stopped
    <3>2. done \in Ripping
      BY <2>1, <3>1 DEF Ripping
    <3> HIDE DEF done
    <3> QED BY <3>2 DEF Complete, Report, Ripping
  <2> HIDE DEF done
  <2>4. reports' \in Seq(Report)
    BY <2>2, <2>3, RipTold, Zenon DEF Emit
  <2>5. worker' \in RipWorker /\ worker' \notin Ripping /\ worker'.at = "idle"
    BY <2>2 DEF RipWorker, Resting, Ripping
  <2> QED BY <1>0, <2>2, <2>4, <2>5, RipBaseSame
<1> QED BY <1>1, <1>2, <1>3, <1>4, <1>5, <1>6

LEMMA RipBaseNext == RipBase /\ [RipNext]_ripVars => RipBase'
<1>1. ASSUME RipBase, UNCHANGED ripVars PROVE RipBase'
  BY <1>1 DEF RipBase, RipTypeOK, RipRows, RipFits, IsRip, At, ripVars, app, ripFiles, bounds
<1> QED BY <1>1, RipBaseKeys, RipBaseLoop, RipBaseRip DEF RipNext, WorkerNext

\* The overlay, the channels, the worker and the music directory stay of their types.
THEOREM RipTypes == RipSpec => []RipTypeOK
<1>1. RipSpec => []RipBase
  BY RipInitBase, RipBaseNext, PTL DEF RipSpec
<1>2. RipBase => RipTypeOK
  BY DEF RipBase
<1> QED BY <1>1, <1>2, PTL

-----------------------------------------------------------------------------
(* What a step does to the rip and its files.                               *)

\* Nothing to either.
RipQuiet == UNCHANGED <<worker, musicDir, part, unswept, quits>> /\ (UNCHANGED cancel \/ worker \notin Ripping)

\* A rip ends, or the worker turns to something else.
RipLeaves == /\ worker.at \notin {"ffmpeg", "tag", "sweep", "check"}
             /\ worker' \in {Resting, [at |-> "sync"]}
             /\ UNCHANGED <<musicDir, part, unswept, quits>>

\* The rip goes on: from one of places to another.
RipGoes(from, to) ==
    /\ worker \in Ripping /\ worker.at = from /\ worker' \in Ripping /\ worker'.at = to
    /\ worker'.rel = worker.rel /\ worker'.ext = worker.ext
    /\ worker'.warned = worker.warned /\ worker'.total = worker.total
    /\ UNCHANGED <<overlay, cmds, cancel, quits>>

RipPicks == /\ RipGoes("next", "ffmpeg") /\ UNCHANGED <<musicDir, unswept>> /\ part' = part \cup {This}
            /\ worker.todo # {} /\ UNCHANGED <<worker.todo, worker.ripped, worker.failed>>
RipSkips == /\ RipGoes("next", "next") /\ UNCHANGED <<musicDir, part, unswept>>
            /\ worker.todo # {} /\ worker'.todo = Rest
            /\ worker'.ripped = worker.ripped /\ worker'.failed = worker.failed + 1
RipReads == /\ RipGoes("ffmpeg", "tag") /\ UNCHANGED <<musicDir, part, unswept>>
            /\ UNCHANGED <<worker.todo, worker.ripped, worker.failed>>
RipStops == /\ RipGoes("ffmpeg", "check") /\ UNCHANGED <<musicDir, unswept>> /\ part' = part \ {This} /\ cancel
            /\ UNCHANGED <<worker.todo, worker.ripped, worker.failed>>
RipFails == /\ RipGoes("ffmpeg", "check") \/ RipGoes("tag", "check")
            /\ UNCHANGED <<musicDir, unswept>> /\ part' = part \ {This}
            /\ worker'.todo = worker.todo /\ worker'.ripped = worker.ripped
            /\ worker'.failed = worker.failed + 1
RipMoves == /\ RipGoes("tag", "sweep") /\ UNCHANGED unswept
            /\ musicDir' = [musicDir EXCEPT ![<<This, worker.ext>>] = "ripped"]
            /\ part' = part \ {This}
            /\ UNCHANGED <<worker.todo, worker.ripped, worker.failed>>
RipSweeps == /\ RipGoes("sweep", "check") /\ UNCHANGED part
             /\ \E S \in SUBSET Others :
                  /\ musicDir' = [f \in File |-> IF f \in Others \ S THEN Absent ELSE musicDir[f]]
                  /\ unswept' = (unswept \ ({This} \X Ext)) \cup S
             /\ worker'.todo = worker.todo /\ worker'.ripped = worker.ripped + 1
             /\ worker'.failed = worker.failed
RipChecks == /\ RipGoes("check", "next") \/ (cancel /\ RipGoes("check", "finish"))
             /\ UNCHANGED <<musicDir, part, unswept>> /\ worker'.todo = Rest
             /\ UNCHANGED <<worker.ripped, worker.failed>>

RipForward == RipPicks \/ RipSkips \/ RipReads \/ RipStops \/ RipFails \/ RipMoves \/ RipSweeps \/ RipChecks

LEMMA RipForwards ==
    RipBase /\ (NextTrack \/ RipTrack \/ MoveIntoPlace \/ Sweep \/ CheckCancel) => RipForward
<1> SUFFICES ASSUME RipBase, NextTrack \/ RipTrack \/ MoveIntoPlace \/ Sweep \/ CheckCancel
             PROVE  RipForward
  OBVIOUS
<1>1. CASE NextTrack
  <2>1. /\ worker \in Ripping /\ worker.at = "next" /\ worker.todo # {}
        /\ worker.rel \in Release /\ worker.todo \in SUBSET Nat /\ worker.failed + 1 \in Nat
    BY <1>1, SMTT(30) DEF NextTrack, RipBase, RipTypeOK, Resting, At, Ripping
  <2>2. UNCHANGED <<overlay, cmds, cancel, quits, musicDir, unswept>>
    BY <1>1 DEF NextTrack, UnchangedRip, app, bounds
  <2>3. CASE worker' = [worker EXCEPT !.at = "ffmpeg"] /\ part' = part \cup {This}
    BY <2>1, <2>2, <2>3 DEF Ripping, RipForward, RipPicks, RipGoes
  <2>4. CASE worker' = [worker EXCEPT !.todo = Rest, !.failed = worker.failed + 1] /\ part' = part
    <3>1. Rest \in SUBSET Nat
      BY <2>1 DEF Rest
    <3>2. worker' \in Ripping /\ worker'.at = "next"
      BY <2>1, <2>4, <3>1 DEF Ripping
    <3> QED BY <2>1, <2>2, <2>4, <3>2 DEF Ripping, RipForward, RipSkips, RipGoes
  <2> QED BY <1>1, <2>3, <2>4 DEF NextTrack
<1>2. CASE RipTrack
  <2>1. /\ worker \in Ripping /\ worker.at = "ffmpeg"
        /\ UNCHANGED <<overlay, cmds, cancel, quits, musicDir, unswept>>
    BY <1>2, RipHand DEF RipTrack, UnchangedRip, At, app, bounds
  <2>2. CASE worker' = [worker EXCEPT !.at = "tag"] /\ UNCHANGED part
    BY <2>1, <2>2 DEF Ripping, RipForward, RipReads, RipGoes
  <2>3. CASE part' = part \ {This} /\ TrackFailed
    BY <2>1, <2>3, RipFailed DEF RipForward, RipFails, RipGoes
  <2>4. CASE part' = part \ {This} /\ cancel /\ worker' = [worker EXCEPT !.at = "check"]
    BY <2>1, <2>4 DEF Ripping, RipForward, RipStops, RipGoes
  <2> QED BY <1>2, <2>2, <2>3, <2>4 DEF RipTrack
<1>3. CASE MoveIntoPlace
  <2>1. /\ worker \in Ripping /\ worker.at = "tag"
        /\ UNCHANGED <<overlay, cmds, cancel, quits, unswept>>
    BY <1>3, RipHand DEF MoveIntoPlace, UnchangedRip, At, app, bounds
  <2>2. CASE /\ musicDir' = [musicDir EXCEPT ![<<This, worker.ext>>] = "ripped"]
             /\ part' = part \ {This} /\ worker' = [worker EXCEPT !.at = "sweep"]
    BY <2>1, <2>2 DEF Ripping, RipForward, RipMoves, RipGoes
  <2>3. CASE part' = Discard /\ TrackFailed /\ UNCHANGED musicDir
    BY <2>1, <2>3, RipFailed DEF RipForward, RipFails, RipGoes, Discard
  <2> QED BY <1>3, <2>2, <2>3 DEF MoveIntoPlace
<1>4. CASE Sweep
  <2>1. /\ worker \in Ripping /\ worker.at = "sweep"
        /\ UNCHANGED <<overlay, cmds, cancel, quits, part>>
        /\ worker' = [worker EXCEPT !.at = "check", !.ripped = worker.ripped + 1]
    BY <1>4, RipHand DEF Sweep, UnchangedRip, At, app, bounds
  <2>2. worker.ripped + 1 \in Nat
    BY <2>1 DEF Ripping
  <2>3. \E S \in SUBSET Others :
          /\ musicDir' = [f \in File |-> IF f \in Others \ S THEN Absent ELSE musicDir[f]]
          /\ unswept' = (unswept \ ({This} \X Ext)) \cup S
    BY <1>4 DEF Sweep
  <2> QED BY <2>1, <2>2, <2>3 DEF Ripping, RipForward, RipSweeps, RipGoes
<1>5. CASE CheckCancel
  <2>1. /\ worker \in Ripping /\ worker.at = "check"
        /\ UNCHANGED <<overlay, cmds, cancel, quits, part, musicDir, unswept>>
        /\ worker' = [worker EXCEPT !.at = IF cancel THEN "finish" ELSE "next", !.todo = Rest,
                                    !.cancelled = cancel]
    BY <1>5, RipHand DEF CheckCancel, UnchangedRip, ripFiles, At, app, bounds
  <2>2. cancel \in BOOLEAN /\ Rest \in SUBSET Nat
    BY <2>1 DEF RipBase, RipTypeOK, Rest, Ripping
  <2> QED BY <2>1, <2>2 DEF Ripping, RipForward, RipChecks, RipGoes
<1> QED BY <1>1, <1>2, <1>3, <1>4, <1>5

LEMMA RipSteps == RipBase /\ [RipNext]_ripVars => RipQuiet \/ QuitApp \/ RipLeaves \/ StartRip \/ RipForward
<1> SUFFICES ASSUME RipBase, [RipNext]_ripVars
             PROVE  RipQuiet \/ QuitApp \/ RipLeaves \/ StartRip \/ RipForward
  OBVIOUS
<1>1. ASSUME Keys \/ MoveDisc \/ HandleEvent \/ UNCHANGED ripVars PROVE RipQuiet
  BY <1>1 DEF Keys, OpenOverlay, CloseOverlay, EditOverlay, ConfirmImport, CancelRip, PressSync,
     MoveDisc, HandleEvent, ripVars, app, ripFiles, bounds, RipQuiet
<1>2. ASSUME OnCancel \/ OnLoadLibrary \/ SyncDrain PROVE RipQuiet
  <2>1. Resting \notin Ripping
    BY DEF Resting, Ripping
  <2> QED BY <1>2, <2>1 DEF OnCancel, OnLoadLibrary, SyncDrain, Take, UnchangedApp, app, ripFiles, bounds, RipQuiet
<1>3. ASSUME StartSync \/ EndSync \/ FinishRip PROVE RipLeaves
  <2>1. CASE StartSync
    BY <2>1 DEF StartSync, Take, UnchangedApp, app, ripFiles, bounds, RipLeaves, Resting
  <2>2. CASE EndSync
    BY <2>2 DEF EndSync, UnchangedApp, app, ripFiles, bounds, RipLeaves, At
  <2>3. CASE FinishRip
    <3>1. worker.at \in {"finish", "next"} /\ worker' = Resting
      BY <2>3 DEF FinishRip, At
    <3>2. UNCHANGED <<musicDir, part, unswept, quits>>
      BY <2>3 DEF FinishRip, ripFiles, bounds
    <3> QED BY <3>1, <3>2 DEF RipLeaves
  <2> QED BY <1>3, <2>1, <2>2, <2>3
<1> QED BY <1>1, <1>2, <1>3, RipForwards DEF RipNext, WorkerNext

-----------------------------------------------------------------------------
(* Every track asked for is accounted for.                                  *)

LEMMA RipOneLess ==
    ASSUME RipBase, worker \in Ripping, worker.todo # {}
    PROVE  /\ Cardinality(Rest) = Cardinality(worker.todo) - 1
           /\ Cardinality(worker.todo) \in Nat
           /\ worker.ripped \in Nat /\ worker.failed \in Nat /\ worker.total \in Nat
<1>1. /\ worker.rel \in Release /\ worker.todo \in SUBSET Nat
      /\ worker.ripped \in Nat /\ worker.failed \in Nat /\ worker.total \in Nat
  BY DEF Ripping
<1>2. worker.todo \subseteq Rows[worker.rel]
  BY DEF RipBase, RipRows
<1>3. IsFiniteSet(worker.todo)
  BY <1>1, <1>2, RipConstants, FS_Subset
<1>4. Min(worker.todo) \in worker.todo
  BY <1>1, RipMin
<1>5. Cardinality(worker.todo \ {Min(worker.todo)}) = Cardinality(worker.todo) - 1
  BY <1>3, <1>4, FS_RemoveElement
<1>6. Cardinality(worker.todo) \in Nat
  BY <1>3, FS_CardinalityType
<1> QED BY <1>1, <1>5, <1>6 DEF Rest

LEMMA RipCountsNext == RipBase /\ RipAccounted /\ [RipNext]_ripVars => RipAccounted'
<1> SUFFICES ASSUME RipBase, RipAccounted, [RipNext]_ripVars PROVE RipAccounted'
  OBVIOUS
<1>1. CASE RipQuiet
  BY <1>1 DEF RipQuiet, RipAccounted, At
<1>2. CASE QuitApp \/ RipLeaves
  BY <1>2 DEF QuitApp, RipLeaves, RipAccounted, Resting, Ripping
<1>3. CASE StartRip
  <2>1. /\ worker' = Begun(Head(cmds)) /\ Head(cmds) \in Request /\ RipFits(Head(cmds))
    BY <1>3, RipTaken, Zenon DEF StartRip, Take
  <2>2. Cardinality(Head(cmds).todo) = Head(cmds).total /\ Head(cmds).total \in Nat
    BY <2>1 DEF RipFits, Request
  <2> QED BY <2>1, <2>2 DEF RipAccounted, Begun, At
<1>4. CASE RipForward
  <2>1. worker \in Ripping /\ cancel' = cancel
    BY <1>4 DEF RipForward, RipPicks, RipSkips, RipReads, RipStops, RipFails, RipMoves, RipSweeps, RipChecks, RipGoes
  <2>2. CASE cancel
    BY <2>1, <2>2 DEF RipAccounted
  <2>3. CASE ~cancel
    <3> DEFINE told == worker.ripped + worker.failed + Cardinality(worker.todo)
    <3>1. worker.at = "check" => told = worker.total + 1
      BY <2>1, <2>3 DEF RipAccounted, At
    <3>2. worker.at # "check" => told = worker.total + 0
      BY <2>1, <2>3 DEF RipAccounted, At
    <3>3. worker.todo # {}
      <4>1. worker.at \in {"ffmpeg", "tag", "sweep", "check"} => worker.todo # {}
        BY DEF RipBase, RipRows, At
      <4> QED BY <1>4, <4>1 DEF RipForward, RipPicks, RipSkips, RipReads, RipStops, RipFails, RipMoves, RipSweeps, RipChecks, RipGoes
    <3>4. /\ Cardinality(Rest) = Cardinality(worker.todo) - 1
          /\ Cardinality(worker.todo) \in Nat
          /\ worker.ripped \in Nat /\ worker.failed \in Nat /\ worker.total \in Nat
      BY <2>1, <3>3, RipOneLess
    <3> DEFINE told2 == worker'.ripped + worker'.failed + Cardinality(worker'.todo)
    <3>5. worker'.total = worker.total
      BY <1>4 DEF RipForward, RipPicks, RipSkips, RipReads, RipStops, RipFails, RipMoves, RipSweeps, RipChecks, RipGoes
    <3>6. worker'.at = "check" => told2 = worker.total + 1
      BY <1>4, <2>3, <3>2, <3>4 DEF RipForward, RipPicks, RipSkips, RipReads, RipStops, RipFails, RipMoves, RipSweeps, RipChecks, RipGoes
    <3>7. worker'.at # "check" => told2 = worker.total + 0
      BY <1>4, <2>3, <3>1, <3>2, <3>4 DEF RipForward, RipPicks, RipSkips, RipReads, RipStops, RipFails, RipMoves, RipSweeps, RipChecks, RipGoes
    <3> QED BY <3>5, <3>6, <3>7 DEF RipAccounted, At
  <2> QED BY <2>2, <2>3
<1> QED BY <1>1, <1>2, <1>3, <1>4, RipSteps

\* Complete tells of every track that was asked for, unless the rip was cancelled.
THEOREM RipsAddUp == RipSpec => []RipAccounted
<1>1. RipInit => RipAccounted
  BY DEF RipInit, RipAccounted, Resting, Ripping
<1> QED BY <1>1, RipInitBase, RipBaseNext, RipCountsNext, PTL DEF RipSpec

-----------------------------------------------------------------------------
(* The temporary file is that of the track at hand.                         *)

RipPartInv == quits = 0 => part = IF worker.at \in {"ffmpeg", "tag"} THEN {This} ELSE {}

\* The track at hand stays the same as long as what is to do does.
LEMMA RipSameHand ==
    ASSUME worker'.todo = worker.todo, worker'.rel = worker.rel
    PROVE  This' = This
BY DEF This

LEMMA RipPartNext == RipBase /\ RipPartInv /\ [RipNext]_ripVars => RipPartInv'
<1> SUFFICES ASSUME RipBase, RipPartInv, [RipNext]_ripVars PROVE RipPartInv'
  OBVIOUS
<1>1. CASE RipQuiet
  BY <1>1 DEF RipQuiet, RipPartInv, This
<1>2. CASE QuitApp
  BY <1>2 DEF QuitApp, RipPartInv, RipBase, RipTypeOK
<1>3. CASE RipLeaves
  BY <1>3 DEF RipLeaves, RipPartInv, Resting
<1>4. CASE StartRip
  <2>1. worker.at = "idle" /\ worker'.at = "next" /\ UNCHANGED <<part, quits>>
    BY <1>4 DEF StartRip, Take, Begun, Resting, UnchangedApp, ripFiles, bounds
  <2> QED BY <2>1 DEF RipPartInv
<1>5. CASE RipForward
  <2>1. CASE RipPicks
    <3>1. This' = This
      BY <2>1, RipSameHand DEF RipPicks, RipGoes
    <3> QED BY <2>1, <3>1 DEF RipPicks, RipGoes, RipPartInv
  <2>2. CASE RipReads
    <3>1. This' = This
      BY <2>2, RipSameHand DEF RipReads, RipGoes
    <3> QED BY <2>2, <3>1 DEF RipReads, RipGoes, RipPartInv
  <2>3. CASE RipSkips \/ RipSweeps \/ RipChecks
    BY <2>3 DEF RipSkips, RipSweeps, RipChecks, RipGoes, RipPartInv
  <2>4. CASE RipStops \/ RipFails \/ RipMoves
    BY <2>4 DEF RipStops, RipFails, RipMoves, RipGoes, RipPartInv
  <2> QED BY <1>5, <2>1, <2>2, <2>3, <2>4 DEF RipForward
<1> QED BY <1>1, <1>2, <1>3, <1>4, <1>5, RipSteps

\* Between two commands there is no temporary file of a rip, however its tracks ended.
THEOREM NoPartsLeft == RipSpec => []NoPartLeft
<1>1. RipInit => RipPartInv
  BY DEF RipInit, RipPartInv, Resting
<1>2. RipPartInv => NoPartLeft
  BY DEF RipPartInv, NoPartLeft, Resting
<1> QED BY <1>1, <1>2, RipInitBase, RipBaseNext, RipPartNext, PTL DEF RipSpec

-----------------------------------------------------------------------------
(* One copy of what was ripped.  The new file is in place before the others *)
(* go, so of the track that is being swept there may be more.               *)

RipAlone(t) == \E e \in Ext : Chosen(t) = {e}

\* What is chosen of a track whose files a step leaves alone.
LEMMA RipChosenSame ==
    ASSUME NEW t \in Track,
           \A e \in Ext : musicDir'[<<t, e>>] = musicDir[<<t, e>>] /\ (<<t, e>> \in unswept' <=> <<t, e>> \in unswept)
    PROVE  RipAlone(t)' <=> RipAlone(t)
<1>1. Chosen(t)' = Chosen(t)
  BY DEF Chosen, Copies
<1> QED BY <1>1 DEF RipAlone

RipCopyInv ==
    /\ At("sweep") => musicDir[<<This, worker.ext>>] = "ripped"
    /\ quits = 0 =>
          \A t \in Track : (\E e \in Ext : musicDir[<<t, e>>] = "ripped") =>
              RipAlone(t) \/ (At("sweep") /\ t = This)

LEMMA RipCopyNext == RipBase /\ RipCopyInv /\ [RipNext]_ripVars => RipCopyInv'
<1> SUFFICES ASSUME RipBase, RipCopyInv, [RipNext]_ripVars PROVE RipCopyInv'
  OBVIOUS
<1> USE DEF At
<1>0. musicDir \in [File -> {Absent, "old", "ripped"}]
  BY DEF RipBase, RipTypeOK
<1>a. UNCHANGED <<musicDir, unswept>> => \A t \in Track : RipAlone(t)' <=> RipAlone(t)
  BY RipChosenSame
<1>1. CASE RipQuiet
  BY <1>1, <1>a DEF RipQuiet, RipCopyInv, This
<1>2. CASE QuitApp
  BY <1>2 DEF QuitApp, RipCopyInv, RipBase, RipTypeOK, Resting
<1>3. CASE RipLeaves
  BY <1>3, <1>a DEF RipLeaves, RipCopyInv, Resting
<1>4. CASE StartRip
  <2>1. worker.at = "idle" /\ worker'.at = "next" /\ UNCHANGED <<musicDir, unswept, quits>>
    BY <1>4 DEF StartRip, Take, Begun, Resting, UnchangedApp, ripFiles, bounds
  <2> QED BY <2>1, <1>a DEF RipCopyInv
<1>5. CASE RipPicks \/ RipSkips \/ RipReads \/ RipStops \/ RipFails \/ RipChecks
  <2>1. worker.at # "sweep" /\ worker'.at # "sweep" /\ UNCHANGED <<musicDir, unswept, quits>>
    BY <1>5 DEF RipPicks, RipSkips, RipReads, RipStops, RipFails, RipChecks, RipGoes
  <2> QED BY <2>1, <1>a DEF RipCopyInv
<1>6. CASE RipMoves
  <2>1. /\ worker.at = "tag" /\ worker'.at = "sweep" /\ UNCHANGED <<quits, unswept>>
        /\ worker'.ext = worker.ext /\ This' = This
        /\ musicDir' = [musicDir EXCEPT ![<<This, worker.ext>>] = "ripped"]
    BY <1>6, RipSameHand DEF RipMoves, RipGoes
  <2>2. This \in Track /\ worker.ext \in Ext
    BY <2>1, RipHand
  <2>3. <<This, worker.ext>> \in File
    BY <2>2, RipConstants
  <2>4. musicDir'[<<This, worker.ext>>] = "ripped"
    BY <1>0, <2>1, <2>3
  <2>5. ASSUME quits' = 0, NEW t \in Track, \E e \in Ext : musicDir'[<<t, e>>] = "ripped", t # This
        PROVE  RipAlone(t)'
    <3>1. \A e \in Ext : musicDir'[<<t, e>>] = musicDir[<<t, e>>]
      BY <1>0, <2>1, <2>5, RipConstants
    <3>2. RipAlone(t)
      BY <2>1, <2>5, <3>1 DEF RipCopyInv
    <3> QED BY <2>1, <3>1, <3>2, RipChosenSame
  <2> QED BY <2>1, <2>4, <2>5 DEF RipCopyInv
<1>7. CASE RipSweeps
  <2>1. worker.at = "sweep" /\ worker'.at = "check" /\ UNCHANGED quits
    BY <1>7 DEF RipSweeps, RipGoes
  <2>2. This \in Track /\ worker.ext \in Ext
    BY <2>1, RipHand
  <2>3. PICK S \in SUBSET Others :
          /\ musicDir' = [f \in File |-> IF f \in Others \ S THEN Absent ELSE musicDir[f]]
          /\ unswept' = (unswept \ ({This} \X Ext)) \cup S
    BY <1>7 DEF RipSweeps
  <2>4. \A f \in S : f[1] = This /\ f[2] # worker.ext
    BY <2>3 DEF Others
  <2>5. ASSUME quits' = 0, NEW t \in Track, \E e \in Ext : musicDir'[<<t, e>>] = "ripped"
        PROVE  RipAlone(t)'
    <3>1. CASE t # This
      <4>1. \A e \in Ext : musicDir'[<<t, e>>] = musicDir[<<t, e>>]
        BY <1>0, <2>3, <3>1, RipConstants DEF Others
      <4>2. \A e \in Ext : <<t, e>> \in unswept' <=> <<t, e>> \in unswept
        BY <2>3, <2>4, <3>1
      <4>3. RipAlone(t)
        BY <2>1, <2>5, <3>1, <4>1 DEF RipCopyInv
      <4> QED BY <4>1, <4>2, <4>3, RipChosenSame
    <3>2. CASE t = This
      <4>1. musicDir'[<<t, worker.ext>>] # Absent /\ <<t, worker.ext>> \notin unswept'
        <5>1. <<t, worker.ext>> \in File /\ <<t, worker.ext>> \notin Others /\ <<t, worker.ext>> \notin S
          BY <2>2, <2>4, <3>2, RipConstants DEF Others
        <5>2. musicDir[<<t, worker.ext>>] = "ripped"
          BY <2>1, <3>2 DEF RipCopyInv
        <5>3. musicDir'[<<t, worker.ext>>] = "ripped"
          BY <2>3, <5>1, <5>2
        <5>4. <<t, worker.ext>> \notin unswept'
          BY <2>2, <2>3, <3>2, <5>1
        <5> QED BY <5>3, <5>4, RipAssumption
      <4>2. ASSUME NEW e \in Ext, e # worker.ext, musicDir'[<<t, e>>] # Absent PROVE <<t, e>> \in unswept'
        <5>1. <<t, e>> \in File
          BY RipConstants
        <5>2. <<t, e>> \notin Others \ S /\ musicDir[<<t, e>>] # Absent
          BY <2>3, <4>2, <5>1
        <5>3. <<t, e>> \in Others
          BY <3>2, <4>2, <5>1, <5>2 DEF Others, OnDisk
        <5> QED BY <2>3, <5>2, <5>3
      <4>3. Chosen(t)' = {worker.ext}
        BY <2>2, <4>1, <4>2 DEF Chosen, Copies
      <4> QED BY <2>2, <4>3 DEF RipAlone
    <3> QED BY <3>1, <3>2
  <2> QED BY <2>1, <2>5 DEF RipCopyInv
<1> QED BY <1>1, <1>2, <1>3, <1>4, <1>5, <1>6, <1>7, RipSteps DEF RipForward

\* Once the rip of a track is over it is there in one format, whatever was there
\* before and whatever else was queued, but for files a sweep could not remove.
THEOREM OneCopyIsLeft == RipSpec => []OneCopyPerTrack
<1>1. RipInit => RipCopyInv
  <2> SUFFICES ASSUME RipInit PROVE RipCopyInv
    OBVIOUS
  <2>1. \A f \in File : musicDir[f] # "ripped" /\ ~At("sweep")
    BY RipAssumption DEF RipInit, At, Resting
  <2>2. \A t \in Track, e \in Ext : musicDir[<<t, e>>] # "ripped"
    BY <2>1, RipConstants
  <2>3. ~At("sweep")
    BY DEF RipInit, At, Resting
  <2> QED BY <2>2, <2>3 DEF RipCopyInv
<1>2. RipCopyInv => OneCopyPerTrack
  <2> SUFFICES ASSUME RipCopyInv, ~At("sweep"), quits = 0,
                      NEW t \in Track, NEW e \in Ext, musicDir[<<t, e>>] = "ripped"
               PROVE  Cardinality(Chosen(t)) = 1
    BY DEF OneCopyPerTrack
  <2>1. PICK d : Chosen(t) = {d}
    BY DEF RipCopyInv, RipAlone
  <2> QED BY <2>1, FS_Singleton
<1> QED BY <1>1, <1>2, RipInitBase, RipBaseNext, RipCopyNext, PTL DEF RipSpec

-----------------------------------------------------------------------------
(* The question about the files that are there.  An old file never appears, *)
(* so who was asked about all of them stays so.                             *)

\* Of the rows in S, those with an old file in M that the rip c may touch are in its answer.
RipAskedIn(M, c, S) ==
    \A p \in S \cap Position[c.rel], e \in Ext :
        M[<<<<c.rel, p>>, e>>] = "old" /\ (e = c.ext \/ PositionsFirst) => <<c.rel, p>> \in c.warned

RipAskedInv ==
    /\ overlay # Absent => (overlay.armed => RipAskedIn(musicDir, overlay, overlay.sel))
    /\ \A i \in DOMAIN cmds : IsRip(cmds[i]) => RipAskedIn(musicDir, cmds[i], cmds[i].todo)
    /\ worker \in Ripping => RipAskedIn(musicDir, worker, worker.todo)

LEMMA RipAskedFewer ==
    ASSUME NEW M, NEW L, \A f \in File : L[f] = "old" => M[f] = "old",
           NEW c, c.rel \in Release, NEW S \in SUBSET Rows[c.rel], NEW T \in SUBSET S,
           NEW d, d.rel = c.rel, d.ext = c.ext, d.warned = c.warned,
           RipAskedIn(M, c, S)
    PROVE  RipAskedIn(L, d, T)
<1> SUFFICES ASSUME NEW p \in T \cap Position[d.rel], NEW e \in Ext,
                    L[<<<<d.rel, p>>, e>>] = "old", e = d.ext \/ PositionsFirst
             PROVE  <<d.rel, p>> \in d.warned
  BY DEF RipAskedIn
<1>1. <<<<d.rel, p>>, e>> \in File
  BY RipConstants
<1> QED BY <1>1 DEF RipAskedIn

LEMMA RipOldFewer ==
    ASSUME RipBase, [RipNext]_ripVars, NEW f \in File, musicDir'[f] = "old"
    PROVE  musicDir[f] = "old"
<1>0. musicDir \in [File -> {Absent, "old", "ripped"}]
  BY DEF RipBase, RipTypeOK
<1>1. CASE RipQuiet \/ RipLeaves \/ QuitApp \/ StartRip
  BY <1>1 DEF RipQuiet, RipLeaves, QuitApp, StartRip, UnchangedApp, ripFiles
<1>2. CASE RipForward /\ ~RipMoves /\ ~RipSweeps
  BY <1>2 DEF RipForward, RipPicks, RipSkips, RipReads, RipStops, RipFails, RipChecks
<1>3. CASE RipMoves
  BY <1>0, <1>3 DEF RipMoves
<1>4. CASE RipSweeps
  BY <1>4, RipConstants, RipAssumption DEF RipSweeps
<1> QED BY <1>1, <1>2, <1>3, <1>4, RipSteps

\* All old files of the tracks that are selected are among those the question is about.
LEMMA RipConflicts ==
    ASSUME RipBase, overlay # Absent,
           NEW p \in overlay.sel \cap Position[overlay.rel], NEW e \in Ext,
           musicDir[<<<<overlay.rel, p>>, e>>] = "old",
           e = overlay.ext \/ PositionsFirst
    PROVE  <<overlay.rel, p>> \in Conflicts(overlay)
<1> DEFINE t == <<overlay.rel, p>>
           first == Min(overlay.sel)
<1>1. /\ overlay.rel \in Release /\ overlay.sel \in SUBSET Nat /\ overlay.sel \subseteq Rows[overlay.rel]
  BY DEF RipBase, RipTypeOK, RipRows, Overlay
<1>2. e \in Copies(t)
  BY RipConstants DEF Copies
<1>3. t \in {overlay.rel} \X (overlay.sel \cap Position[overlay.rel])
  OBVIOUS
<1>4. first \in overlay.sel /\ first <= p
  BY <1>1, RipMin
<1>5. CASE first \in Position[overlay.rel]
  BY <1>2, <1>3, <1>5 DEF Conflicts
<1>6. CASE first \notin Position[overlay.rel]
  <2>1. ~PositionsFirst
    <3>1. first # p /\ first \in Nat /\ p \in Nat
      BY <1>1, <1>4, <1>6
    <3>2. first < p
      BY <1>4, <3>1
    <3> QED BY <1>1, <1>4, <1>6, <3>2 DEF PositionsFirst
  <2> QED BY <1>2, <1>3, <1>6, <2>1 DEF Conflicts
<1> QED BY <1>5, <1>6

LEMMA RipAskedOverlay ==
    ASSUME RipBase, RipAskedInv, [RipNext]_ripVars
    PROVE  overlay' # Absent => (overlay'.armed => RipAskedIn(musicDir', overlay', overlay'.sel))
<1> SUFFICES ASSUME overlay' # Absent, overlay'.armed
             PROVE  RipAskedIn(musicDir', overlay', overlay'.sel)
  OBVIOUS
<1>0. \A f \in File : musicDir'[f] = "old" => musicDir[f] = "old"
  BY RipOldFewer
<1>1. overlay # Absent => overlay \in Overlay /\ overlay.rel \in Release /\ overlay.sel \in SUBSET Rows[overlay.rel]
  BY DEF RipBase, RipTypeOK, RipRows, Overlay
<1>2. CASE overlay' = overlay
  BY <1>0, <1>1, <1>2, RipAskedFewer DEF RipAskedInv
<1>3. CASE OpenOverlay
  BY <1>3 DEF OpenOverlay
<1>4. CASE EditOverlay
  <2>1. overlay # Absent /\ overlay \in Overlay
    BY <1>1, <1>4 DEF EditOverlay
  <2>2. overlay' = [overlay EXCEPT !.eject = ~@]
    <3>2. ASSUME NEW o \in Overlay PROVE ~Disarmed(o).armed
      BY DEF Disarmed, Overlay
    <3>3. ASSUME NEW r \in Rows[overlay.rel] PROVE [overlay EXCEPT !.sel = SymDiff(@, {r})] \in Overlay
      <4>1. SymDiff(overlay.sel, {r}) \in SUBSET Nat
        BY <2>1, <1>1, RipConstants DEF SymDiff
      <4> QED BY <2>1, <4>1 DEF Overlay
    <3>4. ASSUME NEW S \in {{}, Rows[overlay.rel]} PROVE [overlay EXCEPT !.sel = S] \in Overlay
      <4>1. S \in SUBSET Nat
        BY <2>1, <1>1, RipConstants
      <4> QED BY <2>1, <4>1 DEF Overlay
    <3>5. ASSUME NEW r \in Release PROVE [overlay EXCEPT !.rel = r, !.sel = Rows[r]] \in Overlay
      <4>1. Rows[r] \in SUBSET Nat
        BY RipConstants
      <4> QED BY <2>1, <4>1 DEF Overlay
    <3>6. ASSUME NEW e \in Ext PROVE [overlay EXCEPT !.ext = e] \in Overlay
      BY <2>1 DEF Overlay
    <3> QED BY <1>4, <3>2, <3>3, <3>4, <3>5, <3>6 DEF EditOverlay
  <2>3. /\ overlay'.rel = overlay.rel /\ overlay'.sel = overlay.sel /\ overlay'.ext = overlay.ext
        /\ overlay'.warned = overlay.warned /\ overlay'.armed = overlay.armed
    BY <2>1, <2>2 DEF Overlay
  <2>4. RipAskedIn(musicDir, overlay, overlay.sel)
    BY <2>1, <2>3 DEF RipAskedInv
  <2> QED BY <1>0, <1>1, <2>1, <2>3, <2>4, RipAskedFewer
<1>5. CASE ConfirmImport /\ overlay' # Absent
  <2>1. overlay # Absent /\ overlay \in Overlay
        /\ overlay' = [overlay EXCEPT !.armed = TRUE, !.warned = Conflicts(overlay)]
    BY <1>1, <1>5 DEF ConfirmImport
  <2>2. /\ overlay'.rel = overlay.rel /\ overlay'.sel = overlay.sel /\ overlay'.ext = overlay.ext
        /\ overlay'.warned = Conflicts(overlay) /\ musicDir' = musicDir
    BY <2>1, <1>5 DEF Overlay, ConfirmImport, ripFiles
  <2>3. ASSUME NEW p \in overlay'.sel \cap Position[overlay'.rel], NEW e \in Ext,
               musicDir'[<<<<overlay'.rel, p>>, e>>] = "old", e = overlay'.ext \/ PositionsFirst
        PROVE  <<overlay'.rel, p>> \in overlay'.warned
    BY <2>1, <2>2, <2>3, RipConflicts
  <2> QED BY <2>3 DEF RipAskedIn
<1>6. CASE QuitApp \/ CloseOverlay
  BY <1>6 DEF QuitApp, CloseOverlay
<1>7. CASE CancelRip \/ PressSync \/ MoveDisc \/ HandleEvent \/ WorkerNext \/ UNCHANGED ripVars
  <2>1. overlay' = overlay
    BY <1>7 DEF CancelRip, PressSync, MoveDisc, HandleEvent, WorkerNext, StartRip, OnCancel, OnLoadLibrary,
       StartSync, SyncDrain, EndSync, NextTrack, RipTrack, MoveIntoPlace, Sweep, CheckCancel, FinishRip,
       UnchangedApp, UnchangedRip, app, ripVars
  <2> QED BY <2>1, <1>2
<1> QED BY <1>2, <1>3, <1>4, <1>5, <1>6, <1>7 DEF RipNext, Keys

LEMMA RipAskedSends ==
    ASSUME RipBase, RipAskedInv, ConfirmImport, cmds' # cmds
    PROVE  \E c \in Request : /\ cmds' = Append(cmds, c) /\ c.rel \in Release /\ c.todo \in SUBSET Rows[c.rel]
                              /\ RipFits(c) /\ RipAskedIn(musicDir, c, c.todo)
<1> DEFINE o == overlay
           c == [n |-> rips + 1, rel |-> o.rel, ext |-> o.ext,
                 eject |-> o.eject, warned |-> o.warned, total |-> Cardinality(o.sel),
                 todo |-> o.sel]
<1>1. cmds' = Append(cmds, c) /\ (Conflicts(o) = {} \/ o.armed) /\ o # Absent
  BY DEF ConfirmImport, Send
<1>2. o \in Overlay /\ o.sel \in SUBSET Rows[o.rel] /\ o.sel \in SUBSET Nat /\ o.rel \in Release
  BY <1>1 DEF RipBase, RipTypeOK, RipRows, Overlay
<1>3. Cardinality(o.sel) \in Nat
  <2>1. IsFiniteSet(Rows[o.rel])
    BY <1>2, RipConstants
  <2> QED BY <1>2, <2>1, FS_Subset, FS_CardinalityType
<1>4. rips + 1 \in 1..MaxRips
  BY <1>1, RipAssumption DEF RipBase, RipTypeOK, RipRows
<1>5. c \in Request /\ RipFits(c)
  BY <1>2, <1>3, <1>4 DEF Overlay, Request, RipFits
<1>6. ASSUME NEW p \in c.todo \cap Position[c.rel], NEW e \in Ext,
             musicDir[<<<<c.rel, p>>, e>>] = "old", e = c.ext \/ PositionsFirst
      PROVE  <<c.rel, p>> \in c.warned
  <2>1. <<o.rel, p>> \in Conflicts(o)
    BY <1>1, <1>6, RipConflicts
  <2>2. RipAskedIn(musicDir, o, o.sel)
    BY <1>1, <2>1 DEF RipAskedInv
  <2> QED BY <1>6, <2>2 DEF RipAskedIn
<1>7. RipAskedIn(musicDir, c, c.todo)
  BY <1>6 DEF RipAskedIn
<1> HIDE DEF c
<1>8. c.rel = o.rel /\ c.todo = o.sel
  BY DEF c
<1> QED BY <1>1, <1>2, <1>5, <1>7, <1>8

\* Where the commands that wait come from.
LEMMA RipQueued ==
    ASSUME RipBase, RipAskedInv, [RipNext]_ripVars, NEW i \in DOMAIN cmds', IsRip(cmds'[i])
    PROVE  \/ \E j \in DOMAIN cmds : cmds'[i] = cmds[j]
           \/ /\ cmds'[i] \in Request /\ cmds'[i].rel \in Release
              /\ cmds'[i].todo \in SUBSET Rows[cmds'[i].rel]
              /\ RipAskedIn(musicDir, cmds'[i], cmds'[i].todo)
<1>1. CASE cmds' = cmds
  BY <1>1
<1>2. CASE cmds # << >> /\ cmds' = Tail(cmds)
  BY <1>2, RipTaken, Zenon
<1>3. ASSUME NEW c \in {Cancel, Load, Sync}, cmds' = Append(cmds, c)
      PROVE  \E j \in DOMAIN cmds : cmds'[i] = cmds[j]
  <2>1. c \in RipCommand /\ ~IsRip(c)
    BY DEF RipCommand, IsRip
  <2>2. cmds'[i] = c \/ \E j \in DOMAIN cmds : cmds'[i] = cmds[j]
    BY <1>3, <2>1, RipSent, Zenon
  <2> QED BY <2>1, <2>2
<1>4. CASE ConfirmImport /\ cmds' # cmds
  <2>1. PICK c \in Request : /\ cmds' = Append(cmds, c) /\ c.rel \in Release /\ c.todo \in SUBSET Rows[c.rel]
                             /\ RipFits(c) /\ RipAskedIn(musicDir, c, c.todo)
    BY <1>4, RipAskedSends
  <2>2. c \in RipCommand
    BY DEF RipCommand
  <2>3. cmds'[i] = c \/ \E j \in DOMAIN cmds : cmds'[i] = cmds[j]
    BY <2>1, <2>2, RipSent, Zenon
  <2> QED BY <2>1, <2>3
<1>5. CASE QuitApp
  <2>1. cmds' = << >>
    BY <1>5 DEF QuitApp
  <2> QED BY <2>1, EmptySeq, LenProperties
<1>6. CASE HandleEvent
  <2>1. cmds' = cmds \/ cmds' = Append(cmds, Load)
    <3>1. reports \in Seq(Report) /\ reports # << >>
      BY <1>6 DEF HandleEvent, RipBase, RipTypeOK
    <3>2. Head(reports).kind \in {"started", "done", "complete", "loaded"}
      BY <3>1, RipTail DEF Report
    <3> QED BY <1>6, <3>2 DEF HandleEvent, OnStarted, OnTrackDone, OnComplete, OnLoaded, Send
  <2> QED BY <1>1, <1>3, <2>1
<1>7. CASE CancelRip \/ PressSync
  <2>1. cmds' = Append(cmds, Cancel) \/ cmds' = Append(cmds, Sync)
    BY <1>7 DEF CancelRip, PressSync, Send
  <2> QED BY <1>3, <2>1
<1>8. CASE OpenOverlay \/ CloseOverlay \/ EditOverlay \/ MoveDisc \/ UNCHANGED ripVars
  BY <1>1, <1>8 DEF OpenOverlay, CloseOverlay, EditOverlay, MoveDisc, ripVars
<1>9. CASE StartRip \/ OnCancel \/ OnLoadLibrary \/ StartSync \/ SyncDrain
  BY <1>2, <1>9 DEF StartRip, OnCancel, OnLoadLibrary, StartSync, SyncDrain, Take
<1>10. CASE EndSync \/ NextTrack \/ RipTrack \/ MoveIntoPlace \/ Sweep \/ CheckCancel \/ FinishRip
  BY <1>1, <1>10 DEF EndSync, NextTrack, RipTrack, MoveIntoPlace, Sweep, CheckCancel, FinishRip, UnchangedRip
<1> QED BY <1>1, <1>4, <1>5, <1>6, <1>7, <1>8, <1>9, <1>10 DEF RipNext, Keys, WorkerNext

LEMMA RipAskedNext == RipBase /\ RipAskedInv /\ [RipNext]_ripVars => RipAskedInv'
<1> SUFFICES ASSUME RipBase, RipAskedInv, [RipNext]_ripVars PROVE RipAskedInv'
  OBVIOUS
<1>0. \A f \in File : musicDir'[f] = "old" => musicDir[f] = "old"
  BY RipOldFewer
<1>1. overlay' # Absent => (overlay'.armed => RipAskedIn(musicDir', overlay', overlay'.sel))
  BY RipAskedOverlay
<1>2. ASSUME NEW i \in DOMAIN cmds', IsRip(cmds'[i])
      PROVE  RipAskedIn(musicDir', cmds'[i], cmds'[i].todo)
  <2>0. PICK c : c = cmds'[i]
    OBVIOUS
  <2>1. CASE \E j \in DOMAIN cmds : c = cmds[j]
    <3>1. PICK j \in DOMAIN cmds : c = cmds[j]
      BY <2>1
    <3>2. cmds[j] \in RipCommand
      BY ElementOfSeq, LenProperties DEF RipBase, RipTypeOK, RipCommand
    <3>3. cmds[j] \in Request /\ RipFits(cmds[j]) /\ RipAskedIn(musicDir, cmds[j], cmds[j].todo)
      BY <1>2, <2>0, <3>1, <3>2 DEF RipCommand, IsRip, RipBase, RipRows, RipAskedInv
    <3>4. c.rel \in Release /\ c.todo \in SUBSET Rows[c.rel]
      BY <3>1, <3>3 DEF RipFits, Request
    <3> QED BY <1>0, <2>0, <3>1, <3>3, <3>4, RipAskedFewer
  <2>2. CASE /\ c \in Request /\ c.rel \in Release /\ c.todo \in SUBSET Rows[c.rel]
             /\ RipAskedIn(musicDir, c, c.todo)
    <3> QED BY <1>0, <2>0, <2>2, RipAskedFewer
  <2> QED BY <1>2, <2>0, <2>1, <2>2, RipQueued
<1>3. ASSUME worker' \in Ripping
      PROVE  RipAskedIn(musicDir', worker', worker'.todo)
  <2>1. worker \in Ripping => /\ worker.rel \in Release /\ worker.todo \in SUBSET Rows[worker.rel]
                              /\ RipAskedIn(musicDir, worker, worker.todo)
    BY DEF RipBase, RipRows, RipAskedInv, Ripping
  <2>2. CASE RipQuiet
    BY <1>0, <1>3, <2>1, <2>2, RipAskedFewer DEF RipQuiet
  <2>3. CASE QuitApp \/ RipLeaves
    BY <1>3, <2>3 DEF QuitApp, RipLeaves, Resting, Ripping
  <2>4. CASE StartRip
    <3> DEFINE c == Head(cmds)
    <3>1. /\ worker' = Begun(c) /\ c \in Request /\ RipFits(c) /\ IsRip(c)
          /\ \E j \in DOMAIN cmds : c = cmds[j]
      BY <2>4, RipTaken, Zenon DEF StartRip, Take
    <3> HIDE DEF c
    <3>2. RipAskedIn(musicDir, c, c.todo) /\ c.rel \in Release /\ c.todo \in SUBSET Rows[c.rel]
      BY <3>1 DEF RipAskedInv, RipFits, Request
    <3>3. worker'.rel = c.rel /\ worker'.ext = c.ext /\ worker'.warned = c.warned /\ worker'.todo = c.todo
      BY <3>1 DEF Begun
    <3> QED BY <1>0, <3>2, <3>3, RipAskedFewer
  <2>5. CASE RipForward
    <3>1. /\ worker \in Ripping /\ worker'.rel = worker.rel /\ worker'.ext = worker.ext
          /\ worker'.warned = worker.warned
          /\ worker'.todo = worker.todo \/ worker'.todo = Rest
      BY <2>5 DEF RipForward, RipPicks, RipSkips, RipReads, RipStops, RipFails, RipMoves, RipSweeps, RipChecks, RipGoes
    <3>2. worker'.todo \in SUBSET worker.todo
      BY <3>1 DEF Rest
    <3> QED BY <1>0, <2>1, <3>1, <3>2, RipAskedFewer
  <2> QED BY <2>2, <2>3, <2>4, <2>5, RipSteps
<1> QED BY <1>1, <1>2, <1>3 DEF RipAskedInv

\* The file of another format than the rip's is asked about only where the album's
\* directory was looked up.
RipAsksFirst(f) ==
    musicDir[f] = "old" /\ musicDir'[f] # "old" /\ (f[2] = worker.ext \/ PositionsFirst)
       => f[1] \in worker.warned

LEMMA RipAsks ==
    ASSUME RipBase, RipAskedInv, [RipNext]_ripVars, NEW f \in File
    PROVE  RipAsksFirst(f)
<1> SUFFICES ASSUME musicDir[f] = "old", musicDir'[f] # "old", f[2] = worker.ext \/ PositionsFirst
             PROVE  f[1] \in worker.warned
  BY DEF RipAsksFirst
<1>1. f[1] \in Track /\ f[2] \in Ext /\ f = <<f[1], f[2]>>
  BY RipConstants
<1>2. RipMoves \/ RipSweeps
  <2>1. ~(RipQuiet \/ QuitApp \/ RipLeaves \/ StartRip)
    BY DEF RipQuiet, QuitApp, RipLeaves, StartRip, UnchangedApp, ripFiles
  <2>2. ~(RipPicks \/ RipSkips \/ RipReads \/ RipStops \/ RipFails \/ RipChecks)
    BY DEF RipPicks, RipSkips, RipReads, RipStops, RipFails, RipChecks
  <2> QED BY <2>1, <2>2, RipSteps DEF RipForward
<1>3. f[1] = This
  <2>1. musicDir \in [File -> {Absent, "old", "ripped"}]
    BY DEF RipBase, RipTypeOK
  <2>2. CASE RipMoves
    BY <1>1, <2>1, <2>2 DEF RipMoves
  <2>3. CASE RipSweeps
    BY <1>1, <2>3 DEF RipSweeps, Others
  <2> QED BY <1>2, <2>2, <2>3
<1>4. worker.at \in {"tag", "sweep"} /\ worker \in Ripping
  BY <1>2 DEF RipMoves, RipSweeps, RipGoes
<1>5. /\ Min(worker.todo) \in worker.todo /\ Min(worker.todo) \in Position[worker.rel]
      /\ RipAskedIn(musicDir, worker, worker.todo)
  BY <1>4, RipHand DEF RipBase, RipRows, RipAskedInv
<1> QED BY <1>1, <1>3, <1>5 DEF RipAskedIn, This

LEMMA RipAskedHolds == RipSpec => [](RipBase /\ RipAskedInv)
<1>1. RipInit => RipAskedInv
  BY EmptySeq, LenProperties DEF RipInit, RipAskedInv, Resting, Ripping
<1> QED BY <1>1, RipInitBase, RipBaseNext, RipAskedNext, PTL DEF RipSpec

\* A file of the user is overwritten or swept only after he was asked about that track,
\* on a release whose rows without a position come last.
THEOREM OldFilesAreAsked ==
    ASSUME PositionsFirst
    PROVE  RipSpec => OldFilesAsked
<1>1. RipBase /\ RipAskedInv /\ [RipNext]_ripVars
         => [\A f \in File : musicDir[f] = "old" /\ musicDir'[f] # "old" => f[1] \in worker.warned]_ripVars
  BY RipAsks DEF RipAsksFirst
<1> QED BY <1>1, RipAskedHolds, PTL DEF RipSpec, OldFilesAsked

\* On any release this holds of the file the rip is going to write over.
THEOREM OverwritesAreAsked ==
    RipSpec => [][\A f \in File : musicDir[f] = "old" /\ musicDir'[f] # "old" /\ f[2] = worker.ext
                                     => f[1] \in worker.warned]_ripVars
<1>1. RipBase /\ RipAskedInv /\ [RipNext]_ripVars
         => [\A f \in File : musicDir[f] = "old" /\ musicDir'[f] # "old" /\ f[2] = worker.ext
                                => f[1] \in worker.warned]_ripVars
  BY RipAsks DEF RipAsksFirst
<1> QED BY <1>1, RipAskedHolds, PTL DEF RipSpec

=============================================================================
