------------------------------ MODULE SyncRun ------------------------------
(***************************************************************************)
(* The device sync of the TUI: the App's sync queue (app.rs), the two      *)
(* mpsc channels between the UI thread and the background worker, and the  *)
(* worker's sync loop (background.rs, ExecuteSyncQueue | AppendSyncQueue). *)
(*                                                                         *)
(* The UI thread repeats: handle every pending event, flush the commands   *)
(* those handlers queued, handle at most one key.  The worker takes one    *)
(* command at a time; while a run is in progress it reads the channel      *)
(* itself, in drain_sync_commands.  The connection is up until a run loses *)
(* the device; connecting is the subject of module CommandLoop.            *)
(***************************************************************************)
EXTENDS Integers, Sequences, FiniteSets

CONSTANTS
    Track,           \* library tracks
    NeedsTranscode,  \* those the device cannot play natively (will_transcode)
    Picks,           \* what one `a` may add: [tracks : Seq(Track), name]
    NoName,          \* the name of a pick that is not a playlist
    InitialCopies,   \* copies on the device at connect time
    Window,          \* transcode_parallelism()
    MaxKeys          \* bound: keys pressed in a behaviour

Copy == [track : Track, oid : Nat, path : Nat]

ASSUME SyncAssumption ==
    /\ NeedsTranscode \subseteq Track
    /\ \A p \in Picks : p.tracks \in Seq(Track) /\ p.tracks # <<>>
    /\ InitialCopies \subseteq Copy /\ IsFiniteSet(InitialCopies)
    \* Every object of the device has a handle of its own.
    /\ \A c \in InitialCopies : c.oid \in 1..Cardinality(InitialCopies)
    /\ \A c, d \in InitialCopies : c.oid = d.oid => c = d
    /\ Window \in Nat \ {0}
    /\ MaxKeys \in Nat

VARIABLES
    \* UI thread
    queue,      \* sync.queue, flattened: items [id, entry, track]
    imports,    \* pending_playlist_imports: names
    running,    \* sync.status is Running
    connected,  \* device.status is Connected
    index,      \* the copies the App's device index holds
    pending,    \* pending_bg_commands
    phase,      \* where run_loop is: "events" or "key"
    keys,       \* keys pressed so far
    \* channels
    cmds, evs,
    \* worker
    pc,         \* "idle", "drain1", "drain2", "overwrite", "finish", "abort"
    session,
    runq,       \* sync_queue of the run
    hand,       \* the popped item, <<>> between two items
    total, processed, success, failed, cancelled,
    prepared,   \* transcode outcome of each track in this run
    \* device
    device,     \* copies that exist
    nextOid,
    \* history
    forwarded,  \* ids handed over by AppendSyncQueue
    settled,    \* ids reported to the user: done, failed, skipped or error
    report,     \* last SyncTrackDone of each track
    doubtful    \* copies the user was told could not be removed

ui      == <<queue, imports, running, connected, index, pending, phase, keys>>
run     == <<runq, hand, total, processed, success, failed, cancelled, prepared>>
dev     == <<device, nextOid>>
history == <<forwarded, settled, report, doubtful>>
vars    == <<ui, cmds, evs, pc, session, run, dev, history>>

-----------------------------------------------------------------------------
(* Sync items, commands and events.                                          *)
(*                                                                           *)
(* An operator X_Y is X with a plausible mistake.  No specification uses it:  *)
(* it is there to be put in the place of X, to see that a property notices.   *)

\* find_device_copies: every indexed copy of the track, none when not connected.
FindCopies(track) == IF connected THEN {c \in index : c.track = track} ELSE {}

DropRange(s, first, last) == SubSeq(s, 1, first - 1) \o SubSeq(s, last + 1, Len(s))

\* A playlist name is registered once.
Without(names, n) ==
    IF \E i \in DOMAIN names : names[i] = n
    THEN LET i == CHOOSE i \in DOMAIN names : names[i] = n IN DropRange(names, i, i)
    ELSE names

\* What the worker receives for the queued items: each with its overwrite_targets.
Stamp(items) ==
    [i \in DOMAIN items |-> [id |-> items[i].id, track |-> items[i].track,
                             targets |-> FindCopies(items[i].track)]]

Ids(items) == {items[i].id : i \in DOMAIN items}

\* Only the last track of the entry is forwarded.
Append_Last(items) == [op |-> "append", items |-> <<items[Len(items)]>>]

Execute(items) == [op |-> "execute", items |-> items]
Append_(items) == [op |-> "append", items |-> items]
CancelSync     == [op |-> "cancel"]
Import(name)   == [op |-> "import", name |-> name]

\* A removal is a toast only.
Removed_Quiet(p) == [ev |-> "notice"]

\* A run that leaves tracks behind ends with an error instead.
Complete_Clean(s, f, k) ==
    IF k = 0 THEN [ev |-> "complete", success |-> s, failed |-> f, skipped |-> k]
    ELSE [ev |-> "notice"]

Emit(es)    == evs' = evs \o es
Progress    == [ev |-> "progress"]
Added(c)    == [ev |-> "added", copy |-> c]
Removed(p)  == [ev |-> "removed", path |-> p]
Notice      == [ev |-> "notice"]      \* Error, PlaylistImported: a toast
Complete(s, f, k) == [ev |-> "complete", success |-> s, failed |-> f, skipped |-> k]
SessionFailed == [ev |-> "lost"]

\* A copy uploaded in this session is indexed under "Artist/Album/Name", which
\* all uploads of the track share (path 0); one listed by the device has a path
\* of its own.
UploadPath == 0

-----------------------------------------------------------------------------
Init ==
    /\ queue = <<>> /\ imports = <<>> /\ running = FALSE /\ connected = TRUE
    /\ index = InitialCopies
    /\ pending = <<>> /\ phase = "events" /\ keys = 0
    /\ cmds = <<>> /\ evs = <<>>
    /\ pc = "idle" /\ session = TRUE
    /\ runq = <<>> /\ hand = <<>>
    /\ total = 0 /\ processed = 0 /\ success = 0 /\ failed = 0
    /\ cancelled = FALSE
    /\ prepared = [t \in Track |-> "none"]
    /\ device = InitialCopies
    /\ nextOid = 1 + Cardinality(InitialCopies)
    /\ forwarded = {} /\ settled = {}
    /\ report = [t \in Track |-> "none"]
    /\ doubtful = {}

-----------------------------------------------------------------------------
(* UI thread, events. *)

HandleEvent(kind) ==
    /\ phase = "events" /\ evs # <<>> /\ Head(evs).ev = kind
    /\ evs' = Tail(evs)
    /\ UNCHANGED <<phase, keys, cmds, pc, session, run, dev, history>>

OnSyncProgress ==
    /\ HandleEvent("progress")
    /\ running' = TRUE
    /\ UNCHANGED <<queue, imports, connected, index, pending>>

\* add_indexed_track ignores a copy whose path is already indexed for the track.
OnDeviceTrackAdded ==
    /\ HandleEvent("added")
    /\ LET c == Head(evs).copy
       IN  index' = IF \E d \in index : d.track = c.track /\ d.path = c.path
                    THEN index ELSE index \cup {c}
    /\ UNCHANGED <<queue, imports, running, connected, pending>>

OnDeviceTrackRemoved ==
    /\ HandleEvent("removed")
    /\ index' = {c \in index : <<c.track, c.path>> # Head(evs).path}
    /\ UNCHANGED <<queue, imports, running, connected, pending>>

\* The queue is emptied and the playlists registered with it are imported.
OnSyncComplete ==
    /\ HandleEvent("complete")
    /\ running' = FALSE
    /\ queue' = <<>>
    /\ pending' = pending \o [i \in DOMAIN imports |-> Import(imports[i])]
    /\ imports' = <<>>
    /\ UNCHANGED <<connected, index>>

OnSessionFailed ==
    /\ HandleEvent("lost")
    /\ connected' = FALSE
    /\ UNCHANGED <<queue, imports, running, index, pending>>

OnNotice ==
    /\ HandleEvent("notice")
    /\ UNCHANGED <<queue, imports, running, connected, index, pending>>

\* The events are exhausted: send what their handlers (and the last key) queued.
FlushPending ==
    /\ phase = "events" /\ evs = <<>>
    /\ cmds' = cmds \o pending
    /\ pending' = <<>>
    /\ phase' = "key"
    /\ UNCHANGED <<queue, imports, running, connected, index, keys, evs, pc,
                   session, run, dev, history>>

-----------------------------------------------------------------------------
(* UI thread, keys. *)

NoKey ==
    /\ phase = "key" /\ phase' = "events"
    /\ UNCHANGED <<queue, imports, running, connected, index, pending, keys,
                   cmds, evs, pc, session, run, dev, history>>

PressKey ==
    /\ phase = "key" /\ keys < MaxKeys
    /\ phase' = "events" /\ keys' = keys + 1
    /\ UNCHANGED <<connected, running, index, evs, pc, session, run, dev,
                   settled, report, doubtful>>

\* `a`: a new queue entry; while a sync runs its items are forwarded to the worker.
AddToQueue(pick) ==
    LET n     == Len(pick.tracks)
        items == [i \in 1..n |-> [id |-> 10 * keys + i, entry |-> keys,
                                  track |-> pick.tracks[i]]]
    IN  /\ PressKey
        /\ queue' = queue \o items
        /\ IF pick.name = NoName THEN imports' = imports
           ELSE imports' = Append(Without(imports, pick.name), pick.name)
        /\ IF running
           THEN /\ pending' = Append(pending, Append_(Stamp(items)))
                /\ forwarded' = forwarded \cup Ids(items)
           ELSE UNCHANGED <<pending, forwarded>>
        /\ UNCHANGED cmds

\* The tracks of an entry are next to each other.
RemoveQueueItem(entry) ==
    /\ PressKey
    /\ \E first, last \in DOMAIN queue :
         /\ \A i \in DOMAIN queue : queue[i].entry = entry <=> i \in first..last
         /\ first <= last
         /\ queue' = DropRange(queue, first, last)
    /\ UNCHANGED <<imports, pending, cmds, forwarded>>

ClearQueue ==
    /\ PressKey
    /\ queue' = <<>> /\ imports' = <<>>
    /\ UNCHANGED <<pending, cmds, forwarded>>

\* `S`: nothing marks the sync as Running until the worker's first SyncProgress.
ExecuteSync ==
    /\ PressKey
    /\ queue # <<>> /\ connected
    /\ cmds' = Append(cmds, Execute(Stamp(queue)))
    /\ UNCHANGED <<queue, imports, pending, forwarded>>

\* Esc.
PressCancel ==
    /\ PressKey
    /\ running
    /\ cmds' = Append(cmds, CancelSync)
    /\ imports' = <<>>
    /\ UNCHANGED <<queue, pending, forwarded>>

UINext ==
    \/ OnSyncProgress \/ OnDeviceTrackAdded \/ OnDeviceTrackRemoved
    \/ OnSyncComplete \/ OnSessionFailed \/ OnNotice
    \/ FlushPending \/ NoKey
    \/ \E pick \in Picks : AddToQueue(pick)
    \/ \E entry \in 0..MaxKeys : RemoveQueueItem(entry)
    \/ ClearQueue \/ ExecuteSync \/ PressCancel

-----------------------------------------------------------------------------
(* Worker. *)

WorkerOnly == UNCHANGED <<ui, forwarded, session, doubtful>>

\* Idle, take the next command.  A late AppendSyncQueue starts a run of its own.
StartRun ==
    /\ pc = "idle" /\ session /\ cmds # <<>>
    /\ Head(cmds).op \in {"execute", "append"}
    /\ cmds' = Tail(cmds)
    /\ runq' = Head(cmds).items
    /\ total' = Len(Head(cmds).items)
    /\ hand' = <<>> /\ processed' = 0 /\ success' = 0 /\ failed' = 0
    /\ cancelled' = FALSE
    /\ prepared' = [t \in Track |-> "none"]
    /\ pc' = "drain1"
    /\ UNCHANGED <<evs, dev, settled, report>> /\ WorkerOnly

\* Error("No active session"): the items of the command are gone, with a toast.
RefuseRun ==
    /\ pc = "idle" /\ ~session /\ cmds # <<>>
    /\ Head(cmds).op \in {"execute", "append"}
    /\ cmds' = Tail(cmds)
    /\ Emit(<<Notice>>)
    /\ settled' = settled \cup Ids(Head(cmds).items)
    /\ UNCHANGED <<pc, run, dev, report>> /\ WorkerOnly

IgnoreCancel ==
    /\ pc = "idle" /\ cmds # <<>> /\ Head(cmds).op = "cancel"
    /\ cmds' = Tail(cmds)
    /\ UNCHANGED <<pc, run, evs, dev, settled, report>> /\ WorkerOnly

\* PlaylistImported(Ok | Err); an error that means the device is gone ends the session.
ImportPlaylist ==
    /\ pc = "idle" /\ cmds # <<>> /\ Head(cmds).op = "import"
    /\ cmds' = Tail(cmds)
    /\ \/ Emit(<<Notice>>) /\ session' = session
       \/ session /\ Emit(<<Notice, SessionFailed>>) /\ session' = FALSE
    /\ UNCHANGED <<ui, pc, run, dev, history>>

\* drain_sync_commands, one command; run before and after the transcoding.
DrainCommand ==
    /\ pc \in {"drain1", "drain2"} /\ cmds # <<>>
    /\ cmds' = Tail(cmds)
    /\ LET cmd == Head(cmds)
       IN  /\ cancelled' = (cancelled \/ cmd.op = "cancel")
           /\ IF cmd.op = "append"
              THEN runq' = runq \o cmd.items /\ total' = total + Len(cmd.items)
              ELSE UNCHANGED <<runq, total>>
    /\ UNCHANGED <<pc, hand, processed, success, failed, prepared, evs, dev,
                   settled, report>>
    /\ WorkerOnly

Drained(at) == pc = at /\ cmds = <<>>

CancelRun ==
    /\ \E at \in {"drain1", "drain2"} : Drained(at)
    /\ cancelled
    /\ pc' = "finish"
    /\ UNCHANGED <<run, cmds, evs, dev, settled, report>> /\ WorkerOnly

\* next_transcode_batch: the first Window queued tracks to transcode, those
\* already encoded included in the count and a repeated one counted once.
TranscodeBatch ==
    LET t(i)     == runq[i].track
        Counts(i) == /\ t(i) \in NeedsTranscode
                     /\ \/ prepared[t(i)] # "none"
                        \/ \A j \in 1..(i - 1) : t(j) # t(i)
    IN  {t(i) : i \in {i \in DOMAIN runq :
            /\ Counts(i) /\ prepared[t(i)] = "none"
            /\ Cardinality({j \in 1..i : Counts(j)}) <= Window}}

PrefetchTranscodes ==
    /\ Drained("drain1") /\ ~cancelled
    /\ \E outcome \in [TranscodeBatch -> {"ok", "err"}] :
         prepared' = [t \in Track |-> IF t \in TranscodeBatch THEN outcome[t]
                                     ELSE prepared[t]]
    /\ pc' = "drain2"
    /\ UNCHANGED <<runq, hand, total, processed, success, failed, cancelled,
                   cmds, evs, dev, settled, report>>
    /\ WorkerOnly

ExhaustRun ==
    /\ Drained("drain2") /\ ~cancelled /\ runq = <<>>
    /\ pc' = "finish"
    /\ UNCHANGED <<run, cmds, evs, dev, settled, report>> /\ WorkerOnly

\* Pop an item that can be uploaded: native, encoded ahead, or encoded now (one
\* appended after the prefetch looked at an empty queue).
PopItem ==
    /\ Drained("drain2") /\ ~cancelled /\ runq # <<>>
    /\ prepared[Head(runq).track] # "err"
    /\ hand' = <<Head(runq)>> /\ runq' = Tail(runq)
    /\ processed' = processed + 1
    /\ Emit(<<Progress>>)
    /\ pc' = "overwrite"
    /\ UNCHANGED <<total, success, failed, cancelled, prepared, cmds, dev,
                   settled, report>>
    /\ WorkerOnly

\* Pop an item whose transcode failed, ahead or now.
PopFailed ==
    /\ Drained("drain2") /\ ~cancelled /\ runq # <<>>
    /\ LET it == Head(runq)
       IN  /\ it.track \in NeedsTranscode /\ prepared[it.track] # "ok"
           /\ settled' = settled \cup {it.id}
           /\ report' = [report EXCEPT ![it.track] = "failed"]
    /\ runq' = Tail(runq)
    /\ processed' = processed + 1 /\ failed' = failed + 1
    /\ Emit(<<Progress, Notice>>)
    /\ pc' = "drain1"
    /\ UNCHANGED <<hand, total, success, cancelled, prepared, cmds, dev>>
    /\ WorkerOnly

Item == hand[1]

SetTargets(ts) == hand' = <<[Item EXCEPT !.targets = ts]>>

AllBut(c) == {d \in device : d.oid # c.oid}

\* rm_by_id fails: the copy is not there, or stays, or is off the device all the
\* same (an iPod deletes the file and its row before it writes the database).
FailToRemove(c) ==
    /\ device' = AllBut(c) \/ device' = device
    /\ doubtful' = doubtful \cup {c}

\* Remove one on-device copy of the item.  An error that does not mean the device
\* is gone is passed over: the App is not told that a copy was removed.
RemoveCopy ==
    /\ pc = "overwrite"
    /\ \E c \in Item.targets :
         /\ SetTargets(Item.targets \ {c})
         /\ \/ /\ \E d \in device : d.oid = c.oid
               /\ device' = AllBut(c)
               /\ Emit(<<Removed(<<c.track, c.path>>)>>)
               /\ UNCHANGED doubtful
            \/ FailToRemove(c) /\ UNCHANGED evs
    /\ UNCHANGED <<ui, pc, session, runq, total, processed, success, failed, cancelled,
                   prepared, cmds, nextOid, forwarded, settled, report>>

\* The failure is not counted.
ReportFailure_Uncounted ==
    /\ failed' = failed
    /\ settled' = settled \cup {Item.id}
    /\ report' = [report EXCEPT ![Item.track] = "failed"]
    /\ hand' = <<>> /\ Emit(<<Notice>>)

\* The failure is counted only.
ReportFailure_Silent ==
    /\ failed' = failed + 1
    /\ hand' = <<>>
    /\ UNCHANGED <<settled, report, evs>>

\* SyncTrackDone { success: false } for the item in hand.
ReportFailure ==
    /\ failed' = failed + 1
    /\ settled' = settled \cup {Item.id}
    /\ report' = [report EXCEPT ![Item.track] = "failed"]
    /\ hand' = <<>>
    /\ Emit(<<Notice>>)

Uploaded == [track |-> Item.track, oid |-> nextOid, path |-> UploadPath]

PutOnDevice == device' = device \cup {Uploaded} /\ nextOid' = nextOid + 1

\* A failed upload can leave the file and its row on an iPod too.
FailToUpload == PutOnDevice \/ UNCHANGED dev

UploadOk ==
    /\ pc = "overwrite" /\ Item.targets = {}
    /\ PutOnDevice
    /\ Emit(<<Added(Uploaded)>>)
    /\ success' = success + 1
    /\ settled' = settled \cup {Item.id}
    /\ report' = [report EXCEPT ![Item.track] = "ok"]
    /\ hand' = <<>>
    /\ pc' = "drain1"
    /\ UNCHANGED <<runq, total, processed, failed, cancelled, prepared, cmds>>
    /\ WorkerOnly

UploadFailed ==
    /\ pc = "overwrite" /\ Item.targets = {}
    /\ ReportFailure
    /\ FailToUpload
    /\ pc' = "drain1"
    /\ UNCHANGED <<runq, total, processed, success, cancelled, prepared, cmds>>
    /\ WorkerOnly

\* A removal or the upload fails with is_device_gone: the run is aborted.
DeviceGone ==
    /\ pc = "overwrite"
    /\ ReportFailure
    /\ \/ \E c \in Item.targets : FailToRemove(c) /\ UNCHANGED nextOid
       \/ Item.targets = {} /\ FailToUpload /\ UNCHANGED doubtful
    /\ pc' = "abort"
    /\ UNCHANGED <<ui, session, runq, total, processed, success, cancelled, prepared,
                   cmds, forwarded>>

\* SyncComplete; what is left in the queue is counted as skipped.  A session
\* that lost its device is dropped.
FinishRun ==
    /\ pc \in {"finish", "abort"}
    /\ session' = (pc = "finish")
    /\ Emit(<<Complete(success, failed, Len(runq))>>
            \o (IF pc = "abort" THEN <<SessionFailed>> ELSE <<>>))
    /\ settled' = settled \cup Ids(runq)
    /\ pc' = "idle"
    /\ runq' = <<>>
    /\ UNCHANGED <<ui, forwarded, hand, total, processed, success, failed, cancelled,
                   prepared, cmds, dev, report, doubtful>>

WorkerNext ==
    \/ StartRun \/ RefuseRun \/ IgnoreCancel \/ ImportPlaylist
    \/ DrainCommand \/ CancelRun \/ PrefetchTranscodes \/ ExhaustRun
    \/ PopItem \/ PopFailed \/ RemoveCopy
    \/ UploadOk \/ UploadFailed \/ DeviceGone \/ FinishRun

Next == UINext \/ WorkerNext

\* run_loop never stops handling events and flushing; the worker's calls return.
\* Keys are the user's choice.
UILoop ==
    \/ OnSyncProgress \/ OnDeviceTrackAdded \/ OnDeviceTrackRemoved
    \/ OnSyncComplete \/ OnSessionFailed \/ OnNotice
    \/ FlushPending \/ NoKey

Spec == Init /\ [][Next]_vars
FairSpec == Spec /\ WF_vars(UILoop) /\ WF_vars(WorkerNext)

-----------------------------------------------------------------------------
(* Properties. *)

QueuedItem == [id : Nat, entry : Nat, track : Track]
SyncItem   == [id : Nat, track : Track, targets : SUBSET Copy]
Name       == {p.name : p \in Picks}

Command ==
    [op : {"execute", "append"}, items : Seq(SyncItem)]
    \cup [op : {"cancel"}] \cup [op : {"import"}, name : Name]

Event ==
    [ev : {"progress", "notice", "lost"}]
    \cup [ev : {"added"}, copy : Copy]
    \cup [ev : {"removed"}, path : Track \X Nat]
    \cup [ev : {"complete"}, success : Nat, failed : Nat, skipped : Nat]

\* Types of the variables of the sync: App, channels, worker, device.
TypeOK ==
    /\ queue \in Seq(QueuedItem) /\ imports \in Seq(Name)
    /\ running \in BOOLEAN /\ connected \in BOOLEAN
    /\ index \subseteq Copy
    /\ pending \in Seq(Command)
    /\ phase \in {"events", "key"} /\ keys \in 0..MaxKeys
    /\ cmds \in Seq(Command) /\ evs \in Seq(Event)
    /\ pc \in {"idle", "drain1", "drain2", "overwrite", "finish", "abort"}
    /\ session \in BOOLEAN
    /\ runq \in Seq(SyncItem) /\ hand \in Seq(SyncItem)
    /\ total \in Nat /\ processed \in Nat /\ success \in Nat /\ failed \in Nat
    /\ cancelled \in BOOLEAN
    /\ prepared \in [Track -> {"none", "ok", "err"}]
    /\ device \subseteq Copy /\ nextOid \in Nat
    /\ forwarded \subseteq Nat /\ settled \subseteq Nat
    /\ report \in [Track -> {"none", "ok", "failed"}]
    /\ doubtful \subseteq Copy

\* While a run is in progress its counters account for every item it was given,
\* at the start or by a later AppendSyncQueue: an item is reported done or failed,
\* is in hand, or is still queued (and is then reported as skipped).
RunAccounting ==
    pc # "idle" =>
        /\ Len(hand) = (IF pc = "overwrite" THEN 1 ELSE 0)
        /\ processed = success + failed + Len(hand)
        /\ total = processed + Len(runq)

InFlightIds ==
    Ids(runq) \cup Ids(hand)
    \cup UNION {Ids(c.items) : c \in
            {d \in {cmds[i] : i \in DOMAIN cmds} \cup {pending[i] : i \in DOMAIN pending} :
                d.op \in {"execute", "append"}}}

\* A track forwarded to a running sync is never lost: until it is reported it is
\* queued for the worker, in the channel, in the run or in the worker's hands.
ForwardedConserved == forwarded \subseteq settled \cup InFlightIds

\* The copies the App has in its index (place 0) or will hear of in an event, and
\* will not hear of as removed in a later one.
Announced ==
    {c \in index \cup {evs[i].copy : i \in {i \in DOMAIN evs : evs[i].ev = "added"}} :
        \E i \in 0..Len(evs) :
            /\ IF i = 0 THEN c \in index ELSE evs[i].ev = "added" /\ evs[i].copy = c
            /\ \A j \in (i + 1)..Len(evs) :
                  ~(evs[j].ev = "removed" /\ evs[j].path = <<c.track, c.path>>)}

\* The device index, once the events under way are handled, lists no copy that is
\* not on the device, whatever was removed, uploaded or aborted, other than a copy
\* the user was told could not be removed: that error can hide a removal.
NoPhantomCopy == Announced \subseteq device \cup doubtful

\* A track whose last report is a success has a copy on the device, unless the
\* worker is overwriting it at this moment: an overwrite that deletes the old
\* copies and then fails is always reported as a failure.
ReportedOnDevice ==
    \A t \in Track : report[t] = "ok" =>
        (\E d \in device : d.track = t) \/ (\E i \in DOMAIN hand : hand[i].track = t)

\* Every forwarded track is eventually reported, also when it races the end of
\* the run, a cancel or the loss of the device.
ForwardedReported ==
    \A k \in 0..(MaxKeys - 1), i \in 1..2 :
        (10 * k + i \in forwarded) ~> (10 * k + i \in settled)

\* The UI always leaves the Running state again.
RunningEnds == running ~> ~running

=============================================================================
