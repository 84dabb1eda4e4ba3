---------------------------- MODULE CommandLoop ----------------------------
(***************************************************************************)
(* The device connection of the TUI: the App's device panel (app.rs,       *)
(* app/events.rs, app/keys.rs), run_loop (main.rs), and the background     *)
(* worker's command loop (background.rs, spawn).                           *)
(*                                                                         *)
(* The worker serves one command at a time.  Four of them are loops over   *)
(* many items that read the channel themselves, between two items, to see  *)
(* a cancel: a removal and a photo or video push take ONE command and lose *)
(* it unless it is CancelSync, a sync takes all of them.  A sync is here   *)
(* what it does to the channel, the session and the panel; its queue is    *)
(* the subject of SyncRun.                                                 *)
(***************************************************************************)
EXTENDS Integers, Sequences, FiniteSets, SequencesExt

CONSTANTS
    Track,       \* tracks of the device and of the library
    DeviceHas,   \* those on the device at the start
    AutoSync,    \* the media configured to be pushed on connect: photos, videos
    MediaFiles,  \* photo and video files found, when there are any
    MaxKeys      \* bound: keys pressed in a behaviour

ASSUME LoopAssumption ==
    /\ IsFiniteSet(Track) /\ DeviceHas \subseteq Track
    /\ AutoSync \in Seq({"photos", "videos"})
    /\ MediaFiles \in Nat \ {0}
    /\ MaxKeys \in Nat

VARIABLES
    \* UI thread
    status,   \* device.status
    ignore,   \* device.ignore_session_events
    loading,  \* device.loading_tracks
    shown,    \* device.tracks
    marks,    \* removal_queue
    busy,     \* sync.status is Running
    detect,   \* cd.detect_in_flight
    pending,  \* pending_bg_commands
    phase,    \* where run_loop is: "events" or "key"
    keys,     \* keys pressed so far
    \* channels
    cmds, evs,
    \* worker
    pc,       \* "idle", or the part of a command it is in
    session,  \* the worker has a session
    work,     \* the tracks still to remove or sync
    files,    \* the photos or videos still to push
    \* device
    device,   \* tracks on it
    \* history
    lost,     \* what was silently lost: ops of swallowed commands, "ready"
    doubtful  \* tracks said, since the last listing, to be impossible to remove

ui      == <<status, ignore, loading, shown, marks, busy, detect, pending, phase, keys>>
history == <<lost, doubtful>>
vars    == <<ui, cmds, evs, pc, session, work, files, device, history>>

-----------------------------------------------------------------------------
(* Commands and events.                                                      *)
(*                                                                           *)
(* An operator X_Y is X with a plausible mistake.  No specification uses it:  *)
(* it is there to be put in the place of X, to see that a property notices.   *)

Cmd(op)          == [op |-> op, items |-> <<>>]
OnItems(op, ts)  == [op |-> op, items |-> ts]

Event(kind)      == [ev |-> kind, tracks |-> {}]
Listing(ts)      == [ev |-> "tracks", tracks |-> ts]

\* A removal is logged only.
Removed_Quiet(t) == [ev |-> "progress", tracks |-> {t}]

Added(t)         == [ev |-> "added", tracks |-> {t}]
Removed(t)       == [ev |-> "removed", tracks |-> {t}]

\* The end of the run is all the App is told.
GoneEvents_Quiet == <<Event("complete")>>

GoneEvents == <<Event("complete"), Event("failed")>>

\* A failed open is logged only.
OpenFailedEvents_Quiet == <<>>

OpenFailedEvents == <<Event("failed")>>

ListFailedEvents == <<Event("error")>>

Emit(es) == evs' = evs \o es

-----------------------------------------------------------------------------
Init ==
    /\ status = "disconnected" /\ ignore = FALSE /\ loading = FALSE
    /\ shown = {} /\ marks = <<>> /\ busy = FALSE /\ detect = FALSE
    /\ pending = <<>> /\ phase = "events" /\ keys = 0
    /\ cmds = <<>> /\ evs = <<>>
    /\ pc = "idle" /\ session = FALSE /\ work = <<>> /\ files = 0
    /\ device = DeviceHas
    /\ lost = {} /\ doubtful = {}

-----------------------------------------------------------------------------
(* UI thread, events. *)

HandleEvent(kinds) ==
    /\ phase = "events" /\ evs # <<>> /\ Head(evs).ev \in kinds
    /\ evs' = Tail(evs)
    /\ UNCHANGED <<marks, phase, keys, cmds, pc, session, work, files, device, history>>

OnDeviceDetected ==
    /\ HandleEvent({"detected"})
    /\ status' = IF ignore THEN status ELSE "connecting"
    /\ UNCHANGED <<ignore, loading, shown, busy, detect, pending>>

\* Photos and videos are pushed right after connecting, if configured.
OnSessionReady ==
    /\ HandleEvent({"ready"})
    /\ IF ignore THEN UNCHANGED <<status, pending>>
       ELSE /\ status' = "connected"
            /\ pending' = pending \o [i \in DOMAIN AutoSync |-> Cmd(AutoSync[i])]
    /\ UNCHANGED <<ignore, loading, shown, busy, detect>>

OnSessionFailed ==
    /\ HandleEvent({"failed"})
    /\ status' = "disconnected"
    /\ UNCHANGED <<ignore, loading, shown, busy, detect, pending>>

OnLoadingTracks ==
    /\ HandleEvent({"loading"})
    /\ loading' = (loading \/ ~ignore)
    /\ UNCHANGED <<status, ignore, shown, busy, detect, pending>>

\* A late listing is shown although the user has disconnected.
OnTracksLoaded_Late ==
    /\ HandleEvent({"tracks"})
    /\ loading' = FALSE /\ shown' = Head(evs).tracks
    /\ UNCHANGED <<status, ignore, busy, detect, pending>>

OnTracksLoaded ==
    /\ HandleEvent({"tracks"})
    /\ IF ignore THEN UNCHANGED <<loading, shown>>
       ELSE loading' = FALSE /\ shown' = Head(evs).tracks
    /\ UNCHANGED <<status, ignore, busy, detect, pending>>

OnTrackAdded ==
    /\ HandleEvent({"added"})
    /\ shown' = IF ignore THEN shown ELSE shown \cup Head(evs).tracks
    /\ UNCHANGED <<status, ignore, loading, busy, detect, pending>>

OnTrackRemoved ==
    /\ HandleEvent({"removed"})
    /\ shown' = shown \ Head(evs).tracks
    /\ UNCHANGED <<status, ignore, loading, busy, detect, pending>>

OnError ==
    /\ HandleEvent({"error"})
    /\ loading' = FALSE
    /\ UNCHANGED <<status, ignore, shown, busy, detect, pending>>

\* SyncProgress, RemoveProgress; SyncComplete, RemoveComplete.
OnProgress ==
    /\ HandleEvent({"progress", "complete"})
    /\ busy' = (Head(evs).ev = "progress")
    /\ UNCHANGED <<status, ignore, loading, shown, detect, pending>>

OnCdStatus ==
    /\ HandleEvent({"cd"})
    /\ detect' = FALSE
    /\ UNCHANGED <<status, ignore, loading, shown, busy, pending>>

OnEvent ==
    \/ OnDeviceDetected \/ OnSessionReady \/ OnSessionFailed
    \/ OnLoadingTracks \/ OnTracksLoaded \/ OnTrackAdded \/ OnTrackRemoved
    \/ OnError \/ OnProgress \/ OnCdStatus

\* The events are exhausted: ask for a CD if the poll is due, send what is pending.
FlushPending ==
    /\ phase = "events" /\ evs = <<>>
    /\ \E due \in BOOLEAN :
         /\ cmds' = cmds \o pending
                    \o (IF due /\ ~detect THEN <<Cmd("detect")>> ELSE <<>>)
         /\ detect' = (detect \/ due)
    /\ pending' = <<>>
    /\ phase' = "key"
    /\ UNCHANGED <<status, ignore, loading, shown, marks, busy, keys, evs, pc, session,
                   work, files, device, history>>

-----------------------------------------------------------------------------
(* UI thread, keys. *)

WorkerSame == UNCHANGED <<evs, pc, session, work, files, device, history>>

NoKey ==
    /\ phase = "key" /\ phase' = "events"
    /\ UNCHANGED <<status, ignore, loading, shown, marks, busy, detect, pending, keys, cmds>>
    /\ WorkerSame

PressKey ==
    /\ phase = "key" /\ keys < MaxKeys
    /\ phase' = "events" /\ keys' = keys + 1
    /\ UNCHANGED <<busy, detect, pending>>
    /\ WorkerSame

Send(cmd) == cmds' = Append(cmds, cmd)

\* `c`
PressConnect ==
    /\ PressKey
    /\ status = "disconnected"
    /\ ignore' = FALSE
    /\ status' = "detecting"
    /\ Send(Cmd("connect"))
    /\ UNCHANGED <<loading, shown, marks>>

\* `d`, on a panel that does not claim it.  The removal queue survives.
PressDisconnect ==
    /\ PressKey
    /\ status # "disconnected"
    /\ ignore' = TRUE
    /\ status' = "disconnected" /\ loading' = FALSE /\ shown' = {}
    /\ Send(Cmd("disconnect"))
    /\ UNCHANGED marks

\* `r`
PressRefresh ==
    /\ PressKey
    /\ status = "connected"
    /\ Send(Cmd("load"))
    /\ UNCHANGED <<status, ignore, loading, shown, marks>>

\* `a` in Device mode, on a track or an album.
QueueRemoval ==
    /\ PressKey
    /\ \E ts \in SUBSET shown \ {{}} :
         marks' = marks \o SetToSeq(ts \ ToSet(marks))
    /\ UNCHANGED <<status, ignore, loading, shown, cmds>>

\* `D` and its confirmation: whatever the status is.
ConfirmRemoval ==
    /\ PressKey
    /\ marks # <<>>
    /\ Send(OnItems("remove", marks))
    /\ marks' = <<>>
    /\ UNCHANGED <<status, ignore, loading, shown>>

\* `S`, with some tracks in the sync queue.
ExecuteSync(t) ==
    /\ PressKey
    /\ status = "connected"
    /\ Send(OnItems("execute", <<t>>))
    /\ UNCHANGED <<status, ignore, loading, shown, marks>>

\* Esc
PressCancel ==
    /\ PressKey
    /\ busy
    /\ Send(Cmd("cancel"))
    /\ UNCHANGED <<status, ignore, loading, shown, marks>>

UILoop == OnEvent \/ FlushPending \/ NoKey

UINext ==
    \/ UILoop
    \/ PressConnect \/ PressDisconnect \/ PressRefresh
    \/ QueueRemoval \/ ConfirmRemoval \/ PressCancel
    \/ \E t \in Track : ExecuteSync(t)

-----------------------------------------------------------------------------
(* Worker. *)

Receive(ops) ==
    /\ pc = "idle" /\ cmds # <<>> /\ Head(cmds).op \in ops
    /\ cmds' = Tail(cmds)
    /\ UNCHANGED <<ui, device>>

\* No backend detects a device: a session that is open stays open.
ConnectNothing ==
    /\ Receive({"connect"})
    /\ Emit(<<Event("failed")>>)
    /\ UNCHANGED <<pc, session, work, files, history>>

ConnectDetected ==
    /\ Receive({"connect"})
    /\ Emit(<<Event("detected")>>)
    /\ pc' = "opening"
    /\ UNCHANGED <<session, work, files, history>>

\* open_session, or the MTPZ handshake of a Zune.  A session that cannot say how
\* much room the device has is ready all the same, but on a Zune nothing says so.
OpenOk ==
    /\ pc = "opening"
    /\ session' = TRUE
    /\ pc' = "listing"
    /\ \/ /\ Emit(<<Event("detected"), Event("ready"), Event("loading")>>)
          /\ lost' = lost
       \/ /\ Emit(<<Event("ready"), Event("loading")>>)
          /\ lost' = lost
       \/ /\ Emit(<<Event("loading")>>)
          /\ lost' = lost \cup {"ready"}
    /\ UNCHANGED <<ui, cmds, work, files, device, doubtful>>

OpenFailed ==
    /\ pc = "opening"
    /\ Emit(OpenFailedEvents)
    /\ pc' = "idle"
    /\ UNCHANGED <<ui, cmds, session, work, files, device, history>>

\* LoadDeviceTracks
Refresh ==
    /\ Receive({"load"}) /\ session
    /\ Emit(<<Event("loading")>>)
    /\ pc' = "listing"
    /\ UNCHANGED <<session, work, files, history>>

\* collect_all_tracks, on connecting and on a refresh.
List ==
    /\ pc = "listing"
    /\ \/ Emit(<<Listing(device)>>) /\ doubtful' = {}
       \/ Emit(ListFailedEvents) /\ doubtful' = doubtful
    /\ pc' = "idle"
    /\ UNCHANGED <<ui, cmds, session, work, files, device, lost>>

Disconnect ==
    /\ Receive({"disconnect"})
    /\ session' = FALSE
    /\ UNCHANGED <<evs, pc, work, files, history>>

IgnoreCancel ==
    /\ Receive({"cancel"})
    /\ UNCHANGED <<evs, pc, session, work, files, history>>

DetectCd ==
    /\ Receive({"detect"})
    /\ Emit(<<Event("cd")>>)
    /\ UNCHANGED <<pc, session, work, files, history>>

\* Error("No active session")
RefuseCommand ==
    /\ Receive({"load", "remove", "execute", "photos", "videos"}) /\ ~session
    /\ Emit(<<Event("error")>>)
    /\ UNCHANGED <<pc, session, work, files, history>>

StartRemoval ==
    /\ Receive({"remove"}) /\ session
    /\ work' = Head(cmds).items
    /\ pc' = "removal"
    /\ UNCHANGED <<evs, session, files, history>>

StartSync ==
    /\ Receive({"execute"}) /\ session
    /\ work' = Head(cmds).items
    /\ pc' = "sync"
    /\ UNCHANGED <<evs, session, files, history>>

\* Without files there is nothing to push; nor without ffmpeg, for the videos.
StartMedia ==
    /\ Receive({"photos", "videos"}) /\ session
    /\ \/ files' = MediaFiles /\ pc' = "media" /\ UNCHANGED evs
       \/ UNCHANGED <<files, pc, evs>>
       \/ Head(cmds).op = "videos" /\ Emit(<<Event("error")>>) /\ UNCHANGED <<files, pc>>
    /\ UNCHANGED <<session, work, history>>

\* cmd_rx.try_recv() between two items: `if let Ok(CancelSync)` loses all the rest.
PollIsCancel == cmds # <<>> /\ Head(cmds).op = "cancel"

TakeOne ==
    /\ cmds' = (IF cmds = <<>> THEN cmds ELSE Tail(cmds))
    /\ lost' = (IF cmds = <<>> \/ PollIsCancel THEN lost ELSE lost \cup {Head(cmds).op})
    /\ doubtful' = doubtful

RemovalPoll ==
    /\ pc = "removal" /\ work # <<>>
    /\ TakeOne
    /\ IF PollIsCancel
       THEN /\ pc' = "idle" /\ work' = <<>>
            /\ Emit(<<Event("complete")>>)
       ELSE /\ pc' = "removing" /\ UNCHANGED work
            /\ Emit(<<Event("progress")>>)
    /\ UNCHANGED <<ui, session, files, device>>

\* rm_by_id, or rm, fails: the track is not there, or stays, or is off the device
\* all the same (an iPod deletes the file and its row before it writes the database).
FailToRemove(t) ==
    /\ device' = device \/ device' = device \ {t}
    /\ doubtful' = doubtful \cup {t}

\* A removal that fails is counted, and the App is told of no removal.
TryRemove(t) ==
    \/ /\ t \in device
       /\ device' = device \ {t}
       /\ Emit(<<Removed(t)>>)
       /\ UNCHANGED doubtful
    \/ FailToRemove(t) /\ UNCHANGED evs

RemoveOne ==
    /\ pc = "removing"
    /\ TryRemove(Head(work))
    /\ work' = Tail(work)
    /\ pc' = "removal"
    /\ UNCHANGED <<ui, cmds, session, files, lost>>

RemovalDone ==
    /\ pc = "removal" /\ work = <<>>
    /\ Emit(<<Event("complete")>>)
    /\ pc' = "idle"
    /\ UNCHANGED <<ui, cmds, session, work, files, device, history>>

MediaPoll ==
    /\ pc = "media"
    /\ TakeOne
    /\ files' = (IF PollIsCancel THEN 0 ELSE files - 1)
    /\ pc' = (IF files' = 0 THEN "idle" ELSE "media")
    /\ UNCHANGED <<ui, evs, session, work, device>>

\* drain_sync_commands, with what the commands it drops were.
SyncDrain ==
    /\ pc = "sync"
    /\ cmds' = <<>>
    /\ LET ops == {cmds[i].op : i \in DOMAIN cmds}
       IN  /\ lost' = lost \cup (ops \ {"cancel"})
           /\ IF work = <<>> \/ "cancel" \in ops
              THEN /\ pc' = "idle" /\ work' = <<>>
                   /\ Emit(<<Event("complete")>>)
              ELSE /\ pc' = "uploading" /\ UNCHANGED work
                   /\ Emit(<<Event("progress")>>)
    /\ UNCHANGED <<ui, session, files, device, doubtful>>

\* The copy the App believes to be on the device is removed first; the upload
\* follows whether that worked or not.
SyncOverwrite ==
    /\ pc = "uploading"
    /\ TryRemove(Head(work))
    /\ UNCHANGED <<ui, cmds, pc, session, work, files, lost>>

\* A failed upload can leave the file and its row on an iPod too.
FailToUpload(t) == device' = device \/ device' = device \cup {t}

SyncOne ==
    /\ pc = "uploading"
    /\ \/ /\ device' = device \cup {Head(work)}
          /\ Emit(<<Added(Head(work))>>)
       \/ FailToUpload(Head(work)) /\ UNCHANGED evs
    /\ work' = Tail(work)
    /\ pc' = "sync"
    /\ UNCHANGED <<ui, cmds, session, files, history>>

\* is_device_gone, in a removal or a sync.
DeviceGone ==
    /\ pc \in {"removing", "uploading"}
    /\ \/ FailToRemove(Head(work))
       \/ pc = "uploading" /\ FailToUpload(Head(work)) /\ UNCHANGED doubtful
    /\ Emit(GoneEvents)
    /\ session' = FALSE
    /\ pc' = "idle" /\ work' = <<>>
    /\ UNCHANGED <<ui, cmds, files, lost>>

WorkerNext ==
    \/ ConnectNothing \/ ConnectDetected \/ OpenOk \/ OpenFailed
    \/ Refresh \/ List \/ Disconnect \/ IgnoreCancel \/ DetectCd \/ RefuseCommand
    \/ StartRemoval \/ RemovalPoll \/ RemoveOne \/ RemovalDone
    \/ StartMedia \/ MediaPoll
    \/ StartSync \/ SyncDrain \/ SyncOverwrite \/ SyncOne
    \/ DeviceGone

Next == UINext \/ WorkerNext

\* run_loop never stops handling events and flushing; the worker's calls return.
\* Keys are the user's choice.
Spec == Init /\ [][Next]_vars
FairSpec == Spec /\ WF_vars(UILoop) /\ WF_vars(WorkerNext)

-----------------------------------------------------------------------------
(* Properties. *)

Op == {"connect", "disconnect", "load", "remove", "execute", "photos", "videos",
       "cancel", "detect"}

Command == [op : Op, items : Seq(Track)]

EventRecord ==
    [ev : {"detected", "ready", "failed", "loading", "tracks", "added", "removed",
           "error", "progress", "complete", "cd"},
     tracks : SUBSET Track]

\* Types of the variables of the panel, the channels and the worker.
TypeOK ==
    /\ status \in {"disconnected", "detecting", "connecting", "connected"}
    /\ ignore \in BOOLEAN /\ loading \in BOOLEAN /\ busy \in BOOLEAN /\ detect \in BOOLEAN
    /\ shown \subseteq Track /\ marks \in Seq(Track)
    /\ pending \in Seq(Command) /\ cmds \in Seq(Command) /\ evs \in Seq(EventRecord)
    /\ phase \in {"events", "key"} /\ keys \in 0..MaxKeys
    /\ pc \in {"idle", "opening", "listing", "removal", "removing", "media", "sync", "uploading"}
    /\ session \in BOOLEAN
    /\ work \in Seq(Track) /\ files \in Nat
    /\ device \subseteq Track
    /\ lost \subseteq Op \cup {"ready"}
    /\ doubtful \subseteq Track

\* After `d` no event of the session that is going away, however late, brings the
\* panel back: it stays disconnected, empty and not loading until `c`.
DisconnectSticks ==
    ignore => status = "disconnected" /\ shown = {} /\ ~loading

\* The events that set the status of the panel when it handles them.
SetsStatus(e) == e.ev = "failed" \/ (e.ev \in {"detected", "ready"} /\ ~ignore)

\* The panel is going to show Connected, once the events under way are handled.
WillBeConnected ==
    \/ /\ status = "connected"
       /\ \A j \in 1..Len(evs) : ~SetsStatus(evs[j])
    \/ \E i \in 1..Len(evs) :
         /\ evs[i].ev = "ready" /\ ~ignore
         /\ \A j \in (i + 1)..Len(evs) : ~SetsStatus(evs[j])

\* A panel that is going to show Connected, with no Connect to come, has a session
\* behind it, however disconnects, reconnects, device losses and late events of an
\* earlier session interleave.
ConnectedHasSession ==
    /\ WillBeConnected
    /\ pc # "opening" /\ \A i \in 1..Len(cmds) : cmds[i].op # "connect"
    => session

\* The events that put a track on the panel, or take it off, when it handles them.
PutsOn(e, t)   == e.ev \in {"tracks", "added"} /\ ~ignore /\ t \in e.tracks
TakesOff(e, t) == \/ e.ev = "removed" /\ t \in e.tracks
                  \/ e.ev = "tracks" /\ ~ignore /\ t \notin e.tracks

\* The tracks of the panel once the events under way are handled.
ShownAfter ==
    {t \in Track : \E i \in 0..Len(evs) :
        /\ IF i = 0 THEN t \in shown ELSE PutsOn(evs[i], t)
        /\ \A j \in (i + 1)..Len(evs) : ~TakesOff(evs[j], t)}

\* The panel, once the events under way are handled, lists no track that is not on
\* the device: listings, additions and removals of two sessions are applied in
\* order.  A removal reported as failed can have happened; until the next listing
\* its track is in doubt.
NoPhantomTrack == ShownAfter \subseteq device \cup doubtful

\* "Loading" always ends, by a listing, an error or a disconnect.
LoadingEnds == loading ~> ~loading

\* An attempt to connect always gets an answer, unless a busy worker swallowed the
\* Connect or a Zune could not say how much room it has.
ConnectAnswered ==
    status \in {"detecting", "connecting"} ~>
        (status \in {"connected", "disconnected"} \/ {"connect", "ready"} \cap lost # {})

=============================================================================
