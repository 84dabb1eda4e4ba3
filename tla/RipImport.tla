----------------------------- MODULE RipImport -----------------------------
(***************************************************************************)
(* Importing a CD: the import overlay of the TUI (tui/app/import.rs,       *)
(* App::confirm_import), the rip the worker runs inside its command loop   *)
(* (run_rip_and_import, run_single_track_rip) and the reload of the        *)
(* library that follows.  Files are named by release, track and format;    *)
(* ffmpeg, the tag writer and the rename may each fail.                    *)
(***************************************************************************)
EXTENDS Integers, Sequences, FiniteSets, FiniteSetsExt

CONSTANTS
    Release,    \* what MusicBrainz knows the disc as, see Position
    First,      \* the release the overlay opens with
    Position,   \* the positions of each release's tracks that MusicBrainz gives
    Rows,       \* the rows of the track list of each release
    Ext,        \* formats
    Default,    \* the configured format
    Libraries,  \* what the user's library may hold of them at first
    Cancel, Load, Sync,  \* commands
    Absent,
    MaxEdits, MaxRips, MaxOther  \* bounds

ASSUME RipAssumption ==
    /\ {MaxEdits, MaxRips, MaxOther} \subseteq Nat
    /\ Absent \notin {"old", "ripped"}
    /\ First \in Release /\ Default \in Ext
    /\ Libraries \subseteq SUBSET ((UNION {{r} \X Rows[r] : r \in Release}) \X Ext)
    /\ Rows \in [Release -> SUBSET (Nat \ {0})]
    /\ \A r \in Release : IsFiniteSet(Rows[r]) /\ Position[r] \subseteq Rows[r]

Track == UNION {{r} \X Rows[r] : r \in Release}  \* a file stem of the library
File  == Track \X Ext

VARIABLES
    overlay,  \* the import overlay, or None
    rip,      \* App.cd.rip: whether the progress of a rip is shown
    shown,    \* files in the App's library
    disc,     \* whether the disc is in the drive
    cmds, reports,
    worker,   \* what the worker is doing
    cancel,   \* rip_cancel
    musicDir, \* the library directory: "old", "ripped" or Absent for each file
    part,     \* stems with a temporary file
    unswept,  \* files a sweep went for and could not remove
    edits, rips, cancels, syncs, quits,
    lost      \* whether a sync has read and dropped a command

app  == <<overlay, rip, shown>>
ripFiles == <<musicDir, part, unswept>>
bounds == <<edits, rips, cancels, syncs, quits>>
ripVars == <<app, disc, cmds, reports, worker, cancel, ripFiles, bounds, lost>>

(* An operator X_Y is X with a plausible mistake.  No specification uses it:  *)
(* it is there to be put in the place of X, to see that a property notices.   *)

Resting == [at |-> "idle"]

RipInit ==
    /\ overlay = Absent /\ rip = FALSE /\ disc = TRUE
    /\ cmds = <<>> /\ reports = <<>> /\ worker = Resting /\ cancel = FALSE
    /\ \E F \in Libraries :
         /\ musicDir = [f \in File |-> IF f \in F THEN "old" ELSE Absent]
         /\ shown = F
    /\ part = {} /\ unswept = {} /\ lost = FALSE
    /\ edits = 0 /\ rips = 0 /\ cancels = 0 /\ syncs = 0 /\ quits = 0

-----------------------------------------------------------------------------
(* The App: keys. *)

Other == cancels + syncs + quits

Send(c) == cmds' = Append(cmds, c)

OnDisk == {f \in File : musicDir[f] # Absent}

Copies(t) == {e \in Ext : musicDir[<<t, e>>] # Absent}

\* The user takes the disc out or puts it in.
MoveDisc ==
    /\ edits < MaxEdits /\ edits' = edits + 1
    /\ disc' = ~disc
    /\ UNCHANGED <<app, cmds, reports, worker, cancel, ripFiles, rips, cancels, syncs, quits, lost>>

\* `i`, when the last poll of the drive found the disc: the disc itself may be
\* out again.  The overlay keeps its own copy of what was identified.
OpenOverlay ==
    /\ overlay = Absent /\ rips < MaxRips
    /\ overlay' = [rel |-> First, sel |-> Rows[First], ext |-> Default, eject |-> TRUE,
                   armed |-> FALSE, warned |-> {}]
    /\ UNCHANGED <<rip, shown, disc, cmds, reports, worker, cancel, ripFiles, bounds, lost>>

CloseOverlay ==
    /\ overlay # Absent /\ overlay' = Absent
    /\ UNCHANGED <<rip, shown, disc, cmds, reports, worker, cancel, ripFiles, bounds, lost>>

\* The question is not asked again after a change.
Disarmed_Not(o) == o

Disarmed(o) == [o EXCEPT !.armed = FALSE, !.warned = {}]

\* Another selection, another release (all its tracks), another format; whether
\* the disc is ejected in the end.
EditOverlay ==
    /\ overlay # Absent /\ edits < MaxEdits /\ edits' = edits + 1
    /\ \/ \E r \in Rows[overlay.rel] :
            overlay' = Disarmed([overlay EXCEPT !.sel = SymDiff(@, {r})])
       \/ \E S \in {{}, Rows[overlay.rel]} : overlay' = Disarmed([overlay EXCEPT !.sel = S])
       \/ \E r \in Release \ {overlay.rel} :
            overlay' = Disarmed([overlay EXCEPT !.rel = r, !.sel = Rows[r]])
       \/ \E e \in Ext \ {overlay.ext} : overlay' = Disarmed([overlay EXCEPT !.ext = e])
       \/ overlay' = [overlay EXCEPT !.eject = ~@]
    /\ UNCHANGED <<rip, shown, disc, cmds, reports, worker, cancel, ripFiles,
                   rips, cancels, syncs, quits, lost>>

\* Only files of the same format are looked for.
Conflicts_SameExt(o) ==
    {t \in {o.rel} \X (o.sel \cap Position[o.rel]) : o.ext \in Copies(t)}

\* Tracks of which the library has a file; in whatever format, if the first
\* selected track, which names the album's directory, has a position.
Conflicts(o) ==
    {t \in {o.rel} \X (o.sel \cap Position[o.rel]) :
        IF Min(o.sel) \in Position[o.rel] THEN Copies(t) # {} ELSE o.ext \in Copies(t)}

\* Enter: asks once if anything would be overwritten, then queues the rip.
ConfirmImport ==
    /\ overlay # Absent /\ overlay.sel # {}
    /\ IF Conflicts(overlay) # {} /\ ~overlay.armed
       THEN /\ overlay' = [overlay EXCEPT !.armed = TRUE, !.warned = Conflicts(overlay)]
            /\ UNCHANGED <<cmds, rips>>
       ELSE /\ rips' = rips + 1
            /\ Send([n |-> rips + 1, rel |-> overlay.rel, ext |-> overlay.ext,
                     eject |-> overlay.eject, warned |-> overlay.warned, total |-> Cardinality(overlay.sel),
                     todo |-> overlay.sel])
            /\ overlay' = Absent
    /\ UNCHANGED <<rip, shown, disc, reports, worker, cancel, ripFiles,
                   edits, cancels, syncs, quits, lost>>

\* `c` while a rip is shown.
CancelRip ==
    /\ overlay = Absent /\ rip /\ Other < MaxOther /\ cancels' = cancels + 1
    /\ Send(Cancel)
    /\ UNCHANGED <<app, disc, reports, worker, cancel, ripFiles, edits, rips, syncs, quits, lost>>

\* `S`: a device sync.
PressSync ==
    /\ overlay = Absent /\ Other < MaxOther /\ syncs' = syncs + 1
    /\ Send(Sync)
    /\ UNCHANGED <<app, disc, reports, worker, cancel, ripFiles, edits, rips, cancels, quits, lost>>

\* Ctrl-C ends the process, and the worker with it; the user starts it again.
QuitApp ==
    /\ Other < MaxOther /\ quits' = quits + 1
    /\ overlay' = Absent /\ rip' = FALSE
    /\ shown' = OnDisk
    /\ cmds' = <<>> /\ reports' = <<>> /\ worker' = Resting /\ cancel' = FALSE /\ lost' = FALSE
    /\ UNCHANGED <<disc, ripFiles, edits, rips, cancels, syncs>>

-----------------------------------------------------------------------------
(* The App: events. *)

Event(k, t) == [kind |-> k, track |-> t]
Complete(j) == [kind |-> "complete", n |-> j.n, ripped |-> j.ripped, failed |-> j.failed,
                cancelled |-> j.cancelled]
LibraryLoaded(F)   == [kind |-> "loaded", files |-> F]

OnStarted(e) == rip' = TRUE /\ UNCHANGED <<shown, cmds>>

\* Its error is kept for the log.
OnTrackDone(e) == UNCHANGED <<rip, shown, cmds>>

\* The library is not looked at again when a track failed.
OnComplete_Clean(e) ==
    /\ rip' = FALSE /\ UNCHANGED shown
    /\ IF e.ripped > 0 /\ e.failed = 0 THEN Send(Load) ELSE UNCHANGED cmds

OnComplete(e) ==
    /\ rip' = FALSE /\ UNCHANGED shown
    /\ IF e.ripped > 0 THEN Send(Load) ELSE UNCHANGED cmds

OnLoaded(e) == shown' = e.files /\ UNCHANGED <<rip, cmds>>

HandleEvent ==
    /\ reports # <<>> /\ reports' = Tail(reports)
    /\ LET e == Head(reports) IN
       CASE e.kind = "started"  -> OnStarted(e)
         [] e.kind = "done"     -> OnTrackDone(e)
         [] e.kind = "complete" -> OnComplete(e)
         [] e.kind = "loaded"   -> OnLoaded(e)
    /\ UNCHANGED <<overlay, disc, worker, cancel, ripFiles, bounds, lost>>

-----------------------------------------------------------------------------
(* The worker: its loop. *)

IsRip(c)  == c \notin {Cancel, Load, Sync}
Emit(e)   == reports' = Append(reports, e)
Take      == cmds # <<>> /\ worker = Resting /\ cmds' = Tail(cmds)
UnchangedApp == UNCHANGED <<app, disc, ripFiles, bounds>>

\* What run_rip_and_import keeps of a request and counts.
Begun(c) == [at |-> "next", n |-> c.n, rel |-> c.rel, ext |-> c.ext, eject |-> c.eject,
             warned |-> c.warned, total |-> c.total, todo |-> c.todo,
             ripped |-> 0, failed |-> 0, cancelled |-> FALSE]

\* RipAndImport runs to its end inside the loop.
StartRip ==
    /\ Take /\ IsRip(Head(cmds))
    /\ cancel' = FALSE
    /\ worker' = Begun(Head(cmds))
    /\ UnchangedApp /\ UNCHANGED <<reports, lost>>

\* CancelRip: read by the loop, so between two commands.
OnCancel ==
    /\ Take /\ Head(cmds) = Cancel
    /\ cancel' = TRUE
    /\ UnchangedApp /\ UNCHANGED <<reports, worker, lost>>

OnLoadLibrary ==
    /\ Take /\ Head(cmds) = Load
    /\ Emit(LibraryLoaded(OnDisk))
    /\ UnchangedApp /\ UNCHANGED <<worker, cancel, lost>>

StartSync ==
    /\ Take /\ Head(cmds) = Sync
    /\ worker' = [at |-> "sync"]
    /\ UnchangedApp /\ UNCHANGED <<reports, cancel, lost>>

\* drain_sync_commands drops what is no matter of the sync.
SyncDrain ==
    /\ worker.at = "sync" /\ cmds # <<>>
    /\ cmds' = Tail(cmds) /\ lost' = TRUE
    /\ UnchangedApp /\ UNCHANGED <<reports, worker, cancel>>

EndSync ==
    /\ worker.at = "sync" /\ worker' = Resting
    /\ UnchangedApp /\ UNCHANGED <<cmds, reports, cancel, lost>>

-----------------------------------------------------------------------------
(* The worker: a rip. *)

At(s)   == worker.at = s
This    == <<worker.rel, Min(worker.todo)>>  \* the track at hand: they are ripped in order
Rest    == worker.todo \ {Min(worker.todo)}
UnchangedRip == UNCHANGED <<app, disc, cmds, cancel, bounds, lost>>

TrackFailed ==
    /\ worker' = [worker EXCEPT !.at = "check", !.failed = @ + 1]
    /\ Emit(Event("done", This))

\* A track without a position is on the list of the overlay, not among the
\* worker's; any other gets its line and its ffmpeg.
NextTrack ==
    /\ At("next") /\ worker.todo # {} /\ ~cancel
    /\ IF Min(worker.todo) \in Position[worker.rel]
       THEN /\ worker' = [worker EXCEPT !.at = "ffmpeg"]
            /\ Emit(Event("started", This))
            /\ part' = part \cup {This}
       ELSE /\ worker' = [worker EXCEPT !.todo = Rest, !.failed = @ + 1]
            /\ Emit(Event("done", This))
            /\ UNCHANGED part
    /\ UnchangedRip /\ UNCHANGED <<musicDir, unswept>>

\* rip_track_cancellable: done, failed, or killed; the temporary file of the
\* last two is removed.
RipTrack ==
    /\ At("ffmpeg")
    /\ \E outcome \in {"failed"} \cup (IF disc THEN {"done"} ELSE {})
                                \cup (IF cancel THEN {"cancelled"} ELSE {}) :
         IF outcome = "done"
         THEN worker' = [worker EXCEPT !.at = "tag"] /\ UNCHANGED <<part, reports>>
         ELSE /\ part' = part \ {This}
              /\ IF outcome = "failed" THEN TrackFailed
                 ELSE worker' = [worker EXCEPT !.at = "check"] /\ Emit(Event("done", This))
    /\ UnchangedRip /\ UNCHANGED <<musicDir, unswept>>

Discard == part \ {This}

\* Tagged as well as it goes, then moved into place, over a file of that name.
MoveIntoPlace ==
    /\ At("tag")
    /\ \/ /\ musicDir' = [musicDir EXCEPT ![<<This, worker.ext>>] = "ripped"]
          /\ part' = part \ {This}
          /\ worker' = [worker EXCEPT !.at = "sweep"] /\ UNCHANGED reports
       \/ part' = Discard /\ TrackFailed /\ UNCHANGED musicDir
    /\ UnchangedRip /\ UNCHANGED unswept

\* Nothing is swept.
Others_None == {}

\* The same track in other formats.
Others == {f \in OnDisk : f[1] = This /\ f[2] # worker.ext}

\* They are removed as well as it goes: the directory may not be read, a file may
\* not go away.  The track counts as ripped all the same.
Sweep ==
    /\ At("sweep")
    /\ \E S \in SUBSET Others :
         /\ musicDir' = [f \in File |-> IF f \in Others \ S THEN Absent ELSE musicDir[f]]
         /\ unswept' = (unswept \ ({This} \X Ext)) \cup S
    /\ worker' = [worker EXCEPT !.at = "check", !.ripped = @ + 1]
    /\ Emit(Event("done", This))
    /\ UnchangedRip /\ UNCHANGED part

CheckCancel ==
    /\ At("check")
    /\ worker' = [worker EXCEPT !.at = IF cancel THEN "finish" ELSE "next", !.todo = Rest,
                                !.cancelled = cancel]
    /\ UnchangedRip /\ UNCHANGED <<ripFiles, reports>>

\* No track is left, or the flag is set: the disc is ejected after a good rip.
FinishRip ==
    /\ \/ At("finish")
       \/ At("next") /\ (worker.todo = {} \/ cancel)
    /\ LET stopped == worker.cancelled \/ (cancel /\ worker.todo # {}) IN
       /\ disc' \in IF worker.eject /\ worker.ripped > 0 /\ ~stopped THEN {disc, FALSE} ELSE {disc}
       /\ Emit(Complete([worker EXCEPT !.cancelled = stopped]))
    /\ worker' = Resting
    /\ UNCHANGED <<app, cmds, cancel, ripFiles, bounds, lost>>

Keys ==
    \/ OpenOverlay \/ CloseOverlay \/ EditOverlay \/ ConfirmImport
    \/ CancelRip \/ PressSync

WorkerNext ==
    \/ StartRip \/ OnCancel \/ OnLoadLibrary \/ StartSync \/ SyncDrain \/ EndSync
    \/ NextTrack \/ RipTrack \/ MoveIntoPlace \/ Sweep \/ CheckCancel \/ FinishRip

RipNext == Keys \/ MoveDisc \/ QuitApp \/ HandleEvent \/ WorkerNext

RipSpec == RipInit /\ [][RipNext]_ripVars

\* The main loop handles events and the worker works; the user need not do a thing.
RipFairSpec == RipSpec /\ WF_ripVars(HandleEvent) /\ WF_ripVars(WorkerNext)

-----------------------------------------------------------------------------
(* Properties. *)

Overlay == [rel : Release, sel : SUBSET Nat, ext : Ext, eject : BOOLEAN,
            armed : BOOLEAN, warned : SUBSET Track]
Request == [n : 1..MaxRips, rel : Release, ext : Ext, eject : BOOLEAN,
            warned : SUBSET Track, total : Nat, todo : SUBSET Nat]
Ripping == [at : {"next", "ffmpeg", "tag", "sweep", "check", "finish"},
            n : 1..MaxRips, rel : Release, ext : Ext, eject : BOOLEAN,
            warned : SUBSET Track, total : Nat, todo : SUBSET Nat,
            ripped : Nat, failed : Nat, cancelled : BOOLEAN]
Report  == [kind : {"started", "done"}, track : Release \X Nat]
              \cup [kind : {"complete"}, n : 1..MaxRips, ripped : Nat, failed : Nat, cancelled : BOOLEAN]
              \cup [kind : {"loaded"}, files : SUBSET File]

\* Types of the overlay, the channels, the worker and the library.
RipTypeOK ==
    /\ overlay \in Overlay \cup {Absent}
    /\ shown \subseteq File
    /\ rip \in BOOLEAN /\ disc \in BOOLEAN /\ cancel \in BOOLEAN /\ lost \in BOOLEAN
    /\ cmds \in Seq(Request \cup {Cancel, Load, Sync})
    /\ reports \in Seq(Report)
    /\ worker \in Ripping \cup {Resting, [at |-> "sync"]}
    /\ musicDir \in [File -> {Absent, "old", "ripped"}]
    /\ part \subseteq Track /\ unswept \subseteq File
    /\ edits \in Nat /\ rips \in 0..MaxRips /\ cancels \in Nat /\ syncs \in Nat /\ quits \in Nat

\* If a row of a release has a position, so have the rows above it.
PositionsFirst ==
    \A r \in Release : \A p \in Position[r], q \in Rows[r] : q < p => q \in Position[r]

\* A file of the user is overwritten or swept only by a rip he confirmed after
\* being asked about that very track: a change of the selection, the release or
\* the format after the question withdraws the answer.
OldFilesAsked ==
    [][\A f \in File : musicDir[f] = "old" /\ musicDir'[f] # "old" => f[1] \in worker.warned]_ripVars

\* The formats a track is there in, but for what could not be swept.
Chosen(t) == {e \in Copies(t) : <<t, e>> \notin unswept}

\* A track that was ripped is there in one format, also when it was there in
\* another before and when two imports of it were queued; but for a file that a
\* sweep could not remove.
OneCopyPerTrack ==
    ~At("sweep") /\ quits = 0 =>
        \A t \in Track : (\E e \in Ext : musicDir[<<t, e>>] = "ripped") => Cardinality(Chosen(t)) = 1

\* Every track that was asked for is ripped, failed or still to do, save the one at
\* which a cancel struck: what Complete tells adds up.
RipAccounted ==
    worker \in Ripping =>
        \/ worker.ripped + worker.failed + Cardinality(worker.todo)
              = worker.total + (IF At("check") THEN 1 ELSE 0)
        \/ cancel

\* Temporary files are gone when the worker is between two commands, unless the
\* program was ended in the middle of a rip.
NoPartLeft == worker = Resting /\ quits = 0 => part = {}

\* The progress line of a rip goes away.
RipShownEnds == rip ~> ~rip

\* The library shows what is on the disk once the rips are over, also after a rip
\* of which some tracks failed, unless a sync has dropped the reload.
LibraryRefreshed == (shown # OnDisk) ~> (shown = OnDisk \/ lost)

=============================================================================
