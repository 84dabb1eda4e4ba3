# Verification of the ZyTunes suite

TLA+ specifications of the parts of ZyTunes in which several actors share state, the
TLC configurations that check them, and TLAPS proofs about all but one (`StemCache`, the
abstract one, appears in a refinement proof).  Paths are
relative to the root of the repository.

    tlasany M.tla                      parse a module
    tlc -config MCM.cfg MCM.tla        model-check
    tlapm M_proofs.tla                 check proofs

## 1. The system

ZyTunes keeps a local music folder and moves it to portable players and phones.

| component | where | state | operations |
|---|---|---|---|
| App (TUI thread) | `app/src/tui/app.rs`, `app/events.rs`, `app/keys.rs`, `main.rs` | sync queue and status, device panel and index, now playing, stem status and batch, overlays, library, pending commands | one handler per key and per event; `run_loop` handles all events, flushes commands, handles one key |
| Worker | `app/src/tui/background.rs` | device session, caches, rip flag, stem jobs | one arm per `BgCommand`; long arms read the channel themselves |
| Audio thread | `app/src/tui/audio.rs` | output, player, what it plays | one arm per `AudioCommand`, a time-out between two |
| Stem jobs | `background.rs` `StemJobs`, `run_separation`, `run_stem_batch` | lock, token of the active job, work directories | separate, batch, provision, uninstall, clear, cancel |
| Stem cache | `app/src/stems.rs` | entries, stages, `last_used` | look up, store, prune, migrate |
| Stem hub (server) | `zytunes-stream/src/stems.rs` | the current job and its error | GET, POST, DELETE, a thread per job |
| Streaming server | `zytunes-stream/src/serve.rs`, `range.rs`, `search.rs` | immutable library, play limiter, play counts | handlers |
| Mobile client | `mobile/lib/session.dart`, `crossfade.dart`, `stem_playback.dart` | queue, decks, stem status, the listen that was counted | playback, crossfade, polling the hub, reporting listens |
| Zune session | `app/src/mtp/native.rs`, `native/*`, `zmdb.rs` | objects on the device, track and library caches | connect, list, import, remove |
| iPod session | `app/src/mtp/ipod_session.rs`, `ipod-db` | iTunesDB, ArtworkDB, pictures, Play Counts | open, import, remove, playlists, flush |
| Library | `app/src/dirlib.rs`, `cache.rs` | tracks, per-file cache, acoustic ids | scan, backfill, reread |
| Tags | `app/src/tag_ops.rs`, `tui/tag_manager.rs` | the overlay, requests, files | look up, preview, write and rename |
| Plays | `app/src/local_plays.rs` | one JSON sidecar, a copy in each process | count, merge a device, persist |
| CD | `app/src/cd/*`, `tui/app/import.rs` | import overlay, rip in progress | confirm, rip, encode, sweep |

Interaction.  The App, the worker and the audio thread are three threads; channels
(`BgCommand`, `BgEvent`, `AudioCommand`, `AudioEvent`) join them and none waits for
another.  The App changes its own state when it *sends* a command for some operations
(disconnect, cancel of a stem job, next track) and when it *receives* the event for
others (progress, removal, end of a track): the two styles disagree while messages are
under way, and that is where the interesting behaviour is.  The worker starts a
thread for each stem job and for each acoustic-id backfill; those share locks, files
and the event channel with it.  The server runs its own stem threads on the same
cache directory and writes the same play counts, in another process.

What is hard here: commands that reach a worker that is busy reading the channel for
something else; state (overwrite targets, generations, paths, handles, a read copy of
a file) taken at one moment and used much later; terminal events of jobs that
nobody waits for any more; files that two processes rewrite whole; sequences of file
or USB operations that a pulled cable cuts anywhere; every exit of a long loop having
to send its terminal event.  The list, line by line, is `hazards` in `PROJECT.json`.

## 2. Modules

| module | models | composed with |
|---|---|---|
| `CommandLoop` | device panel, channels, the worker's command loop and its session | a sync is here what it does to the channel, the session and the panel |
| `SyncRun` | device sync: App queue, channels, worker's sync loop, device | |
| `StemJobs` | stems in the TUI: App state, channels, `StemJobs`, job threads, cache and work directories | |
| `StemHub` | stems in the server: handlers, two locks, job threads, shared cache | |
| `StemStore` | the stem cache on disk, call by call, used by two processes | implements `StemCache` |
| `StemCache` | abstract: a shelf of complete splits | |
| `Player` | playback in the TUI: frame loop, audio thread, both channels, stem swaps | |
| `LibraryIndex` | scan, cache file, backfill threads, rereads, the App's library | |
| `TagManager` | the tag overlay, the worker's answers, tags and renames on disk | |
| `RipImport` | the import overlay, the rip inside the command loop, reload | |
| `ZuneSession` | a Zune, the caches about it, sessions cut short, other computers | |
| `IpodSession` | an iPod's databases, the session that rewrites them, its firmware | |
| `PlayLedger` | play counts: sidecar, TUI with devices, server with limiter, phone with retries | TUI, server and phone in one module |
| `*_proofs` | TLAPS proofs about the module of that name; those about `TagManager` are in `CommandLoop_proofs`, `StemHub` in `PlayLedger_proofs`, `RipImport` in `LibraryIndex_proofs`, `ZuneSession` in `SyncRun_proofs` | |
| `MC*` | values of the constants for TLC | |

In every module an operator `X_Y` is `X` with a plausible mistake; no
specification uses it.  Put in the place of `X` it makes a property fail
(`mutants` in `PROJECT.json`), which shows that the property is about the code.

### CommandLoop

The UI thread is that of `run_loop` (see SyncRun below).  Its state is the device
panel: `status`, `ignore` (`ignore_session_events`), `loading`, the tracks `shown`,
the removal queue, whether `SyncStatus` is Running, and whether a CD poll is in
flight.  One action per event handler (`On...`) and per key (`Press...`,
`QueueRemoval`, `ConfirmRemoval`, `ExecuteSync`).

The worker is a program counter over the arms of its `match`: `idle` is
`cmd_rx.recv()`; `opening` and `listing` are the two device calls of Connect;
`removal`/`removing`, `media` and `sync`/`uploading` are the loops that read the
channel between two items.  `TakeOne` is the `if let Ok(CancelSync) = try_recv()` of
removals and media pushes, which loses any other command; `SyncDrain` is
`drain_sync_commands`.  A removal or an upload that fails may have done its work all the
same (`FailToRemove`, `FailToUpload`): `IpodSession` removes the file and the row, or adds
them, before it writes the database.  `doubtful` is history: the tracks the user was told
could not be removed.  `lost` is history too: the operations lost so, and `"ready"` when a
Zune whose storage query fails says nothing after its handshake.

Data that is abstracted: a track on the device is a model value; events that only
change a counter or a toast are one kind (`"progress"`, `"complete"`).  What the events
under way will leave in the panel is said of the last event that concerns a track
(`PutsOn`, `TakesOff`, `ShownAfter`), not computed by a fold.

Left out: lookups, playlist deletion and the dedupe key; a second device.

### SyncRun

The UI thread is a loop with two phases, as in `run_loop`: in `"events"` each pending
event is handled by its action (`On...`), and when there is none left
`FlushPending` sends `pending_bg_commands`; in `"key"` at most one key is handled.
Key handlers write to the command channel directly or push to
`pending_bg_commands`, as their code does; the difference matters, because what
is pushed leaves only after the next round of events.

The worker is a program counter: `idle`, `drain1` and `drain2` (the two calls of
`drain_sync_commands` around the prefetch of transcodes), `overwrite` (copies of the
item in hand are removed one by one, then it is uploaded), `finish`/`abort`.
Every device call can fail, and fail in the way `is_device_gone` recognises; a removal
or an upload that fails may have been made (`FailToRemove`, `FailToUpload`), as on an iPod
whose database could not be written.  A
transcode succeeds or fails; `TranscodeBatch` is `next_transcode_batch`.

Data that is abstracted: a track is a model value; a copy on the device is its
track, object id and whether its path is the one uploads use (`UploadPath`); the
queue is a flat sequence of items that know their entry.  Ids of queued items are
`10 * keys + i`: entries of fewer than ten tracks.  `forwarded`, `settled`,
`doubtful` (copies the user was told could not be removed) and `report` are history.  `Announced` is the set of copies the index will list
when the events under way have been handled.

Left out: photo and video sync, removal on request and connecting (in
`CommandLoop`); storage figures; the log.

### StemJobs

The App half is the stem status (`off`, `provisioning`, `separating`, `active`),
the generation `job_gen`, the track stems belong to, the track an install waits
with, and the album batch with its own generation, suspension flag and banked
count.  The worker half is `supersede` (trip the previous token, remember the
new one), `acquire` (one lock) and a thread per job whose `stage` is where it is
between two points at which another thread can be seen: waiting, holding the lock,
looking up the cache, separating, storing.  The engine may succeed, fail or see
its token; a store may fail; a store may evict other entries; a removal may fail.  While
the worker is in a sync (`StartSync`, `EndSync`), every command the stems have sent is
thrown away (`DropCommand`): `M` is taken in any status of the sync.  `dropped` is
history: the requests lost so.

An engine and the recipe it runs are identified, and so are a cache entry and
the pair of its track and recipe.  Progress events are left out (they change
only a percentage).

### StemHub

POST is three steps, because its two critical sections are two: it misses the
cache, finds no live job on the track under the first lock, installs its job under
the second.  Between them another POST can do the same.  Nothing serialises the
job threads.  `OtherProcess` is `zytunes-tui`, which stores into and evicts from
the same cache (external to the server).

### StemStore and StemCache

A process is idle or at one file-system call of a look-up (migrate, touch), a split
(one action per pass of the recipe, into the work directory) or a store (move the
files to the stage, sidecar, swap, rename, prune entry by entry).  A directory is a
function from the files in it to the version of the source they were made from.  Two
processes interleave at every call; a crash may come between any two, the user may
edit a source or clear the cache.

`StemCache` is what all that promises: a shelf on which a whole split of a version
the source has had appears in one step, never changes and may go.  The refinement
mapping (`Shelf`) reads a directory with a sidecar and all stems as the split on the
shelf; `ShelfSpec` is checked as a property of `StemStore`.

### Player

The frame loop is `run_loop` with its order: background events, flush of
`pending_audio_commands`, audio events, one key.  The audio thread takes one command
or times out; each arm is an action (`Play`, `SwapSource`, `Stop`, `Pause`, `Resume`,
`QueryPosition`, `Scrub`, `Timeout`).  A track is cut into the stretches the code
distinguishes: three seconds (`prev` restarts), the threshold of a play, its end.
`Advance` (external) lets time pass; a file may fail to open or decode.  `Behind` and
`old` are history: what the thread says before it has come to the start of the listen
the App shows.  The split itself is `StemJobs`; here a job ends ready or failed.

### LibraryIndex

The worker scans (stat, reuse or parse, checkpoint, prune, write) or rereads the files
it has retagged; a backfill thread per generation (`ACOUSTIC_GEN`) computes ids and
writes them under the write lock with an epoch check.  A file is a version and a
kind (id in its tags, computable, or not to be had).  Others may edit, add or remove
files at any time and the process may end.

### TagManager

The overlay (phases, request token), the commands, the worker and the answers that
come back to an overlay that may have been closed, reopened or moved on.  The apply is
step by step: tags into a `.tagtmp`, rename over the original, then the renames of
the batch, each of which may fail, then the reread.  A copy that breaks off leaves its
`.tagtmp` behind (`litter`).  Between two file systems (`Volume`) a rename is three steps:
a copy under the final name, its end, the removal of the source; each may fail, and
`halfway` (history) has the paths such a move left, or that were renamed from one.  What MusicBrainz and AcoustID
answer is any answer.  A file is the song in it, the release its tags are of, and
whether it is whole.  What is left to do of a batch is a set of songs, taken in any order.

### RipImport

The overlay with its selection, format and overwrite question; the confirmed request;
the rip, which holds the command loop: for each track ffmpeg to a `.part`, tags,
rename, sweep of the other formats, of which any may stay (`unswept`); the events and the reload they queue.  What is left of
a rip is a set of rows, taken from the lowest; a music file is `"old"` (the user's),
`"ripped"` or `Absent`.

### ZuneSession

Objects with handles in folders; `.zytunes-track-cache`, believed while the free space
it notes is that of the device within a megabyte; `.zytunes-library-cache`, believed as
long as the former.  One action per device call or cache write: a folder is filed in the
library after it was found or made, an album after its album object.  Any call may fail, a
removal or a sync may be cancelled between two tracks, a session may be cut between any two
calls, and another computer may change the device between sessions.  A call that fails may
have done its work.  A listing that walks the folders leaves out what it cannot look at and
is kept nevertheless; the clean-up takes a folder it cannot list for an empty one.

Names are what the code compares, and songs, albums and artists are what they are about;
what the comparison of two names gives is a constant.  `Garbled`: songs of whose title ZMDB
drops letters (all that is not ASCII).  `Fits`: whose file is found when `find_object` looks for whose
title, by the end of the stem; the file keeps the name it had on the computer, so that it may not be its
own song's.  `AlikeDir`: which folder is taken for which other one by the same rule.
`Taken`: a row of whom the App takes for a copy of whom (`find_device_copies` looks for
the name anywhere in a path).  `Stock`: what is on the device at first.  `Room` gives the
free space for each number of copies of each song, so that what a song takes need not be
added up.

### IpodSession

A database is its rows in order and its playlists; a row keeps dbid, file, play count
and artwork flag, which is what reading and writing preserve.  A playlist is a set: of
positions in the file, of dbids in a session; the order of its songs is left out.  A
flush is four writes (pictures, ArtworkDB, iTunesDB, removal of Play Counts).  The
firmware counts plays by position, and only of an iPod that is unplugged.

### PlayLedger

The sidecar and the copies of it in the TUI and the server, each read once and written
whole.  The TUI merges the counters of the panel's list under the key of the panel's
device, on every list and every library; devices are played, reset, detected, lost, or
fail to list.  The server admits a report by `PlayLimiter`; between admission and the
record the client may give up, and a request that was given up before it was admitted may
still come (`GiveUp` does not take it back; `Lost` does, if the network loses it).  The phone counts
a listen once by `_countedPlayId`, takes that back when its report fails, and reports again at the
next tick, which only a playing engine gives.  It pauses, seeks across the threshold, goes
on to another track, and stays on the last one of its queue when that has ended.  Time is counted in the phone's time-outs.  What an entry should count is history:
the plays that were recorded in it (`own`) and, of each device, how far its plays were
read (`took`), which `Took` counts, each play of a device once.

## 3. Runs

TLC checks every reachable state of each instance.  Every run passes.

| run | instance | properties |
|---|---|---|
| `loop` | two tracks, videos configured with two files; four keys | `DisconnectSticks`, `ConnectedHasSession`, `NoPhantomTrack`, `ConnectAnswered` |
| `sync` | two tracks, one of them transcoded; picks: the native one, or both as a playlist; one copy on the device; window 1; three keys | `RunAccounting`, `ForwardedConserved`, `NoPhantomCopy`, `ReportedOnDevice`, `RunningEnds` |
| `stem_jobs` | two tracks, an album of both, two engines, one installed; three keys, one sync run | `OlderJobsTripped`, `WorkDirOwned`, `StemsMatchTrack`, `SeparationEnds` |
| `hub` | two clients, two tracks, two jobs, one DELETE | `OnlyCurrentWanted`, `SeparatingIsAlive` |
| `stem_store` | two processes, three keys, a recipe of two passes, room for two splits; two look-ups, one edit, one crash or clear | `ServedIsCurrent`, `CapHolds`, `ShelfSpec` |
| `player` | two tracks, four keys, three splits, one bad file | `ShownIsHeard`, `StemsAreHeard`, `PlaysHonest`, `PlaysOut` |
| `index` | two files of every kind, two loads, two edits, rereads or ends of the process | `CacheTrue`, `Indexed`, `ScanKeepsIds` |
| `tags` | an album of two and a song outside it, names that collide, one path on another file system; two requests, two failures or ends | `WholeFiles`, `LibraryAgrees` |
| `rip_import` | two rips of two tracks, two formats, two releases; one edit after the question, one of sync, cancel, quit; any file may resist the sweep | `OneCopyPerTrack`, `OldFilesAsked` |
| `zune` | one artist, two albums of a track each, one with names of its own, one garbled, misnamed and misfiled; empty at first, or with one track; six operations, one fault, one change elsewhere | `ListTrue`, `NoDeadParent`, `RemovalHits`, `OneCopy` |
| `ipod` | three songs, one without a picture and one whose picture is bad; three sessions, three operations, two plays, two faults | `ImportedSurvives`, `ListsRight`, `CoversRight`, `PlaysNotInvented` |
| `plays` | two tracks, two devices; either five acts at the TUI and devices, or one and two, or two or three of phone and server; one or two faults | `CountedOnce`, `DevicePlaysKept`, `ListenCounted` |

What they say:

* `DisconnectSticks`: after `d` the panel stays disconnected, empty and not loading
  until `c`, whatever the session that is going away still sends.
* `ConnectedHasSession`: a panel that is going to show Connected once the events
  under way are handled, with no Connect to come, has a session behind it.
* `NoPhantomTrack`: once the events under way are handled, the panel lists no track
  that is not on the device, other than one the user has been told, since the last
  listing, could not be removed.
* `ConnectAnswered`: an attempt to connect is answered, unless a busy worker lost the
  Connect or a Zune's storage query failed.  The two exceptions are what the code
  does, kept out of the property by `lost`.
* `RunAccounting`: the counters of a run account for every item given to it, by
  the start or by a later append, at every point of its loop.
* `ForwardedConserved`: a track forwarded to a running sync is always somewhere
  (pending, in the channel, in the run, in hand) until it is reported, also when it
  races the end of the run, a cancel or the loss of the device.
* `NoPhantomCopy`: once the events under way are handled, the App's index lists no
  copy that is not on the device, other than one the user was told could not be removed.
* `ReportedOnDevice`: a track last reported as synced has a copy on the device,
  although an overwrite deletes the old ones first.
* `RunningEnds`: the Running state is always left.
* `OlderJobsTripped`, `WorkDirOwned`: every stem job but the last dispatched is told to
  stop, and no job, clear or uninstall takes the work directory of a job in the
  middle of a separation.
* `StemsMatchTrack`, `SeparationEnds`: stems belong to the track that plays, and
  "separating" is left, unless a sync threw away that very request.
* `OnlyCurrentWanted`, `SeparatingIsAlive`: of the server's threads only the current
  one is wanted; GET never says "separating" of a split that has ended.
* `ServedIsCurrent`, `CapHolds`, `ShelfSpec`: a hit is a whole split of the source as
  it is (except one edited during its own split); the cache fits its cap once every
  entry has been counted; and the calls of both processes together are steps of the
  shelf of `StemCache`.
* `ShownIsHeard`, `StemsAreHeard`: once both threads have heard each other out, the
  panel shows what is heard, paused or not, and a strip of stems is of this track.
* `PlaysHonest`: a play is recorded of a track that was heard past its threshold, or on
  an event sent before the listen began (section 5).
* `PlaysOut`: left alone, what plays comes to its end, and so does the list.
* `CacheTrue`, `ScanKeepsIds`, `Indexed`: what the cache says of an unchanged file is
  true; no scan loses an id stored during it; at rest the App knows every id, unless
  a reread ran against a backfill (section 5).
* `WholeFiles`, `LibraryAgrees`: a music file is whole at every moment; when nothing is
  in flight library, cache and disk agree.  Both except the destination of a move between
  file systems that has not finished; while one goes on the song is where it was.
* `OneCopyPerTrack`, `OldFilesAsked`: a ripped track is there in one format, beside what its last
  sweep could not remove; a file of the user is overwritten only by a rip confirmed after a question about that track.
* `ListTrue`: after any one mishap (a call that fails, having done its work or not, a session
  cut short, a change elsewhere) the kept list is that of the device, for songs whose names
  and folders are their own (`OwnPath`), but for one that was sent and not noted (`cut`) and
  for what a listing left out, or a call removed that failed (`marred`).
  `NoDeadParent`: nothing is sent into a deleted folder, unless a session was cut short while the
  list is empty, or the folder went by a call that failed (`bare`; section 5), or it was another's,
  taken for the song's.  `RemovalHits`: a removal removes the song its row names, by handle, or one
  whose file fits that name, by path.  `OneCopy`: if nothing fails, a sync of a song with names of
  its own replaces what is there.  Two mishaps may cancel out in the free space, and then
  the first two are false: TLC shows it when both bounds are raised and `Mishaps <= 1` is
  taken out.
* `ImportedSurvives`, `ListsRight`, `CoversRight`, `PlaysNotInvented`: an import that
  returned Ok stays whatever fails later; playlists hold what was asked for; a cover
  is of its own song, while no write has been cut short; plays are of the file that was
  played and counted once, unless two writes were cut short (section 5).
* `CountedOnce`, `DevicePlaysKept`: in the sidecar and in both memories no play is
  counted twice and no play of a device that was read is missing, whoever overwrote
  whom: an update that is lost takes the baseline with the count.  Listens whose reports can come to a
  server a cooldown apart are left out (`doubt`; section 5).  `ListenCounted`: a listen on the phone
  is recorded in the end although requests and answers are lost, as long as it plays on past
  its threshold: a report that fails at a pause or at the end of the queue is not made again.

Also stated in the modules, true on the same instances and left out of the runs because
they say less (all but the liveness properties, `TallyIsTrue`, `EvictsOldest` and `StoredPlays`
are proved): `TypeOK` of each module, `LoadingEnds`, `ForwardedReported`, `OneJobWorks`,
`SeparatingHasJob`, `TallyIsTrue`, `SplitEnds`, `StoredPlays`, `EvictsOldest`, `NoPartLeft`,
`RipShownEnds`, `LibraryRefreshed`, `RowsHaveFiles`, `InPlainSight`, `PreviewIsAsked`,
`WaitsForAnswer`, `OutsidersSafe`.  Adding a name to the run's `.cfg` checks it.

Bounds.  In `loop` four keys give connect, disconnect, connect again and one more
command, the shortest way for events of one session to meet the next one; two files
are two polls of the channel.  In `sync` and `stem_jobs` `MaxKeys` bounds user actions (a
run of the worker is not bounded by it and goes to its end).  Three keys are enough to
add, start, and then add, start again, cancel or clear in the middle, which is the
longest pattern the handlers distinguish: each looks at one previous decision at
most.  For stems three keys give every pair of jobs with a cancel, uninstall or
track change between them, and a batch suspended and resumed; one sync run
can throw away any part of what they send.  `MaxJobs` never
stops a dispatch in `stem_jobs`; in `hub` it bounds the number of POSTs that start a
job, and two racing ones are the case the two locks are about (the invariants are
proved for any number).  In `stem_store` three keys with room for two make every store
evict, two look-ups are one per process or two of one; symmetry is over keys
and processes, which no definition tells apart.  In `player` four keys reach next and
previous in both directions with a pause and a stem swap between; in `index` two
loads are a scan over another's backfill; in `tags` two requests leave one answer
late behind another, and two faults are a move that breaks off and a failure after it.  In `zune` six operations are a sync, a removal and a listing
on either side of a cut session.  In `ipod` three sessions are one that imports, one
that finds its own database and one that finds what a fault left; two faults leave
artwork, database and Play Counts of three different times, and one property
(`PlaysNotInvented`) turned out to need that excluded.  In `plays` five acts
are start, connect, a play, a reset or another device, and a play again; the cooldown
is two time-outs instead of four (30 s of 8 s each) and the window one report
instead of 60, so that both are met.  Faults are bounded by one or two: each
step that may fail is tried in every position.

`CHECK_DEADLOCK FALSE` is set where a model stops when its bounds are used up and the
user does nothing more (`zune`, `ipod`, `index`, `tags`, `player`,
`rip_import`, `plays`).

Fairness.  The UI loop never stops handling events and flushing (`WF` of the
event actions and of the step that finds no key); keys are the user's and have
none.  The worker's loop and the job threads are threads of their own that never
wait for the App: `WF` of their steps.  For a thread inside an engine this says
that the process ends or is killed, which `run_engine_process` polls for.  The
fairness of the job threads in `StemJobs` is of their disjunction: the lock is
handed to some waiter, not to a particular one; a sync there comes to its end (`SyncRun`
shows that), without any say in which commands it throws away.  In `Player` the frame loop, the
audio thread and the sound go on (`WF`), and the thread's `recv_timeout`, which a
command may pre-empt, expires again and again when commands do not come for ever
(`SF`).  In `PlayLedger` the requests and time-outs of the phone, the server's work and the clock go on,
and so do the ticks while the engine plays past the threshold (a tick at a pause or a seek
may come and need not); that requests succeed is not assumed: faults are
bounded instead, and a request is answered within its time-out or counts as one.

## 4. Proofs

For every value of the constants, in `*_proofs.tla`.  Each proof has one step per action.
Where an invariant is a strengthening, TLC has checked it on the instance of the run (or
the one named here) before it was proved.

`CommandLoop` (`LoopTypes`, `DisconnectHolds`, `ConnectedHolds`, `NoPhantomTrackHolds`).
`TypeOK` and `DisconnectSticks` are inductive with `HasWork` (a loop has the item it works
on).  `ConnectedHasSession` needs, on top of them, that a busy worker has a session, that a
Disconnect under way which no Connect follows was pressed by a user whose panel ignores
what the session sends, and that only media pushes are pending; the steps that matter are
the three that end a session.  `NoPhantomTrack` follows from `ToldOnDevice`: a track named
by the panel or by an event, and taken back by no later event, is on the device or among
those the user was told could not be removed, whether
or not the panel ignores events at the moment.

`SyncRun` (`SyncTypes`, `RunAccounted`, `ForwardedKept`, `NoPhantom`, `SuccessIsOnDevice`).
`TypeOK` and `RunAccounting` are inductive together.  The other three need each other
and three facts more (`Full`): between two runs the worker has nothing in hand (`Rest`,
or an item could be left behind by the end of a run); what was forwarded is reported,
in the run, in hand or in an *append* command (`Conserved`: a drain passes over an
execute, so that it is no place to be); and a handle stands for one copy in the device,
the index, the events and the targets of every item under way (`Handles`, or an overwrite
whose targets were noted long before could remove a copy made since).

`StemJobs` (`StemTypes`, `OneJobAtATime`, `OnlyTheLastIsWanted`, `WorkDirStays`,
`StemsOfTrack`, `SeparatingIsOwned`).  `OneJobWorks` is not inductive alone: the
strengthening adds that a job that works holds the lock (`LockHeld`), that the active job
is the last dispatched (`TokenOfLast`) and that a job's command fits its stage
(`SpecOfStage`, needed for the key of its work directory to be defined).  `StemsMatchTrack`
needs that the track that waits for an install is the one that plays (`PendingPlays`).
`SeparatingIsOwned` is the safety half of `SeparationEnds`: a status of separating always
has the command, the job or the terminal event of its generation, unless a sync threw
that command away.

`StemHub` (`HubTypes`, `OneSplitWanted`, `SeparatingIsTrue`); the strengthening says that
the slot holds a job that was started.

`StemStore` (`TypesHold`, `ServedRight`, `ImplementsShelf`, `CapKept`), for any recipe, keys
and number of processes.  `ServedIsCurrent` is `HitTrue` (an entry whose sidecar has the
fingerprint of the source was made from it), which needs the same of every stage, work
directory and fingerprint in hand (`SplitTrue`), that no file is of a version to come
(`Aged`) and that legacy entries are adopted before anything is stored (`Migrated`).
`ImplementsShelf` is the refinement: with that invariant every file-system call maps to a
step of `StemCache` or to none; the rename of the stage is the only one that puts a
split on the shelf.  `CapHolds` is about a sum that two prunes and a store change
meanwhile: `CapInv` says that the entries some prune has counted fit the cap, or that a
prune still at work has all of them on its list and their exact total (`Covers`), so that
it goes on until they fit; a prune that dies leaves its entries uncounted, as `unpruned`
says.  It was checked first with two keys, two processes and three requests.

`LibraryIndex` (`IndexTypes`, `CacheIsTrue`, `ScanKeeps`, `IndexedHolds`).  `CacheTrue` is
`SoundInv`: an entry with the stamp of the file describes it, in the cache, in the copy a
scan works on and in the hits and misses of every thread.  `ScanKeepsIds` is an action
property: during a scan its copy follows the cache file, entry by entry, except for
ids a backfill has written since, which the scan is going to merge because the epoch has
moved, or a thread has written and not yet counted it (`Follows`, `Unread`).  `Indexed`
accounts for every id between the cache and the App (`Served`): an entry without an id is
on a list of the thread of the present generation or marked as failed; an id in the cache
is in the last library under way, in a batch of ids behind it, or in the hands of a thread
that is going to send it.  `RunInv` adds what makes the generations and the lock work: no
thread of the present generation runs while a scan does, and the lock is free when its
library is sent.

`IpodSession` (`TypesHold`, `ListsAreRight`, `NoPlaysInvented`, `CoversAreRight`,
`ImportsSurvive`, `SmallImportsSurvive`), for any iPod that iTunes has filled, any number
of operations and faults.  The type invariant has the hard fact that dbids stay distinct:
next_dbid is above all of them.  `ListsRight` needs that each dbid of a session's playlist
is of a row of it (`Asked`).  `CoversRight` needs that the store indexes pictures of the
session's own rows, or of no row, and that each write of the flush has put *that* store on
the device (`StoreTrue`, `Pictured`).  `PlaysNotInvented` needs that the raw count of a row
is no more than was played and that the Play Counts fit the rows they would be added to
(`Counted`, `Foldable`).  `ImportedSurvives` is proved together with `RowsHaveFiles`
(`KeptInv`), under the hypothesis that no two rows of a session share the low half of their
dbids at any time (`NoClash`); `SmallImportsSurvive` gives the hypothesis for an iPod
whose dbids are below 2^32, as next_dbid makes them from an empty database.

`PlayLedger` (`LedgerTypes`, `LedgerInvariant`, `PlaysCountedOnce`, `DevicePlaysAreKept`),
for any tracks and devices, cooldown and number of acts and faults.  `LedgerInv` has three
parts.  `ReportsInv`: a listen that is not in doubt has one report that the phone
waits for; it is admitted once, not after it was counted, and another report of it, made again or
given up long ago, meets a server that still remembers the first (`Once`); for which listens must be new (`Fresh`) and of one track.
`PanelInv`: while no list failed to be read, the events of a device are its detection
and its list in this order (`Channel`); the lists of a device that are in an entry, in the panel
and under way each continue the one before, however often it was reset (`Ordered`); and what is under
way will bring the panel up to date (`AllRead`).  `RightInv`: an entry counts what it took,
from above unless one of its listens is in doubt, and from below of the devices that were
not reset; that a merge keeps it follows from the order of the lists.

`Player` (`PlayerTypes`, `PanelIsHeard`, `StemsHeard`, `HonestPlays`), for any tracks and
lists, stretches of a track, number of keys, splits and faults.  App and audio thread
change their own state when they *send*, so that they agree only in the end: what the
last queued command that concerns a thing, or else the last event about it under way,
will make of it is what the panel shows.  `TrackRight`, `StateRight` and `StemsRight` say that of
the track, of playing or paused, and of file or stems (where a refused swap under way
counts as its opposite); `ShownIsHeard` and `StemsAreHeard` are these with empty channels.
`PlaysHonest` needs that the thread's clock never runs ahead of what was heard
(`ClockBehind`) and that a count under way belongs to this listen, or comes before its start
(`EvsHonest`).

`TagManager` (`TagTypes`, `FilesStayWhole`, `LibraryIsDisk`, `WrittenInSight`, `PreviewHolds`,
`WaitingHasRequest`, `NoOutsiderLost`), for any songs, releases, names and number of requests and
faults.  `WriterInv` is about the worker: it works on songs of its batch (`OfBatch`), the draft
beside a file is that of the song in hand, the cache is that of every file it does not touch
(`CacheFollows`, except where a move between file systems broke off), and what the pre-flight found of destinations stays true through
the renames before (`PreflightHolds`), which is why no step loses a song outside the batch.
`LibraryFollows` says that the last reread under way carries what the cache has.  `TalkInv` is about
requests: none has a number the overlay has yet to give (`TokensOld`), a preview is asked of the
songs of its overlay (`DetailsAsked`), and while an apply is under way nothing else is under its
number (`ApplyInSight`).

`RipImport` (`RipTypes`, `RipsAddUp`, `NoPartsLeft`, `OneCopyIsLeft`, `OldFilesAreAsked`,
`OverwritesAreAsked`), for any releases, formats and libraries.  `RipRows` keeps what is left of a
rip among the rows of its release.  `OneCopyPerTrack` is `RipCopyInv`, which excepts the track
between its rename and its sweep and knows that it is there as ripped; of the files that resisted
a sweep none is the one just ripped.  `OldFilesAsked` is
`RipAskedInv`, of the overlay, of every request in the channel and of the rip: files of the user
never appear, so that who was asked stays asked.  It has the hypothesis `PositionsFirst` (rows
without a position come after those with one): the conflicts are looked for in the
directory of the first selected row, and if that row has no position then files in other formats
are swept unasked.  `OverwritesAreAsked` is what holds without it: no file is written over unasked.

`ZuneSession` (`ZuneTypes`, `RowsHit`, `ListHolds`, `ParentsLive`, `SongsOnce`), for any artists,
albums and songs, any names and `Stock`, any number of handles, operations and mishaps.  `RemovalHits`
is `RowsMeet`: a handle in any row that anyone has (the cache, the App, what is left of a
removal) was given out, and, as long as its object lives, is that of the row's song, since
handles are not given out twice; a path leads to a file that fits the title.  The other three are
one invariant, `CacheInv`, whose parts need each other (TLC has checked them on the instance of
`zune`, on one with both songs on an album and one with two artists, each with names of their own):

* `Singles`: songs that were never sent twice have one copy, so that the free space tells which
  songs there are (`Apart`, of `ZuneAssumption`).
* `TruthInv`, for one mishap at most: the lists are those of the device, but for the song in hand,
  those cut off and those marred (`Settled`), or else the lists are about to be read again, or will
  not be believed (`Aware`).
* `CalmInv`, as long as nothing failed: the free space in the cache is that of a set of songs which
  differs from that of the device until every row is written (`Dated`), which is why a session cut
  short anywhere leaves a cache that is not believed; the App knows of every song (`Sighted`), so
  that a sync finds what to replace; and every song is where its path looks (`Placed`).
* `LibInv`: the folders of the library cache exist (`Alive`), or the cache will be dropped before
  it is used, or it is believed undated, or a folder went by a call that failed (`bare`).
  `LibShape` is about the folders in hand.
* `FirstInv`, before any mishap: the library has exactly the folders to which paths lead (`Exact`).

The three have the hypothesis `PlainNames`: no folder is taken for another, and every title leads to the
song's own file and is recognised by the App.  The properties themselves ask it only of the song they are
about; the theorems ask it of all, because a song with a false name that is removed or replaced by path
may take another with it, and then that one is missing from the device.  On the instance of `zune`, where
names are false, TLC has checked the properties as they stand.

Unions of record sets (commands, events) are kept opaque behind introduction lemmas,
because the provers do poorly on them.  The assumptions are those named in the modules
(`...Assumption`); TLC evaluates them.

Only model-checked: the liveness properties (fairness and ENABLED are out of the
prover's reach): `ConnectAnswered`, `RunningEnds`, `SeparationEnds`, `PlaysOut`,
`ListenCounted`.  Every invariant and every action property of a run is proved.

## 5. Noticed while modelling

Behaviours of the code that its documentation, or a reader, would not expect.  No
run claims otherwise: the properties above are stated so that they hold of the code,
and where one has an exception it is one of these.

Sync and devices.

* A track added between `S` and the first progress event is not forwarded (the status
  is not Running yet) and goes with the queue on completion; app.rs:5185 promises that
  it is "picked up by the running sync".
* Uploads of a track share a path, and the index ignores a path it has; the second
  upload in a session (a second `S`) is on the device only, and background.rs:1647's sweep
  of duplicates does not find it.
* On connecting, `SyncPhotos` and `SyncVideos` are sent together; the photo push looks for
  a cancel with `try_recv`, takes `SyncVideos` and loses it (events.rs:587).
* A CD poll or an `S` sent while a sync runs is dropped by `drain_sync_commands`, whose comment
  (background.rs:87) says that the TUI sends none; `detect_in_flight` stays set and no
  disc is looked for again.
* On an iPod a removal or an upload that fails when the database is written has been made: the
  file and the row are gone, or there (ipod_session.rs:60, :261).  No DeviceTrackRemoved or
  DeviceTrackAdded is sent, and the panel differs from the device until the next listing (the
  exceptions of `NoPhantomTrack` and `NoPhantomCopy`).
* The removal queue survives a disconnect, and holds ids of the other device (keys.rs:407).
* README.md:22 says that the queued sync filters out tracks already on the device;
  `execute_sync` dispatches them with their copies as `overwrite_targets`.

Stems.

* Stem commands sent while a sync runs are dropped by the same drain (keys.rs:522 takes `M` in any status of
  the sync): a dropped request leaves "separating" in the panel until the user presses on (the
  exception of `SeparationEnds`), a dropped cancel leaves the job running.
* No event of an install that fails resumes a suspended batch (app.rs:3882 says it does).
* A batch on another engine supersedes an install; the handler of the cancelled install
  assumes that whoever cancelled it reset the status (events.rs:358).
* Two jobs of one track in the server share a work directory, and the superseded one
  removes it when it ends (stems.rs:362, :403).
* `store_stems` removes the old entry and then renames the stage: a crash in between leaves
  neither, where app/src/stems.rs:1175 promises the previous entry or an invisible stage.
* A prune by the other process sweeps a stage that is being filled: the store returns Ok
  and the entry is empty.  A touch after an eviction makes the entry again, as a husk.
  The eviction of an entry that is already gone frees nothing in the count, and more
  is evicted than needed.  The fingerprint is taken after the split.

Playback in the TUI.

* An error of the previous track clears the panel while the next one plays.
* A `Play` that fails leaves the thread's state behind, and a `Scrub` brings the old song back.
* A position or an end sent before a change of track counts the new track as played (the
  exception of `PlaysHonest`; TODO.md:87), and a stale end skips a track.
* Enter on a row of a device records a skip and resets the stems though nothing plays.
* A swap back to the file that fails leaves the stems audible with their status off.
* When the output cannot be opened the panel says Playing for ever.

Library, tags, CD.

* `reread_paths` copies the cache without the lock and writes its copy back: ids that a
  backfill stores in between are lost (dirlib.rs:394, cache.rs:349).  Other processes
  share the file with no lock at all.  A music directory that is not mounted, or empty,
  prunes every entry.  Versions are mtime in whole seconds and size.
* The pre-flight of a tag apply lets through a destination that is the source of another
  entry (tag_ops.rs:727): 01 -> 02 replaces 02, which has not been moved yet, and when
  its own rename then collides its audio is lost.
* A rename to another file system copies to the final name and then removes the source
  (tag_ops.rs:968).  A copy that breaks off leaves a partial file there; a removal that fails leaves both, and the
  new one is in neither `rename_map` nor the reread, so that library and cache do not know of it
  before the next full scan (the exceptions of `WholeFiles` and `LibraryAgrees`).  A copy to `.tagtmp` that breaks off
  is not cleaned up either (tag_ops.rs:847) before the next apply to that file.
* The AcoustID match of the first selected track is offered for every track
  (tag_manager.rs:133); `q` cannot be typed into a search; an apply that a running sync
  drops leaves the overlay in Applying; a track whose tags could not be written is renamed
  nevertheless.
* RipAndImport holds the loop that reads CancelRip: the rip is cancelled when it is over
  (background.rs:231), and the next one resets the flag.
* The sweep after a rip passes over what it cannot read or remove (background.rs:2678), and says nothing: two
  formats of the track are left (the exception of `OneCopyPerTrack`).
* The import overlay offers tracks without a MusicBrainz position, which the worker fails;
  no conflict is looked for when the first selected track lacks one.  The question is
  asked of the disk as it is then: a second import that is queued replaces the files of
  the first unasked.  A disc that is swapped is not noticed.  The end of the program
  between rename and sweep leaves both formats, during a rip a `.part`.

Zune.

* `find_object` takes the first file whose stem ends in " Title" (native.rs:496), of folders too, so
  that an album "Hits" may be filed in "Greatest Hits" (native.rs:511); the clean-up of that
  folder then invalidates only its own name, and the other album's handle stays, dead.
* Files keep the names they had on the computer, and ZMDB drops what is not ASCII from titles
  (zmdb.rs:36): a removal by path then finds no file, the sync goes on (background.rs:1668), and the
  device has two copies.
* `find_device_copies` looks for artist and title anywhere in a path and not for the album: syncing a
  song may replace one of a similar title.
* What a walk of the folders cannot look at is left out of the list (native.rs:432), and the list is kept and
  believed until the free space changes.
* A session cut between the deletion of a folder and the invalidation of the library cache
  sends into the dead folder when the track cache is empty (native.rs:1198, :1876; the
  exception of `NoDeadParent`).  A change elsewhere that leaves the same free space is not
  noticed.  A folder the clean-up cannot list counts as empty and is deleted (native.rs:1195, :1216).  A
  leftover `.alb` makes a later scan put the album one level up.
* `import_playlist` fails when a clean-up has dropped the library; ids are restored by a name
  that never matches; `recent_imports` keeps handles of removed tracks.

iPod.

* `write_mhit` replays the header of a row that was read, with only its artwork patched: play
  counts folded into it are not written, and the Play Counts file is deleted
  (device/ipod.rs:140 says they are folded).
* The artwork store of a session starts empty and replaces that of the sessions before:
  earlier covers are dropped, also by a picture that does not decode.  A cable pulled
  between ArtworkDB and iTunesDB leaves flags for pictures that are gone
  (itunesdb_write.rs:1217).
* Two writes cut short may put play counts on the wrong rows (the exception of
  `PlaysNotInvented`): the write of an import fails, so that its row is in the session
  only; a removal in the same session brings the number of rows back to that of the old
  Play Counts, and the cable goes after its iTunesDB and before the Play Counts are
  dropped.  The number of rows is all that `apply_to_tracks` compares (play_counts.rs:157).
* `rm_by_id` looks for a row by the low 32 bits of its dbid and takes the first one it
  finds: of two rows that share them it may remove the wrong one, and then an import is
  gone.  `ImportsSurvive` is proved of sessions in which no two rows share them.
* A crash between the copy and the database leaves a file nobody lists.

Plays.

* TUI and server overwrite each other's sidecar, which local_plays.rs:12 wants to be one
  history: plays counted by one are lost when the other saves.
* A list stays in the panel after SessionFailed; when the next device's list cannot be
  read, a reload of the library merges it under the next device's key (`misread`).
  With two copies of a track the last one listed counts; two library tracks of one
  artist and title both take a device's plays.
* A report given up by the phone is not aborted (client.dart:174).  If it comes more than the cooldown after
  the retry was recorded it is counted again (part of `doubt`), although docs/stream-api.md:197 says
  that retries cannot inflate the counts.  Retries are made at ticks, which come only from a playing
  engine (session.dart:42): a report that fails at a pause or at the end of the queue is never made again.
* A report that was recorded but not answered for the cooldown, or by a server that was
  restarted, is counted twice.  A failure of an earlier listen's report takes
  `_countedPlayId` from the present one of the same track.  A repeat is answered before
  what it repeats is recorded.  The window is fixed, not rolling (docs/stream-api.md:197).

Mobile client (not modelled, seen in `session.dart`): `_enterStems` and `_startStemPlayback` do not
look at the generation after `await api.stems` and `await playback.pause()`; `_cancelStemJob`
resets the phase after its await; `_exitStems` and `_playCurrent` take the track before theirs;
changes of the queue during a crossfade do not reach `prepareNext`; two downloads of a stem
share a `.part`; `_loadPlayCount` may answer after `recordPlay` and lower the shown count.
MTP: a response carries no check of its transaction id, so that one that comes after
a time-out answers the next command (`zune-mtp/src/session.rs`).

## 6. Assumptions of the models

* A file's stamp changes with every edit (`LibraryIndex`, `StemStore`).
* Sizes of tracks are in general position (`ZuneAssumption`): other tracks leave other room.
* A track is counted as played before its end (`PlayerAssumption`).
* No two songs are in one file, and a batch is one of the given selections (`TagAssumption`).
* A release has finitely many rows, and what has a position is a row of it (`RipAssumption`).
* Values that stand for "nothing" (`None`, `Absent`, `"none"`) are not tracks, files or
  records (the `...Assumption` of each module).
* A Zune keeps no object whose data did not come; any other call that fails may have had its effect
  (`ZuneSession`).
* Requests of the phone are answered within their time-out or given up; one given up may come at any
  later time (`PlayLedger`).  There are
  finitely many devices, and None is not one of them, nor a track or a record
  (`LedgerAssumption`).
* Low halves of dbids may collide (`Wrap`), those iTunes has given out do not, nor are
  they 0 (`IpodAssumption`).
* What is on a device has a handle of its own when a sync begins (`SyncAssumption`).
* Recipes read the source, or files they have made, and there are finitely many keys and
  stems (`StoreAssumption`).
* Music roots exist and can be read (`LibraryIndex`).

## 7. Plan

1. The mobile session with its crossfade and stem playback against the hub's GET.
2. MTP transactions with time-outs; the copy and delete of the GoGear.

## 8. Not modelled

Rendering and themes; binary codecs (iTunesDB, artwork, MTP containers), whose
correctness is about bytes and covered by round-trip tests; the stem engines' processes
and their installer (an engine run is one action); MTP transactions and the GoGear
session; HTTP clients of metadata services; scoring in the recommender; stored
playlists and the listen log; command-line parsing; queue, crossfade and stem
playback of the phone; handlers of the server that only read.
