------------------------------ MODULE StemJobs ------------------------------
(***************************************************************************)
(* Stem separation in the TUI.  The App (app.rs, app/events.rs) keeps what *)
(* the user asked for: the stem status of the playing track, a possibly    *)
(* suspended album batch, a pending engine install.  The worker            *)
(* (background.rs) starts one thread per job.  StemJobs serialises them:   *)
(* dispatching a job trips the cancel token of the previous one            *)
(* (supersede), and a job does its work under one lock (acquire).          *)
(* An engine and the recipe it runs are identified.  While a sync runs, the *)
(* worker throws away whatever command is not one of the sync's own.       *)
(***************************************************************************)
EXTENDS Integers, Sequences, FiniteSets

CONSTANTS
    Track, Engine,
    Album,       \* the tracks of the album an `M` in the sidebar separates
    Installed0,  \* engines installed at the start
    NoTrack,
    MaxKeys,     \* bound: user actions and track changes
    MaxJobs,     \* bound: jobs dispatched
    MaxSyncs     \* bound: sync runs

ASSUME StemAssumption ==
    /\ Album \in Seq(Track)
    /\ Installed0 \subseteq Engine
    /\ NoTrack \notin Track
    /\ MaxKeys \in Nat /\ MaxJobs \in Nat /\ MaxSyncs \in Nat

JobId == 1..MaxJobs
None  == 0

VARIABLES
    \* App
    playing,    \* the track that plays
    recipe,     \* the configured recipe
    status,     \* StemStatus: "off", "provisioning", "separating", "active"
    gen,        \* stems.job_gen
    forTrack,   \* stems.for_path
    pendingTrack,  \* stems.pending_path
    consent,    \* the install consent overlay is open
    batch,      \* stems_batch: a record, or NoBatch
    batchGen,   \* stem_batch_gen
    phase, keys,
    \* channels
    cmds, evs,
    \* worker: the sync it may be in, and how many it has begun
    syncing, syncs,
    \* worker: StemJobs and its threads
    lock,       \* the job that holds the lock, or None
    active,     \* the most recently dispatched job, or None
    tripped,    \* jobs whose token is set
    spec,       \* the command of each job
    stage,      \* where each job is
    pos,        \* index of the track a batch job is at
    sep,        \* tracks a batch job has separated
    \* disk
    installed,  \* engines present
    cache,      \* stem cache entries: <<track, recipe>>
    work,       \* owner of the work directory of each <<track, recipe>>
    \* history
    made,       \* entries stored on behalf of each album batch
    dropped     \* generations of the separations a sync threw away

app  == <<playing, recipe, status, gen, forTrack, pendingTrack, consent, batch, batchGen>>
jobs == <<lock, active, tripped, spec, stage, pos, sep>>
disk == <<installed, cache, work>>
sync == <<syncing, syncs, dropped>>
vars == <<app, phase, keys, cmds, evs, jobs, disk, made, sync>>

-----------------------------------------------------------------------------
(* An operator X_Y is X with a plausible mistake.  No specification uses it:  *)
(* it is there to be put in the place of X, to see that a property notices.   *)

NoBatch == [gen |-> 0]
HasBatch == batch # NoBatch

\* The command carries the generation before the bump.
Separate_OldGen(g, t, r) ==
    [op |-> "separate", gen |-> g - 1, tracks |-> <<t>>, recipe |-> r, album |-> 0]

Separate(g, t, r)        == [op |-> "separate", gen |-> g, tracks |-> <<t>>, recipe |-> r, album |-> 0]
SeparateBatch(g, r, a)   == [op |-> "batch", gen |-> g, tracks |-> Album, recipe |-> r, album |-> a]
Provision(g, e)          == [op |-> "provision", gen |-> g, tracks |-> <<>>, recipe |-> e, album |-> 0]
Uninstall(e, evict)      == [op |-> IF evict THEN "uninstall+evict" ELSE "uninstall",
                             gen |-> 0, tracks |-> <<>>, recipe |-> e, album |-> 0]
ClearCache               == [op |-> "clear", gen |-> 0, tracks |-> <<>>, recipe |-> recipe, album |-> 0]
CancelSeparation         == [op |-> "cancel"]

NoSpec == [op |-> "none"]

Init ==
    /\ playing \in Track /\ recipe \in Engine
    /\ status = "off" /\ gen = 0 /\ forTrack = NoTrack /\ pendingTrack = NoTrack
    /\ consent = FALSE /\ batch = NoBatch /\ batchGen = 0
    /\ phase = "events" /\ keys = 0
    /\ cmds = <<>> /\ evs = <<>>
    /\ lock = None /\ active = None /\ tripped = {}
    /\ spec = [j \in JobId |-> NoSpec]
    /\ stage = [j \in JobId |-> "none"]
    /\ pos = [j \in JobId |-> 1]
    /\ sep = [j \in JobId |-> 0]
    /\ installed = Installed0 /\ cache = {}
    /\ work = [d \in Track \X Engine |-> None]
    /\ made = [a \in 0..MaxJobs |-> 0]
    /\ syncing = FALSE /\ syncs = 0 /\ dropped = {}

-----------------------------------------------------------------------------
(* App: what handlers share. *)

\* Stems that play stay on.
Reset_NotActive ==
    IF status = "active" THEN UNCHANGED <<status, forTrack>>
    ELSE status' = "off" /\ forTrack' = NoTrack

\* StemState::reset.
Reset == status' = "off" /\ forTrack' = NoTrack

\* suspend_batch_for_interactive.
SuspendBatch == batch' = IF HasBatch THEN [batch EXCEPT !.suspended = TRUE] ELSE batch

\* dispatch_separation.
DispatchSeparation(t) ==
    /\ SuspendBatch
    /\ gen' = gen + 1
    /\ status' = "separating" /\ forTrack' = t
    /\ cmds' = Append(cmds, Separate(gen + 1, t, recipe))
    /\ UNCHANGED batchGen

\* dispatch_stem_batch.
DispatchBatch(r, banked, album) ==
    /\ batchGen' = batchGen + 1
    /\ batch' = [gen |-> batchGen + 1, suspended |-> FALSE, recipe |-> r,
                 banked |-> banked, album |-> album]
    /\ cmds' = Append(cmds, SeparateBatch(batchGen + 1, r, album))

\* A resumed batch forgets what its first rounds separated.
MaybeResumeBatch_Unbanked ==
    IF status' \in {"off", "active"} /\ HasBatch /\ batch.suspended
    THEN DispatchBatch(batch.recipe, 0, batch.album)
    ELSE UNCHANGED <<batch, batchGen, cmds>>

\* maybe_resume_stem_batch, after the handler has set status'.
MaybeResumeBatch ==
    IF status' \in {"off", "active"} /\ HasBatch /\ batch.suspended
    THEN DispatchBatch(batch.recipe, batch.banked, batch.album)
    ELSE UNCHANGED <<batch, batchGen, cmds>>

-----------------------------------------------------------------------------
(* App: events of the jobs. *)

HandleEvent(kind) ==
    /\ phase = "events" /\ evs # <<>> /\ Head(evs).ev = kind
    /\ evs' = Tail(evs)
    /\ UNCHANGED <<playing, recipe, phase, keys, jobs, disk, made, sync>>

OnStemsReady ==
    /\ HandleEvent("ready")
    /\ LET e       == Head(evs)
           waiting == e.gen = gen /\ status = "separating"
       IN  CASE waiting /\ playing = e.track -> status' = "active" /\ UNCHANGED forTrack
             [] waiting /\ playing # e.track -> Reset
             [] OTHER -> UNCHANGED <<status, forTrack>>
    /\ MaybeResumeBatch
    /\ UNCHANGED <<gen, pendingTrack, consent>>

OnStemsFailed ==
    /\ HandleEvent("failed")
    /\ IF Head(evs).gen = gen THEN Reset ELSE UNCHANGED <<status, forTrack>>
    /\ MaybeResumeBatch
    /\ UNCHANGED <<gen, pendingTrack, consent>>

\* The install asked for last continues with the track that waits for it, if any.
OnEngineReady ==
    /\ HandleEvent("engineReady")
    /\ CASE Head(evs).gen # gen ->
              UNCHANGED <<status, gen, forTrack, pendingTrack, batch, batchGen, cmds>>
         [] Head(evs).gen = gen /\ pendingTrack # NoTrack ->
              DispatchSeparation(pendingTrack) /\ pendingTrack' = NoTrack
         [] OTHER ->
              Reset /\ UNCHANGED <<gen, pendingTrack, batch, batchGen, cmds>>
    /\ UNCHANGED consent

OnEngineFailed ==
    /\ HandleEvent("engineFailed")
    /\ IF Head(evs).cancelled \/ Head(evs).gen # gen
       THEN UNCHANGED <<status, forTrack, pendingTrack>>
       ELSE Reset /\ pendingTrack' = NoTrack
    /\ UNCHANGED <<gen, consent, batch, batchGen, cmds>>

\* Whether a StemBatchDone pauses a suspended batch rather than ending it.
Pauses(e) == e.cancelled /\ batch.suspended

OnBatchDone ==
    /\ HandleEvent("batchDone")
    /\ LET e == Head(evs)
       IN  batch' = CASE ~HasBatch \/ e.gen # batch.gen -> batch
                      [] HasBatch /\ e.gen = batch.gen /\ Pauses(e) ->
                            [batch EXCEPT !.banked = @ + e.sep]
                      [] OTHER -> NoBatch
    /\ UNCHANGED <<status, gen, forTrack, pendingTrack, consent, batchGen, cmds>>

\* StemEngineUninstalled, StemCacheCleared.
OnRemoved ==
    /\ HandleEvent("removed")
    /\ UNCHANGED <<status, gen, forTrack, pendingTrack, consent, batch, batchGen, cmds>>

EventsDone ==
    /\ phase = "events" /\ evs = <<>>
    /\ phase' = "key"
    /\ UNCHANGED <<app, keys, cmds, evs, jobs, disk, made, sync>>

-----------------------------------------------------------------------------
(* App: keys and track changes. *)

NoKey ==
    /\ phase = "key" /\ phase' = "events"
    /\ UNCHANGED <<app, keys, cmds, evs, jobs, disk, made, sync>>

PressKey ==
    /\ phase = "key" /\ keys < MaxKeys
    /\ phase' = "events" /\ keys' = keys + 1
    /\ UNCHANGED <<evs, jobs, disk, made, sync>>

\* `M` while stems play: back to the file.
ExitStems ==
    /\ PressKey /\ ~consent
    /\ status = "active"
    /\ Reset
    /\ UNCHANGED <<playing, recipe, gen, pendingTrack, consent, batch, batchGen, cmds>>

\* `M` while a job runs: cancel it and make its events stale.
CancelStemJob ==
    /\ PressKey /\ ~consent
    /\ status \in {"provisioning", "separating"}
    /\ cmds' = Append(cmds, CancelSeparation)
    /\ gen' = gen + 1
    /\ Reset
    /\ pendingTrack' = NoTrack
    /\ UNCHANGED <<playing, recipe, consent, batch, batchGen>>

\* `M` otherwise, engine installed or not.
RequestStems ==
    /\ PressKey /\ ~consent
    /\ status = "off" /\ recipe \in installed
    /\ DispatchSeparation(playing)
    /\ UNCHANGED <<playing, recipe, pendingTrack, consent>>

AskConsent ==
    /\ PressKey /\ ~consent
    /\ status = "off" /\ recipe \notin installed
    /\ consent' = TRUE /\ pendingTrack' = playing
    /\ UNCHANGED <<playing, recipe, status, gen, forTrack, batch, batchGen, cmds>>

AcceptInstall ==
    /\ PressKey /\ consent
    /\ consent' = FALSE
    /\ SuspendBatch
    /\ gen' = gen + 1
    /\ status' = "provisioning"
    /\ cmds' = Append(cmds, Provision(gen + 1, recipe))
    /\ UNCHANGED <<playing, recipe, forTrack, pendingTrack, batchGen>>

DeclineInstall ==
    /\ PressKey /\ consent
    /\ consent' = FALSE /\ pendingTrack' = NoTrack
    /\ UNCHANGED <<playing, recipe, status, gen, forTrack, batch, batchGen, cmds>>

\* `M` on the album: confirmed, with the engine present.
StartBatch ==
    /\ PressKey /\ ~consent
    /\ ~HasBatch /\ recipe \in installed
    /\ DispatchBatch(recipe, 0, batchGen + 1)
    /\ UNCHANGED <<playing, recipe, status, gen, forTrack, pendingTrack, consent>>

\* `M` on the album again: cancel_stem_batch.
CancelBatch ==
    /\ PressKey /\ ~consent
    /\ HasBatch
    /\ batchGen' = batchGen + 1
    /\ batch' = NoBatch
    /\ cmds' = IF batch.suspended THEN cmds ELSE Append(cmds, CancelSeparation)
    /\ UNCHANGED <<playing, recipe, status, gen, forTrack, pendingTrack, consent>>

\* The settings panel; its destructive entries are refused while a job runs.
ChangeRecipe(r) ==
    /\ PressKey /\ ~consent
    /\ r # recipe /\ recipe' = r
    /\ UNCHANGED <<playing, status, gen, forTrack, pendingTrack, consent, batch, batchGen, cmds>>

UninstallEngine(e, evict) ==
    /\ PressKey /\ ~consent
    /\ status \in {"off", "active"} /\ e \in installed
    /\ cmds' = Append(cmds, Uninstall(e, evict))
    /\ UNCHANGED app

ClearStemCache ==
    /\ PressKey /\ ~consent
    /\ status \in {"off", "active"}
    /\ cache # {} \/ \E d \in DOMAIN work : work[d] # None
    /\ cmds' = Append(cmds, ClearCache)
    /\ UNCHANGED app

\* Another track plays, by key or at the end of the track:
\* reset_stems_for_track_change.
ChangeTrack(t) ==
    /\ PressKey
    /\ t # playing /\ playing' = t
    /\ IF status = "provisioning" THEN UNCHANGED <<status, forTrack>> ELSE Reset
    /\ gen' = IF status = "separating" THEN gen + 1 ELSE gen
    /\ pendingTrack' = NoTrack /\ consent' = FALSE
    /\ UNCHANGED <<recipe, batch, batchGen, cmds>>

AppNext ==
    \/ OnStemsReady \/ OnStemsFailed \/ OnEngineReady \/ OnEngineFailed
    \/ OnBatchDone \/ OnRemoved \/ EventsDone \/ NoKey
    \/ ExitStems \/ CancelStemJob \/ RequestStems \/ AskConsent
    \/ AcceptInstall \/ DeclineInstall \/ StartBatch \/ CancelBatch
    \/ \E r \in Engine : ChangeRecipe(r)
    \/ \E e \in Engine, evict \in BOOLEAN : UninstallEngine(e, evict)
    \/ ClearStemCache
    \/ \E t \in Track : ChangeTrack(t)

-----------------------------------------------------------------------------
(* Worker: the dispatch loop. *)

WorkerOnly == UNCHANGED <<app, phase, keys>>

\* The previous job is left alone.
TripActive_Kept == UNCHANGED tripped

TripActive == tripped' = IF active = None THEN tripped ELSE tripped \cup {active}

\* StemJobs::supersede, and the thread is spawned.
Dispatch ==
    /\ ~syncing /\ cmds # <<>> /\ Head(cmds).op # "cancel"
    /\ \E j \in JobId :
         /\ stage[j] = "none" /\ \A k \in 1..(j - 1) : stage[k] # "none"
         /\ spec' = [spec EXCEPT ![j] = Head(cmds)]
         /\ stage' = [stage EXCEPT ![j] = "waiting"]
         /\ TripActive
         /\ active' = j
    /\ cmds' = Tail(cmds)
    /\ UNCHANGED <<evs, lock, pos, sep, disk, made, sync>> /\ WorkerOnly

\* StemJobs::cancel_active.
CancelActive ==
    /\ ~syncing /\ cmds # <<>> /\ Head(cmds).op = "cancel"
    /\ TripActive
    /\ cmds' = Tail(cmds)
    /\ UNCHANGED <<evs, lock, active, spec, stage, pos, sep, disk, made, sync>>
    /\ WorkerOnly

\* The command before or between those of the stems was one to sync: until its
\* run ends the worker is in that handler (a removal or a push of photos or videos
\* loses commands in the same way).  A run that meets no command of theirs changes
\* nothing here, so it counts from the first one on.
StartSync ==
    /\ ~syncing /\ syncs < MaxSyncs /\ cmds # <<>>
    /\ syncing' = TRUE /\ syncs' = syncs + 1
    /\ UNCHANGED <<cmds, evs, jobs, disk, made, dropped>> /\ WorkerOnly

\* drain_sync_commands: any command that is not the sync's own is dropped, and
\* the App is not told.
DropCommand ==
    /\ syncing /\ cmds # <<>>
    /\ dropped' = IF Head(cmds).op = "separate" THEN dropped \cup {Head(cmds).gen} ELSE dropped
    /\ cmds' = Tail(cmds)
    /\ UNCHANGED <<evs, jobs, disk, made, syncing, syncs>> /\ WorkerOnly

\* What came after the last drain is read by the dispatch loop.
EndSync ==
    /\ syncing /\ syncing' = FALSE
    /\ UNCHANGED <<cmds, evs, jobs, disk, made, syncs, dropped>> /\ WorkerOnly

-----------------------------------------------------------------------------
(* Worker: a job thread. *)

Interactive == {"separate", "batch", "provision"}  \* those that look at their token

Op(j)    == spec[j].op
Key(j)   == <<spec[j].tracks[pos[j]], spec[j].recipe>>  \* the entry it is making

Ready(j)          == [ev |-> "ready", gen |-> spec[j].gen, track |-> spec[j].tracks[1]]
Failed(j, c)      == [ev |-> "failed", gen |-> spec[j].gen, cancelled |-> c]
EngineReady(j)    == [ev |-> "engineReady", gen |-> spec[j].gen]
EngineFailed(j, c) == [ev |-> "engineFailed", gen |-> spec[j].gen, cancelled |-> c]
BatchDone(j, n, c) == [ev |-> "batchDone", gen |-> spec[j].gen, sep |-> n, cancelled |-> c]
Removed           == [ev |-> "removed"]

At(j, s) == stage[j] = s
Goto(j, s) == stage' = [stage EXCEPT ![j] = s] /\ UNCHANGED <<evs, lock>>

\* The terminal event, and the guard is dropped.
End(j, e) ==
    /\ stage' = [stage EXCEPT ![j] = "done"]
    /\ evs' = Append(evs, e)
    /\ lock' = None

JobStep == UNCHANGED <<cmds, active, tripped, spec, sync>> /\ WorkerOnly

\* The work is done outside the lock.
Acquire_Any(j) ==
    /\ At(j, "waiting")
    /\ lock' = j
    /\ stage' = [stage EXCEPT ![j] = "start"]
    /\ UNCHANGED <<evs, pos, sep, disk, made>> /\ JobStep

Acquire(j) ==
    /\ At(j, "waiting") /\ lock = None
    /\ lock' = j
    /\ stage' = [stage EXCEPT ![j] = "start"]
    /\ UNCHANGED <<evs, pos, sep, disk, made>> /\ JobStep

\* Its token tripped while it waited.
BowOut(j) ==
    /\ At(j, "start") /\ Op(j) \in Interactive /\ j \in tripped
    /\ End(j, CASE Op(j) = "separate"  -> Failed(j, TRUE)
                [] Op(j) = "batch"     -> BatchDone(j, 0, TRUE)
                [] Op(j) = "provision" -> EngineFailed(j, TRUE))
    /\ UNCHANGED <<pos, sep, disk, made>> /\ JobStep

\* The engine was removed between the key and the dispatch.
EngineMissing(j) ==
    /\ At(j, "start") /\ Op(j) \in {"separate", "batch"} /\ j \notin tripped
    /\ spec[j].recipe \notin installed
    /\ End(j, IF Op(j) = "separate" THEN Failed(j, FALSE) ELSE BatchDone(j, 0, FALSE))
    /\ UNCHANGED <<pos, sep, disk, made>> /\ JobStep

Begin(j) ==
    /\ At(j, "start") /\ Op(j) \in Interactive /\ j \notin tripped
    /\ Op(j) = "provision" \/ spec[j].recipe \in installed
    /\ Goto(j, IF Op(j) = "provision" THEN "install" ELSE "lookup")
    /\ UNCHANGED <<pos, sep, disk, made>> /\ JobStep

\* provision_engine.
Install(j) ==
    /\ At(j, "install")
    /\ \/ installed' = installed \cup {spec[j].recipe} /\ End(j, EngineReady(j))
       \/ installed' = installed /\ End(j, EngineFailed(j, FALSE))
       \/ j \in tripped /\ installed' = installed /\ End(j, EngineFailed(j, TRUE))
    /\ UNCHANGED <<pos, sep, cache, work, made>> /\ JobStep

\* The batch loop looks at the token before each track.
StopBatch(j) ==
    /\ At(j, "lookup") /\ Op(j) = "batch"
    /\ \/ pos[j] <= Len(Album) /\ j \in tripped /\ End(j, BatchDone(j, sep[j], TRUE))
       \/ pos[j] > Len(Album) /\ End(j, BatchDone(j, sep[j], FALSE))
    /\ UNCHANGED <<pos, sep, disk, made>> /\ JobStep

AtTrack(j) == /\ At(j, "lookup")
              /\ Op(j) = "batch" => pos[j] <= Len(Album) /\ j \notin tripped

CacheHit(j) ==
    /\ AtTrack(j) /\ Key(j) \in cache
    /\ IF Op(j) = "batch"
       THEN pos' = [pos EXCEPT ![j] = @ + 1] /\ Goto(j, "lookup")
       ELSE End(j, Ready(j)) /\ UNCHANGED pos
    /\ UNCHANGED <<sep, disk, made>> /\ JobStep

\* remove_dir_all, then the engine fills the work directory.
StartEngine(j) ==
    /\ AtTrack(j) /\ Key(j) \notin cache
    /\ work' = [work EXCEPT ![Key(j)] = j]
    /\ Goto(j, "separate")
    /\ UNCHANGED <<pos, sep, installed, cache, made>> /\ JobStep

\* The engine succeeded; its files are still to be moved into the cache.
EngineOk(j) ==
    /\ At(j, "separate")
    /\ Goto(j, "store")
    /\ UNCHANGED <<pos, sep, disk, made>> /\ JobStep

DropWork(j) == work' = [work EXCEPT ![Key(j)] = None]

\* One track of a batch is over, well or badly.
NextTrack(j) == pos' = [pos EXCEPT ![j] = @ + 1] /\ Goto(j, "lookup")

\* The engine or store_stems fails.
TrackFailed(j) ==
    /\ stage[j] \in {"separate", "store"}
    /\ DropWork(j)
    /\ IF Op(j) = "batch" THEN NextTrack(j) ELSE End(j, Failed(j, FALSE)) /\ UNCHANGED pos
    /\ UNCHANGED <<sep, installed, cache, made>> /\ JobStep

\* The engine saw the token.
EngineCancelled(j) ==
    /\ At(j, "separate") /\ j \in tripped
    /\ DropWork(j)
    /\ End(j, IF Op(j) = "batch" THEN BatchDone(j, sep[j], TRUE) ELSE Failed(j, TRUE))
    /\ UNCHANGED <<pos, sep, installed, cache, made>> /\ JobStep

\* store_stems: the files of the work directory become the cache entry; others may
\* be evicted.
Store(j) ==
    /\ At(j, "store")
    /\ \E kept \in SUBSET cache : cache' = kept \cup {Key(j)}
    /\ DropWork(j)
    /\ IF Op(j) = "batch"
       THEN /\ sep' = [sep EXCEPT ![j] = @ + 1] /\ NextTrack(j)
            /\ made' = [made EXCEPT ![spec[j].album] = @ + 1]
       ELSE End(j, Ready(j)) /\ UNCHANGED <<sep, pos, made>>
    /\ UNCHANGED installed /\ JobStep

\* Uninstall and clear do not look at their token.  A removal that fails leaves
\* some of the entries.
Remove(j) ==
    /\ At(j, "start") /\ Op(j) \in {"uninstall", "uninstall+evict", "clear"}
    /\ IF Op(j) = "clear" THEN UNCHANGED installed
       ELSE installed' \in {installed, installed \ {spec[j].recipe}}
    /\ IF Op(j) = "uninstall" THEN UNCHANGED <<cache, work>>
       ELSE \/ cache' = {} /\ work' = [d \in DOMAIN work |-> None]
            \/ cache' \in SUBSET cache /\ work' = work
    /\ End(j, Removed)
    /\ UNCHANGED <<pos, sep, made>> /\ JobStep

JobNext(j) ==
    \/ Acquire(j) \/ BowOut(j) \/ EngineMissing(j) \/ Begin(j) \/ Install(j)
    \/ StopBatch(j) \/ CacheHit(j) \/ StartEngine(j) \/ EngineOk(j)
    \/ TrackFailed(j) \/ EngineCancelled(j) \/ Store(j) \/ Remove(j)

Next ==
    \/ AppNext \/ Dispatch \/ CancelActive
    \/ StartSync \/ DropCommand \/ EndSync
    \/ \E j \in JobId : JobNext(j)

Spec == Init /\ [][Next]_vars

\* The UI loop and the dispatch loop never stop; a job's calls return (the engine
\* is polled and killed when its token is set); a mutex is handed to some waiter; a
\* sync run ends (SyncRun says why), and is not owed to anybody.
AppLoop == \/ OnStemsReady \/ OnStemsFailed \/ OnEngineReady \/ OnEngineFailed
           \/ OnBatchDone \/ OnRemoved \/ EventsDone \/ NoKey

Fairness ==
    /\ WF_vars(AppLoop)
    /\ WF_vars(Dispatch \/ CancelActive)
    /\ WF_vars(EndSync)
    /\ WF_vars(\E j \in JobId : JobNext(j))

FairSpec == Spec /\ Fairness

-----------------------------------------------------------------------------
(* Properties. *)

Stage == {"none", "waiting", "start", "install", "lookup", "separate", "store", "done"}
Working == {"start", "install", "lookup", "separate", "store"}

JobSpec ==
    [op : {"separate"}, gen : Nat, tracks : {<<t>> : t \in Track}, recipe : Engine, album : {0}]
    \cup [op : {"batch"}, gen : Nat, tracks : {Album}, recipe : Engine, album : Nat]
    \cup [op : {"provision", "uninstall", "uninstall+evict", "clear"}, gen : Nat,
          tracks : {<<>>}, recipe : Engine, album : {0}]

Event ==
    [ev : {"ready"}, gen : Nat, track : Track]
    \cup [ev : {"failed", "engineFailed"}, gen : Nat, cancelled : BOOLEAN]
    \cup [ev : {"engineReady"}, gen : Nat]
    \cup [ev : {"batchDone"}, gen : Nat, sep : Nat, cancelled : BOOLEAN]
    \cup [ev : {"removed"}]

BatchRecord == [gen : Nat, suspended : BOOLEAN, recipe : Engine, banked : Nat, album : Nat]

AppTypes ==
    /\ playing \in Track /\ recipe \in Engine
    /\ status \in {"off", "provisioning", "separating", "active"}
    /\ gen \in Nat /\ batchGen \in Nat
    /\ forTrack \in Track \cup {NoTrack} /\ pendingTrack \in Track \cup {NoTrack}
    /\ consent \in BOOLEAN
    /\ batch \in {NoBatch} \cup BatchRecord
    /\ phase \in {"events", "key"} /\ keys \in 0..MaxKeys

ChannelTypes ==
    /\ cmds \in Seq(JobSpec \cup {CancelSeparation})
    /\ evs \in Seq(Event)

JobTypes ==
    /\ lock \in JobId \cup {None} /\ active \in JobId \cup {None}
    /\ tripped \subseteq JobId
    /\ spec \in [JobId -> JobSpec \cup {NoSpec}]
    /\ stage \in [JobId -> Stage]
    /\ pos \in [JobId -> Nat \ {0}] /\ sep \in [JobId -> Nat]
    /\ installed \subseteq Engine /\ cache \subseteq Track \X Engine
    /\ work \in [Track \X Engine -> JobId \cup {None}]
    /\ syncing \in BOOLEAN /\ syncs \in 0..MaxSyncs /\ dropped \subseteq Nat

\* Types of the variables of the App, the channels, the jobs and the disk.
TypeOK == AppTypes /\ ChannelTypes /\ JobTypes

\* One stem job works at a time, whatever was dispatched, superseded or cancelled.
OneJobWorks == \A j, k \in JobId : stage[j] \in Working /\ stage[k] \in Working => j = k

\* Every job but the last one dispatched has its token set: no stale separation
\* can run on beside or after the one the user asked for last, not even when a
\* sync threw the cancel away.
OlderJobsTripped == \A j \in JobId : stage[j] # "none" /\ j # active => j \in tripped

\* A job in the middle of a separation owns its work directory: no other job,
\* clear or uninstall takes the files away before they are stored.
WorkDirOwned ==
    \A j \in JobId : stage[j] \in {"separate", "store"} => work[Key(j)] = j

\* Stems are swapped in for the track that plays, never for one it has left.
StemsMatchTrack == status \in {"separating", "active"} => forTrack = playing

JobEvents(g) == \E i \in DOMAIN evs :
                   evs[i].ev \in {"ready", "failed"} /\ evs[i].gen = g
JobUnderWay(g) ==
    \/ \E i \in DOMAIN cmds : cmds[i].op = "separate" /\ cmds[i].gen = g
    \/ \E j \in JobId : /\ stage[j] \notin {"none", "done"}
                        /\ Op(j) = "separate" /\ spec[j].gen = g

\* While the player shows "separating" the job it waits for is queued, running
\* or has its terminal event under way: the status cannot be left behind, unless
\* that very request was thrown away by a sync.
SeparatingHasJob ==
    status = "separating" => JobUnderWay(gen) \/ JobEvents(gen) \/ gen \in dropped

\* When a batch completes, the separations its toast counts are those that were
\* stored for it, over all its rounds.
TallyIsTrue ==
    [][OnBatchDone =>
         LET e == Head(evs)
         IN  HasBatch /\ e.gen = batch.gen /\ ~e.cancelled =>
               batch.banked + e.sep = made[batch.album]]_vars

\* A request ends: the status leaves "separating" without another key, whatever
\* other jobs, events and commands a sync cost.  Only when the request itself was
\* thrown away does the player wait for the user.
SeparationEnds == (status = "separating") ~> (status # "separating" \/ gen \in dropped)

=============================================================================
