------------------------------ MODULE StemHub ------------------------------
(***************************************************************************)
(* On-demand stem splits of the streaming server (zytunes-stream           *)
(* stems.rs).  HTTP handlers run concurrently: POST looks for a running    *)
(* split of the track under one lock and installs a new job under a second *)
(* one; DELETE trips the token of the job.  A job is a thread; unlike the  *)
(* TUI's (module StemJobs) nothing serialises the threads, so a superseded *)
(* job may still be at work on the track of its successor.  The cache is   *)
(* shared with zytunes-tui.                                                *)
(***************************************************************************)
EXTENDS Integers

CONSTANTS
    HubTrack, HttpClient,
    MaxJobs,     \* bound: jobs started
    MaxCancels   \* bound: DELETE requests

ASSUME HubAssumption == MaxJobs \in Nat /\ MaxCancels \in Nat

JobId == 1..MaxJobs
NoJob  == 0

VARIABLES
    post,       \* what each client's POST has found out, see Posted
    current,    \* inner.job, or NoJob
    cancelled,  \* jobs whose token is set
    failed,     \* jobs whose error is set
    track,      \* the track of each job
    stage,      \* where each job thread is
    cache,      \* tracks with a fresh cache entry
    work,       \* the job whose files the work directory of each track holds, or NoJob
    cancels     \* DELETE requests so far

hub  == <<post, current, track, cancels>>
hubVars == <<hub, cancelled, failed, stage, cache, work>>

(* An operator X_Y is X with a plausible mistake.  No specification uses it:  *)
(* it is there to be put in the place of X, to see that a property notices.   *)

NoPost == [step |-> "none"]
Posted(s, t) == [step |-> s, track |-> t]

HubInit ==
    /\ post = [c \in HttpClient |-> NoPost]
    /\ current = NoJob /\ cancelled = {} /\ failed = {}
    /\ track \in [JobId -> HubTrack]
    /\ stage = [j \in JobId |-> "none"]
    /\ cache = {}
    /\ work = [t \in HubTrack |-> NoJob]
    /\ cancels = 0

-----------------------------------------------------------------------------
(* Handlers. *)

\* POST of a track that is not cached.
PostMiss(c, t) ==
    /\ post[c] = NoPost /\ t \notin cache
    /\ post' = [post EXCEPT ![c] = Posted("missed", t)]
    /\ UNCHANGED <<current, track, cancels, cancelled, failed, stage, cache, work>>

Splitting(t) == /\ current # NoJob /\ track[current] = t
                /\ current \notin failed /\ current \notin cancelled

\* The first lock: "separating" when a live job is already splitting the track.
PostJoin(c) ==
    /\ post[c].step = "missed" /\ Splitting(post[c].track)
    /\ post' = [post EXCEPT ![c] = NoPost]
    /\ UNCHANGED <<current, track, cancels, cancelled, failed, stage, cache, work>>

\* Otherwise the handler goes on; without an engine it answers "failed".
PostLook(c) ==
    /\ post[c].step = "missed" /\ ~Splitting(post[c].track)
    /\ post' \in {[post EXCEPT ![c] = Posted("looked", post[c].track)],
                  [post EXCEPT ![c] = NoPost]}
    /\ UNCHANGED <<current, track, cancels, cancelled, failed, stage, cache, work>>

\* The previous job is left alone.
Supersede_Kept == UNCHANGED cancelled

Supersede == cancelled' = IF current = NoJob THEN cancelled ELSE cancelled \cup {current}

\* The second lock: supersede the job and spawn the thread of a new one.
PostStart(c) ==
    /\ post[c].step = "looked"
    /\ \E j \in JobId :
         /\ stage[j] = "none" /\ \A k \in 1..(j - 1) : stage[k] # "none"
         /\ Supersede
         /\ current' = j
         /\ track' = [track EXCEPT ![j] = post[c].track]
         /\ stage' = [stage EXCEPT ![j] = "begin"]
    /\ post' = [post EXCEPT ![c] = NoPost]
    /\ UNCHANGED <<cancels, failed, cache, work>>

\* DELETE.
Cancel(t) ==
    /\ cancels < MaxCancels /\ cancels' = cancels + 1
    /\ cancelled' = IF current # NoJob /\ track[current] = t
                    THEN cancelled \cup {current} ELSE cancelled
    /\ UNCHANGED <<post, current, track, failed, stage, cache, work>>

\* zytunes-tui stores or evicts an entry.
OtherProcess(t) ==
    /\ cache' \in {cache \cup {t}, cache \ {t}}
    /\ UNCHANGED <<hub, cancelled, failed, stage, work>>

-----------------------------------------------------------------------------
(* A job thread. *)

At(j, s)   == stage[j] = s
Goto(j, s) == stage' = [stage EXCEPT ![j] = s] /\ UNCHANGED hub

\* Another job, or the TUI, stored the entry meanwhile.
FoundCached(j) ==
    /\ At(j, "begin") /\ track[j] \in cache
    /\ Goto(j, "clear")
    /\ UNCHANGED <<cancelled, failed, cache, work>>

\* remove_dir_all(work_dir); the engine is started without a look at the token.
StartEngine(j) ==
    /\ At(j, "begin") /\ track[j] \notin cache
    /\ work' = [work EXCEPT ![track[j]] = j]
    /\ Goto(j, "engine")
    /\ UNCHANGED <<cancelled, failed, cache>>

\* The engine has written its files, to a new directory if the first one is gone.
EngineOk(j) ==
    /\ At(j, "engine")
    /\ work' = [work EXCEPT ![track[j]] = j]
    /\ Goto(j, "store")
    /\ UNCHANGED <<cancelled, failed, cache>>

EngineCancelled(j) ==
    /\ At(j, "engine") /\ j \in cancelled
    /\ Goto(j, "cleanup")
    /\ UNCHANGED <<cancelled, failed, cache, work>>

\* The engine fails, or store_stems does.
JobFails(j) ==
    /\ stage[j] \in {"engine", "store"}
    /\ failed' = failed \cup {j}
    /\ Goto(j, "cleanup")
    /\ UNCHANGED <<cancelled, cache, work>>

\* store_stems moves the files, whoever made them, and may evict other entries.
Store(j) ==
    /\ At(j, "store") /\ work[track[j]] # NoJob
    /\ \E kept \in SUBSET cache : cache' = kept \cup {track[j]}
    /\ work' = [work EXCEPT ![track[j]] = NoJob]
    /\ Goto(j, "cleanup")
    /\ UNCHANGED <<cancelled, failed>>

RemoveWork(j) ==
    /\ At(j, "cleanup")
    /\ work' = [work EXCEPT ![track[j]] = NoJob]
    /\ Goto(j, "clear")
    /\ UNCHANGED <<cancelled, failed, cache>>

\* A cancelled job stays in the slot.
Clears_Uncancelled(j) == current = j /\ j \notin failed /\ j \notin cancelled

Clears(j) == current = j /\ j \notin failed

\* clear_job_if: only the job itself leaves the slot, and not when it failed.
ClearJobIf(j) ==
    /\ At(j, "clear")
    /\ stage' = [stage EXCEPT ![j] = "done"]
    /\ current' = IF Clears(j) THEN NoJob ELSE current
    /\ UNCHANGED <<post, track, cancels, cancelled, failed, cache, work>>

JobNext(j) ==
    \/ FoundCached(j) \/ StartEngine(j) \/ EngineOk(j) \/ EngineCancelled(j)
    \/ JobFails(j) \/ Store(j) \/ RemoveWork(j) \/ ClearJobIf(j)

HubNext ==
    \/ \E c \in HttpClient, t \in HubTrack : PostMiss(c, t)
    \/ \E c \in HttpClient : PostJoin(c) \/ PostLook(c) \/ PostStart(c)
    \/ \E t \in HubTrack : Cancel(t) \/ OtherProcess(t)
    \/ \E j \in JobId : JobNext(j)

HubSpec == HubInit /\ [][HubNext]_hubVars

\* Threads run, and an engine ends by itself or is killed.
HubFairSpec == HubSpec /\ \A j \in JobId : WF_hubVars(JobNext(j))

-----------------------------------------------------------------------------
(* Properties. *)

Stage == {"none", "begin", "engine", "store", "cleanup", "clear", "done"}

\* Types of the variables of the hub, its jobs and the cache.
HubTypeOK ==
    /\ post \in [HttpClient -> {NoPost} \cup [step : {"missed", "looked"}, track : HubTrack]]
    /\ current \in JobId \cup {NoJob}
    /\ cancelled \subseteq JobId /\ failed \subseteq JobId
    /\ track \in [JobId -> HubTrack]
    /\ stage \in [JobId -> Stage]
    /\ cache \subseteq HubTrack
    /\ work \in [HubTrack -> JobId \cup {NoJob}]
    /\ cancels \in 0..MaxCancels

Live(j) == stage[j] \notin {"none", "done"}

\* At most one split is wanted: every thread that still runs, other than the job
\* GET reports on, has its token set, also when two POSTs race.
OnlyCurrentWanted == \A j \in JobId : Live(j) /\ j # current => j \in cancelled

\* GET never says "separating" of a split that has ended: a job in the slot
\* without an error still has its thread.
SeparatingIsAlive == current # NoJob /\ current \notin failed => Live(current)

\* GET stops saying "separating" of a job.
SplitEnds == \A j \in JobId : (current = j /\ j \notin failed) ~>
                                 ~(current = j /\ j \notin failed)

=============================================================================
