--------------------------- MODULE StemJobs_proofs --------------------------
(***************************************************************************)
(* Theorems about StemJobs, for every library, album and set of engines,   *)
(* and any number of jobs.                                                 *)
(***************************************************************************)
EXTENDS StemJobs, SequenceTheorems, TLAPS

-----------------------------------------------------------------------------
(* The inductive invariant. *)

\* The job that holds the lock, and no other, is between acquire and its end.
LockHeld == \A j \in JobId : stage[j] \in Working <=> lock = j

\* The registered token belongs to a job that was dispatched.
TokenOfLast == active # None => stage[active] # "none"

\* What a stage says about the command of the job and the track it is at.
SpecOfStage ==
    \A j \in JobId :
        /\ stage[j] # "none" => spec[j] \in JobSpec
        /\ stage[j] = "none" => pos[j] = 1
        /\ stage[j] = "install" => Op(j) = "provision"
        /\ stage[j] \in {"lookup", "separate", "store"} => Op(j) \in {"separate", "batch"}
        /\ stage[j] # "none" /\ Op(j) # "batch" => pos[j] = 1
        /\ stage[j] \in {"separate", "store"} => pos[j] \in 1..Len(spec[j].tracks)

JobsOk == LockHeld /\ TokenOfLast /\ SpecOfStage /\ OlderJobsTripped /\ WorkDirOwned

Inv == TypeOK /\ JobsOk

-----------------------------------------------------------------------------
(* Commands and events. *)

AnyCommand == JobSpec \cup {CancelSeparation}

LEMMA CommandIntro ==
    /\ \A g \in Nat, t \in Track, r \in Engine : Separate(g, t, r) \in AnyCommand
    /\ \A g \in Nat, a \in Nat, r \in Engine : SeparateBatch(g, r, a) \in AnyCommand
    /\ \A g \in Nat, r \in Engine : Provision(g, r) \in AnyCommand
    /\ \A r \in Engine, evict \in BOOLEAN : Uninstall(r, evict) \in AnyCommand
    /\ recipe \in Engine => ClearCache \in AnyCommand
    /\ CancelSeparation \in AnyCommand
BY DEF AnyCommand, JobSpec, Separate, SeparateBatch, Provision, Uninstall, ClearCache

\* Sending one command.
LEMMA SendType ==
    ASSUME TypeOK, NEW c \in AnyCommand
    PROVE  Append(cmds, c) \in Seq(AnyCommand)
BY AppendProperties DEF TypeOK, ChannelTypes, AnyCommand

\* A handled event leaves a sequence of events.
LEMMA HandleType ==
    ASSUME TypeOK, NEW kind, HandleEvent(kind)
    PROVE  /\ evs' \in Seq(Event) /\ Head(evs) \in Event
           /\ UNCHANGED <<jobs, disk, made, sync>>
           /\ JobTypes'
           /\ playing' \in Track /\ recipe' \in Engine
           /\ phase' \in {"events", "key"} /\ keys' \in 0..MaxKeys
BY HeadTailProperties DEF TypeOK, ChannelTypes, AppTypes, JobTypes, HandleEvent, jobs, disk, sync

\* What dispatching a separation or a batch does to the App and the channel.
LEMMA SuspendType ==
    ASSUME AppTypes, SuspendBatch
    PROVE  batch' \in {NoBatch} \cup BatchRecord
BY DEF AppTypes, SuspendBatch, HasBatch, NoBatch, BatchRecord

LEMMA DispatchSeparationType ==
    ASSUME TypeOK, NEW t \in Track, DispatchSeparation(t)
    PROVE  /\ batch' \in {NoBatch} \cup BatchRecord /\ gen' \in Nat /\ batchGen' \in Nat
           /\ status' = "separating" /\ forTrack' \in Track
           /\ cmds' \in Seq(AnyCommand)
<1>1. gen + 1 \in Nat /\ recipe \in Engine /\ AppTypes
  BY DEF TypeOK, AppTypes
<1>2. Separate(gen + 1, t, recipe) \in AnyCommand
  BY <1>1, CommandIntro
<1>3. cmds' \in Seq(AnyCommand)
  BY <1>2, SendType DEF DispatchSeparation
<1>4. batch' \in {NoBatch} \cup BatchRecord
  BY <1>1, SuspendType DEF DispatchSeparation
<1> QED BY <1>1, <1>3, <1>4 DEF DispatchSeparation, AppTypes

LEMMA DispatchBatchType ==
    ASSUME TypeOK, NEW r \in Engine, NEW banked \in Nat, NEW album \in Nat,
           DispatchBatch(r, banked, album)
    PROVE  /\ batch' \in {NoBatch} \cup BatchRecord /\ batchGen' \in Nat
           /\ cmds' \in Seq(AnyCommand)
<1>1. batchGen + 1 \in Nat
  BY DEF TypeOK, AppTypes
<1>2. SeparateBatch(batchGen + 1, r, album) \in AnyCommand
  BY <1>1, CommandIntro
<1>3. cmds' \in Seq(AnyCommand)
  BY <1>2, SendType DEF DispatchBatch
<1> QED BY <1>1, <1>3 DEF DispatchBatch, BatchRecord

LEMMA MaybeResumeType ==
    ASSUME TypeOK, MaybeResumeBatch
    PROVE  /\ batch' \in {NoBatch} \cup BatchRecord /\ batchGen' \in Nat
           /\ cmds' \in Seq(AnyCommand)
<1>1. CASE status' \in {"off", "active"} /\ HasBatch /\ batch.suspended
  <2>1. batch \in BatchRecord
    BY <1>1 DEF TypeOK, AppTypes, HasBatch
  <2>2. batch.recipe \in Engine /\ batch.banked \in Nat /\ batch.album \in Nat
    BY <2>1 DEF BatchRecord
  <2>3. DispatchBatch(batch.recipe, batch.banked, batch.album)
    BY <1>1 DEF MaybeResumeBatch
  <2> QED BY <2>2, <2>3, DispatchBatchType
<1>2. CASE ~(status' \in {"off", "active"} /\ HasBatch /\ batch.suspended)
  BY <1>2 DEF MaybeResumeBatch, TypeOK, AppTypes, ChannelTypes, AnyCommand
<1> QED BY <1>1, <1>2

-----------------------------------------------------------------------------
(* The App: it writes its own variables and the command channel only. *)

\* The jobs and the disk are the workers'.
LEMMA AppKeepsJobs == AppNext => UNCHANGED <<jobs, disk, made, sync>>
BY DEF AppNext, OnStemsReady, OnStemsFailed, OnEngineReady, OnEngineFailed,
   OnBatchDone, OnRemoved, HandleEvent, EventsDone, NoKey, PressKey, ExitStems,
   CancelStemJob, RequestStems, AskConsent, AcceptInstall, DeclineInstall,
   StartBatch, CancelBatch, ChangeRecipe, UninstallEngine, ClearStemCache, ChangeTrack

\* A job's terminal event.
LEMMA EventsType ==
    TypeOK /\ (\/ OnStemsReady \/ OnStemsFailed \/ OnEngineReady \/ OnEngineFailed
              \/ OnBatchDone \/ OnRemoved) => TypeOK'
<1> SUFFICES ASSUME TypeOK,
                    \/ OnStemsReady \/ OnStemsFailed \/ OnEngineReady \/ OnEngineFailed
                    \/ OnBatchDone \/ OnRemoved
             PROVE  TypeOK'
  OBVIOUS
<1>1. PICK kind : HandleEvent(kind)
  BY DEF OnStemsReady, OnStemsFailed, OnEngineReady, OnEngineFailed, OnBatchDone, OnRemoved
<1>2. /\ evs' \in Seq(Event) /\ Head(evs) \in Event /\ JobTypes'
      /\ playing' \in Track /\ recipe' \in Engine
      /\ phase' \in {"events", "key"} /\ keys' \in 0..MaxKeys
  BY <1>1, HandleType
<1>3. /\ status' \in {"off", "provisioning", "separating", "active"}
      /\ forTrack' \in Track \cup {NoTrack} /\ pendingTrack' \in Track \cup {NoTrack}
      /\ consent' \in BOOLEAN /\ gen' \in Nat /\ batchGen' \in Nat
      /\ batch' \in {NoBatch} \cup BatchRecord
      /\ cmds' \in Seq(AnyCommand)
  <2>1. CASE OnStemsReady
    <3>1. MaybeResumeBatch /\ UNCHANGED <<gen, pendingTrack, consent>>
      BY <2>1 DEF OnStemsReady
    <3>2. /\ status' \in {status, "active", "off"}
          /\ forTrack' \in {forTrack, NoTrack}
      <4> DEFINE waiting == Head(evs).gen = gen /\ status = "separating"
      <4>1. CASE waiting /\ playing = Head(evs).track
        BY <2>1, <4>1 DEF OnStemsReady
      <4>2. CASE waiting /\ playing # Head(evs).track
        BY <2>1, <4>2 DEF OnStemsReady, Reset
      <4>3. CASE ~waiting
        BY <2>1, <4>3 DEF OnStemsReady
      <4> QED BY <4>1, <4>2, <4>3
    <3> QED BY <3>1, <3>2, MaybeResumeType DEF TypeOK, AppTypes
  <2>2. CASE OnStemsFailed
    BY <2>2, MaybeResumeType DEF OnStemsFailed, Reset, TypeOK, AppTypes
  <2>3. CASE OnEngineReady
    <3>1. CASE Head(evs).gen = gen /\ pendingTrack # NoTrack
      <4>1. pendingTrack \in Track
        BY <3>1 DEF TypeOK, AppTypes
      <4>2. DispatchSeparation(pendingTrack) /\ pendingTrack' = NoTrack /\ UNCHANGED consent
        BY <2>3, <3>1 DEF OnEngineReady
      <4> QED BY <4>1, <4>2, DispatchSeparationType DEF TypeOK, AppTypes
    <3>2. CASE ~(Head(evs).gen = gen /\ pendingTrack # NoTrack)
      BY <2>3, <3>2 DEF OnEngineReady, Reset, TypeOK, AppTypes, ChannelTypes, AnyCommand
    <3> QED BY <3>1, <3>2
  <2>4. CASE OnEngineFailed
    BY <2>4 DEF OnEngineFailed, Reset, TypeOK, AppTypes, ChannelTypes, AnyCommand
  <2>5. CASE OnBatchDone
    <3>1. Head(evs).ev = "batchDone"
      BY <2>5 DEF OnBatchDone, HandleEvent
    <3>2. Head(evs).sep \in Nat
      BY <1>2, <3>1 DEF Event
    <3>3. batch' \in {NoBatch} \cup BatchRecord
      BY <2>5, <3>2 DEF OnBatchDone, TypeOK, AppTypes, HasBatch, BatchRecord
    <3> QED BY <2>5, <3>3 DEF OnBatchDone, TypeOK, AppTypes, ChannelTypes, AnyCommand
  <2>6. CASE OnRemoved
    BY <2>6 DEF OnRemoved, TypeOK, AppTypes, ChannelTypes, AnyCommand
  <2> QED BY <2>1, <2>2, <2>3, <2>4, <2>5, <2>6
<1> QED BY <1>2, <1>3 DEF TypeOK, AppTypes, ChannelTypes, AnyCommand

\* The loop of the App, without a key.
LEMMA LoopType == TypeOK /\ (EventsDone \/ NoKey) => TypeOK'
BY DEF TypeOK, AppTypes, ChannelTypes, JobTypes, EventsDone, NoKey, app, jobs, disk, sync

\* What every key leaves alone.
LEMMA PressKeyType ==
    ASSUME TypeOK, PressKey
    PROVE  /\ JobTypes' /\ evs' \in Seq(Event)
           /\ phase' \in {"events", "key"} /\ keys' \in 0..MaxKeys
BY StemAssumption DEF TypeOK, AppTypes, ChannelTypes, JobTypes, PressKey, jobs, disk, sync

\* The keys of the player.
LEMMA PlayerKeysType ==
    TypeOK /\ (\/ ExitStems \/ CancelStemJob \/ RequestStems \/ AskConsent
              \/ AcceptInstall \/ DeclineInstall
              \/ \E t \in Track : ChangeTrack(t)) => TypeOK'
<1> SUFFICES ASSUME TypeOK,
                    \/ ExitStems \/ CancelStemJob \/ RequestStems \/ AskConsent
                    \/ AcceptInstall \/ DeclineInstall
                    \/ \E t \in Track : ChangeTrack(t)
             PROVE  TypeOK'
  OBVIOUS
<1>1. PressKey /\ recipe' = recipe
  BY DEF ExitStems, CancelStemJob, RequestStems, AskConsent, AcceptInstall,
         DeclineInstall, ChangeTrack
<1>2. /\ status' \in {"off", "provisioning", "separating", "active"}
      /\ forTrack' \in Track \cup {NoTrack} /\ pendingTrack' \in Track \cup {NoTrack}
      /\ consent' \in BOOLEAN /\ gen' \in Nat /\ batchGen' \in Nat /\ playing' \in Track
      /\ batch' \in {NoBatch} \cup BatchRecord
      /\ cmds' \in Seq(AnyCommand)
  <2>1. CASE ExitStems \/ AskConsent \/ DeclineInstall \/ \E t \in Track : ChangeTrack(t)
    <3>1. gen' \in {gen, gen + 1} /\ UNCHANGED <<batch, batchGen, cmds>>
      BY <2>1 DEF ExitStems, AskConsent, DeclineInstall, ChangeTrack
    <3>2. /\ status' \in {status, "off"} /\ forTrack' \in {forTrack, NoTrack}
          /\ pendingTrack' \in {pendingTrack, NoTrack, playing}
          /\ playing' \in Track
      BY <2>1 DEF ExitStems, AskConsent, DeclineInstall, ChangeTrack, Reset, TypeOK, AppTypes
    <3>3. consent' \in BOOLEAN
      BY <2>1, Zenon DEF ExitStems, AskConsent, DeclineInstall, ChangeTrack, TypeOK, AppTypes
    <3> QED BY <3>1, <3>2, <3>3 DEF TypeOK, AppTypes, ChannelTypes, AnyCommand
  <2>2. CASE CancelStemJob
    <3>1. cmds' \in Seq(AnyCommand)
      BY <2>2, CommandIntro, SendType DEF CancelStemJob
    <3> QED BY <2>2, <3>1 DEF CancelStemJob, Reset, TypeOK, AppTypes
  <2>3. CASE RequestStems
    <3>1. playing \in Track /\ DispatchSeparation(playing)
      BY <2>3 DEF RequestStems, TypeOK, AppTypes
    <3> QED BY <2>3, <3>1, DispatchSeparationType DEF RequestStems, TypeOK, AppTypes
  <2>4. CASE AcceptInstall
    <3>1. Provision(gen + 1, recipe) \in AnyCommand
      BY CommandIntro DEF TypeOK, AppTypes
    <3>2. cmds' \in Seq(AnyCommand)
      BY <2>4, <3>1, SendType DEF AcceptInstall
    <3>3. batch' \in {NoBatch} \cup BatchRecord
      BY <2>4, SuspendType DEF AcceptInstall, TypeOK
    <3>4. /\ status' = "provisioning" /\ gen' = gen + 1
          /\ UNCHANGED <<playing, forTrack, pendingTrack, batchGen>>
      BY <2>4 DEF AcceptInstall
    <3>5. consent' \in BOOLEAN
      BY <2>4, Zenon DEF AcceptInstall
    <3> QED BY <3>2, <3>3, <3>4, <3>5 DEF TypeOK, AppTypes
  <2> QED BY <2>1, <2>2, <2>3, <2>4
<1>3. JobTypes' /\ evs' \in Seq(Event) /\ phase' \in {"events", "key"} /\ keys' \in 0..MaxKeys
  BY <1>1, PressKeyType
<1> QED BY <1>1, <1>2, <1>3 DEF TypeOK, AppTypes, ChannelTypes, AnyCommand

\* The keys of the sidebar and the settings panel.
LEMMA PanelKeysType ==
    TypeOK /\ (\/ StartBatch \/ CancelBatch \/ ClearStemCache
              \/ \E r \in Engine : ChangeRecipe(r)
              \/ \E e \in Engine, evict \in BOOLEAN : UninstallEngine(e, evict)) => TypeOK'
<1> SUFFICES ASSUME TypeOK,
                    \/ StartBatch \/ CancelBatch \/ ClearStemCache
                    \/ \E r \in Engine : ChangeRecipe(r)
                    \/ \E e \in Engine, evict \in BOOLEAN : UninstallEngine(e, evict)
             PROVE  TypeOK'
  OBVIOUS
<1>1. PressKey /\ UNCHANGED <<playing, status, gen, forTrack, pendingTrack, consent>>
  BY DEF StartBatch, CancelBatch, ClearStemCache, ChangeRecipe, UninstallEngine, app
<1>2. /\ recipe' \in Engine /\ batchGen' \in Nat
      /\ batch' \in {NoBatch} \cup BatchRecord
      /\ cmds' \in Seq(AnyCommand)
  <2>1. CASE StartBatch
    <3>1. DispatchBatch(recipe, 0, batchGen + 1) /\ recipe' = recipe
      BY <2>1 DEF StartBatch
    <3>2. recipe \in Engine /\ 0 \in Nat /\ batchGen + 1 \in Nat
      BY DEF TypeOK, AppTypes
    <3> QED BY <3>1, <3>2, DispatchBatchType
  <2>2. CASE CancelBatch
    <3>1. Append(cmds, CancelSeparation) \in Seq(AnyCommand)
      BY CommandIntro, SendType
    <3>2. cmds' \in {cmds, Append(cmds, CancelSeparation)}
      BY <2>2 DEF CancelBatch
    <3> QED BY <2>2, <3>1, <3>2 DEF CancelBatch, TypeOK, AppTypes, ChannelTypes, AnyCommand
  <2>3. CASE ClearStemCache
    <3>1. cmds' \in Seq(AnyCommand)
      BY <2>3, CommandIntro, SendType DEF ClearStemCache, TypeOK, AppTypes
    <3> QED BY <2>3, <3>1 DEF ClearStemCache, app, TypeOK, AppTypes
  <2>4. CASE \E r \in Engine : ChangeRecipe(r)
    BY <2>4 DEF ChangeRecipe, TypeOK, AppTypes, ChannelTypes, AnyCommand
  <2>5. CASE \E r \in Engine, evict \in BOOLEAN : UninstallEngine(r, evict)
    <3>1. PICK r \in Engine, evict \in BOOLEAN : UninstallEngine(r, evict)
      BY <2>5
    <3>2. cmds' \in Seq(AnyCommand)
      BY <3>1, CommandIntro, SendType DEF UninstallEngine
    <3> QED BY <3>1, <3>2 DEF UninstallEngine, app, TypeOK, AppTypes
  <2> QED BY <2>1, <2>2, <2>3, <2>4, <2>5
<1>3. JobTypes' /\ evs' \in Seq(Event) /\ phase' \in {"events", "key"} /\ keys' \in 0..MaxKeys
  BY <1>1, PressKeyType
<1> QED BY <1>1, <1>2, <1>3 DEF TypeOK, AppTypes, ChannelTypes, AnyCommand

LEMMA AppInv == Inv /\ AppNext => Inv'
<1> SUFFICES ASSUME Inv, AppNext PROVE Inv'
  OBVIOUS
<1>1. UNCHANGED <<jobs, disk>>
  BY AppKeepsJobs
<1>2. TypeOK'
  BY EventsType, LoopType, PlayerKeysType, PanelKeysType DEF AppNext, Inv
<1>3. JobsOk'
  BY <1>1 DEF Inv, JobsOk, jobs, disk, LockHeld, TokenOfLast, SpecOfStage,
     OlderJobsTripped, WorkDirOwned, Op, Key
<1> QED BY <1>2, <1>3 DEF Inv

-----------------------------------------------------------------------------
(* The worker's dispatch loop. *)

LEMMA WorkerOnlyType == TypeOK /\ WorkerOnly => AppTypes'
BY DEF TypeOK, AppTypes, WorkerOnly, app

LEMMA DispatchInv == Inv /\ Dispatch => Inv'
<1> SUFFICES ASSUME Inv, Dispatch PROVE Inv'
  OBVIOUS
<1> DEFINE c == Head(cmds)
<1>1. c \in AnyCommand /\ Tail(cmds) \in Seq(AnyCommand)
  BY HeadTailProperties DEF Dispatch, Inv, TypeOK, ChannelTypes, AnyCommand
<1>2. c \in JobSpec
  BY <1>1 DEF Dispatch, AnyCommand, CancelSeparation
<1>3. PICK j \in JobId :
         /\ stage[j] = "none"
         /\ spec' = [spec EXCEPT ![j] = c]
         /\ stage' = [stage EXCEPT ![j] = "waiting"]
         /\ tripped' = IF active = None THEN tripped ELSE tripped \cup {active}
         /\ active' = j
  BY DEF Dispatch, TripActive
<1> HIDE DEF c
<1>4. UNCHANGED <<evs, lock, pos, sep, disk, sync>> /\ cmds' = Tail(cmds) /\ WorkerOnly
  BY DEF Dispatch
<1>5. JobTypes
  BY DEF Inv, TypeOK
<1>6. JobTypes'
  BY <1>2, <1>3, <1>4, <1>5 DEF JobTypes, disk, sync, Stage
<1>7. TypeOK'
  BY <1>1, <1>4, <1>6, WorkerOnlyType DEF Inv, TypeOK, ChannelTypes, AnyCommand
<1>8. j # None
  BY DEF JobId, None
<1>9. LockHeld' /\ TokenOfLast'
  BY <1>3, <1>4, <1>5 DEF Inv, JobsOk, LockHeld, TokenOfLast, Working, JobTypes
<1>10. SpecOfStage'
  BY <1>2, <1>3, <1>4, <1>5 DEF Inv, JobsOk, SpecOfStage, Op, JobTypes
<1>11. OlderJobsTripped'
  BY <1>3, <1>5 DEF Inv, JobsOk, OlderJobsTripped, JobTypes, JobId, None
<1>12. WorkDirOwned'
  BY <1>3, <1>4, <1>5 DEF Inv, JobsOk, WorkDirOwned, Key, JobTypes, disk
<1> QED BY <1>7, <1>9, <1>10, <1>11, <1>12 DEF Inv, JobsOk

LEMMA CancelInv == Inv /\ CancelActive => Inv'
<1> SUFFICES ASSUME Inv, CancelActive PROVE Inv'
  OBVIOUS
<1>1. /\ UNCHANGED <<evs, lock, active, spec, stage, pos, sep, disk, sync>>
      /\ cmds' = Tail(cmds) /\ WorkerOnly
  BY DEF CancelActive
<1>2. Tail(cmds) \in Seq(AnyCommand)
  BY HeadTailProperties DEF CancelActive, Inv, TypeOK, ChannelTypes, AnyCommand
<1>3. tripped \subseteq tripped' /\ tripped' \subseteq JobId
  BY DEF CancelActive, TripActive, Inv, TypeOK, JobTypes
<1>4. TypeOK'
  BY <1>1, <1>2, <1>3, WorkerOnlyType DEF Inv, TypeOK, ChannelTypes, AnyCommand, JobTypes, disk, sync
<1>5. JobsOk'
  BY <1>1, <1>3 DEF Inv, JobsOk, LockHeld, TokenOfLast, SpecOfStage, OlderJobsTripped,
     WorkDirOwned, Op, Key, disk
<1> QED BY <1>4, <1>5 DEF Inv

\* A sync takes commands away and leaves the jobs alone.
LEMMA SyncInv == Inv /\ (StartSync \/ DropCommand \/ EndSync) => Inv'
<1> SUFFICES ASSUME Inv, StartSync \/ DropCommand \/ EndSync PROVE Inv'
  OBVIOUS
<1>1. UNCHANGED <<evs, jobs, disk>> /\ WorkerOnly
  BY DEF StartSync, DropCommand, EndSync
<1>2. cmds' \in Seq(AnyCommand)
  BY HeadTailProperties DEF StartSync, DropCommand, EndSync, Inv, TypeOK, ChannelTypes, AnyCommand
<1>3. /\ syncing' \in BOOLEAN /\ syncs' \in 0..MaxSyncs
      /\ dropped' \subseteq Nat
  <2>1. CASE StartSync
    BY <2>1, StemAssumption DEF StartSync, Inv, TypeOK, JobTypes
  <2>2. CASE EndSync
    BY <2>2 DEF EndSync, Inv, TypeOK, JobTypes
  <2>3. CASE DropCommand
    <3>1. Head(cmds) \in AnyCommand
      BY <2>3, HeadTailProperties DEF DropCommand, Inv, TypeOK, ChannelTypes, AnyCommand
    <3>2. Head(cmds).op = "separate" => Head(cmds).gen \in Nat
      BY <3>1 DEF AnyCommand, JobSpec, CancelSeparation
    <3> QED BY <2>3, <3>2 DEF DropCommand, Inv, TypeOK, JobTypes
  <2> QED BY <2>1, <2>2, <2>3
<1>4. TypeOK'
  BY <1>1, <1>2, <1>3, WorkerOnlyType DEF Inv, TypeOK, ChannelTypes, AnyCommand, JobTypes, jobs, disk
<1>5. JobsOk'
  BY <1>1 DEF Inv, JobsOk, LockHeld, TokenOfLast, SpecOfStage, OlderJobsTripped,
     WorkDirOwned, Op, Key, jobs, disk
<1> QED BY <1>4, <1>5 DEF Inv

-----------------------------------------------------------------------------
(* A job thread. *)

\* The terminal events a job can send.
LEMMA TerminalType ==
    ASSUME TypeOK, NEW j \in JobId, spec[j] \in JobSpec
    PROVE  /\ \A b \in BOOLEAN : Failed(j, b) \in Event /\ EngineFailed(j, b) \in Event
           /\ \A n \in Nat, b \in BOOLEAN : BatchDone(j, n, b) \in Event
           /\ EngineReady(j) \in Event /\ Removed \in Event
           /\ Op(j) = "separate" => Ready(j) \in Event
<1>1. spec[j].gen \in Nat
  BY DEF JobSpec
<1>2. Op(j) = "separate" => spec[j].tracks[1] \in Track
  BY DEF JobSpec, Op
<1> QED BY <1>1, <1>2 DEF Failed, EngineFailed, BatchDone, EngineReady, Removed, Ready, Event

\* A step of one job leaves what the App knows and the tokens as they are.
LEMMA JobFrame ==
    ASSUME Inv, NEW j \in JobId, stage[j] # "none", JobStep,
           NEW s \in Stage \ {"none"}, stage' = [stage EXCEPT ![j] = s]
    PROVE  /\ AppTypes' /\ cmds' \in Seq(AnyCommand)
           /\ TokenOfLast' /\ OlderJobsTripped'
           /\ stage' \in [JobId -> Stage]
           /\ active' \in JobId \cup {None} /\ tripped' \subseteq JobId
           /\ spec' \in [JobId -> JobSpec \cup {NoSpec}]
           /\ syncing' \in BOOLEAN /\ syncs' \in 0..MaxSyncs /\ dropped' \subseteq Nat
           /\ spec[j] \in JobSpec
<1>1. JobTypes /\ TypeOK
  BY DEF Inv, TypeOK
<1>2. AppTypes' /\ cmds' \in Seq(AnyCommand)
  BY <1>1, WorkerOnlyType DEF JobStep, TypeOK, ChannelTypes, AnyCommand
<1>3. TokenOfLast' /\ OlderJobsTripped'
  BY <1>1 DEF Inv, JobsOk, TokenOfLast, OlderJobsTripped, JobStep, JobTypes
<1>4. spec[j] \in JobSpec
  BY DEF Inv, JobsOk, SpecOfStage
<1> QED BY <1>1, <1>2, <1>3, <1>4 DEF JobTypes, JobStep, sync

\* Taking the lock when it is free, working under it, giving it back at the end.
LEMMA LockFrame ==
    ASSUME Inv, NEW j \in JobId,
           NEW s \in Stage \ {"none"}, stage' = [stage EXCEPT ![j] = s],
           \/ s \in Working /\ lock' = j /\ (stage[j] \in Working \/ lock = None)
           \/ s = "done" /\ lock' = None /\ stage[j] \in Working
    PROVE  /\ LockHeld' /\ lock' \in JobId \cup {None}
           /\ \A k \in JobId : stage'[k] \in Working => k = j
<1>1. LockHeld /\ stage \in [JobId -> Stage]
  BY DEF Inv, JobsOk, TypeOK, JobTypes
<1>2. None \notin JobId
  BY DEF JobId, None
<1>3. \A k \in JobId : k # j => stage'[k] = stage[k] /\ stage[k] \notin Working
  BY <1>1, <1>2 DEF LockHeld
<1>4. stage'[j] = s
  BY <1>1
<1>5. "done" \notin Working
  BY DEF Working
<1> QED BY <1>1, <1>2, <1>3, <1>4, <1>5 DEF LockHeld

\* A step to s that sends nothing, or the last one, which sends a terminal event.
LEMMA GotoFrame ==
    ASSUME Inv, NEW j \in JobId, NEW s \in Working, stage[j] \in Working, Goto(j, s)
    PROVE  /\ stage' = [stage EXCEPT ![j] = s] /\ s \in Stage \ {"none"} /\ stage[j] # "none"
           /\ evs' \in Seq(Event)
           /\ LockHeld' /\ lock' \in JobId \cup {None}
           /\ \A k \in JobId : stage'[k] \in Working => k = j
<1>1. lock = j
  BY DEF Inv, JobsOk, LockHeld
<1>2. s \in Stage \ {"none"} /\ stage[j] # "none"
  BY DEF Working, Stage
<1>3. stage' = [stage EXCEPT ![j] = s] /\ lock' = j /\ evs' = evs
  BY <1>1 DEF Goto
<1> QED BY <1>2, <1>3, LockFrame DEF Inv, TypeOK, ChannelTypes

LEMMA EndFrame ==
    ASSUME Inv, NEW j \in JobId, stage[j] \in Working, NEW e \in Event, End(j, e)
    PROVE  /\ stage' = [stage EXCEPT ![j] = "done"] /\ stage[j] # "none"
           /\ "done" \in Stage \ {"none"}
           /\ evs' \in Seq(Event)
           /\ LockHeld' /\ lock' \in JobId \cup {None}
           /\ \A k \in JobId : stage'[k] \notin Working
<1>1. "done" \in Stage \ {"none"} /\ stage[j] # "none" /\ "done" \notin Working
  BY DEF Working, Stage
<1>2. stage' = [stage EXCEPT ![j] = "done"] /\ lock' = None /\ evs' = Append(evs, e)
  BY DEF End
<1>3. /\ LockHeld' /\ lock' \in JobId \cup {None}
      /\ \A k \in JobId : stage'[k] \in Working => k = j
  BY <1>1, <1>2, LockFrame
<1>4. stage'[j] = "done"
  BY <1>2 DEF Inv, TypeOK, JobTypes
<1>5. evs' \in Seq(Event)
  BY <1>2, AppendProperties DEF Inv, TypeOK, ChannelTypes
<1> QED BY <1>1, <1>2, <1>3, <1>4, <1>5

\* What a job that ends leaves to be shown.
LEMMA EndInv ==
    ASSUME Inv, NEW j \in JobId, stage[j] \in Working, NEW e \in Event, End(j, e), JobStep,
           pos' = pos, sep' \in [JobId -> Nat], installed' \subseteq Engine,
           cache' \subseteq Track \X Engine, work' \in [Track \X Engine -> JobId \cup {None}]
    PROVE  Inv'
<1>1. /\ stage' = [stage EXCEPT ![j] = "done"] /\ stage[j] # "none"
      /\ "done" \in Stage \ {"none"}
      /\ evs' \in Seq(Event) /\ LockHeld' /\ lock' \in JobId \cup {None}
      /\ \A k \in JobId : stage'[k] \notin Working
  BY EndFrame
<1>2. /\ AppTypes' /\ cmds' \in Seq(AnyCommand) /\ TokenOfLast' /\ OlderJobsTripped'
      /\ stage' \in [JobId -> Stage]
      /\ active' \in JobId \cup {None} /\ tripped' \subseteq JobId
      /\ spec' \in [JobId -> JobSpec \cup {NoSpec}]
      /\ syncing' \in BOOLEAN /\ syncs' \in 0..MaxSyncs /\ dropped' \subseteq Nat
  BY <1>1, JobFrame
<1>3. TypeOK'
  BY <1>1, <1>2 DEF Inv, TypeOK, ChannelTypes, JobTypes, AnyCommand
<1>4. stage \in [JobId -> Stage]
  BY DEF Inv, TypeOK, JobTypes
<1>5. SpecOfStage'
  BY <1>1, <1>4 DEF Inv, JobsOk, SpecOfStage, JobStep, Op
<1>6. WorkDirOwned'
  BY <1>1 DEF WorkDirOwned, Working
<1> QED BY <1>1, <1>2, <1>3, <1>5, <1>6 DEF Inv, JobsOk

\* What a job that goes on leaves to be shown.
LEMMA GotoInv ==
    ASSUME Inv, NEW j \in JobId, stage[j] \in Working, NEW s \in Working, Goto(j, s), JobStep,
           pos' \in [JobId -> Nat \ {0}], \A k \in JobId : k # j => pos'[k] = pos[k],
           sep' \in [JobId -> Nat], installed' = installed,
           cache' \subseteq Track \X Engine, work' \in [Track \X Engine -> JobId \cup {None}],
           s = "install" => Op(j) = "provision",
           s \in {"lookup", "separate", "store"} => Op(j) \in {"separate", "batch"},
           Op(j) # "batch" => pos'[j] = 1,
           s \in {"separate", "store"} =>
              pos'[j] \in 1..Len(spec[j].tracks) /\ work'[Key(j)'] = j
    PROVE  Inv'
<1>1. /\ stage' = [stage EXCEPT ![j] = s] /\ s \in Stage \ {"none"} /\ stage[j] # "none"
      /\ evs' \in Seq(Event) /\ LockHeld' /\ lock' \in JobId \cup {None}
      /\ \A k \in JobId : stage'[k] \in Working => k = j
  BY GotoFrame
<1>2. /\ AppTypes' /\ cmds' \in Seq(AnyCommand) /\ TokenOfLast' /\ OlderJobsTripped'
      /\ stage' \in [JobId -> Stage]
      /\ active' \in JobId \cup {None} /\ tripped' \subseteq JobId
      /\ spec' \in [JobId -> JobSpec \cup {NoSpec}] /\ spec[j] \in JobSpec
      /\ syncing' \in BOOLEAN /\ syncs' \in 0..MaxSyncs /\ dropped' \subseteq Nat
  BY <1>1, JobFrame
<1>3. TypeOK'
  BY <1>1, <1>2 DEF Inv, TypeOK, ChannelTypes, JobTypes, AnyCommand
<1>4. stage \in [JobId -> Stage] /\ spec' = spec
  BY DEF Inv, TypeOK, JobTypes, JobStep
<1>5. stage'[j] = s /\ \A k \in JobId : k # j => stage'[k] = stage[k]
  BY <1>1, <1>4
<1>6. SpecOfStage'
  <2> SUFFICES ASSUME NEW k \in JobId
               PROVE  /\ stage'[k] # "none" => spec'[k] \in JobSpec
                      /\ stage'[k] = "none" => pos'[k] = 1
                      /\ stage'[k] = "install" => Op(k)' = "provision"
                      /\ stage'[k] \in {"lookup", "separate", "store"} =>
                            Op(k)' \in {"separate", "batch"}
                      /\ stage'[k] # "none" /\ Op(k)' # "batch" => pos'[k] = 1
                      /\ stage'[k] \in {"separate", "store"} =>
                            pos'[k] \in 1..Len(spec'[k].tracks)
    BY DEF SpecOfStage
  <2>1. CASE k = j
    BY <1>1, <1>2, <1>4, <1>5, <2>1 DEF Op
  <2>2. CASE k # j
    BY <1>4, <1>5, <2>2 DEF Inv, JobsOk, SpecOfStage, Op
  <2> QED BY <2>1, <2>2
<1>7. WorkDirOwned'
  BY <1>1, <1>5 DEF WorkDirOwned, Working
<1> QED BY <1>1, <1>2, <1>3, <1>6, <1>7 DEF Inv, JobsOk

\* What the invariant says of a job that is about to make a step.
LEMMA JobFacts ==
    ASSUME Inv, NEW j \in JobId
    PROVE  /\ pos \in [JobId -> Nat \ {0}] /\ sep \in [JobId -> Nat] /\ sep[j] \in Nat
           /\ cache \subseteq Track \X Engine
           /\ work \in [Track \X Engine -> JobId \cup {None}]
           /\ installed \subseteq Engine /\ TypeOK
           /\ stage[j] # "none" => spec[j] \in JobSpec
           /\ stage[j] # "none" /\ Op(j) # "batch" => pos[j] = 1
           /\ stage[j] = "install" => Op(j) = "provision"
           /\ stage[j] \in {"lookup", "separate", "store"} => Op(j) \in {"separate", "batch"}
           /\ stage[j] \in {"separate", "store"} => pos[j] \in 1..Len(spec[j].tracks)
           /\ stage[j] \in {"separate", "store"} => work[Key(j)] = j
BY DEF Inv, TypeOK, JobTypes, JobsOk, SpecOfStage, WorkDirOwned

\* The track of a job that looks it up, and the entry it makes.
LEMMA KeyType ==
    ASSUME NEW j \in JobId, spec[j] \in JobSpec, pos[j] \in 1..Len(spec[j].tracks)
    PROVE  Key(j) \in Track \X Engine
<1>1. spec[j].recipe \in Engine
  BY DEF JobSpec
<1>2. spec[j].tracks \in Seq(Track)
  <2>1. spec[j].tracks \in {<<t>> : t \in Track} \cup {Album, <<>>}
    BY DEF JobSpec
  <2>2. \A t \in Track : <<t>> \in Seq(Track)
    OBVIOUS
  <2> QED BY <2>1, <2>2, StemAssumption, EmptySeq
<1>3. spec[j].tracks[pos[j]] \in Track
  BY <1>2, ElementOfSeq
<1> QED BY <1>1, <1>3 DEF Key

LEMMA AtTrackFacts ==
    ASSUME Inv, NEW j \in JobId, AtTrack(j)
    PROVE  /\ stage[j] = "lookup" /\ spec[j] \in JobSpec /\ Op(j) \in {"separate", "batch"}
           /\ pos[j] \in 1..Len(spec[j].tracks)
           /\ Key(j) \in Track \X Engine
<1>1. /\ stage[j] = "lookup" /\ spec[j] \in JobSpec /\ Op(j) \in {"separate", "batch"}
      /\ pos[j] \in Nat \ {0}
  BY JobFacts DEF AtTrack, At
<1>2. CASE Op(j) = "batch"
  <2>1. spec[j].tracks = Album /\ pos[j] <= Len(Album)
    BY <1>1, <1>2 DEF AtTrack, JobSpec, Op
  <2>2. Len(Album) \in Nat
    BY StemAssumption, LenProperties
  <2>3. pos[j] \in 1..Len(spec[j].tracks)
    BY <1>1, <2>1, <2>2
  <2> QED BY <1>1, <2>3, KeyType
<1>3. CASE Op(j) = "separate"
  <2>1. PICK t \in Track : spec[j].tracks = <<t>>
    BY <1>1, <1>3 DEF JobSpec, Op
  <2>2. pos[j] = 1
    BY <1>1, <1>3, JobFacts
  <2>3. pos[j] \in 1..Len(spec[j].tracks)
    BY <2>1, <2>2
  <2> QED BY <1>1, <2>3, KeyType
<1> QED BY <1>1, <1>2, <1>3

LEMMA AcquireInv == ASSUME NEW j \in JobId PROVE Inv /\ Acquire(j) => Inv'
<1> SUFFICES ASSUME Inv, Acquire(j) PROVE Inv'
  OBVIOUS
<1>1. /\ stage[j] = "waiting" /\ lock = None /\ lock' = j
      /\ stage' = [stage EXCEPT ![j] = "start"]
      /\ UNCHANGED <<evs, pos, sep, disk>> /\ JobStep
  BY DEF Acquire, At
<1>2. "start" \in Stage \ {"none"} /\ "start" \in Working
  BY DEF Stage, Working
<1>3. /\ AppTypes' /\ cmds' \in Seq(AnyCommand) /\ TokenOfLast' /\ OlderJobsTripped'
      /\ stage' \in [JobId -> Stage]
      /\ active' \in JobId \cup {None} /\ tripped' \subseteq JobId
      /\ spec' \in [JobId -> JobSpec \cup {NoSpec}]
      /\ syncing' \in BOOLEAN /\ syncs' \in 0..MaxSyncs /\ dropped' \subseteq Nat
  BY <1>1, <1>2, JobFrame
<1>4. /\ LockHeld' /\ lock' \in JobId \cup {None}
      /\ \A k \in JobId : stage'[k] \in Working => k = j
  BY <1>1, <1>2, LockFrame
<1>5. TypeOK'
  BY <1>1, <1>3, <1>4, JobFacts DEF Inv, TypeOK, ChannelTypes, JobTypes, AnyCommand, disk
<1>6. stage \in [JobId -> Stage] /\ stage'[j] = "start"
  BY <1>1 DEF Inv, TypeOK, JobTypes
<1>7. SpecOfStage'
  BY <1>1, <1>6 DEF Inv, JobsOk, SpecOfStage, JobStep, Op
<1>8. WorkDirOwned'
  BY <1>4, <1>6 DEF WorkDirOwned, Working
<1> QED BY <1>3, <1>4, <1>5, <1>7, <1>8 DEF Inv, JobsOk

LEMMA EarlyEndInv ==
    ASSUME NEW j \in JobId
    PROVE  Inv /\ (BowOut(j) \/ EngineMissing(j) \/ StopBatch(j)) => Inv'
<1> SUFFICES ASSUME Inv, BowOut(j) \/ EngineMissing(j) \/ StopBatch(j) PROVE Inv'
  OBVIOUS
<1>1. stage[j] \in Working /\ stage[j] # "none"
      /\ UNCHANGED <<pos, sep, disk>> /\ JobStep
  BY DEF BowOut, EngineMissing, StopBatch, At, Working
<1>2. \E e \in Event : End(j, e)
  <2>1. /\ \A b \in BOOLEAN : Failed(j, b) \in Event /\ EngineFailed(j, b) \in Event
        /\ \A n \in Nat, b \in BOOLEAN : BatchDone(j, n, b) \in Event
        /\ sep[j] \in Nat
    BY <1>1, TerminalType, JobFacts
  <2>2. CASE BowOut(j)
    BY <2>1, <2>2 DEF BowOut, Interactive
  <2>3. CASE EngineMissing(j)
    BY <2>1, <2>3 DEF EngineMissing
  <2>4. CASE StopBatch(j)
    BY <2>1, <2>4 DEF StopBatch
  <2> QED BY <2>2, <2>3, <2>4
<1> QED BY <1>1, <1>2, JobFacts, EndInv DEF disk

LEMMA BeginInv == ASSUME NEW j \in JobId PROVE Inv /\ (Begin(j) \/ EngineOk(j)) => Inv'
<1> SUFFICES ASSUME Inv, Begin(j) \/ EngineOk(j) PROVE Inv'
  OBVIOUS
<1>1. /\ stage[j] \in Working /\ stage[j] # "none"
      /\ UNCHANGED <<pos, sep, disk>> /\ JobStep
  BY DEF Begin, EngineOk, At, Working
<1>2. \A k \in JobId : k # j => pos'[k] = pos[k]
  BY <1>1
<1>3. Key(j)' = Key(j)
  BY <1>1 DEF Key, JobStep
<1>4. CASE Begin(j) /\ Op(j) = "provision"
  <2>1. Goto(j, "install") /\ "install" \in Working
    BY <1>4 DEF Begin, Working
  <2> QED BY <1>1, <1>2, <1>4, <2>1, JobFacts, GotoInv DEF disk
<1>5. CASE Begin(j) /\ Op(j) # "provision"
  <2>1. Goto(j, "lookup") /\ "lookup" \in Working /\ Op(j) \in {"separate", "batch"}
    BY <1>5 DEF Begin, Working, Interactive
  <2> QED BY <1>1, <1>2, <1>5, <2>1, JobFacts, GotoInv DEF disk
<1>6. CASE EngineOk(j)
  <2>1. Goto(j, "store") /\ "store" \in Working /\ stage[j] = "separate"
    BY <1>6 DEF EngineOk, Working, At
  <2>2. work'[Key(j)'] = j /\ pos'[j] \in 1..Len(spec[j].tracks)
    BY <1>1, <1>3, <2>1, JobFacts DEF disk
  <2> QED BY <1>1, <1>2, <2>1, <2>2, JobFacts, GotoInv DEF disk
<1> QED BY <1>4, <1>5, <1>6

LEMMA InstallInv ==
    ASSUME NEW j \in JobId PROVE Inv /\ (Install(j) \/ Remove(j)) => Inv'
<1> SUFFICES ASSUME Inv, Install(j) \/ Remove(j) PROVE Inv'
  OBVIOUS
<1>1. stage[j] \in Working /\ stage[j] # "none" /\ UNCHANGED <<pos, sep>> /\ JobStep
  BY DEF Install, Remove, At, Working
<1>2. spec[j].recipe \in Engine
  BY <1>1, JobFacts DEF JobSpec
<1>3. \E e \in Event : End(j, e)
  BY <1>1, TerminalType, JobFacts DEF Install, Remove
<1>4. installed' \subseteq Engine
  BY <1>2, JobFacts DEF Install, Remove
<1>5. /\ cache' \subseteq Track \X Engine
      /\ work' \in [Track \X Engine -> JobId \cup {None}]
  <2>1. /\ cache' \subseteq cache
        /\ work' = work \/ work' = [d \in DOMAIN work |-> None]
    BY DEF Install, Remove
  <2> QED BY <2>1, JobFacts
<1> QED BY <1>1, <1>3, <1>4, <1>5, JobFacts, EndInv

\* A batch goes on with the next track.
LEMMA NextTrackInv ==
    ASSUME Inv, NEW j \in JobId, stage[j] \in {"lookup", "separate", "store"},
           NextTrack(j), JobStep, Op(j) = "batch",
           sep' \in [JobId -> Nat], installed' = installed,
           cache' \subseteq Track \X Engine, work' \in [Track \X Engine -> JobId \cup {None}]
    PROVE  Inv'
<1>1. stage[j] \in Working /\ "lookup" \in Working
  BY DEF Working
<1>2. pos' = [pos EXCEPT ![j] = @ + 1] /\ Goto(j, "lookup")
  BY DEF NextTrack
<1>3. pos' \in [JobId -> Nat \ {0}] /\ \A k \in JobId : k # j => pos'[k] = pos[k]
  BY <1>2, JobFacts
<1> QED BY <1>1, <1>2, <1>3, GotoInv

LEMMA CacheHitInv == ASSUME NEW j \in JobId PROVE Inv /\ CacheHit(j) => Inv'
<1> SUFFICES ASSUME Inv, CacheHit(j) PROVE Inv'
  OBVIOUS
<1>1. AtTrack(j) /\ UNCHANGED <<sep, disk>> /\ JobStep
  BY DEF CacheHit
<1>2. stage[j] = "lookup" /\ stage[j] \in Working /\ spec[j] \in JobSpec
  BY <1>1, AtTrackFacts DEF Working
<1>3. CASE Op(j) = "batch"
  <2>1. NextTrack(j)
    BY <1>3 DEF CacheHit, NextTrack
  <2> QED BY <1>1, <1>2, <1>3, <2>1, JobFacts, NextTrackInv DEF disk
<1>4. CASE Op(j) # "batch"
  <2>1. End(j, Ready(j)) /\ pos' = pos
    BY <1>4 DEF CacheHit
  <2>2. Ready(j) \in Event
    BY <1>1, <1>2, <1>4, AtTrackFacts, TerminalType, JobFacts
  <2> QED BY <1>1, <1>2, <2>1, <2>2, JobFacts, EndInv DEF disk
<1> QED BY <1>3, <1>4

LEMMA StartEngineInv == ASSUME NEW j \in JobId PROVE Inv /\ StartEngine(j) => Inv'
<1> SUFFICES ASSUME Inv, StartEngine(j) PROVE Inv'
  OBVIOUS
<1>1. /\ AtTrack(j) /\ work' = [work EXCEPT ![Key(j)] = j] /\ Goto(j, "separate")
      /\ UNCHANGED <<pos, sep, installed, cache>> /\ JobStep
  BY DEF StartEngine
<1>2. /\ stage[j] = "lookup" /\ Op(j) \in {"separate", "batch"}
      /\ pos[j] \in 1..Len(spec[j].tracks) /\ Key(j) \in Track \X Engine
  BY <1>1, AtTrackFacts
<1>3. stage[j] \in Working /\ "separate" \in Working
  BY <1>2 DEF Working
<1>4. Key(j)' = Key(j)
  BY <1>1 DEF Key, JobStep
<1>5. work' \in [Track \X Engine -> JobId \cup {None}] /\ work'[Key(j)'] = j
  BY <1>1, <1>2, <1>4, JobFacts
<1>6. Op(j) # "batch" => pos'[j] = 1
  BY <1>1, <1>2, JobFacts
<1>7. pos' \in [JobId -> Nat \ {0}] /\ \A k \in JobId : k # j => pos'[k] = pos[k]
  BY <1>1, JobFacts
<1> QED BY <1>1, <1>2, <1>3, <1>5, <1>6, <1>7, JobFacts, GotoInv

LEMMA TrackEndInv ==
    ASSUME NEW j \in JobId
    PROVE  Inv /\ (TrackFailed(j) \/ EngineCancelled(j) \/ Store(j)) => Inv'
<1> SUFFICES ASSUME Inv, TrackFailed(j) \/ EngineCancelled(j) \/ Store(j) PROVE Inv'
  OBVIOUS
<1>1. /\ stage[j] \in {"separate", "store"} /\ stage[j] \in Working
      /\ DropWork(j) /\ installed' = installed /\ JobStep
  BY DEF TrackFailed, EngineCancelled, Store, At, Working
<1>2. /\ spec[j] \in JobSpec /\ Key(j) \in Track \X Engine
      /\ Op(j) \in {"separate", "batch"} /\ sep[j] \in Nat
  BY <1>1, JobFacts, KeyType
<1>3. work' \in [Track \X Engine -> JobId \cup {None}]
  BY <1>1, JobFacts DEF DropWork
<1>4. cache' \subseteq Track \X Engine
  BY <1>2, JobFacts DEF TrackFailed, EngineCancelled, Store
<1>5. sep' \in [JobId -> Nat]
  <2>1. sep' = sep \/ sep' = [sep EXCEPT ![j] = @ + 1]
    BY DEF TrackFailed, EngineCancelled, Store
  <2>2. [sep EXCEPT ![j] = @ + 1] \in [JobId -> Nat]
    BY JobFacts
  <2> QED BY <2>1, <2>2, JobFacts
<1>6. CASE NextTrack(j) /\ Op(j) = "batch"
  BY <1>1, <1>3, <1>4, <1>5, <1>6, NextTrackInv
<1>7. CASE pos' = pos /\ \E e \in Event : End(j, e)
  BY <1>1, <1>3, <1>4, <1>5, <1>7, JobFacts, EndInv
<1>8. \/ NextTrack(j) /\ Op(j) = "batch"
      \/ pos' = pos /\ \E e \in Event : End(j, e)
  <2>1. /\ \A b \in BOOLEAN : Failed(j, b) \in Event
        /\ \A b \in BOOLEAN : BatchDone(j, sep[j], b) \in Event
        /\ Op(j) = "separate" => Ready(j) \in Event
    BY <1>2, TerminalType, JobFacts
  <2>2. CASE TrackFailed(j)
    BY <2>1, <2>2 DEF TrackFailed
  <2>3. CASE EngineCancelled(j)
    BY <2>1, <2>3 DEF EngineCancelled
  <2>4. CASE Store(j)
    BY <1>2, <2>1, <2>4 DEF Store
  <2> QED BY <2>2, <2>3, <2>4
<1> QED BY <1>6, <1>7, <1>8

-----------------------------------------------------------------------------
(* The theorems. *)

LEMMA InitInv == Init => Inv
<1> SUFFICES ASSUME Init PROVE Inv
  OBVIOUS
<1>1. \A S : <<>> \in Seq(S)
  BY EmptySeq
<1>2. AppTypes
  <2>1. keys \in 0..MaxKeys /\ batch \in {NoBatch} \cup BatchRecord
    BY StemAssumption DEF Init
  <2>2. consent \in BOOLEAN
    BY Zenon DEF Init
  <2> QED BY <2>1, <2>2 DEF Init, AppTypes
<1>3. ChannelTypes
  BY <1>1 DEF Init, ChannelTypes
<1>4. JobTypes
  <2>1. syncing \in BOOLEAN
    BY Zenon DEF Init
  <2>2. syncs \in 0..MaxSyncs /\ dropped \subseteq Nat
    BY StemAssumption DEF Init
  <2> QED BY <2>1, <2>2, StemAssumption DEF Init, JobTypes, Stage
<1>5. JobsOk
  BY DEF Init, JobsOk, LockHeld, TokenOfLast, SpecOfStage, OlderJobsTripped, WorkDirOwned,
     Working, JobId, None
<1> QED BY <1>2, <1>3, <1>4, <1>5 DEF Inv, TypeOK

LEMMA NextInv == Inv /\ [Next]_vars => Inv'
<1> SUFFICES ASSUME Inv, [Next]_vars PROVE Inv'
  OBVIOUS
<1>1. CASE AppNext
  BY <1>1, AppInv
<1>2. CASE Dispatch \/ CancelActive \/ StartSync \/ DropCommand \/ EndSync
  BY <1>2, DispatchInv, CancelInv, SyncInv
<1>3. ASSUME NEW j \in JobId, JobNext(j) PROVE Inv'
  BY <1>3, AcquireInv, EarlyEndInv, BeginInv, InstallInv, CacheHitInv, StartEngineInv,
     TrackEndInv DEF JobNext
<1>4. CASE UNCHANGED vars
  BY <1>4 DEF vars, app, jobs, disk, sync, Inv, TypeOK, AppTypes, ChannelTypes, JobTypes, JobsOk,
     LockHeld, TokenOfLast, SpecOfStage, OlderJobsTripped, WorkDirOwned, Op, Key
<1> QED BY <1>1, <1>2, <1>3, <1>4 DEF Next

\* Every variable of the App, the channels, the jobs and the disk keeps its type.
THEOREM StemTypes == Spec => []TypeOK
<1>1. Inv => TypeOK
  BY DEF Inv
<1> QED BY <1>1, InitInv, NextInv, PTL DEF Spec

\* The job threads of the worker exclude each other: one holds StemJobs.lock
\* from acquire to its terminal event, however many were dispatched.
THEOREM OneJobAtATime == Spec => []OneJobWorks
<1>1. Inv => OneJobWorks
  BY DEF Inv, JobsOk, LockHeld, OneJobWorks
<1> QED BY <1>1, InitInv, NextInv, PTL DEF Spec

\* StemJobs.supersede leaves no job but the last one dispatched with a clear token.
THEOREM OnlyTheLastIsWanted == Spec => []OlderJobsTripped
<1>1. Inv => OlderJobsTripped
  BY DEF Inv, JobsOk
<1> QED BY <1>1, InitInv, NextInv, PTL DEF Spec

\* The files a separation has produced stay in its work directory until it
\* stores them, also when a clear, an uninstall or a newer job waits.
THEOREM WorkDirStays == Spec => []WorkDirOwned
<1>1. Inv => WorkDirOwned
  BY DEF Inv, JobsOk
<1> QED BY <1>1, InitInv, NextInv, PTL DEF Spec

-----------------------------------------------------------------------------
(* The track the stems are for. *)

\* The track that waits for an install is the one that plays.
PendingPlays == pendingTrack # NoTrack => pendingTrack = playing

Tracks == PendingPlays /\ StemsMatchTrack

LEMMA TracksStep == ASSUME TypeOK, Tracks, [Next]_vars PROVE Tracks'
<1>1. CASE UNCHANGED <<status, forTrack, pendingTrack, playing>>
  BY <1>1 DEF Tracks, PendingPlays, StemsMatchTrack
<1>2. CASE OnStemsReady
  <2>1. UNCHANGED <<playing, pendingTrack>>
    BY <1>2 DEF OnStemsReady, HandleEvent
  <2>2. \/ UNCHANGED <<status, forTrack>>
        \/ status = "separating" /\ status' = "active" /\ forTrack' = forTrack
        \/ Reset
    <3>1. CASE Head(evs).gen = gen /\ status = "separating" /\ playing = Head(evs).track
      BY <1>2, <3>1 DEF OnStemsReady
    <3>2. CASE Head(evs).gen = gen /\ status = "separating" /\ playing # Head(evs).track
      BY <1>2, <3>2 DEF OnStemsReady
    <3>3. CASE ~(Head(evs).gen = gen /\ status = "separating")
      BY <1>2, <3>3 DEF OnStemsReady
    <3> QED BY <3>1, <3>2, <3>3
  <2> QED BY <2>1, <2>2 DEF Tracks, PendingPlays, StemsMatchTrack, Reset
<1>3. CASE OnStemsFailed
  BY <1>3 DEF OnStemsFailed, HandleEvent, Reset, Tracks, PendingPlays, StemsMatchTrack
<1>4. CASE OnEngineReady
  <2>1. playing' = playing
    BY <1>4 DEF OnEngineReady, HandleEvent
  <2>2. CASE Head(evs).gen # gen
    BY <1>4, <2>1, <2>2 DEF OnEngineReady, Tracks, PendingPlays, StemsMatchTrack
  <2>3. CASE Head(evs).gen = gen /\ pendingTrack # NoTrack
    BY <1>4, <2>1, <2>3 DEF OnEngineReady, DispatchSeparation, Tracks, PendingPlays, StemsMatchTrack
  <2>4. CASE Head(evs).gen = gen /\ pendingTrack = NoTrack
    BY <1>4, <2>1, <2>4 DEF OnEngineReady, Reset, Tracks, PendingPlays, StemsMatchTrack
  <2> QED BY <2>2, <2>3, <2>4
<1>5. CASE OnEngineFailed
  BY <1>5 DEF OnEngineFailed, HandleEvent, Reset, Tracks, PendingPlays, StemsMatchTrack
<1>6. CASE OnBatchDone \/ OnRemoved \/ EventsDone \/ NoKey
  BY <1>1, <1>6 DEF OnBatchDone, OnRemoved, HandleEvent, EventsDone, NoKey, app
<1>7. CASE ExitStems \/ CancelStemJob \/ RequestStems \/ AskConsent \/ AcceptInstall \/ DeclineInstall
  BY <1>7 DEF ExitStems, CancelStemJob, RequestStems, AskConsent, AcceptInstall, DeclineInstall,
     Reset, DispatchSeparation, Tracks, PendingPlays, StemsMatchTrack
<1>8. CASE \/ StartBatch \/ CancelBatch \/ ClearStemCache \/ (\E r \in Engine : ChangeRecipe(r))
           \/ (\E e \in Engine, evict \in BOOLEAN : UninstallEngine(e, evict))
  BY <1>1, <1>8 DEF StartBatch, CancelBatch, ClearStemCache, ChangeRecipe, UninstallEngine, app
<1>9. CASE \E t \in Track : ChangeTrack(t)
  BY <1>9 DEF ChangeTrack, Reset, Tracks, PendingPlays, StemsMatchTrack
<1>10. CASE AppNext
  BY <1>2, <1>3, <1>4, <1>5, <1>6, <1>7, <1>8, <1>9, <1>10 DEF AppNext
<1>11. CASE Dispatch \/ CancelActive \/ StartSync \/ DropCommand \/ EndSync
            \/ \E j \in JobId : JobNext(j)
  <2>1. WorkerOnly
    BY <1>11 DEF Dispatch, CancelActive, StartSync, DropCommand, EndSync, JobNext, Acquire, BowOut, EngineMissing, Begin, Install,
       StopBatch, CacheHit, StartEngine, EngineOk, TrackFailed, EngineCancelled, Store, Remove, JobStep
  <2> QED BY <1>1, <2>1 DEF WorkerOnly, app
<1> QED BY <1>1, <1>10, <1>11 DEF Next, vars, app

\* Stems are swapped in for the track that plays: the App resets the stem status
\* with the track, and drops or adopts what a job or an install then reports.
THEOREM StemsOfTrack == Spec => []StemsMatchTrack
<1>1. Init => Tracks
  BY DEF Init, Tracks, PendingPlays, StemsMatchTrack
<1>2. Inv /\ Tracks /\ [Next]_vars => Tracks'
  BY TracksStep DEF Inv
<1>3. Tracks => StemsMatchTrack
  BY DEF Tracks
<1> QED BY <1>1, <1>2, <1>3, InitInv, NextInv, PTL DEF Spec

-----------------------------------------------------------------------------
(* A status "separating" has a job. *)

\* What Tail and Append keep of the elements of a sequence.
LEMMA SeqKeeps ==
    ASSUME NEW S, NEW s \in Seq(S), NEW i \in DOMAIN s
    PROVE  /\ s[i] = Head(s) \/ \E k \in DOMAIN Tail(s) : Tail(s)[k] = s[i]
           /\ \A e \in S : i \in DOMAIN Append(s, e) /\ Append(s, e)[i] = s[i]
<1>1. i \in 1..Len(s) /\ Len(s) \in Nat /\ s # <<>>
  BY LenProperties, EmptySeq
<1>2. s[i] = Head(s) \/ \E k \in DOMAIN Tail(s) : Tail(s)[k] = s[i]
  <2>1. /\ Head(s) = s[1] /\ DOMAIN Tail(s) = 1..(Len(s) - 1)
        /\ \A k \in 1..(Len(s) - 1) : Tail(s)[k] = s[k + 1]
    BY <1>1, HeadTailProperties, LenProperties
  <2>2. i # 1 => i - 1 \in DOMAIN Tail(s) /\ Tail(s)[i - 1] = s[i]
    BY <1>1, <2>1
  <2> QED BY <2>1, <2>2
<1>3. \A e \in S : i \in DOMAIN Append(s, e) /\ Append(s, e)[i] = s[i]
  BY <1>1, AppendProperties, LenProperties
<1> QED BY <1>2, <1>3

LEMMA SeqGains ==
    ASSUME NEW S, NEW s \in Seq(S), NEW e \in S
    PROVE  \E k \in DOMAIN Append(s, e) : Append(s, e)[k] = e
<1>1. Len(s) + 1 \in DOMAIN Append(s, e) /\ Append(s, e)[Len(s) + 1] = e
  BY AppendProperties, LenProperties
<1> QED BY <1>1

InCmds(g) == \E i \in DOMAIN cmds : cmds[i].op = "separate" /\ cmds[i].gen = g
InJobs(g) == \E j \in JobId : stage[j] \notin {"none", "done"} /\ Op(j) = "separate" /\ spec[j].gen = g

\* Commands are only taken by the worker.
LEMMA AppSends ==
    ASSUME TypeOK, AppNext
    PROVE  cmds' = cmds \/ \E c \in AnyCommand : cmds' = Append(cmds, c)
<1>1. /\ recipe \in Engine /\ gen + 1 \in Nat /\ batchGen + 1 \in Nat /\ playing \in Track
      /\ pendingTrack \in Track \cup {NoTrack}
  BY DEF TypeOK, AppTypes
<1>2. ASSUME NEW t \in Track, DispatchSeparation(t) PROVE \E c \in AnyCommand : cmds' = Append(cmds, c)
  BY <1>1, <1>2, CommandIntro DEF DispatchSeparation
<1>3. ASSUME NEW r \in Engine, NEW banked, NEW album \in Nat, DispatchBatch(r, banked, album)
      PROVE  \E c \in AnyCommand : cmds' = Append(cmds, c)
  BY <1>1, <1>3, CommandIntro DEF DispatchBatch
<1>4. CASE OnStemsReady \/ OnStemsFailed
  <2>1. MaybeResumeBatch
    BY <1>4 DEF OnStemsReady, OnStemsFailed
  <2>2. CASE HasBatch
    <3>1. batch.recipe \in Engine /\ batch.album \in Nat
      BY <2>2 DEF TypeOK, AppTypes, HasBatch, BatchRecord
    <3>2. DispatchBatch(batch.recipe, batch.banked, batch.album) \/ UNCHANGED cmds
      BY <2>1 DEF MaybeResumeBatch
    <3> QED BY <1>3, <3>1, <3>2
  <2>3. CASE ~HasBatch
    BY <2>1, <2>3 DEF MaybeResumeBatch
  <2> QED BY <2>2, <2>3
<1>5. CASE OnEngineReady
  <2>1. CASE Head(evs).gen # gen
    BY <1>5, <2>1 DEF OnEngineReady
  <2>2. CASE Head(evs).gen = gen /\ pendingTrack # NoTrack
    <3>1. DispatchSeparation(pendingTrack)
      BY <1>5, <2>2 DEF OnEngineReady
    <3> QED BY <1>1, <1>2, <2>2, <3>1
  <2>3. CASE Head(evs).gen = gen /\ pendingTrack = NoTrack
    BY <1>5, <2>3 DEF OnEngineReady
  <2> QED BY <2>1, <2>2, <2>3
<1>6. CASE CancelStemJob \/ AcceptInstall \/ CancelBatch \/ ClearStemCache
  BY <1>1, <1>6, CommandIntro DEF CancelStemJob, AcceptInstall, CancelBatch, ClearStemCache
<1>7. CASE RequestStems
  BY <1>1, <1>2, <1>7 DEF RequestStems
<1>8. CASE StartBatch
  <2>1. DispatchBatch(recipe, 0, batchGen + 1)
    BY <1>8 DEF StartBatch
  <2> QED BY <1>1, <1>3, <2>1
<1>9. CASE \E e \in Engine, evict \in BOOLEAN : UninstallEngine(e, evict)
  BY <1>9, CommandIntro DEF UninstallEngine
<1>10. CASE \/ OnEngineFailed \/ OnBatchDone \/ OnRemoved \/ EventsDone \/ NoKey \/ ExitStems \/ AskConsent
            \/ DeclineInstall \/ (\E r \in Engine : ChangeRecipe(r)) \/ (\E t \in Track : ChangeTrack(t))
  BY <1>10 DEF OnEngineFailed, OnBatchDone, OnRemoved, EventsDone, NoKey, ExitStems, AskConsent,
     DeclineInstall, ChangeRecipe, ChangeTrack
<1> QED BY <1>4, <1>5, <1>6, <1>7, <1>8, <1>9, <1>10 DEF AppNext

\* The App leaves "separating" when the event it waits for arrives, and a new
\* request comes with its command.
LEMMA AppSeparating ==
    ASSUME Inv, AppNext, SeparatingHasJob PROVE SeparatingHasJob'
<1> SUFFICES ASSUME status' = "separating"
             PROVE  (JobUnderWay(gen) \/ JobEvents(gen) \/ gen \in dropped)'
  BY DEF SeparatingHasJob
<1>1. /\ cmds \in Seq(AnyCommand) /\ cmds' \in Seq(AnyCommand) /\ evs \in Seq(Event)
      /\ recipe \in Engine /\ gen + 1 \in Nat /\ playing \in Track
      /\ pendingTrack \in Track \cup {NoTrack}
  BY AppInv DEF Inv, TypeOK, ChannelTypes, AppTypes, AnyCommand
<1>2. UNCHANGED <<spec, stage, dropped>>
  BY AppKeepsJobs DEF jobs, sync
<1>3. InCmds(gen)' \/ InJobs(gen)' \/ JobEvents(gen)' => (JobUnderWay(gen) \/ JobEvents(gen))'
  BY DEF InCmds, InJobs, JobUnderWay
<1>4. ASSUME NEW t \in Track, DispatchSeparation(t) PROVE InCmds(gen)'
  <2>1. gen' = gen + 1 /\ cmds' = Append(cmds, Separate(gen + 1, t, recipe))
    BY <1>4 DEF DispatchSeparation
  <2>2. Separate(gen + 1, t, recipe) \in AnyCommand
    BY <1>1, CommandIntro
  <2>3. PICK k \in DOMAIN cmds' : cmds'[k] = Separate(gen + 1, t, recipe)
    BY <1>1, <2>1, <2>2, SeqGains
  <2>4. cmds'[k].op = "separate" /\ cmds'[k].gen = gen'
    BY <2>1, <2>3 DEF Separate
  <2> QED BY <2>4 DEF InCmds
<1>5. ASSUME status = "separating", gen' = gen,
             \/ evs' = evs
             \/ /\ evs' = Tail(evs)
                /\ Head(evs).ev \in {"ready", "failed"} => Head(evs).gen # gen
      PROVE  (JobUnderWay(gen) \/ JobEvents(gen) \/ gen \in dropped)'
  <2>1. CASE InCmds(gen)
    <3>1. PICK i \in DOMAIN cmds : cmds[i].op = "separate" /\ cmds[i].gen = gen
      BY <2>1 DEF InCmds
    <3>2. cmds' = cmds \/ \E c \in AnyCommand : cmds' = Append(cmds, c)
      BY AppSends DEF Inv
    <3>3. \A c \in AnyCommand : i \in DOMAIN Append(cmds, c) /\ Append(cmds, c)[i] = cmds[i]
      BY <1>1, <3>1, SeqKeeps
    <3>4. i \in DOMAIN cmds' /\ cmds'[i] = cmds[i]
      BY <3>1, <3>2, <3>3
    <3> QED BY <1>3, <1>5, <3>1, <3>4 DEF InCmds
  <2>2. CASE InJobs(gen)
    BY <1>2, <1>3, <1>5, <2>2 DEF InJobs, Op
  <2>3. CASE JobEvents(gen)
    <3>1. PICK i \in DOMAIN evs : evs[i].ev \in {"ready", "failed"} /\ evs[i].gen = gen
      BY <2>3 DEF JobEvents
    <3>2. evs[i] = Head(evs) \/ \E k \in DOMAIN Tail(evs) : Tail(evs)[k] = evs[i]
      BY <1>1, <3>1, SeqKeeps
    <3>3. CASE evs' = evs
      BY <1>3, <1>5, <3>1, <3>3 DEF JobEvents
    <3>4. CASE evs' = Tail(evs) /\ (Head(evs).ev \in {"ready", "failed"} => Head(evs).gen # gen)
      <4>1. \E k \in DOMAIN evs' : evs'[k] = evs[i]
        BY <3>1, <3>2, <3>4
      <4> QED BY <1>5, <3>1, <4>1 DEF JobEvents
    <3> QED BY <1>5, <3>3, <3>4
  <2> QED BY <1>2, <1>5, <2>1, <2>2, <2>3 DEF SeparatingHasJob, JobUnderWay, InCmds, InJobs
<1>6. CASE OnStemsReady
  <2>1. /\ evs' = Tail(evs) /\ gen' = gen /\ Head(evs).ev = "ready"
    BY <1>6 DEF OnStemsReady, HandleEvent
  <2>2. status = "separating" /\ Head(evs).gen # gen
    <3>1. CASE Head(evs).gen = gen /\ status = "separating" /\ playing = Head(evs).track
      BY <1>6, <3>1 DEF OnStemsReady
    <3>2. CASE Head(evs).gen = gen /\ status = "separating" /\ playing # Head(evs).track
      BY <1>6, <3>2 DEF OnStemsReady, Reset
    <3>3. CASE ~(Head(evs).gen = gen /\ status = "separating")
      BY <1>6, <3>3 DEF OnStemsReady
    <3> QED BY <3>1, <3>2, <3>3
  <2> QED BY <1>5, <2>1, <2>2
<1>7. CASE OnStemsFailed
  <2>1. /\ evs' = Tail(evs) /\ gen' = gen
        /\ status = "separating" /\ Head(evs).gen # gen
    BY <1>7 DEF OnStemsFailed, HandleEvent, Reset
  <2> QED BY <1>5, <2>1
<1>8. CASE OnEngineReady
  <2>1. evs' = Tail(evs) /\ Head(evs).ev = "engineReady"
    BY <1>8 DEF OnEngineReady, HandleEvent
  <2>2. CASE Head(evs).gen # gen
    <3>1. gen' = gen /\ status = "separating"
      BY <1>8, <2>2 DEF OnEngineReady
    <3> QED BY <1>5, <2>1, <3>1
  <2>3. CASE Head(evs).gen = gen /\ pendingTrack # NoTrack
    <3>1. DispatchSeparation(pendingTrack)
      BY <1>8, <2>3 DEF OnEngineReady
    <3> QED BY <1>1, <1>3, <1>4, <2>3, <3>1
  <2>4. CASE Head(evs).gen = gen /\ pendingTrack = NoTrack
    BY <1>8, <2>4 DEF OnEngineReady, Reset
  <2> QED BY <2>2, <2>3, <2>4
<1>9. CASE OnEngineFailed
  <2>1. evs' = Tail(evs) /\ gen' = gen /\ status = "separating" /\ Head(evs).ev = "engineFailed"
    BY <1>9 DEF OnEngineFailed, HandleEvent, Reset
  <2> QED BY <1>5, <2>1
<1>10. CASE OnBatchDone \/ OnRemoved
  <2>1. evs' = Tail(evs) /\ gen' = gen /\ status' = status /\ Head(evs).ev \in {"batchDone", "removed"}
    BY <1>10 DEF OnBatchDone, OnRemoved, HandleEvent
  <2> QED BY <1>5, <2>1
<1>11. CASE RequestStems
  <2>1. DispatchSeparation(playing)
    BY <1>11 DEF RequestStems
  <2> QED BY <1>1, <1>3, <1>4, <2>1
<1>12. CASE EventsDone \/ NoKey \/ AskConsent \/ DeclineInstall \/ StartBatch \/ CancelBatch
            \/ (\E r \in Engine : ChangeRecipe(r)) \/ ClearStemCache
            \/ (\E e \in Engine, evict \in BOOLEAN : UninstallEngine(e, evict))
  <2>1. evs' = evs /\ gen' = gen /\ status' = status
    BY <1>12 DEF EventsDone, NoKey, PressKey, AskConsent, DeclineInstall, StartBatch, CancelBatch, ChangeRecipe,
       ClearStemCache, UninstallEngine, app
  <2> QED BY <1>5, <2>1
<1>13. CASE ExitStems \/ CancelStemJob \/ AcceptInstall \/ \E t \in Track : ChangeTrack(t)
  <2>1. status' # "separating"
    BY <1>13 DEF ExitStems, CancelStemJob, AcceptInstall, ChangeTrack, Reset
  <2> QED BY <2>1
<1> QED BY <1>6, <1>7, <1>8, <1>9, <1>10, <1>11, <1>12, <1>13 DEF AppNext

\* The worker makes a job of the command, and the job an event.
LEMMA WorkerSeparating ==
    ASSUME Inv, SeparatingHasJob,
           \/ Dispatch \/ CancelActive \/ StartSync \/ DropCommand \/ EndSync
           \/ \E j \in JobId : JobNext(j)
    PROVE  SeparatingHasJob'
<1>0. WorkerOnly
  BY DEF Dispatch, CancelActive, StartSync, DropCommand, EndSync, JobNext, Acquire, BowOut, EngineMissing, Begin, Install,
     StopBatch, CacheHit, StartEngine, EngineOk, TrackFailed, EngineCancelled, Store, Remove, JobStep
<1> SUFFICES ASSUME status = "separating"
             PROVE  (JobUnderWay(gen) \/ JobEvents(gen) \/ gen \in dropped)'
  BY <1>0 DEF SeparatingHasJob, WorkerOnly, app
<1>1. /\ gen' = gen /\ cmds \in Seq(AnyCommand) /\ evs \in Seq(Event)
      /\ spec \in [JobId -> JobSpec \cup {NoSpec}] /\ stage \in [JobId -> Stage]
  BY <1>0 DEF WorkerOnly, app, Inv, TypeOK, ChannelTypes, JobTypes, AnyCommand
<1>2. InCmds(gen)' \/ InJobs(gen)' \/ JobEvents(gen)' => (JobUnderWay(gen) \/ JobEvents(gen))'
  BY DEF InCmds, InJobs, JobUnderWay
<1>3. InCmds(gen) \/ InJobs(gen) \/ JobEvents(gen) \/ gen \in dropped
  BY DEF SeparatingHasJob, JobUnderWay, InCmds, InJobs
<1>7. CASE gen \in dropped
  <2>1. dropped \subseteq dropped'
    BY DEF Dispatch, CancelActive, StartSync, DropCommand, EndSync, JobNext, Acquire, BowOut,
       EngineMissing, Begin, Install, StopBatch, CacheHit, StartEngine, EngineOk, TrackFailed,
       EngineCancelled, Store, Remove, JobStep, sync
  <2> QED BY <1>1, <1>7, <2>1
<1>8. CASE (StartSync \/ DropCommand \/ EndSync) /\ gen \notin dropped
  <2>1. UNCHANGED <<evs, spec, stage>>
    BY <1>8 DEF StartSync, DropCommand, EndSync, jobs
  <2>2. CASE InCmds(gen)
    <3>1. PICK i \in DOMAIN cmds : cmds[i].op = "separate" /\ cmds[i].gen = gen
      BY <2>2 DEF InCmds
    <3>2. CASE StartSync \/ EndSync
      BY <1>1, <1>2, <2>2, <3>2 DEF StartSync, EndSync, InCmds
    <3>3. CASE DropCommand
      <4>1. cmds[i] = Head(cmds) \/ \E k \in DOMAIN cmds' : cmds'[k] = cmds[i]
        BY <1>1, <3>1, <3>3, SeqKeeps DEF DropCommand
      <4>2. CASE cmds[i] = Head(cmds)
        BY <1>1, <3>1, <3>3, <4>2 DEF DropCommand
      <4> QED BY <1>1, <1>2, <3>1, <4>1, <4>2 DEF InCmds
    <3> QED BY <1>8, <3>2, <3>3
  <2>3. CASE InJobs(gen) \/ JobEvents(gen)
    BY <1>1, <1>2, <2>1, <2>3 DEF InJobs, JobEvents, Op
  <2> QED BY <1>3, <1>8, <2>2, <2>3
<1>4. CASE Dispatch /\ gen \notin dropped
  <2>1. PICK j \in JobId : /\ stage[j] = "none"
                           /\ spec' = [spec EXCEPT ![j] = Head(cmds)]
                           /\ stage' = [stage EXCEPT ![j] = "waiting"]
    BY <1>4 DEF Dispatch
  <2>2. cmds' = Tail(cmds) /\ evs' = evs
    BY <1>4 DEF Dispatch
  <2>3. CASE InCmds(gen)
    <3>1. PICK i \in DOMAIN cmds : cmds[i].op = "separate" /\ cmds[i].gen = gen
      BY <2>3 DEF InCmds
    <3>2. cmds[i] = Head(cmds) \/ \E k \in DOMAIN cmds' : cmds'[k] = cmds[i]
      BY <1>1, <2>2, <3>1, SeqKeeps
    <3>3. CASE cmds[i] = Head(cmds)
      <4>1. spec'[j] = cmds[i] /\ stage'[j] = "waiting"
        BY <1>1, <2>1, <3>3
      <4> QED BY <1>1, <1>2, <3>1, <4>1 DEF InJobs, Op
    <3>4. CASE \E k \in DOMAIN cmds' : cmds'[k] = cmds[i]
      BY <1>1, <1>2, <3>1, <3>4 DEF InCmds
    <3> QED BY <3>2, <3>3, <3>4
  <2>4. CASE InJobs(gen)
    <3>1. PICK k \in JobId : stage[k] \notin {"none", "done"} /\ Op(k) = "separate" /\ spec[k].gen = gen
      BY <2>4 DEF InJobs
    <3>2. k # j /\ stage'[k] = stage[k] /\ spec'[k] = spec[k]
      BY <1>1, <2>1, <3>1
    <3> QED BY <1>1, <1>2, <3>1, <3>2 DEF InJobs, Op
  <2>5. CASE JobEvents(gen)
    BY <1>1, <1>2, <2>2, <2>5 DEF JobEvents
  <2> QED BY <1>3, <1>4, <2>3, <2>4, <2>5
<1>5. CASE CancelActive /\ gen \notin dropped
  <2>1. Head(cmds).op = "cancel" /\ cmds' = Tail(cmds) /\ UNCHANGED <<evs, spec, stage>>
    BY <1>5 DEF CancelActive
  <2>2. CASE InCmds(gen)
    <3>1. PICK i \in DOMAIN cmds : cmds[i].op = "separate" /\ cmds[i].gen = gen
      BY <2>2 DEF InCmds
    <3>2. \E k \in DOMAIN cmds' : cmds'[k] = cmds[i]
      BY <1>1, <2>1, <3>1, SeqKeeps
    <3> QED BY <1>1, <1>2, <3>1, <3>2 DEF InCmds
  <2>3. CASE InJobs(gen) \/ JobEvents(gen)
    BY <1>1, <1>2, <2>1, <2>3 DEF InJobs, JobEvents, Op
  <2> QED BY <1>3, <1>5, <2>2, <2>3
<1>6. ASSUME NEW j \in JobId, JobNext(j), gen \notin dropped
      PROVE  (JobUnderWay(gen) \/ JobEvents(gen) \/ gen \in dropped)'
  <2>1. UNCHANGED <<cmds, spec>>
    BY <1>6 DEF JobNext, Acquire, BowOut, EngineMissing, Begin, Install,
       StopBatch, CacheHit, StartEngine, EngineOk, TrackFailed, EngineCancelled, Store, Remove, JobStep
  <2>2. \/ \E s \in Stage \ {"none", "done"} : stage' = [stage EXCEPT ![j] = s] /\ evs' = evs
        \/ \E e \in Event : /\ stage' = [stage EXCEPT ![j] = "done"] /\ evs' = Append(evs, e)
                            /\ Op(j) = "separate" => e.ev \in {"ready", "failed"} /\ e.gen = spec[j].gen
    <3> DEFINE ends == \E e \in Event : End(j, e) /\ (Op(j) = "separate" => e.ev \in {"ready", "failed"} /\ e.gen = spec[j].gen)
    <3>1. stage[j] # "none" => spec[j] \in JobSpec
      BY JobFacts
    <3>2. /\ \A b \in BOOLEAN : Failed(j, b).ev = "failed" /\ Failed(j, b).gen = spec[j].gen
          /\ Ready(j).ev = "ready" /\ Ready(j).gen = spec[j].gen
      BY DEF Failed, Ready
    <3>3. stage[j] \in {"start", "install", "lookup", "separate", "store"} =>
             /\ \A b \in BOOLEAN : Failed(j, b) \in Event /\ EngineFailed(j, b) \in Event
             /\ \A n \in Nat, b \in BOOLEAN : BatchDone(j, n, b) \in Event
             /\ EngineReady(j) \in Event /\ Removed \in Event
             /\ Op(j) = "separate" => Ready(j) \in Event
             /\ sep[j] \in Nat
      BY <3>1, TerminalType, JobFacts
    <3>4. CASE Acquire(j)
      BY <3>4 DEF Acquire, Stage
    <3>5. CASE BowOut(j)
      <4>1. ends
        BY <3>2, <3>3, <3>5 DEF BowOut, At, Interactive
      <4> QED BY <4>1 DEF End
    <3>6. CASE EngineMissing(j)
      <4>1. ends
        BY <3>2, <3>3, <3>6 DEF EngineMissing, At
      <4> QED BY <4>1 DEF End
    <3>7. CASE Begin(j) \/ EngineOk(j)
      BY <3>7 DEF Begin, EngineOk, Goto, Stage
    <3>8. CASE Install(j)
      <4>1. ends
        BY <3>3, <3>8, JobFacts DEF Install, At
      <4> QED BY <4>1 DEF End
    <3>9. CASE StopBatch(j)
      <4>1. ends
        BY <3>3, <3>9 DEF StopBatch, At
      <4> QED BY <4>1 DEF End
    <3>10. CASE CacheHit(j)
      <4>1. Goto(j, "lookup") \/ (Op(j) # "batch" /\ End(j, Ready(j)))
        <5>1. CASE Op(j) = "batch"
          BY <3>10, <5>1 DEF CacheHit
        <5>2. CASE Op(j) # "batch"
          BY <3>10, <5>2 DEF CacheHit
        <5> QED BY <5>1, <5>2
      <4>2. stage[j] = "lookup" /\ Op(j) \in {"separate", "batch"}
        BY <3>10, AtTrackFacts DEF CacheHit
      <4>3. Goto(j, "lookup") \/ ends
        BY <3>2, <3>3, <4>1, <4>2
      <4> QED BY <4>3 DEF End, Goto, Stage
    <3>11. CASE StartEngine(j)
      BY <3>11 DEF StartEngine, Goto, Stage
    <3>12. CASE TrackFailed(j)
      <4>1. Goto(j, "lookup") \/ ends
        BY <3>2, <3>3, <3>12 DEF TrackFailed, NextTrack
      <4> QED BY <4>1 DEF End, Goto, Stage
    <3>13. CASE EngineCancelled(j)
      <4>1. ends
        BY <3>2, <3>3, <3>13, JobFacts DEF EngineCancelled, At
      <4> QED BY <4>1 DEF End
    <3>14. CASE Store(j)
      <4>1. Goto(j, "lookup") \/ ends
        BY <3>2, <3>3, <3>14, JobFacts DEF Store, NextTrack, At
      <4> QED BY <4>1 DEF End, Goto, Stage
    <3>15. CASE Remove(j)
      <4>1. ends
        BY <3>3, <3>15 DEF Remove, At
      <4> QED BY <4>1 DEF End
    <3> QED BY <1>6, <3>4, <3>5, <3>6, <3>7, <3>8, <3>9, <3>10, <3>11, <3>12, <3>13, <3>14, <3>15 DEF JobNext
  <2>3. CASE InCmds(gen)
    BY <1>1, <1>2, <2>1, <2>3 DEF InCmds
  <2>4. CASE JobEvents(gen)
    <3>1. PICK i \in DOMAIN evs : evs[i].ev \in {"ready", "failed"} /\ evs[i].gen = gen
      BY <2>4 DEF JobEvents
    <3>2. i \in DOMAIN evs' /\ evs'[i] = evs[i]
      BY <1>1, <2>2, <3>1, SeqKeeps
    <3> QED BY <1>1, <1>2, <3>1, <3>2 DEF JobEvents
  <2>5. CASE InJobs(gen)
    <3>1. PICK k \in JobId : stage[k] \notin {"none", "done"} /\ Op(k) = "separate" /\ spec[k].gen = gen
      BY <2>5 DEF InJobs
    <3>2. CASE stage'[k] \notin {"none", "done"}
      BY <1>1, <1>2, <2>1, <3>1, <3>2 DEF InJobs, Op
    <3>3. CASE stage'[k] \in {"none", "done"}
      <4>1. PICK e \in Event : /\ evs' = Append(evs, e) /\ k = j
                               /\ Op(j) = "separate" => e.ev \in {"ready", "failed"} /\ e.gen = spec[j].gen
        BY <1>1, <2>2, <3>1, <3>3
      <4>2. PICK i \in DOMAIN evs' : evs'[i] = e
        BY <1>1, <4>1, SeqGains
      <4> QED BY <1>1, <1>2, <3>1, <4>1, <4>2 DEF JobEvents
    <3> QED BY <3>2, <3>3
  <2> QED BY <1>3, <1>6, <2>3, <2>4, <2>5
<1> QED BY <1>4, <1>5, <1>6, <1>7, <1>8

\* While the player shows "separating", the command, the job or the terminal event
\* the App waits for exists, or the command was thrown away by a sync: what
\* supersedes, cancels or fails a job always says so.
THEOREM SeparatingIsOwned == Spec => []SeparatingHasJob
<1>1. Init => SeparatingHasJob
  BY DEF Init, SeparatingHasJob
<1>2. Inv /\ SeparatingHasJob /\ [Next]_vars => SeparatingHasJob'
  <2> SUFFICES ASSUME Inv, SeparatingHasJob, [Next]_vars PROVE SeparatingHasJob'
    OBVIOUS
  <2>1. CASE UNCHANGED vars
    BY <2>1 DEF vars, app, jobs, sync, SeparatingHasJob, JobUnderWay, JobEvents, Op
  <2> QED BY <2>1, AppSeparating, WorkerSeparating DEF Next
<1> QED BY <1>1, <1>2, InitInv, NextInv, PTL DEF Spec

=============================================================================
