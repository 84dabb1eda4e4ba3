------------------------- MODULE CommandLoop_proofs ------------------------
(***************************************************************************)
(* Theorems about CommandLoop, for every device and every media setting;   *)
(* and about TagManager, another conversation with the same worker, for    *)
(* all files, releases and names.                                          *)
(***************************************************************************)
EXTENDS CommandLoop, TagManager, SequenceTheorems, FiniteSetTheorems, TLAPS

-----------------------------------------------------------------------------
(* Sequences, commands and events. *)

\* What Head, Tail, Append and \o keep of the type of a sequence.
LEMMA SeqType ==
    ASSUME NEW S, NEW s \in Seq(S)
    PROVE  /\ s # <<>> => Head(s) \in S /\ Tail(s) \in Seq(S)
           /\ \A t \in Seq(S) : s \o t \in Seq(S)
           /\ \A e \in S : Append(s, e) \in Seq(S)
<1>1. s # <<>> => Head(s) \in S /\ Tail(s) \in Seq(S)
  BY HeadTailProperties
<1>2. \A t \in Seq(S) : s \o t \in Seq(S)
  BY ConcatProperties
<1>3. \A e \in S : Append(s, e) \in Seq(S)
  BY AppendProperties
<1> QED BY <1>1, <1>2, <1>3

\* The tracks of an album, in some order.
LEMMA SetToSeqType ==
    ASSUME NEW ts \in SUBSET Track
    PROVE  SetToSeq(ts) \in Seq(Track)
<1>1. IsFiniteSet(ts)
  BY LoopAssumption, FS_Subset
<1>2. Cardinality(ts) \in Nat /\ ExistsBijection(1..Cardinality(ts), ts)
  BY <1>1, FS_CardinalityType
<1>3. PICK f \in [1..Cardinality(ts) -> ts] : IsInjective(f)
  BY <1>2 DEF ExistsBijection, Bijection, Injection
<1>4. SetToSeq(ts) \in [1..Cardinality(ts) -> ts]
  BY <1>3 DEF SetToSeq
<1>5. SetToSeq(ts) \in Seq(ts)
  BY <1>2, <1>4, IsASeq
<1> QED BY <1>5, SeqMonotonic

\* The commands the App can build.
LEMMA CommandIntro ==
    /\ \A op \in Op : Cmd(op) \in Command
    /\ \A op \in Op, ts \in Seq(Track) : OnItems(op, ts) \in Command
BY EmptySeq DEF Command, Cmd, OnItems

\* The pushes of the media configured.
LEMMA AutoSyncType == [i \in DOMAIN AutoSync |-> Cmd(AutoSync[i])] \in Seq(Command)
<1>1. DOMAIN AutoSync = 1..Len(AutoSync) /\ Len(AutoSync) \in Nat
  BY LoopAssumption, LenProperties
<1>2. \A i \in 1..Len(AutoSync) : AutoSync[i] \in Op
  BY LoopAssumption, ElementOfSeq DEF Op
<1>3. [i \in 1..Len(AutoSync) |-> Cmd(AutoSync[i])] \in [1..Len(AutoSync) -> Command]
  BY <1>2, CommandIntro
<1> QED BY <1>1, <1>3, IsASeq

Kind == {"detected", "ready", "failed", "loading", "tracks", "added", "removed",
         "error", "progress", "complete", "cd"}

\* The events the worker can send.
LEMMA EventIntro ==
    /\ \A k \in Kind : Event(k) \in EventRecord
    /\ \A t \in Track : Added(t) \in EventRecord /\ Removed(t) \in EventRecord
    /\ \A ts \in SUBSET Track : Listing(ts) \in EventRecord
BY DEF Kind, Event, Added, Removed, Listing, EventRecord

\* One to three events are a sequence of events.
LEMMA EmitType ==
    ASSUME evs \in Seq(EventRecord),
           NEW e1 \in EventRecord, NEW e2 \in EventRecord, NEW e3 \in EventRecord
    PROVE  /\ Emit(<<e1>>) => evs' \in Seq(EventRecord)
           /\ Emit(<<e1, e2>>) => evs' \in Seq(EventRecord)
           /\ Emit(<<e1, e2, e3>>) => evs' \in Seq(EventRecord)
<1>1. <<e1>> \in Seq(EventRecord) /\ <<e1, e2>> \in Seq(EventRecord)
      /\ <<e1, e2, e3>> \in Seq(EventRecord)
  OBVIOUS
<1> QED BY <1>1, SeqType DEF Emit

-----------------------------------------------------------------------------
(* The inductive invariant: types, what `d` promises, and that the parts of a *)
(* command that work on an item have one.                                     *)

HasWork ==
    /\ pc \in {"removing", "uploading"} => work # <<>>
    /\ pc = "media" => files > 0

Inv == TypeOK /\ DisconnectSticks /\ HasWork

LEMMA InitInv == Init => Inv
<1> SUFFICES ASSUME Init PROVE Inv
  OBVIOUS
<1>1. \A S : <<>> \in Seq(S)
  BY EmptySeq
<1>2. keys \in 0..MaxKeys /\ files \in Nat
  BY LoopAssumption DEF Init
<1>3. TypeOK
  BY <1>1, <1>2, LoopAssumption, Zenon DEF Init, TypeOK
<1>4. DisconnectSticks /\ HasWork
  BY DEF Init, DisconnectSticks, HasWork
<1> QED BY <1>3, <1>4 DEF Inv

\* The handlers of events: each leaves the worker alone, and what it shows
\* depends on `ignore`.
LEMMA EventInv == Inv /\ OnEvent => Inv'
<1> SUFFICES ASSUME Inv, OnEvent PROVE Inv'
  OBVIOUS
<1>1. /\ Head(evs) \in EventRecord /\ evs' \in Seq(EventRecord)
      /\ UNCHANGED <<ignore, marks, phase, keys, cmds, pc, session, work, files, device, lost, doubtful>>
  <2>1. evs \in Seq(EventRecord)
    BY DEF Inv, TypeOK
  <2>2. \E kinds \in SUBSET Kind : HandleEvent(kinds)
    BY DEF OnEvent, OnDeviceDetected, OnSessionReady, OnSessionFailed, OnLoadingTracks,
           OnTracksLoaded, OnTrackAdded, OnTrackRemoved, OnError, OnProgress, OnCdStatus, Kind
  <2>3. /\ evs # <<>> /\ evs' = Tail(evs)
        /\ UNCHANGED <<marks, phase, keys, cmds, pc, session, work, files, device, lost, doubtful>>
    BY <2>2 DEF HandleEvent, history
  <2>4. ignore' = ignore
    BY DEF OnEvent, OnDeviceDetected, OnSessionReady, OnSessionFailed, OnLoadingTracks,
           OnTracksLoaded, OnTrackAdded, OnTrackRemoved, OnError, OnProgress, OnCdStatus
  <2> QED BY <2>1, <2>3, <2>4, SeqType
<1>2. Head(evs).tracks \in SUBSET Track
  BY <1>1 DEF EventRecord
<1>3. /\ status' \in {"disconnected", "detecting", "connecting", "connected"}
      /\ loading' \in BOOLEAN /\ shown' \subseteq Track
      /\ busy' \in BOOLEAN /\ detect' \in BOOLEAN
      /\ pending' \in Seq(Command)
  <2>1. CASE OnSessionReady
    <3>1. pending' = pending \/ pending' = pending \o [i \in DOMAIN AutoSync |-> Cmd(AutoSync[i])]
      BY <2>1 DEF OnSessionReady
    <3>2. pending' \in Seq(Command)
      <4>1. pending \in Seq(Command)
        BY DEF Inv, TypeOK
      <4>2. pending \o [i \in DOMAIN AutoSync |-> Cmd(AutoSync[i])] \in Seq(Command)
        BY <4>1, AutoSyncType, ConcatProperties
      <4> QED BY <3>1, <4>1, <4>2
    <3>3. status' \in {"disconnected", "detecting", "connecting", "connected"}
      BY <2>1 DEF OnSessionReady, Inv, TypeOK
    <3>4. UNCHANGED <<loading, shown, busy, detect>>
      BY <2>1 DEF OnSessionReady
    <3>5. shown' \subseteq Track
      BY <3>4 DEF Inv, TypeOK
    <3>6. loading' \in BOOLEAN /\ busy' \in BOOLEAN /\ detect' \in BOOLEAN
      BY <3>4, Zenon DEF Inv, TypeOK
    <3> QED BY <3>2, <3>3, <3>5, <3>6, Zenon
  <2>2. CASE OnDeviceDetected \/ OnSessionFailed
    BY <2>2 DEF OnDeviceDetected, OnSessionFailed, Inv, TypeOK
  <2>3. CASE OnTracksLoaded \/ OnTrackAdded \/ OnTrackRemoved
    BY <1>2, <2>3 DEF OnTracksLoaded, OnTrackAdded, OnTrackRemoved, Inv, TypeOK
  <2>4. CASE OnLoadingTracks \/ OnError \/ OnProgress \/ OnCdStatus
    BY <2>4 DEF OnLoadingTracks, OnError, OnProgress, OnCdStatus, Inv, TypeOK
  <2> QED BY <2>1, <2>2, <2>3, <2>4 DEF OnEvent
<1>4. TypeOK'
  BY <1>1, <1>3 DEF Inv, TypeOK
<1>5. DisconnectSticks'
  <2> SUFFICES ASSUME ignore PROVE status' = "disconnected" /\ shown' = {} /\ ~loading'
    BY <1>1 DEF DisconnectSticks
  <2>1. status = "disconnected" /\ shown = {} /\ ~loading
    BY DEF Inv, DisconnectSticks
  <2>2. CASE OnDeviceDetected \/ OnSessionReady \/ OnSessionFailed
    <3>1. status' = "disconnected" /\ UNCHANGED <<shown, loading>>
      BY <2>1, <2>2 DEF OnDeviceDetected, OnSessionReady, OnSessionFailed
    <3> QED BY <2>1, <3>1, Zenon
  <2>3. CASE OnTracksLoaded \/ OnTrackAdded \/ OnTrackRemoved
    <3>1. shown' = {}
      BY <2>1, <2>3 DEF OnTracksLoaded, OnTrackAdded, OnTrackRemoved
    <3>2. UNCHANGED <<status, loading>>
      BY <2>3, Zenon DEF OnTracksLoaded, OnTrackAdded, OnTrackRemoved
    <3> QED BY <2>1, <3>1, <3>2, Zenon
  <2>4. CASE OnLoadingTracks
    <3>1. loading' = (loading \/ ~ignore) /\ UNCHANGED <<status, shown>>
      BY <2>4 DEF OnLoadingTracks
    <3> QED BY <2>1, <3>1, Zenon
  <2>5. CASE OnError \/ OnProgress \/ OnCdStatus
    <3>1. UNCHANGED <<status, shown>>
      BY <2>5 DEF OnError, OnProgress, OnCdStatus
    <3>2. loading' => loading
      <4>1. CASE OnError
        BY <4>1, Zenon DEF OnError
      <4>2. CASE OnProgress \/ OnCdStatus
        BY <4>2, Zenon DEF OnProgress, OnCdStatus
      <4> QED BY <2>5, <4>1, <4>2
    <3> QED BY <2>1, <3>1, <3>2, Zenon
  <2> QED BY <2>2, <2>3, <2>4, <2>5 DEF OnEvent
<1>6. HasWork'
  BY <1>1 DEF Inv, HasWork
<1> QED BY <1>4, <1>5, <1>6 DEF Inv

LEMMA FlushInv == Inv /\ FlushPending => Inv'
<1> SUFFICES ASSUME Inv, FlushPending PROVE Inv'
  OBVIOUS
<1>1. PICK due \in BOOLEAN :
         /\ cmds' = cmds \o pending \o (IF due /\ ~detect THEN <<Cmd("detect")>> ELSE <<>>)
         /\ detect' = (detect \/ due)
  BY DEF FlushPending
<1>2. cmds' \in Seq(Command)
  <2>1. <<Cmd("detect")>> \in Seq(Command) /\ <<>> \in Seq(Command)
    BY CommandIntro DEF Op
  <2>2. cmds \o pending \in Seq(Command)
    BY SeqType DEF Inv, TypeOK
  <2> QED BY <1>1, <2>1, <2>2, SeqType
<1>3. pending' = <<>> /\ phase' = "key"
      /\ UNCHANGED <<status, ignore, loading, shown, marks, busy, keys, evs, pc, session,
                     work, files, device, lost, doubtful>>
  BY DEF FlushPending, history
<1>4. detect' \in BOOLEAN
  BY <1>1 DEF Inv, TypeOK
<1> QED BY <1>2, <1>3, <1>4, EmptySeq DEF Inv, TypeOK, DisconnectSticks, HasWork

\* The keys: `d` empties the panel, `c` lifts the promise.
Key ==
    \/ NoKey \/ PressConnect \/ PressDisconnect \/ PressRefresh
    \/ QueueRemoval \/ ConfirmRemoval \/ PressCancel
    \/ \E t \in Track : ExecuteSync(t)

LEMMA KeyInv == Inv /\ Key => Inv'
<1> SUFFICES ASSUME Inv, Key PROVE Inv'
  OBVIOUS
<1>1. /\ UNCHANGED <<busy, detect, pending, evs, pc, session, work, files, device, lost, doubtful>>
      /\ phase' = "events" /\ keys' \in 0..MaxKeys
  <2>1. CASE NoKey
    BY <2>1 DEF NoKey, WorkerSame, history, Inv, TypeOK
  <2>2. CASE ~NoKey
    <3>1. PressKey
      BY <2>2 DEF Key, PressConnect, PressDisconnect, PressRefresh, QueueRemoval,
         ConfirmRemoval, PressCancel, ExecuteSync
    <3> QED BY <3>1, LoopAssumption DEF PressKey, WorkerSame, history, Inv, TypeOK
  <2> QED BY <2>1, <2>2
<1>2. cmds' \in Seq(Command)
  <2>1. \A c \in Command : Append(cmds, c) \in Seq(Command)
    BY SeqType DEF Inv, TypeOK
  <2>2. \A op \in {"connect", "disconnect", "load", "cancel"} : Cmd(op) \in Command
    BY CommandIntro DEF Op
  <2>3. OnItems("remove", marks) \in Command
    BY CommandIntro DEF Op, Inv, TypeOK
  <2>4. ASSUME NEW t \in Track PROVE OnItems("execute", <<t>>) \in Command
    <3>1. <<t>> \in Seq(Track)
      OBVIOUS
    <3> QED BY <3>1, CommandIntro DEF Op
  <2>5. CASE NoKey \/ QueueRemoval
    BY <2>5 DEF NoKey, QueueRemoval, Inv, TypeOK
  <2>6. CASE PressConnect \/ PressDisconnect \/ PressRefresh \/ PressCancel
    BY <2>1, <2>2, <2>6 DEF PressConnect, PressDisconnect, PressRefresh, PressCancel, Send
  <2>7. CASE ConfirmRemoval
    BY <2>1, <2>3, <2>7 DEF ConfirmRemoval, Send
  <2>8. CASE \E t \in Track : ExecuteSync(t)
    BY <2>1, <2>4, <2>8 DEF ExecuteSync, Send
  <2> QED BY <2>5, <2>6, <2>7, <2>8 DEF Key
<1>3. marks' \in Seq(Track)
  <2>1. CASE QueueRemoval
    <3>1. PICK ts \in SUBSET shown : marks' = marks \o SetToSeq(ts \ ToSet(marks))
      BY <2>1 DEF QueueRemoval
    <3>2. ts \ ToSet(marks) \in SUBSET Track
      BY DEF Inv, TypeOK
    <3>3. SetToSeq(ts \ ToSet(marks)) \in Seq(Track)
      BY <3>2, SetToSeqType
    <3> QED BY <3>1, <3>3, SeqType DEF Inv, TypeOK
  <2>2. CASE ~QueueRemoval
    <3>1. marks' = marks \/ marks' = <<>>
      BY <2>2 DEF Key, NoKey, PressConnect, PressDisconnect, PressRefresh,
         ConfirmRemoval, PressCancel, ExecuteSync
    <3> QED BY <3>1, EmptySeq DEF Inv, TypeOK
  <2> QED BY <2>1, <2>2
<1>4. /\ status' \in {"disconnected", "detecting", "connecting", "connected"}
      /\ ignore' \in BOOLEAN /\ loading' \in BOOLEAN /\ shown' \subseteq Track
      /\ DisconnectSticks'
  <2>1. CASE PressConnect
    BY <2>1 DEF PressConnect, Inv, TypeOK, DisconnectSticks
  <2>2. CASE PressDisconnect
    BY <2>2 DEF PressDisconnect, Inv, TypeOK, DisconnectSticks
  <2>3. CASE ~PressConnect /\ ~PressDisconnect
    <3>1. UNCHANGED <<status, ignore, loading, shown>>
      BY <2>3 DEF Key, NoKey, PressRefresh, QueueRemoval, ConfirmRemoval, PressCancel,
         ExecuteSync
    <3> QED BY <3>1 DEF Inv, TypeOK, DisconnectSticks
  <2> QED BY <2>1, <2>2, <2>3
<1>5. TypeOK'
  BY <1>1, <1>2, <1>3, <1>4 DEF Inv, TypeOK
<1> QED BY <1>1, <1>4, <1>5 DEF Inv, HasWork


\* Commands the worker receives between two operations.
Serve ==
    \/ ConnectNothing \/ ConnectDetected \/ Refresh \/ Disconnect \/ IgnoreCancel
    \/ DetectCd \/ RefuseCommand \/ StartRemoval \/ StartMedia \/ StartSync

\* The operations.
Operate ==
    \/ OpenOk \/ OpenFailed \/ List
    \/ RemovalPoll \/ RemoveOne \/ RemovalDone
    \/ MediaPoll \/ SyncDrain \/ SyncOverwrite \/ SyncOne \/ DeviceGone

LEMMA WorkerIsServeOrOperate == WorkerNext => Serve \/ Operate
BY DEF WorkerNext, Serve, Operate

\* Both leave the UI alone.
LEMMA WorkerKeepsUI == Serve \/ Operate => UNCHANGED ui
<1>1. Serve => UNCHANGED ui
  BY DEF Serve, ConnectNothing, ConnectDetected, Refresh, Disconnect, IgnoreCancel,
     DetectCd, RefuseCommand, StartRemoval, StartMedia, StartSync, Receive
<1>2. Operate => UNCHANGED ui
  BY DEF Operate, OpenOk, OpenFailed, List, RemovalPoll, RemoveOne, RemovalDone,
     MediaPoll, SyncDrain, SyncOverwrite, SyncOne, DeviceGone
<1> QED BY <1>1, <1>2

\* The types of what the worker changes.
WorkerTypes ==
    /\ cmds \in Seq(Command) /\ evs \in Seq(EventRecord)
    /\ pc \in {"idle", "opening", "listing", "removal", "removing", "media", "sync", "uploading"}
    /\ session \in BOOLEAN
    /\ work \in Seq(Track) /\ files \in Nat
    /\ device \subseteq Track
    /\ lost \subseteq Op \cup {"ready"} /\ doubtful \subseteq Track
    /\ HasWork

\* It is enough to look at them.
LEMMA WorkerSuffices == Inv /\ UNCHANGED ui /\ WorkerTypes' => Inv'
<1> SUFFICES ASSUME Inv, UNCHANGED ui, WorkerTypes' PROVE Inv'
  OBVIOUS
<1>1. UNCHANGED <<status, ignore, loading, shown, marks, busy, detect, pending, phase, keys>>
  BY DEF ui
<1>2. DisconnectSticks'
  BY <1>1, Zenon DEF Inv, DisconnectSticks
<1>3. /\ status' \in {"disconnected", "detecting", "connecting", "connected"}
      /\ shown' \subseteq Track /\ marks' \in Seq(Track) /\ pending' \in Seq(Command)
      /\ phase' \in {"events", "key"} /\ keys' \in 0..MaxKeys
  BY <1>1, Zenon DEF Inv, TypeOK
<1>4. ignore' \in BOOLEAN /\ loading' \in BOOLEAN /\ busy' \in BOOLEAN /\ detect' \in BOOLEAN
  BY <1>1, Zenon DEF Inv, TypeOK
<1>5. TypeOK'
  BY <1>3, <1>4, Zenon DEF WorkerTypes, TypeOK
<1> QED BY <1>2, <1>5, Zenon DEF Inv, WorkerTypes

\* The types before a step, and what the channel holds.
LEMMA WorkerStart ==
    ASSUME Inv
    PROVE  /\ WorkerTypes
           /\ cmds # <<>> => /\ Head(cmds).op \in Op /\ Head(cmds).items \in Seq(Track)
                             /\ Tail(cmds) \in Seq(Command)
           /\ {cmds[i].op : i \in DOMAIN cmds} \subseteq Op
<1>1. WorkerTypes
  BY Zenon DEF Inv, TypeOK, WorkerTypes
<1>2. cmds # <<>> => Head(cmds) \in Command /\ Tail(cmds) \in Seq(Command)
  BY <1>1, SeqType DEF WorkerTypes
<1>3. {cmds[i].op : i \in DOMAIN cmds} \subseteq Op
  <2>1. \A i \in DOMAIN cmds : cmds[i] \in Command
    BY <1>1, ElementOfSeq, LenProperties DEF WorkerTypes
  <2> QED BY <2>1 DEF Command
<1> QED BY <1>1, <1>2, <1>3 DEF Command

LEMMA ServeInv == Inv /\ Serve => Inv'
<1> SUFFICES ASSUME Inv, Serve PROVE WorkerTypes'
  BY WorkerKeepsUI, WorkerSuffices
<1>1. \E ops \in SUBSET Op : Receive(ops)
  BY DEF Serve, ConnectNothing, ConnectDetected, Refresh, Disconnect, IgnoreCancel,
     DetectCd, RefuseCommand, StartRemoval, StartMedia, StartSync, Op
<1>2. pc = "idle" /\ cmds # <<>> /\ cmds' = Tail(cmds) /\ device' = device
  BY <1>1 DEF Receive
<1>3. cmds' \in Seq(Command) /\ device' \subseteq Track
  BY <1>2, WorkerStart DEF WorkerTypes
<1>4. evs' \in Seq(EventRecord)
  <2>1. evs \in Seq(EventRecord)
    BY WorkerStart DEF WorkerTypes
  <2>2. \/ evs' = evs
        \/ \E k \in Kind : Emit(<<Event(k)>>)
    BY DEF Serve, ConnectNothing, ConnectDetected, Refresh, Disconnect, IgnoreCancel,
       DetectCd, RefuseCommand, StartRemoval, StartMedia, StartSync, Kind
  <2> QED BY <2>1, <2>2, EventIntro, EmitType
<1>5. lost' \subseteq Op \cup {"ready"} /\ doubtful' \subseteq Track
  <2>1. lost' = lost /\ doubtful' = doubtful
    BY DEF history, Serve, ConnectNothing, ConnectDetected, Refresh, Disconnect, IgnoreCancel,
       DetectCd, RefuseCommand, StartRemoval, StartMedia, StartSync
  <2> QED BY <2>1, WorkerStart DEF WorkerTypes
<1>6. session' \in BOOLEAN
  <2>1. session' = session \/ session' = FALSE
    BY DEF Serve, ConnectNothing, ConnectDetected, Refresh, Disconnect, IgnoreCancel,
       DetectCd, RefuseCommand, StartRemoval, StartMedia, StartSync
  <2> QED BY <2>1, WorkerStart DEF WorkerTypes
<1>7. work' \in Seq(Track)
  <2>1. work' = work \/ work' = Head(cmds).items
    BY DEF Serve, ConnectNothing, ConnectDetected, Refresh, Disconnect, IgnoreCancel,
       DetectCd, RefuseCommand, StartRemoval, StartMedia, StartSync
  <2> QED BY <1>2, <2>1, WorkerStart DEF WorkerTypes
<1>8. /\ files' \in Nat
      /\ pc' \in {"idle", "opening", "listing", "removal", "media", "sync"}
      /\ pc' = "media" => files' > 0
  <2>1. CASE StartMedia
    BY <1>2, <2>1, LoopAssumption, WorkerStart DEF StartMedia, WorkerTypes
  <2>2. CASE ~StartMedia
    <3>1. files' = files /\ pc' \in {pc, "opening", "listing", "removal", "sync"}
      BY <2>2 DEF Serve, ConnectNothing, ConnectDetected, Refresh, Disconnect, IgnoreCancel,
         DetectCd, RefuseCommand, StartRemoval, StartSync
    <3> QED BY <1>2, <3>1, WorkerStart DEF WorkerTypes
  <2> QED BY <2>1, <2>2
<1>9. HasWork'
  BY <1>8 DEF HasWork
<1> QED BY <1>3, <1>4, <1>5, <1>6, <1>7, <1>8, <1>9 DEF WorkerTypes

\* A poll takes at most one command.
LEMMA TakeOneType ==
    ASSUME Inv, TakeOne
    PROVE  cmds' \in Seq(Command) /\ lost' \subseteq Op \cup {"ready"} /\ doubtful' = doubtful
<1>1. CASE cmds = <<>>
  BY <1>1, WorkerStart DEF TakeOne, WorkerTypes
<1>2. CASE cmds # <<>>
  BY <1>2, WorkerStart DEF TakeOne, WorkerTypes
<1> QED BY <1>1, <1>2

LEMMA OperateInv == Inv /\ Operate => Inv'
<1> SUFFICES ASSUME Inv, Operate PROVE WorkerTypes'
  BY WorkerKeepsUI, WorkerSuffices
<1>0. /\ WorkerTypes /\ HasWork
      /\ evs \in Seq(EventRecord) /\ work \in Seq(Track) /\ device \subseteq Track
  BY WorkerStart DEF WorkerTypes
<1>2. \A k \in Kind : Event(k) \in EventRecord
  BY EventIntro
<1>3. work # <<>> => Head(work) \in Track /\ Tail(work) \in Seq(Track)
  BY <1>0, SeqType
<1>4. <<>> \in Seq(Track)
  BY EmptySeq
<1>5. CASE OpenOk
  <2>1. evs' \in Seq(EventRecord)
    <3>1. \/ Emit(<<Event("detected"), Event("ready"), Event("loading")>>)
          \/ Emit(<<Event("ready"), Event("loading")>>)
          \/ Emit(<<Event("loading")>>)
      BY <1>5 DEF OpenOk
    <3> QED BY <1>0, <1>2, <3>1, EmitType DEF Kind
  <2>2. lost' \subseteq Op \cup {"ready"}
    BY <1>0, <1>5 DEF OpenOk, WorkerTypes
  <2>3. /\ UNCHANGED <<cmds, work, files, device>> /\ session' = TRUE /\ pc' = "listing" /\ doubtful' = doubtful
    BY <1>5 DEF OpenOk
  <2> QED BY <1>0, <2>1, <2>2, <2>3 DEF WorkerTypes, HasWork
<1>6. CASE OpenFailed \/ List \/ RemovalDone
  <2>1. evs' \in Seq(EventRecord)
    <3>1. \/ \E k \in Kind : Emit(<<Event(k)>>)
          \/ Emit(<<Listing(device)>>)
      BY <1>6 DEF OpenFailed, List, RemovalDone, OpenFailedEvents, ListFailedEvents, Kind
    <3> QED BY <1>0, <1>2, <3>1, EventIntro, EmitType
  <2>2. UNCHANGED <<cmds, session, work, files, device, lost>> /\ pc' = "idle" /\ doubtful' \subseteq doubtful
    BY <1>6 DEF OpenFailed, List, RemovalDone, history
  <2> QED BY <1>0, <2>1, <2>2 DEF WorkerTypes, HasWork
<1>7. CASE RemovalPoll
  <2>1. cmds' \in Seq(Command) /\ lost' \subseteq Op \cup {"ready"} /\ doubtful' = doubtful
    BY <1>7, TakeOneType DEF RemovalPoll
  <2>2. /\ \E k \in Kind : Emit(<<Event(k)>>)
        /\ work # <<>> /\ work' \in {work, <<>>} /\ pc' \in {"idle", "removing"}
        /\ pc' = "removing" => work' = work
        /\ UNCHANGED <<session, files, device>>
    BY <1>7 DEF RemovalPoll, Kind
  <2>3. evs' \in Seq(EventRecord)
    BY <1>0, <1>2, <2>2, EmitType
  <2> QED BY <1>0, <1>4, <2>1, <2>2, <2>3 DEF WorkerTypes, HasWork
<1>8. CASE RemoveOne \/ SyncOne
  <2>1. Head(work) \in Track /\ Tail(work) \in Seq(Track)
    BY <1>0, <1>3, <1>8 DEF RemoveOne, SyncOne, HasWork
  <2>2. /\ evs' = evs \/ Emit(<<Removed(Head(work))>>) \/ Emit(<<Added(Head(work))>>)
        /\ device' \subseteq device \cup {Head(work)}
        /\ work' = Tail(work) /\ pc' \in {"removal", "sync"}
        /\ doubtful' \subseteq doubtful \cup {Head(work)}
        /\ UNCHANGED <<cmds, session, files, lost>>
    BY <1>8 DEF RemoveOne, SyncOne, TryRemove, FailToRemove, FailToUpload, history
  <2>3. evs' \in Seq(EventRecord)
    BY <1>0, <2>1, <2>2, EventIntro, EmitType
  <2> QED BY <1>0, <2>1, <2>2, <2>3 DEF WorkerTypes, HasWork
<1>9. CASE MediaPoll
  <2>1. cmds' \in Seq(Command) /\ lost' \subseteq Op \cup {"ready"} /\ doubtful' = doubtful
    BY <1>9, TakeOneType DEF MediaPoll
  <2>2. files \in Nat /\ files > 0
    BY <1>0, <1>9 DEF MediaPoll, HasWork, WorkerTypes
  <2>3. files' \in Nat /\ pc' \in {"idle", "media"} /\ (pc' = "media" => files' > 0)
    BY <1>9, <2>2 DEF MediaPoll
  <2>4. UNCHANGED <<evs, session, work, device>>
    BY <1>9 DEF MediaPoll
  <2> QED BY <1>0, <2>1, <2>3, <2>4 DEF WorkerTypes, HasWork
<1>10. CASE SyncDrain
  <2>1. lost' \subseteq Op \cup {"ready"}
    <3>1. lost' = lost \cup ({cmds[i].op : i \in DOMAIN cmds} \ {"cancel"})
      BY <1>10 DEF SyncDrain
    <3> QED BY <1>0, <3>1, WorkerStart DEF WorkerTypes
  <2>2. /\ \E k \in Kind : Emit(<<Event(k)>>)
        /\ cmds' = <<>> /\ work' \in {work, <<>>} /\ pc' \in {"idle", "uploading"}
        /\ pc' = "uploading" => work' = work /\ work # <<>>
        /\ UNCHANGED <<session, files, device, doubtful>>
    BY <1>10 DEF SyncDrain, Kind
  <2>3. evs' \in Seq(EventRecord) /\ cmds' \in Seq(Command)
    BY <1>0, <1>2, <2>2, EmitType, EmptySeq
  <2> QED BY <1>0, <1>4, <2>1, <2>2, <2>3 DEF WorkerTypes, HasWork
<1>11. CASE SyncOverwrite
  <2>1. Head(work) \in Track
    BY <1>0, <1>3, <1>11 DEF SyncOverwrite, HasWork
  <2>2. evs' \in Seq(EventRecord)
    BY <1>0, <1>11, <2>1, EventIntro, EmitType DEF SyncOverwrite, TryRemove
  <2>3. /\ device' \subseteq device /\ doubtful' \subseteq doubtful \cup {Head(work)}
        /\ UNCHANGED <<cmds, pc, session, work, files, lost>>
    BY <1>11 DEF SyncOverwrite, TryRemove, FailToRemove
  <2> QED BY <1>0, <2>1, <2>2, <2>3 DEF WorkerTypes, HasWork
<1>12. CASE DeviceGone
  <2>1. evs' \in Seq(EventRecord)
    BY <1>0, <1>2, <1>12, EmitType DEF DeviceGone, GoneEvents, Kind
  <2>2. /\ session' = FALSE /\ pc' = "idle" /\ work' = <<>>
        /\ UNCHANGED <<cmds, files, lost>>
        /\ device' \subseteq device \cup {Head(work)} /\ doubtful' \subseteq doubtful \cup {Head(work)}
    BY <1>12 DEF DeviceGone, FailToRemove, FailToUpload
  <2>3. Head(work) \in Track
    BY <1>0, <1>3, <1>12 DEF DeviceGone, HasWork
  <2> QED BY <1>0, <1>4, <2>1, <2>2, <2>3 DEF WorkerTypes, HasWork
<1> QED BY <1>5, <1>6, <1>7, <1>8, <1>9, <1>10, <1>11, <1>12 DEF Operate

-----------------------------------------------------------------------------
LEMMA NextInv == Inv /\ [Next]_vars => Inv'
<1> SUFFICES ASSUME Inv, [Next]_vars PROVE Inv'
  OBVIOUS
<1>1. CASE UINext
  <2>1. OnEvent \/ FlushPending \/ Key
    BY <1>1 DEF UINext, UILoop, Key
  <2> QED BY <2>1, EventInv, FlushInv, KeyInv
<1>2. CASE WorkerNext
  BY <1>2, WorkerIsServeOrOperate, ServeInv, OperateInv
<1>3. CASE UNCHANGED vars
  <2>1. UNCHANGED ui
    BY <1>3 DEF vars
  <2>2. UNCHANGED <<cmds, evs, pc, session, work, files, device, lost, doubtful>>
    BY <1>3 DEF vars, history
  <2>3. WorkerTypes'
    BY <2>2, WorkerStart DEF WorkerTypes, HasWork
  <2> QED BY <2>1, <2>3, WorkerSuffices
<1> QED BY <1>1, <1>2, <1>3 DEF Next

LEMMA InvHolds == Spec => []Inv
BY InitInv, NextInv, PTL DEF Spec

\* Every variable of the panel, the channels and the worker keeps its type.
THEOREM LoopTypes == Spec => []TypeOK
<1>1. Inv => TypeOK
  BY DEF Inv
<1> QED BY <1>1, InvHolds, PTL

\* After `d` no late event of the session brings the panel back (the comment of
\* ignore_session_events in app.rs), whatever the worker still sends.
THEOREM DisconnectHolds == Spec => []DisconnectSticks
<1>1. Inv => DisconnectSticks
  BY DEF Inv
<1> QED BY <1>1, InvHolds, PTL

-----------------------------------------------------------------------------
(* A panel that shows Connected has a session.  Inductive with three facts: a  *)
(* busy worker has one, a Disconnect under way that no Connect follows was     *)
(* pressed by a user whose panel ignores what the session still sends, and     *)
(* only media pushes wait for the end of the events.                           *)

BusyHasSession == pc \notin {"idle", "opening"} => session

DisconnectIgnores ==
    \A i \in 1..Len(cmds) :
        cmds[i].op = "disconnect" /\ (\A j \in (i + 1)..Len(cmds) : cmds[j].op # "connect")
            => ignore

PendingIsMedia == \A i \in 1..Len(pending) : pending[i].op \in {"photos", "videos"}

\* No command of s is a Connect.
NoConnect(s) == \A i \in 1..Len(s) : s[i].op # "connect"

SessionInv ==
    ConnectedHasSession /\ BusyHasSession /\ DisconnectIgnores /\ PendingIsMedia

LEMMA TailFacts ==
    ASSUME NEW S, NEW s \in Seq(S), s # <<>>
    PROVE  /\ Len(s) \in Nat /\ Len(s) > 0 /\ Len(Tail(s)) = Len(s) - 1
           /\ Head(s) = s[1]
           /\ \A i \in 1..Len(Tail(s)) : Tail(s)[i] = s[i + 1]
BY HeadTailProperties, EmptySeq, LenProperties

LEMMA ConcatFacts ==
    ASSUME NEW S, NEW s \in Seq(S), NEW t \in Seq(S)
    PROVE  /\ Len(s) \in Nat /\ Len(t) \in Nat /\ Len(s \o t) = Len(s) + Len(t)
           /\ \A i \in 1..Len(s) : (s \o t)[i] = s[i]
           /\ \A i \in 1..Len(t) : (s \o t)[Len(s) + i] = t[i]
BY ConcatProperties, LenProperties

\* Taking the first command leaves an ignored Disconnect ignored.
LEMMA DisconnectTail ==
    ASSUME Inv, DisconnectIgnores, cmds # <<>>, cmds' = Tail(cmds), ignore' = ignore
    PROVE  DisconnectIgnores'
<1> SUFFICES ASSUME NEW i \in 1..Len(Tail(cmds)), Tail(cmds)[i].op = "disconnect",
                    \A j \in (i + 1)..Len(Tail(cmds)) : Tail(cmds)[j].op # "connect"
             PROVE  ignore
  BY DEF DisconnectIgnores
<1>1. cmds \in Seq(Command)
  BY DEF Inv, TypeOK
<1>2. /\ Len(cmds) \in Nat /\ Len(Tail(cmds)) = Len(cmds) - 1
      /\ \A k \in 1..Len(Tail(cmds)) : Tail(cmds)[k] = cmds[k + 1]
  BY <1>1, TailFacts
<1>3. i + 1 \in 1..Len(cmds) /\ cmds[i + 1].op = "disconnect"
  BY <1>2
<1>4. ASSUME NEW j \in (i + 2)..Len(cmds) PROVE cmds[j].op # "connect"
  <2>1. j - 1 \in (i + 1)..Len(Tail(cmds)) /\ j - 1 \in 1..Len(Tail(cmds)) /\ (j - 1) + 1 = j
    BY <1>2
  <2> QED BY <1>2, <2>1
<1>5. (i + 1) + 1 = i + 2
  BY <1>2
<1> QED BY <1>3, <1>4, <1>5 DEF DisconnectIgnores

\* Without a Connect in the rest there is none at all, when the first is not one.
LEMMA NoConnectTail ==
    ASSUME Inv, cmds # <<>>, Head(cmds).op # "connect", NoConnect(Tail(cmds))
    PROVE  NoConnect(cmds)
<1>1. cmds \in Seq(Command)
  BY DEF Inv, TypeOK
<1>2. /\ Len(cmds) \in Nat /\ Len(Tail(cmds)) = Len(cmds) - 1 /\ Head(cmds) = cmds[1]
      /\ \A k \in 1..Len(Tail(cmds)) : Tail(cmds)[k] = cmds[k + 1]
  BY <1>1, TailFacts
<1> SUFFICES ASSUME NEW i \in 1..Len(cmds) PROVE cmds[i].op # "connect"
  BY DEF NoConnect
<1>3. CASE i = 1
  BY <1>2, <1>3
<1>4. CASE i # 1
  <2>1. i - 1 \in 1..Len(Tail(cmds)) /\ (i - 1) + 1 = i
    BY <1>2, <1>4
  <2> QED BY <1>2, <2>1 DEF NoConnect
<1> QED BY <1>3, <1>4

\* Sending commands among which is no Connect and no Disconnect.
Harmless == {"load", "remove", "execute", "photos", "videos", "cancel", "detect"}

LEMMA SendHarmless ==
    ASSUME Inv, NEW t \in Seq(Command), cmds' = cmds \o t,
           \A i \in 1..Len(t) : t[i].op \in Harmless
    PROVE  /\ NoConnect(cmds') => NoConnect(cmds)
           /\ DisconnectIgnores /\ ignore' = ignore => DisconnectIgnores'
<1>1. cmds \in Seq(Command)
  BY DEF Inv, TypeOK
<1>2. /\ Len(cmds) \in Nat /\ Len(t) \in Nat /\ Len(cmds') = Len(cmds) + Len(t)
      /\ \A i \in 1..Len(cmds) : cmds'[i] = cmds[i]
      /\ \A i \in 1..Len(t) : cmds'[Len(cmds) + i] = t[i]
  BY <1>1, ConcatFacts
<1>3. NoConnect(cmds') => NoConnect(cmds)
  BY <1>2 DEF NoConnect
<1>4. ASSUME DisconnectIgnores, ignore' = ignore PROVE DisconnectIgnores'
  <2> SUFFICES ASSUME NEW i \in 1..Len(cmds'), cmds'[i].op = "disconnect",
                      \A j \in (i + 1)..Len(cmds') : cmds'[j].op # "connect"
               PROVE  ignore
    BY <1>4 DEF DisconnectIgnores
  <2>1. i \in 1..Len(cmds)
    <3>1. SUFFICES ASSUME i > Len(cmds) PROVE FALSE
      BY <1>2
    <3>2. i - Len(cmds) \in 1..Len(t) /\ Len(cmds) + (i - Len(cmds)) = i
      BY <1>2, <3>1
    <3>3. cmds'[i] = t[i - Len(cmds)]
      BY <1>2, <3>2
    <3> QED BY <3>2, <3>3 DEF Harmless
  <2>2. \A j \in (i + 1)..Len(cmds) : cmds[j].op # "connect"
    BY <1>2, <2>1
  <2>3. cmds[i].op = "disconnect"
    BY <1>2, <2>1
  <2> QED BY <1>4, <2>1, <2>2, <2>3 DEF DisconnectIgnores
<1> QED BY <1>3, <1>4

\* What the panel will show is decided by the status, ignore and the events.
LEMMA SamePanel ==
    UNCHANGED <<status, ignore, evs>> /\ WillBeConnected' => WillBeConnected
BY DEF WillBeConnected, SetsStatus

\* An event that does not set the status, sent by the worker, decides nothing.
LEMMA QuietEvent ==
    ASSUME Inv, NEW k \in Kind \ {"detected", "ready", "failed"}, Emit(<<Event(k)>>),
           UNCHANGED <<status, ignore>>, WillBeConnected'
    PROVE  WillBeConnected
<1>1. evs \in Seq(EventRecord) /\ <<Event(k)>> \in Seq(EventRecord)
  BY EventIntro DEF Inv, TypeOK
<1>2. Len(<<Event(k)>>) = 1 /\ <<Event(k)>>[1] = Event(k)
  OBVIOUS
<1>3. /\ Len(evs) \in Nat /\ Len(evs') = Len(evs) + 1
      /\ \A i \in 1..Len(evs) : evs'[i] = evs[i]
      /\ evs'[Len(evs) + 1] = Event(k)
  <2>1. \A i \in 1..1 : evs'[Len(evs) + i] = Event(k)
    BY <1>1, <1>2, ConcatFacts DEF Emit
  <2> QED BY <1>1, <1>2, <2>1, ConcatFacts DEF Emit
<1>4. evs'[Len(evs) + 1].ev = k
  BY <1>3 DEF Event
<1>5. CASE status = "connected" /\ \A j \in 1..Len(evs') : ~SetsStatus(evs[j])'
  <2>1. \A j \in 1..Len(evs) : ~SetsStatus(evs[j])
    BY <1>3, <1>5 DEF SetsStatus
  <2> QED BY <1>5, <2>1 DEF WillBeConnected
<1>6. ASSUME NEW i \in 1..Len(evs'), evs'[i].ev = "ready", ~ignore,
             \A j \in (i + 1)..Len(evs') : ~SetsStatus(evs[j])'
      PROVE  WillBeConnected
  <2>1. i \in 1..Len(evs) /\ evs[i].ev = "ready"
    BY <1>3, <1>4, <1>6
  <2>2. \A j \in (i + 1)..Len(evs) : ~SetsStatus(evs[j])
    BY <1>3, <1>6, <2>1 DEF SetsStatus
  <2> QED BY <1>6, <2>1, <2>2 DEF WillBeConnected
<1> QED BY <1>5, <1>6 DEF WillBeConnected

\* After a SessionFailed the panel is not going to show Connected.
LEMMA FailedEvent ==
    ASSUME Inv, NEW t \in Seq(EventRecord), evs' = evs \o t,
           Len(t) > 0, t[Len(t)].ev = "failed"
    PROVE  ~WillBeConnected'
<1>1. evs \in Seq(EventRecord)
  BY DEF Inv, TypeOK
<1>2. /\ Len(evs) \in Nat /\ Len(t) \in Nat /\ Len(evs') = Len(evs) + Len(t)
      /\ evs'[Len(evs) + Len(t)] = t[Len(t)]
  BY <1>1, ConcatFacts
<1>3. evs'[Len(evs')].ev = "failed" /\ Len(evs') \in Nat \ {0}
  BY <1>2
<1>4. SetsStatus(evs[Len(evs)])'
  BY <1>3 DEF SetsStatus
<1>5. \A i \in 1..Len(evs') : evs'[i].ev = "ready" => Len(evs') \in (i + 1)..Len(evs')
  BY <1>3
<1>6. ~(\A j \in 1..Len(evs') : ~SetsStatus(evs[j])')
  BY <1>3, <1>4
<1>7. \A i \in 1..Len(evs') :
        evs'[i].ev = "ready" => ~(\A j \in (i + 1)..Len(evs') : ~SetsStatus(evs[j])')
  BY <1>4, <1>5
<1> QED BY <1>6, <1>7 DEF WillBeConnected

LEMMA OneFailedEvent == Inv /\ Emit(<<Event("failed")>>) => ~WillBeConnected'
<1> SUFFICES ASSUME Inv, Emit(<<Event("failed")>>) PROVE ~WillBeConnected'
  OBVIOUS
<1> DEFINE es == <<Event("failed")>>
<1>1. Event("failed") \in EventRecord /\ Event("failed").ev = "failed"
  BY EventIntro DEF Kind, Event
<1>2. es \in Seq(EventRecord) /\ Len(es) = 1 /\ es[1] = Event("failed")
  BY <1>1
<1>3. evs' = evs \o es
  BY DEF Emit
<1>4. Len(es) > 0 /\ es[Len(es)].ev = "failed"
  BY <1>1, <1>2
<1> HIDE DEF es
<1> QED BY <1>2, <1>3, <1>4, FailedEvent

-----------------------------------------------------------------------------
LEMMA InitSession == Init => SessionInv
<1> SUFFICES ASSUME Init PROVE SessionInv
  OBVIOUS
<1>1. Len(<<>>) = 0
  BY EmptySeq
<1>2. cmds = <<>> /\ evs = <<>> /\ pending = <<>> /\ status = "disconnected" /\ pc = "idle"
  BY DEF Init
<1>3. ~WillBeConnected
  BY <1>1, <1>2 DEF WillBeConnected
<1> QED BY <1>1, <1>2, <1>3
        DEF SessionInv, ConnectedHasSession, BusyHasSession, DisconnectIgnores, PendingIsMedia

\* Handling an event does what was announced.
LEMMA EventAnnounced == Inv /\ OnEvent /\ WillBeConnected' => WillBeConnected
<1> SUFFICES ASSUME Inv, OnEvent, WillBeConnected' PROVE WillBeConnected
  OBVIOUS
<1>1. evs # <<>> /\ evs' = Tail(evs) /\ evs \in Seq(EventRecord)
  <2>1. \E kinds \in SUBSET Kind : HandleEvent(kinds)
    BY DEF OnEvent, OnDeviceDetected, OnSessionReady, OnSessionFailed, OnLoadingTracks,
           OnTracksLoaded, OnTrackAdded, OnTrackRemoved, OnError, OnProgress, OnCdStatus, Kind
  <2> QED BY <2>1 DEF HandleEvent, Inv, TypeOK
<1>2. ignore' = ignore
  BY DEF OnEvent, OnDeviceDetected, OnSessionReady, OnSessionFailed, OnLoadingTracks,
         OnTracksLoaded, OnTrackAdded, OnTrackRemoved, OnError, OnProgress, OnCdStatus
<1>3. /\ Len(evs) \in Nat /\ Len(evs) > 0 /\ Len(evs') = Len(evs) - 1 /\ Head(evs) = evs[1]
      /\ \A i \in 1..Len(evs') : evs'[i] = evs[i + 1]
  BY <1>1, TailFacts
<1>4. ASSUME NEW i \in 0..Len(evs'), \A j \in (i + 1)..Len(evs') : ~SetsStatus(evs[j])'
      PROVE  \A j \in (i + 2)..Len(evs) : ~SetsStatus(evs[j])
  <2> SUFFICES ASSUME NEW j \in (i + 2)..Len(evs) PROVE ~SetsStatus(evs[j])
    OBVIOUS
  <2>1. j - 1 \in (i + 1)..Len(evs') /\ j - 1 \in 1..Len(evs') /\ (j - 1) + 1 = j
    BY <1>3
  <2>2. evs'[j - 1] = evs[j]
    BY <1>3, <2>1
  <2>3. ~SetsStatus(evs[j - 1])'
    BY <1>4, <2>1
  <2> QED BY <1>2, <2>2, <2>3 DEF SetsStatus
<1>5. CASE status' = "connected" /\ \A j \in 1..Len(evs') : ~SetsStatus(evs[j])'
  <2>1. \A j \in 2..Len(evs) : ~SetsStatus(evs[j])
    <3>1. 0 \in 0..Len(evs') /\ 0 + 1 = 1 /\ 0 + 2 = 2
      BY <1>3
    <3> QED BY <1>4, <1>5, <3>1
  <2>2. \/ evs[1].ev = "ready" /\ ~ignore
        \/ status = "connected" /\ ~SetsStatus(evs[1])
    BY <1>3, <1>5 DEF OnEvent, OnDeviceDetected, OnSessionReady, OnSessionFailed,
       OnLoadingTracks, OnTracksLoaded, OnTrackAdded, OnTrackRemoved, OnError, OnProgress,
       OnCdStatus, HandleEvent, SetsStatus
  <2>3. 1 \in 1..Len(evs) /\ 1 + 1 = 2
    BY <1>3
  <2>4. CASE evs[1].ev = "ready" /\ ~ignore
    BY <2>1, <2>3, <2>4 DEF WillBeConnected
  <2>5. CASE status = "connected" /\ ~SetsStatus(evs[1])
    <3>1. \A j \in 1..Len(evs) : j = 1 \/ j \in 2..Len(evs)
      BY <1>3
    <3>2. \A j \in 1..Len(evs) : ~SetsStatus(evs[j])
      BY <2>1, <2>5, <3>1
    <3> QED BY <2>5, <3>2 DEF WillBeConnected
  <2> QED BY <2>2, <2>4, <2>5
<1>6. ASSUME NEW i \in 1..Len(evs'), evs'[i].ev = "ready", ~ignore',
             \A j \in (i + 1)..Len(evs') : ~SetsStatus(evs[j])'
      PROVE  WillBeConnected
  <2>1. i + 1 \in 1..Len(evs) /\ evs[i + 1].ev = "ready" /\ ~ignore
    BY <1>2, <1>3, <1>6
  <2>2. \A j \in (i + 2)..Len(evs) : ~SetsStatus(evs[j])
    <3>1. i \in 0..Len(evs')
      BY <1>3
    <3> QED BY <1>4, <1>6, <3>1
  <2>3. (i + 1) + 1 = i + 2
    BY <1>3
  <2> QED BY <2>1, <2>2, <2>3 DEF WillBeConnected
<1> QED BY <1>5, <1>6 DEF WillBeConnected

LEMMA EventSession == Inv /\ SessionInv /\ OnEvent => SessionInv'
<1> SUFFICES ASSUME Inv, SessionInv, OnEvent PROVE SessionInv'
  OBVIOUS
<1>1. UNCHANGED <<ignore, cmds, pc, session>>
  <2>1. \E kinds \in SUBSET Kind : HandleEvent(kinds)
    BY DEF OnEvent, OnDeviceDetected, OnSessionReady, OnSessionFailed, OnLoadingTracks,
           OnTracksLoaded, OnTrackAdded, OnTrackRemoved, OnError, OnProgress, OnCdStatus, Kind
  <2>2. ignore' = ignore
    BY DEF OnEvent, OnDeviceDetected, OnSessionReady, OnSessionFailed, OnLoadingTracks,
           OnTracksLoaded, OnTrackAdded, OnTrackRemoved, OnError, OnProgress, OnCdStatus
  <2> QED BY <2>1, <2>2 DEF HandleEvent
<1>2. ConnectedHasSession'
  BY <1>1, EventAnnounced DEF SessionInv, ConnectedHasSession
<1>3. BusyHasSession' /\ DisconnectIgnores'
  BY <1>1 DEF SessionInv, BusyHasSession, DisconnectIgnores
<1>4. PendingIsMedia'
  <2>1. CASE pending' = pending
    BY <2>1 DEF SessionInv, PendingIsMedia
  <2>2. CASE pending' # pending
    <3>1. pending' = pending \o [i \in DOMAIN AutoSync |-> Cmd(AutoSync[i])]
      BY <2>2 DEF OnEvent, OnDeviceDetected, OnSessionReady, OnSessionFailed,
         OnLoadingTracks, OnTracksLoaded, OnTrackAdded, OnTrackRemoved, OnError,
         OnProgress, OnCdStatus
    <3> DEFINE pushes == [i \in DOMAIN AutoSync |-> Cmd(AutoSync[i])]
    <3>2. pending \in Seq(Command) /\ pushes \in Seq(Command)
      BY AutoSyncType DEF Inv, TypeOK
    <3>3. DOMAIN AutoSync = 1..Len(AutoSync) /\ Len(AutoSync) \in Nat
      BY LoopAssumption, LenProperties
    <3>4. \A i \in 1..Len(AutoSync) : AutoSync[i] \in {"photos", "videos"}
      BY LoopAssumption, ElementOfSeq
    <3>5. DOMAIN pushes = 1..Len(pushes) /\ Len(pushes) \in Nat
      BY <3>2, LenProperties
    <3>6. \A i \in 1..Len(pushes) : pushes[i].op \in {"photos", "videos"}
      BY <3>3, <3>4, <3>5 DEF Cmd
    <3> HIDE DEF pushes
    <3>7. /\ Len(pending) \in Nat /\ Len(pushes) \in Nat
          /\ Len(pending') = Len(pending) + Len(pushes)
          /\ \A i \in 1..Len(pending) : pending'[i] = pending[i]
          /\ \A i \in 1..Len(pushes) : pending'[Len(pending) + i] = pushes[i]
      BY <3>1, <3>2, ConcatFacts DEF pushes
    <3> SUFFICES ASSUME NEW i \in 1..Len(pending')
                 PROVE  pending'[i].op \in {"photos", "videos"}
      BY DEF PendingIsMedia
    <3>8. CASE i \in 1..Len(pending)
      BY <3>7, <3>8 DEF SessionInv, PendingIsMedia
    <3>9. CASE i \notin 1..Len(pending)
      <4>1. i - Len(pending) \in 1..Len(pushes) /\ Len(pending) + (i - Len(pending)) = i
        BY <3>7, <3>9
      <4>2. pending'[i] = pushes[i - Len(pending)]
        BY <3>7, <4>1
      <4> QED BY <3>6, <4>1, <4>2
    <3> QED BY <3>8, <3>9
  <2> QED BY <2>1, <2>2
<1> QED BY <1>2, <1>3, <1>4 DEF SessionInv

\* Steps of the UI that send harmless commands.
LEMMA SendSession ==
    ASSUME Inv, SessionInv, NEW t \in Seq(Command), cmds' = cmds \o t,
           \A i \in 1..Len(t) : t[i].op \in Harmless,
           UNCHANGED <<status, ignore, evs, pc, session>>
    PROVE  ConnectedHasSession' /\ BusyHasSession' /\ DisconnectIgnores'
<1>1. NoConnect(cmds') => NoConnect(cmds)
  BY SendHarmless
<1>2. DisconnectIgnores'
  BY SendHarmless DEF SessionInv
<1>3. WillBeConnected' => WillBeConnected
  BY SamePanel
<1>4. ConnectedHasSession'
  BY <1>1, <1>3 DEF SessionInv, ConnectedHasSession, NoConnect
<1> QED BY <1>2, <1>4 DEF SessionInv, BusyHasSession

LEMMA FlushSession == Inv /\ SessionInv /\ FlushPending => SessionInv'
<1> SUFFICES ASSUME Inv, SessionInv, FlushPending PROVE SessionInv'
  OBVIOUS
<1>1. PICK due \in BOOLEAN :
         cmds' = cmds \o pending \o (IF due /\ ~detect THEN <<Cmd("detect")>> ELSE <<>>)
  BY DEF FlushPending
<1>2. PICK d \in Seq(Command) :
         /\ cmds' = (cmds \o pending) \o d
         /\ \A i \in 1..Len(d) : d[i].op = "detect"
  <2>1. CASE due /\ ~detect
    <3>1. <<Cmd("detect")>> \in Seq(Command)
      BY CommandIntro DEF Op
    <3>2. \A i \in 1..Len(<<Cmd("detect")>>) : <<Cmd("detect")>>[i].op = "detect"
      BY DEF Cmd
    <3>3. cmds' = (cmds \o pending) \o <<Cmd("detect")>>
      BY <1>1, <2>1
    <3> QED BY <3>1, <3>2, <3>3, Zenon
  <2>2. CASE ~(due /\ ~detect)
    <3>1. cmds' = (cmds \o pending) \o <<>>
      BY <1>1, <2>2
    <3>2. <<>> \in Seq(Command) /\ \A i \in 1..Len(<<>>) : <<>>[i].op = "detect"
      BY EmptySeq
    <3> QED BY <3>1, <3>2, Zenon
  <2> QED BY <2>1, <2>2
<1>3. cmds \in Seq(Command) /\ pending \in Seq(Command)
  BY DEF Inv, TypeOK
<1>4. cmds' = cmds \o (pending \o d) /\ pending \o d \in Seq(Command)
  <2>1. d \in Seq(Command) /\ cmds' = (cmds \o pending) \o d
    BY <1>2
  <2>2. (cmds \o pending) \o d = cmds \o (pending \o d)
    BY <1>3, <2>1, ConcatAssociative
  <2>3. pending \o d \in Seq(Command)
    BY <1>3, <2>1, ConcatProperties
  <2> QED BY <2>1, <2>2, <2>3
<1>5. \A i \in 1..Len(pending \o d) : (pending \o d)[i].op \in Harmless
  <2>1. /\ Len(pending) \in Nat /\ Len(d) \in Nat
        /\ Len(pending \o d) = Len(pending) + Len(d)
        /\ \A i \in 1..Len(pending) : (pending \o d)[i] = pending[i]
        /\ \A i \in 1..Len(d) : (pending \o d)[Len(pending) + i] = d[i]
    BY <1>2, <1>3, ConcatFacts
  <2> SUFFICES ASSUME NEW i \in 1..Len(pending \o d)
               PROVE  (pending \o d)[i].op \in Harmless
    OBVIOUS
  <2>2. CASE i \in 1..Len(pending)
    BY <2>1, <2>2 DEF SessionInv, PendingIsMedia, Harmless
  <2>3. CASE i \notin 1..Len(pending)
    <3>1. i - Len(pending) \in 1..Len(d) /\ Len(pending) + (i - Len(pending)) = i
      BY <2>1, <2>3
    <3>2. (pending \o d)[i] = d[i - Len(pending)]
      BY <2>1, <3>1
    <3> QED BY <1>2, <3>1, <3>2 DEF Harmless
  <2> QED BY <2>2, <2>3
<1>6. UNCHANGED <<status, ignore, evs, pc, session>> /\ pending' = <<>>
  BY DEF FlushPending
<1>7. PendingIsMedia'
  BY <1>6, EmptySeq DEF PendingIsMedia
<1> QED BY <1>4, <1>5, <1>6, <1>7, SendSession DEF SessionInv

LEMMA KeySession == Inv /\ SessionInv /\ Key => SessionInv'
<1> SUFFICES ASSUME Inv, SessionInv, Key PROVE SessionInv'
  OBVIOUS
<1>1. UNCHANGED <<pending, evs, pc, session>>
  BY DEF Key, NoKey, PressConnect, PressDisconnect, PressRefresh, QueueRemoval,
     ConfirmRemoval, PressCancel, ExecuteSync, PressKey, WorkerSame
<1>2. PendingIsMedia' /\ BusyHasSession'
  BY <1>1 DEF SessionInv, PendingIsMedia, BusyHasSession
<1>3. cmds \in Seq(Command)
  BY DEF Inv, TypeOK
<1>4. CASE PressConnect
  <2>1. Cmd("connect") \in Command /\ Cmd("connect").op = "connect"
    BY CommandIntro DEF Op, Cmd
  <2>2. cmds' = Append(cmds, Cmd("connect"))
    BY <1>4 DEF PressConnect, Send
  <2>3. /\ Len(cmds) \in Nat /\ Len(cmds') = Len(cmds) + 1
        /\ cmds'[Len(cmds) + 1].op = "connect"
    BY <1>3, <2>1, <2>2, AppendProperties, LenProperties
  <2>4. ConnectedHasSession'
    BY <2>3 DEF ConnectedHasSession
  <2>5. DisconnectIgnores'
    BY <2>3 DEF DisconnectIgnores
  <2> QED BY <1>2, <2>4, <2>5 DEF SessionInv
<1>5. CASE PressDisconnect
  <2>1. ignore' = TRUE /\ status' = "disconnected"
    BY <1>5 DEF PressDisconnect
  <2> QED BY <1>2, <2>1
          DEF SessionInv, ConnectedHasSession, WillBeConnected, DisconnectIgnores
<1>6. CASE ~PressConnect /\ ~PressDisconnect
  <2>1. UNCHANGED <<status, ignore>>
    BY <1>6 DEF Key, NoKey, PressRefresh, QueueRemoval, ConfirmRemoval, PressCancel,
       ExecuteSync
  <2>2. \/ cmds' = cmds
        \/ \E c \in Command : c.op \in Harmless /\ cmds' = Append(cmds, c)
    <3>1. \A op \in {"load", "cancel"} : Cmd(op) \in Command /\ Cmd(op).op \in Harmless
      BY CommandIntro DEF Op, Cmd, Harmless
    <3>2. OnItems("remove", marks) \in Command /\ OnItems("remove", marks).op \in Harmless
      BY CommandIntro DEF Op, OnItems, Harmless, Inv, TypeOK
    <3>3. ASSUME NEW tk \in Track
          PROVE  /\ OnItems("execute", <<tk>>) \in Command
                 /\ OnItems("execute", <<tk>>).op \in Harmless
      <4>1. <<tk>> \in Seq(Track)
        OBVIOUS
      <4> QED BY <4>1, CommandIntro DEF Op, OnItems, Harmless
    <3>4. CASE NoKey \/ QueueRemoval
      BY <3>4 DEF NoKey, QueueRemoval
    <3>5. CASE PressRefresh \/ PressCancel
      BY <3>1, <3>5 DEF PressRefresh, PressCancel, Send
    <3>6. CASE ConfirmRemoval
      BY <3>2, <3>6 DEF ConfirmRemoval, Send
    <3>7. CASE \E tk \in Track : ExecuteSync(tk)
      BY <3>3, <3>7 DEF ExecuteSync, Send
    <3> QED BY <1>6, <3>4, <3>5, <3>6, <3>7 DEF Key
  <2>3. CASE cmds' = cmds
    <3>1. <<>> \in Seq(Command) /\ Len(<<>>) = 0 /\ cmds' = cmds \o <<>>
      BY <1>3, <2>3, EmptySeq, ConcatEmptySeq
    <3>2. \A i \in 1..Len(<<>>) : <<>>[i].op \in Harmless
      BY <3>1
    <3> QED BY <1>1, <1>2, <2>1, <3>1, <3>2, SendSession DEF SessionInv
  <2>4. ASSUME NEW c \in Command, c.op \in Harmless, cmds' = Append(cmds, c)
        PROVE  SessionInv'
    <3>1. <<c>> \in Seq(Command) /\ Len(<<c>>) = 1 /\ <<c>>[1] = c
      OBVIOUS
    <3>2. cmds' = cmds \o <<c>>
      BY <1>3, <2>4, AppendIsConcat
    <3>3. \A i \in 1..Len(<<c>>) : <<c>>[i].op \in Harmless
      BY <2>4, <3>1
    <3> QED BY <1>1, <1>2, <2>1, <3>1, <3>2, <3>3, SendSession DEF SessionInv
  <2> QED BY <2>2, <2>3, <2>4
<1> QED BY <1>4, <1>5, <1>6

\* Steps of the worker that keep its session, or have one.
LEMMA KeepSession ==
    ASSUME Inv, SessionInv, UNCHANGED ui, session' = session,
           session \/ pc' \in {"idle", "opening"},
           DisconnectIgnores',
           \/ session
           \/ /\ WillBeConnected' => WillBeConnected
              /\ pc = "idle"
              /\ NoConnect(cmds') => NoConnect(cmds)
    PROVE  SessionInv'
<1>1. PendingIsMedia'
  BY DEF SessionInv, PendingIsMedia, ui
<1>2. BusyHasSession'
  BY Zenon DEF BusyHasSession
<1>3. ConnectedHasSession'
  <2>1. CASE session
    BY <2>1, Zenon DEF ConnectedHasSession
  <2>2. CASE ~session
    <3>1. /\ WillBeConnected' => WillBeConnected
          /\ pc = "idle"
          /\ NoConnect(cmds') => NoConnect(cmds)
      BY <2>2, Zenon
    <3>2. pc # "opening"
      BY <3>1
    <3>3. ~WillBeConnected \/ ~NoConnect(cmds)
      BY <2>2, <3>2, Zenon DEF SessionInv, ConnectedHasSession, NoConnect
    <3>4. ~WillBeConnected' \/ ~NoConnect(cmds')
      BY <3>1, <3>3, Zenon
    <3>5. ConnectedHasSession' <=> (WillBeConnected' /\ (pc # "opening")' /\ NoConnect(cmds') => session')
      BY Zenon DEF ConnectedHasSession, NoConnect
    <3> QED BY <3>4, <3>5, Zenon
  <2> QED BY <2>1, <2>2
<1> QED BY <1>1, <1>2, <1>3 DEF SessionInv

LEMMA ServeSession == Inv /\ SessionInv /\ Serve => SessionInv'
<1> SUFFICES ASSUME Inv, SessionInv, Serve PROVE SessionInv'
  OBVIOUS
<1>1. UNCHANGED ui /\ UNCHANGED <<status, ignore, pending>>
  BY WorkerKeepsUI DEF ui
<1>2. pc = "idle" /\ cmds # <<>> /\ cmds' = Tail(cmds)
  BY DEF Serve, ConnectNothing, ConnectDetected, Refresh, Disconnect, IgnoreCancel,
     DetectCd, RefuseCommand, StartRemoval, StartMedia, StartSync, Receive
<1>3. DisconnectIgnores'
  BY <1>1, <1>2, DisconnectTail DEF SessionInv
<1>4. CASE ConnectNothing
  <2>1. session' = session /\ pc' = "idle" /\ Emit(<<Event("failed")>>)
    BY <1>2, <1>4 DEF ConnectNothing
  <2>4. ~WillBeConnected'
    BY <2>1, OneFailedEvent
  <2> QED BY <1>1, <1>3, <2>1, <2>4
          DEF SessionInv, ConnectedHasSession, BusyHasSession, PendingIsMedia
<1>5. CASE ConnectDetected
  <2>1. pc' = "opening"
    BY <1>5 DEF ConnectDetected
  <2> QED BY <1>1, <1>3, <2>1
          DEF SessionInv, ConnectedHasSession, BusyHasSession, PendingIsMedia
<1>6. CASE Refresh \/ StartRemoval \/ StartMedia \/ StartSync
  <2>1. session /\ session' = session
    BY <1>6 DEF Refresh, StartRemoval, StartMedia, StartSync
  <2> QED BY <1>1, <1>3, <2>1, KeepSession
<1>7. CASE Disconnect
  <2>1. UNCHANGED <<evs, pc>>
    BY <1>7 DEF Disconnect
  <2>2. cmds \in Seq(Command)
    BY DEF Inv, TypeOK
  <2>3. /\ Len(cmds) \in Nat /\ Len(cmds) > 0 /\ Len(cmds') = Len(cmds) - 1
        /\ Head(cmds) = cmds[1]
        /\ \A i \in 1..Len(cmds') : cmds'[i] = cmds[i + 1]
    BY <1>2, <2>2, TailFacts
  <2>4. ASSUME WillBeConnected', NoConnect(cmds') PROVE FALSE
    <3>1. cmds[1].op = "disconnect"
      BY <1>7, <2>3 DEF Disconnect, Receive
    <3>2. ASSUME NEW j \in (1 + 1)..Len(cmds) PROVE cmds[j].op # "connect"
      <4>1. j - 1 \in 1..Len(cmds') /\ (j - 1) + 1 = j
        BY <2>3
      <4> QED BY <2>3, <2>4, <4>1 DEF NoConnect
    <3>3. ignore
      <4>1. 1 \in 1..Len(cmds)
        BY <2>3
      <4> QED BY <3>1, <3>2, <4>1 DEF SessionInv, DisconnectIgnores
    <3>4. status = "disconnected"
      BY <3>3 DEF Inv, DisconnectSticks
    <3> QED BY <1>1, <2>4, <3>3, <3>4 DEF WillBeConnected
  <2> QED BY <1>1, <1>2, <1>3, <2>1, <2>4
          DEF SessionInv, ConnectedHasSession, BusyHasSession, PendingIsMedia, NoConnect
<1>8. CASE IgnoreCancel \/ DetectCd \/ RefuseCommand
  <2>1. UNCHANGED <<pc, session>> /\ Head(cmds).op # "connect"
    BY <1>8 DEF IgnoreCancel, DetectCd, RefuseCommand, Receive
  <2>2. WillBeConnected' => WillBeConnected
    <3>1. CASE IgnoreCancel
      BY <1>1, <3>1, SamePanel DEF IgnoreCancel
    <3>2. CASE DetectCd \/ RefuseCommand
      <4>1. \E k \in Kind \ {"detected", "ready", "failed"} : Emit(<<Event(k)>>)
        BY <3>2 DEF DetectCd, RefuseCommand, Kind
      <4> QED BY <1>1, <4>1, QuietEvent
    <3> QED BY <1>8, <3>1, <3>2
  <2>3. NoConnect(cmds') => NoConnect(cmds)
    BY <1>2, <2>1, NoConnectTail
  <2> QED BY <1>1, <1>2, <1>3, <2>1, <2>2, <2>3, KeepSession
<1> QED BY <1>4, <1>5, <1>6, <1>7, <1>8 DEF Serve

LEMMA OperateSession == Inv /\ SessionInv /\ Operate => SessionInv'
<1> SUFFICES ASSUME Inv, SessionInv, Operate PROVE SessionInv'
  OBVIOUS
<1>1. UNCHANGED ui /\ UNCHANGED <<status, ignore, pending>>
  BY WorkerKeepsUI DEF ui
<1>2. DisconnectIgnores'
  <2>1. CASE cmds' = cmds
    BY <1>1, <2>1 DEF SessionInv, DisconnectIgnores
  <2>2. CASE cmds # <<>> /\ cmds' = Tail(cmds)
    BY <1>1, <2>2, DisconnectTail DEF SessionInv
  <2>3. CASE cmds' = <<>>
    BY <2>3, EmptySeq DEF DisconnectIgnores
  <2>4. cmds' = cmds \/ (cmds # <<>> /\ cmds' = Tail(cmds)) \/ cmds' = <<>>
    BY DEF Operate, OpenOk, OpenFailed, List, RemovalPoll, RemoveOne, RemovalDone,
       MediaPoll, SyncDrain, SyncOverwrite, SyncOne, DeviceGone, TakeOne
  <2> QED BY <2>1, <2>2, <2>3, <2>4
<1>3. CASE OpenOk
  <2>1. session' = TRUE
    BY <1>3 DEF OpenOk
  <2> QED BY <1>1, <1>2, <2>1
          DEF SessionInv, ConnectedHasSession, BusyHasSession, PendingIsMedia
<1>4. CASE OpenFailed
  <2>1. session' = session /\ pc' = "idle" /\ Emit(<<Event("failed")>>)
    BY <1>4 DEF OpenFailed, OpenFailedEvents
  <2>4. ~WillBeConnected'
    BY <2>1, OneFailedEvent
  <2> QED BY <1>1, <1>2, <2>1, <2>4
          DEF SessionInv, ConnectedHasSession, BusyHasSession, PendingIsMedia
<1>5. CASE DeviceGone
  <2>1. pc' = "idle" /\ Emit(<<Event("complete"), Event("failed")>>)
    BY <1>5 DEF DeviceGone, GoneEvents
  <2> DEFINE es == <<Event("complete"), Event("failed")>>
  <2>2. Event("complete") \in EventRecord /\ Event("failed") \in EventRecord
    BY EventIntro DEF Kind
  <2>3. es \in Seq(EventRecord) /\ Len(es) = 2 /\ es[2] = Event("failed")
    BY <2>2
  <2>4. es[Len(es)].ev = "failed" /\ Len(es) > 0
    BY <2>3 DEF Event
  <2>5. evs' = evs \o es
    BY <2>1 DEF Emit
  <2> HIDE DEF es
  <2>6. ~WillBeConnected'
    BY <2>3, <2>4, <2>5, FailedEvent
  <2> QED BY <1>1, <1>2, <2>1, <2>6
          DEF SessionInv, ConnectedHasSession, BusyHasSession, PendingIsMedia
<1>6. CASE \/ List \/ RemovalPoll \/ RemoveOne \/ RemovalDone
           \/ MediaPoll \/ SyncDrain \/ SyncOverwrite \/ SyncOne
  <2>1. pc \in {"listing", "removal", "removing", "media", "sync", "uploading"}
        /\ session' = session
    BY <1>6 DEF List, RemovalPoll, RemoveOne, RemovalDone, MediaPoll, SyncDrain,
       SyncOverwrite, SyncOne
  <2>2. session
    BY <2>1 DEF SessionInv, BusyHasSession
  <2> QED BY <1>1, <1>2, <2>1, <2>2, KeepSession
<1> QED BY <1>3, <1>4, <1>5, <1>6 DEF Operate

LEMMA SessionNext == Inv /\ SessionInv /\ [Next]_vars => SessionInv'
<1> SUFFICES ASSUME Inv, SessionInv, [Next]_vars PROVE SessionInv'
  OBVIOUS
<1>1. CASE UINext
  <2>1. OnEvent \/ FlushPending \/ Key
    BY <1>1 DEF UINext, UILoop, Key
  <2> QED BY <2>1, EventSession, FlushSession, KeySession
<1>2. CASE WorkerNext
  BY <1>2, WorkerIsServeOrOperate, ServeSession, OperateSession
<1>3. CASE UNCHANGED vars
  <2>1. UNCHANGED <<status, ignore, pending, cmds, evs, pc, session>>
    BY <1>3 DEF vars, ui
  <2> QED BY <2>1 DEF SessionInv, ConnectedHasSession, WillBeConnected, SetsStatus,
             BusyHasSession, DisconnectIgnores, PendingIsMedia
<1> QED BY <1>1, <1>2, <1>3 DEF Next

\* A panel that is going to show Connected has a session behind it, whatever the
\* user presses and whatever events of an earlier session are still under way.
THEOREM ConnectedHolds == Spec => []ConnectedHasSession
<1>1. SessionInv => ConnectedHasSession
  BY DEF SessionInv
<1>2. Spec => []SessionInv
  BY InitSession, SessionNext, InvHolds, PTL DEF Spec
<1> QED BY <1>1, <1>2, PTL


-----------------------------------------------------------------------------
(* The panel lists no phantom.  ShownAfter moves with `ignore`: a `c` makes the *)
(* late events of the session before count again.  What is inductive does not  *)
(* look at it: a track the panel has, or any event under way names, and that   *)
(* no later event removes or leaves out of a listing, is on the device or in   *)
(* doubt.                                                                      *)

Names(e, t) == e.ev \in {"tracks", "added"} /\ t \in e.tracks
Drops(e, t) == \/ e.ev = "removed" /\ t \in e.tracks
               \/ e.ev = "tracks" /\ t \notin e.tracks

Told(t) ==
    \E i \in 0..Len(evs) :
        /\ IF i = 0 THEN t \in shown ELSE Names(evs[i], t)
        /\ \A j \in (i + 1)..Len(evs) : ~Drops(evs[j], t)

Present == device \cup doubtful

ToldOnDevice == \A t \in Track : Told(t) => t \in Present

\* A listing the panel ignores takes nothing off it: but then it shows nothing.
LEMMA ToldShown == Inv /\ ToldOnDevice => NoPhantomTrack
<1> SUFFICES ASSUME Inv, ToldOnDevice, NEW t \in ShownAfter PROVE t \in Present
  BY DEF NoPhantomTrack, Present
<1>1. t \in Track /\ ~ignore
  BY DEF ShownAfter, PutsOn, Inv, DisconnectSticks
<1>2. Told(t)
  BY <1>1 DEF ShownAfter, PutsOn, TakesOff, Told, Names, Drops
<1> QED BY <1>1, <1>2 DEF ToldOnDevice

LEMMA InitTold == Inv /\ Init => ToldOnDevice
<1> SUFFICES ASSUME Init PROVE \A t \in Track : ~Told(t)
  BY DEF ToldOnDevice
<1>1. Len(evs) = 0 /\ shown = {}
  BY DEF Init
<1> QED BY <1>1 DEF Told

\* A step of the worker tells the App of every track that is not there any more
\* and not in doubt, and names none that is not there.
LEMMA WorkerTells ==
    ASSUME Inv, ToldOnDevice, NEW es \in Seq(EventRecord), evs' = evs \o es, shown' = shown,
           \A t \in Track, k \in 1..Len(es) : Names(es[k], t) => t \in Present',
           \A t \in Present \ Present' : \E k \in 1..Len(es) : Drops(es[k], t)
    PROVE  ToldOnDevice'
<1> SUFFICES ASSUME NEW t \in Track, Told(t)' PROVE t \in Present'
  BY DEF ToldOnDevice
<1>1. /\ Len(evs) \in Nat /\ Len(es) \in Nat /\ Len(evs') = Len(evs) + Len(es)
      /\ \A i \in 1..Len(evs) : evs'[i] = evs[i]
      /\ \A k \in 1..Len(es) : evs'[Len(evs) + k] = es[k]
  BY ConcatFacts DEF Inv, TypeOK
<1>2. PICK i \in 0..Len(evs') :
         /\ IF i = 0 THEN t \in shown' ELSE Names(evs'[i], t)
         /\ \A j \in (i + 1)..Len(evs') : ~Drops(evs'[j], t)
  BY DEF Told
<1>3. CASE i \in 0..Len(evs)
  <2>1. IF i = 0 THEN t \in shown ELSE Names(evs[i], t)
    BY <1>1, <1>2, <1>3
  <2>2. \A j \in (i + 1)..Len(evs) : ~Drops(evs[j], t)
    BY <1>1, <1>2, <1>3
  <2>3. t \in Present
    BY <1>3, <2>1, <2>2 DEF Told, ToldOnDevice
  <2>4. ASSUME NEW k \in 1..Len(es) PROVE ~Drops(es[k], t)
    <3>1. Len(evs) + k \in (i + 1)..Len(evs')
      BY <1>1, <1>3
    <3> QED BY <1>1, <1>2, <3>1
  <2> QED BY <2>3, <2>4
<1>4. CASE i \notin 0..Len(evs)
  <2>1. i - Len(evs) \in 1..Len(es) /\ Len(evs) + (i - Len(evs)) = i /\ i # 0
    BY <1>1, <1>2, <1>4
  <2>2. Names(es[i - Len(evs)], t)
    BY <1>1, <1>2, <2>1
  <2> QED BY <2>1, <2>2
<1> QED BY <1>3, <1>4

\* Events that are about no track.
Silent == Kind \ {"tracks", "added", "removed"}

LEMMA SilentEvents ==
    \A k \in Silent : \A t : ~Names(Event(k), t) /\ ~Drops(Event(k), t)
BY DEF Silent, Names, Drops, Event

LEMMA WorkerSilent ==
    ASSUME Inv, ToldOnDevice, shown' = shown, Present \subseteq Present',
           \/ evs' = evs
           \/ \E k \in Silent : Emit(<<Event(k)>>)
           \/ \E k \in Silent, l \in Silent : Emit(<<Event(k), Event(l)>>)
           \/ \E k \in Silent, l \in Silent, m \in Silent : Emit(<<Event(k), Event(l), Event(m)>>)
    PROVE  ToldOnDevice'
<1> SUFFICES ASSUME NEW es \in Seq(EventRecord), evs' = evs \o es,
                    \A i \in 1..Len(es) : \E k \in Silent : es[i] = Event(k)
             PROVE  ToldOnDevice'
  <2>1. CASE evs' = evs
    <3>1. <<>> \in Seq(EventRecord) /\ Len(<<>>) = 0 /\ evs' = evs \o <<>>
      BY <2>1, EmptySeq, ConcatEmptySeq DEF Inv, TypeOK
    <3>2. \A i \in 1..Len(<<>>) : \E k \in Silent : <<>>[i] = Event(k)
      BY <3>1
    <3> QED BY <3>1, <3>2
  <2>2. \A k \in Silent : Event(k) \in EventRecord
    BY EventIntro DEF Silent
  <2>3. ASSUME NEW k \in Silent, Emit(<<Event(k)>>) PROVE ToldOnDevice'
    <3> DEFINE s == <<Event(k)>>
    <3>1. s \in Seq(EventRecord) /\ \A i \in 1..Len(s) : \E n \in Silent : s[i] = Event(n)
      BY <2>2
    <3>2. evs' = evs \o s
      BY <2>3 DEF Emit
    <3> HIDE DEF s
    <3> QED BY <3>1, <3>2
  <2>4. ASSUME NEW k \in Silent, NEW l \in Silent, Emit(<<Event(k), Event(l)>>)
        PROVE  ToldOnDevice'
    <3> DEFINE s == <<Event(k), Event(l)>>
    <3>1. s \in Seq(EventRecord) /\ \A i \in 1..Len(s) : \E n \in Silent : s[i] = Event(n)
      BY <2>2
    <3>2. evs' = evs \o s
      BY <2>4 DEF Emit
    <3> HIDE DEF s
    <3> QED BY <3>1, <3>2
  <2>5. ASSUME NEW k \in Silent, NEW l \in Silent, NEW m \in Silent,
               Emit(<<Event(k), Event(l), Event(m)>>)
        PROVE  ToldOnDevice'
    <3> DEFINE s == <<Event(k), Event(l), Event(m)>>
    <3>1. s \in Seq(EventRecord) /\ \A i \in 1..Len(s) : \E n \in Silent : s[i] = Event(n)
      BY <2>2
    <3>2. evs' = evs \o s
      BY <2>5 DEF Emit
    <3> HIDE DEF s
    <3> QED BY <3>1, <3>2
  <2> QED BY <2>1, <2>3, <2>4, <2>5
<1>1. \A t \in Track, i \in 1..Len(es) : ~Names(es[i], t)
  BY SilentEvents
<1> QED BY <1>1, WorkerTells

\* One event about some tracks.
LEMMA WorkerTellsOne ==
    ASSUME Inv, ToldOnDevice, NEW e \in EventRecord, Emit(<<e>>), shown' = shown,
           \A t \in Track : Names(e, t) => t \in Present',
           \A t \in Present \ Present' : Drops(e, t)
    PROVE  ToldOnDevice'
<1> DEFINE s == <<e>>
<1>1. s \in Seq(EventRecord) /\ Len(s) = 1 /\ s[1] = e
  OBVIOUS
<1>2. evs' = evs \o s
  BY DEF Emit
<1> HIDE DEF s
<1>3. /\ \A t \in Track, k \in 1..Len(s) : Names(s[k], t) => t \in Present'
      /\ \A t \in Present \ Present' : \E k \in 1..Len(s) : Drops(s[k], t)
  BY <1>1
<1> QED BY <1>1, <1>2, <1>3, WorkerTells

LEMMA WorkerTold == Inv /\ ToldOnDevice /\ WorkerNext => ToldOnDevice'
<1> SUFFICES ASSUME Inv, ToldOnDevice, WorkerNext PROVE ToldOnDevice'
  OBVIOUS
<1>1. shown' = shown
  BY WorkerIsServeOrOperate, WorkerKeepsUI DEF ui
<1>2. CASE Serve
  <2>1. Present' = Present
    BY <1>2 DEF Serve, ConnectNothing, ConnectDetected, Refresh, Disconnect, IgnoreCancel,
       DetectCd, RefuseCommand, StartRemoval, StartMedia, StartSync, Receive, history, Present
  <2>2. evs' = evs \/ \E k \in Silent : Emit(<<Event(k)>>)
    BY <1>2 DEF Serve, ConnectNothing, ConnectDetected, Refresh, Disconnect, IgnoreCancel,
       DetectCd, RefuseCommand, StartRemoval, StartMedia, StartSync, Silent, Kind
  <2> QED BY <1>1, <2>1, <2>2, WorkerSilent
<1>3. CASE OpenOk \/ OpenFailed \/ RemovalPoll \/ RemovalDone \/ MediaPoll \/ SyncDrain
           \/ DeviceGone
  <2>1. Present \subseteq Present'
    BY <1>3 DEF OpenOk, OpenFailed, RemovalPoll, RemovalDone, MediaPoll, SyncDrain, TakeOne,
       DeviceGone, FailToRemove, FailToUpload, history, Present
  <2>2. {"detected", "ready", "loading", "failed", "complete", "progress"} \subseteq Silent
    BY DEF Silent, Kind
  <2>3. CASE OpenOk
    <3>1. \/ Emit(<<Event("detected"), Event("ready"), Event("loading")>>)
          \/ Emit(<<Event("ready"), Event("loading")>>)
          \/ Emit(<<Event("loading")>>)
      BY <2>3 DEF OpenOk
    <3> QED BY <1>1, <2>1, <2>2, <3>1, WorkerSilent
  <2>4. CASE OpenFailed \/ RemovalPoll \/ RemovalDone \/ MediaPoll \/ SyncDrain
    <3>1. evs' = evs \/ \E k \in {"failed", "complete", "progress"} : Emit(<<Event(k)>>)
      BY <2>4 DEF OpenFailed, OpenFailedEvents, RemovalPoll, RemovalDone, MediaPoll, SyncDrain
    <3> QED BY <1>1, <2>1, <2>2, <3>1, WorkerSilent
  <2>5. CASE DeviceGone
    <3>1. Emit(<<Event("complete"), Event("failed")>>)
      BY <2>5 DEF DeviceGone, GoneEvents
    <3> QED BY <1>1, <2>1, <2>2, <3>1, WorkerSilent
  <2> QED BY <1>3, <2>3, <2>4, <2>5
<1>4. CASE List
  <2>1. device' = device
    BY <1>4 DEF List
  <2>2. CASE Emit(<<Listing(device)>>) /\ doubtful' = {}
    <3>1. Listing(device) \in EventRecord
      BY EventIntro DEF Inv, TypeOK
    <3>2. \A t \in Track : Names(Listing(device), t) => t \in Present'
      BY <2>1 DEF Names, Listing, Present
    <3>3. \A t \in Present \ Present' : Drops(Listing(device), t)
      BY <2>1 DEF Drops, Listing, Present
    <3> QED BY <1>1, <2>2, <3>1, <3>2, <3>3, WorkerTellsOne
  <2>3. CASE Emit(ListFailedEvents) /\ doubtful' = doubtful
    <3>1. Present' = Present
      BY <2>1, <2>3 DEF Present
    <3> QED BY <1>1, <2>3, <3>1, WorkerSilent DEF ListFailedEvents, Silent, Kind
  <2> QED BY <1>4, <2>2, <2>3 DEF List
<1>5. pc \in {"removing", "uploading"} => Head(work) \in Track
  BY SeqType DEF Inv, TypeOK, HasWork
<1>6. ASSUME NEW t \in Track
      PROVE  /\ Removed(t) \in EventRecord /\ Added(t) \in EventRecord
             /\ \A u : ~Names(Removed(t), u) /\ (u = t => Drops(Removed(t), u))
             /\ \A u : Names(Added(t), u) => u = t
  BY EventIntro DEF Removed, Added, Names, Drops
<1>7. CASE RemoveOne \/ SyncOverwrite
  <2>1. pc \in {"removing", "uploading"} /\ TryRemove(Head(work))
    BY <1>7 DEF RemoveOne, SyncOverwrite
  <2>2. CASE FailToRemove(Head(work)) /\ evs' = evs
    <3>1. Present \subseteq Present'
      BY <2>2 DEF FailToRemove, Present
    <3> QED BY <1>1, <2>2, <3>1, WorkerSilent
  <2>3. CASE device' = device \ {Head(work)} /\ Emit(<<Removed(Head(work))>>) /\ doubtful' = doubtful
    <3>1. Present \ Present' \subseteq {Head(work)}
      BY <2>3 DEF Present
    <3> QED BY <1>1, <1>5, <1>6, <2>1, <2>3, <3>1, WorkerTellsOne
  <2> QED BY <2>1, <2>2, <2>3 DEF TryRemove
<1>8. CASE SyncOne
  <2>1. pc \in {"removing", "uploading"} /\ doubtful' = doubtful
    BY <1>8 DEF SyncOne, history
  <2>2. CASE FailToUpload(Head(work)) /\ evs' = evs
    <3>1. Present \subseteq Present'
      BY <2>1, <2>2 DEF FailToUpload, Present
    <3> QED BY <1>1, <2>2, <3>1, WorkerSilent
  <2>3. CASE device' = device \cup {Head(work)} /\ Emit(<<Added(Head(work))>>)
    <3>1. Present \subseteq Present' /\ Head(work) \in Present'
      BY <2>1, <2>3 DEF Present
    <3> QED BY <1>1, <1>5, <1>6, <2>1, <2>3, <3>1, WorkerTellsOne
  <2> QED BY <1>8, <2>2, <2>3 DEF SyncOne
<1> QED BY <1>2, <1>3, <1>4, <1>7, <1>8, WorkerIsServeOrOperate DEF Operate

\* A handler moves what its event says from the queue to the panel.
LEMMA EventTold == Inv /\ ToldOnDevice /\ OnEvent => ToldOnDevice'
<1> SUFFICES ASSUME Inv, ToldOnDevice, OnEvent, NEW t \in Track, Told(t)' PROVE t \in Present'
  BY DEF ToldOnDevice
<1>1. evs # <<>> /\ evs' = Tail(evs) /\ Present' = Present
  BY DEF OnEvent, OnDeviceDetected, OnSessionReady, OnSessionFailed, OnLoadingTracks,
     OnTracksLoaded, OnTrackAdded, OnTrackRemoved, OnError, OnProgress, OnCdStatus, HandleEvent,
     history, Present
<1>2. /\ Len(evs) \in Nat /\ Len(evs) > 0 /\ Len(evs') = Len(evs) - 1 /\ Head(evs) = evs[1]
      /\ \A i \in 1..Len(evs') : evs'[i] = evs[i + 1]
  BY <1>1, TailFacts DEF Inv, TypeOK
<1>3. t \in shown' => Names(Head(evs), t) \/ (t \in shown /\ ~Drops(Head(evs), t))
  <2>1. CASE OnTracksLoaded \/ OnTrackAdded \/ OnTrackRemoved
    BY <2>1 DEF OnTracksLoaded, OnTrackAdded, OnTrackRemoved, HandleEvent, Names, Drops, Inv, DisconnectSticks
  <2>2. CASE ~(OnTracksLoaded \/ OnTrackAdded \/ OnTrackRemoved)
    BY <2>2 DEF OnEvent, OnDeviceDetected, OnSessionReady, OnSessionFailed, OnLoadingTracks,
       OnError, OnProgress, OnCdStatus, HandleEvent, Drops
  <2> QED BY <2>1, <2>2
<1>4. PICK i \in 0..Len(evs') :
         /\ IF i = 0 THEN t \in shown' ELSE Names(evs'[i], t)
         /\ \A j \in (i + 1)..Len(evs') : ~Drops(evs'[j], t)
  BY DEF Told
<1>5. ASSUME NEW j \in (i + 2)..Len(evs) PROVE ~Drops(evs[j], t)
  <2>1. j - 1 \in (i + 1)..Len(evs') /\ (j - 1) + 1 = j /\ j - 1 \in 1..Len(evs')
    BY <1>2, <1>4
  <2> QED BY <1>2, <1>4, <2>1
<1>6. Told(t)
  <2>1. CASE i = 0 /\ ~Names(Head(evs), t)
    <3>1. t \in shown /\ ~Drops(evs[1], t)
      BY <1>2, <1>3, <1>4, <2>1
    <3>2. \A j \in 1..Len(evs) : ~Drops(evs[j], t)
      BY <1>2, <1>5, <2>1, <3>1
    <3> QED BY <1>2, <3>1, <3>2 DEF Told
  <2>2. CASE ~(i = 0 /\ ~Names(Head(evs), t))
    <3>1. i + 1 \in 1..Len(evs) /\ Names(evs[i + 1], t)
      BY <1>2, <1>4, <2>2
    <3> QED BY <1>2, <1>5, <3>1 DEF Told
  <2> QED BY <2>1, <2>2
<1> QED BY <1>1, <1>6 DEF ToldOnDevice

LEMMA ToldNext == Inv /\ ToldOnDevice /\ [Next]_vars => ToldOnDevice'
<1> SUFFICES ASSUME Inv, ToldOnDevice, [Next]_vars PROVE ToldOnDevice'
  OBVIOUS
<1>1. CASE FlushPending \/ Key \/ UNCHANGED vars
  <2>1. UNCHANGED <<evs, Present>>
    BY <1>1 DEF FlushPending, Key, NoKey, PressConnect, PressDisconnect, PressRefresh, QueueRemoval,
       ConfirmRemoval, PressCancel, ExecuteSync, PressKey, WorkerSame, vars, history, Present
  <2>2. shown' \subseteq shown
    BY <1>1 DEF FlushPending, Key, NoKey, PressConnect, PressDisconnect, PressRefresh,
       QueueRemoval, ConfirmRemoval, PressCancel, ExecuteSync, vars, ui
  <2> QED BY <2>1, <2>2 DEF ToldOnDevice, Told
<1>2. CASE OnEvent
  BY <1>2, EventTold
<1>3. CASE WorkerNext
  BY <1>3, WorkerTold
<1> QED BY <1>1, <1>2, <1>3 DEF Next, UINext, UILoop, Key

\* The panel, once the events under way are handled, lists no track that is not on
\* the device, other than one the user was told, since the last listing, could not
\* be removed: a removal or an overwrite is told in the order it happened in,
\* whichever session the events come from and whenever the user reconnects.
THEOREM NoPhantomTrackHolds == Spec => []NoPhantomTrack
<1>1. Spec => []ToldOnDevice
  BY InitTold, ToldNext, InitInv, InvHolds, PTL DEF Spec
<1> QED BY <1>1, ToldShown, InvHolds, PTL

-----------------------------------------------------------------------------
(* TagManager.  First what a queue keeps when it gives away its first         *)
(* message or takes one more.                                                 *)

LEMMA QueueTail ==
    ASSUME NEW S, NEW q \in Seq(S), q # << >>
    PROVE  /\ Head(q) \in S /\ Tail(q) \in Seq(S)
           /\ 1 \in DOMAIN q /\ Head(q) = q[1]
           /\ \A i \in DOMAIN Tail(q) : i + 1 \in DOMAIN q /\ Tail(q)[i] = q[i + 1]
           /\ \A i \in DOMAIN q : i = 1 \/ (i - 1 \in DOMAIN Tail(q) /\ Tail(q)[i - 1] = q[i])
           /\ DOMAIN q \subseteq Nat /\ DOMAIN Tail(q) \subseteq Nat \ {0}
<1>1. Len(q) \in Nat \ {0} /\ DOMAIN q = 1..Len(q)
  BY EmptySeq, LenProperties
<1>2. /\ Head(q) = q[1] /\ Head(q) \in S /\ Tail(q) \in Seq(S)
      /\ Len(Tail(q)) = Len(q) - 1
      /\ \A i \in 1..Len(Tail(q)) : Tail(q)[i] = q[i + 1]
  BY HeadTailProperties, ElementOfSeq
<1>3. DOMAIN Tail(q) = 1..(Len(q) - 1)
  BY <1>2, LenProperties
<1> QED BY <1>1, <1>2, <1>3

LEMMA QueueAppend ==
    ASSUME NEW S, NEW q \in Seq(S), NEW m \in S
    PROVE  /\ Append(q, m) \in Seq(S) /\ Append(q, m) # << >>
           /\ \A i \in DOMAIN Append(q, m) :
                 \/ i \in DOMAIN q /\ Append(q, m)[i] = q[i]
                 \/ i \notin DOMAIN q /\ Append(q, m)[i] = m /\ i = Len(q) + 1
           /\ \A i \in DOMAIN q : i \in DOMAIN Append(q, m) /\ Append(q, m)[i] = q[i]
                                  /\ i < Len(q) + 1
           /\ Len(q) + 1 \in DOMAIN Append(q, m) /\ Append(q, m)[Len(q) + 1] = m
           /\ DOMAIN Append(q, m) \subseteq Nat
<1>1. Len(q) \in Nat /\ DOMAIN q = 1..Len(q)
  BY LenProperties
<1>2. /\ Append(q, m) \in Seq(S) /\ Append(q, m) # << >>
      /\ Len(Append(q, m)) = Len(q) + 1
      /\ \A i \in 1..Len(q) : Append(q, m)[i] = q[i]
      /\ Append(q, m)[Len(q) + 1] = m
  BY AppendProperties
<1>3. DOMAIN Append(q, m) = 1..(Len(q) + 1)
  BY <1>1, <1>2, LenProperties
<1> QED BY <1>1, <1>2, <1>3

-----------------------------------------------------------------------------
(* The types of requests, answers and the overlay.                            *)

\* A release is named where one is read, previewed or written.
ReleaseKnown ==
    /\ \A i \in DOMAIN requests :
          requests[i].kind \in {"details", "apply"} => requests[i].of \in Releases
    /\ \A i \in DOMAIN answers : answers[i].kind = "details" => answers[i].of \in Releases
    /\ ov.phase = "DiffPreview" => ov.of \in Releases
    /\ w.pc # "idle" => w.of \in Releases

Phases == Pending \cup {"Closed", "SearchInput", "SearchResults", "DiffPreview", "Done", "Error"}

\* What may be done to an overlay.
LEMMA OverlayEdit ==
    ASSUME NEW o \in Overlay
    PROVE  /\ \A to \in Phases : [o EXCEPT !.phase = to] \in Overlay
           /\ \A to \in Phases, r \in AnyRelease : [o EXCEPT !.phase = to, !.asked = r] \in Overlay
           /\ \A to \in Phases, h \in SUBSET Releases : [o EXCEPT !.phase = to, !.hits = h] \in Overlay
           /\ \A to \in Phases, d \in SUBSET Entry : [o EXCEPT !.phase = to, !.diff = d] \in Overlay
           /\ \A to \in Phases, r \in AnyRelease, d \in SUBSET Entry :
                 [o EXCEPT !.phase = to, !.of = r, !.diff = d] \in Overlay
           /\ \A s \in SUBSET Songs, to \in Phases : [o EXCEPT !.phase = to, !.sel = s] \in Overlay
           /\ \A s \in SUBSET Songs, to \in Phases, r \in AnyRelease :
                 [o EXCEPT !.phase = to, !.sel = s, !.asked = r] \in Overlay
           /\ \A t \in 0..MaxTokens : [o EXCEPT !.token = t] \in Overlay
BY DEF Overlay, Phases

LEMMA OverlayFields ==
    ASSUME NEW o \in Overlay
    PROVE  /\ o.phase \in Phases /\ o.token \in 0..MaxTokens /\ o.sel \in SUBSET Songs
           /\ o.hits \in SUBSET Releases /\ o.asked \in AnyRelease /\ o.of \in AnyRelease
           /\ o.diff \in SUBSET Entry
BY DEF Overlay, Phases

LEMMA ClosedOverlay == Closed \in Overlay
BY TagAssumption DEF Closed, Overlay, AnyRelease

\* What can be asked.
LEMMA RequestIntro ==
    /\ \A k \in Asked : Ask(k) \in RequestRecord
    /\ \A r \in Releases : AskRelease(r) \in RequestRecord
    /\ \A r \in Releases, ts \in SUBSET Entry :
          [Ask("apply") EXCEPT !.of = r, !.tracks = ts] \in RequestRecord
    /\ \A m \in RequestRecord, t \in 0..MaxTokens : [m EXCEPT !.token = t] \in RequestRecord
<1>1. 0 \in 0..MaxTokens
  BY TagAssumption
<1> QED BY <1>1 DEF Ask, AskRelease, RequestRecord, Asked, AnyRelease

\* A message is put on the channel, under the number that the overlay takes.
Sends(m) ==
    /\ m \in RequestRecord /\ m.token = token /\ ov'.token = token
    /\ requests' = Append(requests, m)
    /\ token' = token + 1 /\ token' \in 1..MaxTokens

LEMMA RequestSends ==
    ASSUME TagTypeOK, NEW o \in Overlay, NEW c \in RequestRecord, Request(o, c)
    PROVE  /\ Sends([c EXCEPT !.token = token])
           /\ ov' = [o EXCEPT !.token = token] /\ ov' \in Overlay
           /\ [c EXCEPT !.token = token].kind = c.kind /\ [c EXCEPT !.token = token].of = c.of
           /\ [c EXCEPT !.token = token].tracks = c.tracks
<1>1. token \in 0..MaxTokens /\ token + 1 \in 1..MaxTokens
  BY TagAssumption DEF TagTypeOK, Request
<1>2. [c EXCEPT !.token = token] \in RequestRecord
  BY <1>1, RequestIntro
<1>3. [c EXCEPT !.token = token].token = token
      /\ [c EXCEPT !.token = token].kind = c.kind /\ [c EXCEPT !.token = token].of = c.of
      /\ [c EXCEPT !.token = token].tracks = c.tracks
  BY DEF RequestRecord
<1>4. [o EXCEPT !.token = token] \in Overlay /\ [o EXCEPT !.token = token].token = token
  BY <1>1, OverlayEdit DEF Overlay
<1> QED BY <1>1, <1>2, <1>3, <1>4 DEF Request, Sends

-----------------------------------------------------------------------------
(* What a key does: it moves the overlay, asks a question or confirms.        *)

Moves ==
    /\ UNCHANGED <<token, requests>>
    /\ ov.phase # "Applying"
    /\ ov' \in Overlay /\ ov'.phase \notin Pending \cup {"DiffPreview"}
    /\ ov'.token \in {0, ov.token}
    /\ ov'.token = ov.token => ov'.asked = ov.asked \/ ov'.token = 0

Asks(m) ==
    /\ Sends(m)
    /\ ov.phase # "Applying"
    /\ m.kind \in Asked
    /\ m.kind = "details" => m.of \in Releases /\ m.of = ov'.asked
    /\ ov' \in Overlay /\ ov'.phase \in {"SearchPending", "LoadingRelease"}

\* What of a diff is confirmed.
Chosen(diff, tag, ren) ==
    {[e EXCEPT !.tag = e.src \in tag, !.ren = e.src \in ren /\ e.dest # e.src] : e \in diff}

Confirms(m) ==
    /\ Sends(m)
    /\ ov.phase = "DiffPreview"
    /\ m.kind = "apply" /\ m.of = ov.of /\ m.of \in Releases
    /\ ov' \in Overlay /\ ov'.phase = "Applying"
    /\ ov'.of = ov.of /\ ov'.asked = ov.asked /\ ov'.sel = ov.sel
    /\ \E tag, ren : ov'.diff = Chosen(ov.diff, tag, ren)

KeyStep ==
    OpenTagManager \/ CloseTagManager \/ Back \/ Search \/ Pick \/ Confirm

LEMMA KeyFrame == KeyStep => UNCHANGED <<fs, tmp, known, lib, w, answers, dropped, halfway, faults>>
BY DEF KeyStep, OpenTagManager, CloseTagManager, Back, Search, Pick, Confirm, Disk

LEMMA AskIntro ==
    ASSUME TagTypeOK, ov.phase # "Applying", NEW o \in Overlay, NEW c \in RequestRecord,
           Request(o, c), c.kind \in Asked, c.kind = "details" => c.of \in Releases /\ c.of = o.asked,
           o.phase \in {"SearchPending", "LoadingRelease"}
    PROVE  \E m : Asks(m)
<1> DEFINE m == [c EXCEPT !.token = token]
<1>1. Sends(m) /\ m.kind = c.kind /\ m.of = c.of /\ ov' = [o EXCEPT !.token = token]
      /\ ov' \in Overlay
  BY RequestSends
<1>2. ov'.phase = o.phase /\ ov'.asked = o.asked
  BY <1>1 DEF Overlay
<1> HIDE DEF m
<1> QED BY <1>1, <1>2 DEF Asks

LEMMA OpenAsks == ASSUME TagTypeOK, OpenTagManager PROVE \E m : Asks(m)
<1>1. PICK sel \in Selections :
         LET fresh == [Closed EXCEPT !.phase = "SearchPending", !.sel = sel]
         IN \/ \E r \in Releases : Request([fresh EXCEPT !.phase = "LoadingRelease", !.asked = r],
                                           AskRelease(r))
            \/ Request(fresh, Ask("acoustid"))
            \/ Request(fresh, Ask("search"))
  BY DEF OpenTagManager
<1>2. sel \in SUBSET Songs /\ Closed \in Overlay
      /\ {"SearchPending", "LoadingRelease"} \subseteq Phases
      /\ ov.phase # "Applying"
  BY TagAssumption, ClosedOverlay DEF Phases, Pending, OpenTagManager, Closed
<1> DEFINE fresh == [Closed EXCEPT !.phase = "SearchPending", !.sel = sel]
<1>3. fresh \in Overlay /\ fresh.phase = "SearchPending"
  <2>1. fresh \in Overlay
    BY <1>2, OverlayEdit
  <2> QED BY <2>1 DEF Closed
<1>4. ASSUME NEW r \in Releases,
             Request([fresh EXCEPT !.phase = "LoadingRelease", !.asked = r], AskRelease(r))
      PROVE  \E m : Asks(m)
  <2> DEFINE o == [fresh EXCEPT !.phase = "LoadingRelease", !.asked = r]
  <2>1. o \in Overlay /\ o.phase = "LoadingRelease" /\ o.asked = r
    <3>1. r \in AnyRelease
      BY DEF AnyRelease
    <3>2. o \in Overlay
      BY <1>2, <1>3, <3>1, OverlayEdit
    <3> QED BY <1>3, <3>2 DEF Overlay
  <2>2. AskRelease(r) \in RequestRecord /\ AskRelease(r).of = r /\ AskRelease(r).kind \in Asked
    BY RequestIntro DEF AskRelease, Ask, Asked
  <2> HIDE DEF o, fresh
  <2>3. Request(o, AskRelease(r))
    BY <1>4 DEF o
  <2> QED BY <1>2, <2>1, <2>2, <2>3, AskIntro
<1>5. ASSUME NEW k \in {"acoustid", "search"}, Request(fresh, Ask(k))
      PROVE  \E m : Asks(m)
  <2>1. Ask(k) \in RequestRecord /\ Ask(k).kind \in Asked /\ Ask(k).kind # "details"
    BY RequestIntro DEF Ask, Asked
  <2> HIDE DEF fresh
  <2> QED BY <1>2, <1>3, <1>5, <2>1, AskIntro
<1> QED BY <1>1, <1>4, <1>5

LEMMA SearchAsks == ASSUME TagTypeOK, Search PROVE \E m : Asks(m)
<1> DEFINE o == [ov EXCEPT !.phase = "SearchPending", !.asked = NoRelease]
<1>1. Request(o, Ask("search")) /\ ov.phase # "Applying"
  BY DEF Search
<1>2. o \in Overlay /\ o.phase = "SearchPending"
  <2>1. ov \in Overlay /\ "SearchPending" \in Phases /\ NoRelease \in AnyRelease
    BY DEF TagTypeOK, Phases, Pending, AnyRelease
  <2>2. o \in Overlay
    BY <2>1, OverlayEdit
  <2> QED BY <2>1, <2>2 DEF Overlay
<1>3. Ask("search") \in RequestRecord /\ Ask("search").kind \in Asked
      /\ Ask("search").kind # "details"
  BY RequestIntro DEF Ask, Asked
<1> HIDE DEF o
<1> QED BY <1>1, <1>2, <1>3, AskIntro

LEMMA PickAsks == ASSUME TagTypeOK, Pick PROVE \E m : Asks(m)
<1>1. PICK r \in ov.hits : Request([ov EXCEPT !.phase = "LoadingRelease", !.asked = r],
                                   AskRelease(r))
  BY DEF Pick
<1> DEFINE o == [ov EXCEPT !.phase = "LoadingRelease", !.asked = r]
<1>2. o \in Overlay /\ o.phase = "LoadingRelease" /\ o.asked = r /\ r \in Releases
      /\ ov.phase # "Applying"
  <2>1. ov \in Overlay /\ "LoadingRelease" \in Phases
    BY DEF TagTypeOK, Phases, Pending
  <2>2. r \in Releases /\ r \in AnyRelease
    BY <2>1, OverlayFields DEF AnyRelease
  <2>3. o \in Overlay
    BY <2>1, <2>2, OverlayEdit
  <2> QED BY <2>1, <2>2, <2>3 DEF Overlay, Pick
<1>3. AskRelease(r) \in RequestRecord /\ AskRelease(r).of = r /\ AskRelease(r).kind \in Asked
  BY <1>2, RequestIntro DEF AskRelease, Ask, Asked
<1> HIDE DEF o
<1>4. Request(o, AskRelease(r))
  BY <1>1 DEF o
<1> QED BY <1>2, <1>3, <1>4, AskIntro

LEMMA CloseMoves == ASSUME CloseTagManager PROVE Moves
<1>1. ov' = Closed /\ UNCHANGED <<token, requests>> /\ ov.phase # "Applying"
  BY DEF CloseTagManager, MayClose
<1>2. ov' \in Overlay /\ ov'.phase = "Closed" /\ ov'.token = 0
  BY <1>1, ClosedOverlay DEF Closed
<1> QED BY <1>1, <1>2 DEF Moves, Pending

LEMMA BackMoves == ASSUME TagTypeOK, Back PROVE Moves
<1>1. ov \in Overlay
  BY DEF TagTypeOK
<1>2. PICK to \in {"SearchInput", "SearchResults"} : ov' = [ov EXCEPT !.phase = to]
  BY DEF Back
<1>3. UNCHANGED <<token, requests>> /\ ov.phase # "Applying"
  BY DEF Back
<1>4. ov' \in Overlay
  BY <1>1, <1>2, OverlayEdit DEF Phases
<1>5. ov'.phase = to /\ ov'.token = ov.token /\ ov'.asked = ov.asked
  BY <1>1, <1>2 DEF Overlay
<1> QED BY <1>3, <1>4, <1>5 DEF Moves, Pending

LEMMA ChosenTypes ==
    ASSUME NEW diff \in SUBSET Entry, NEW tag, NEW ren
    PROVE  /\ Chosen(diff, tag, ren) \in SUBSET Entry
           /\ \A c \in Chosen(diff, tag, ren) :
                 \E e \in diff : c.src = e.src /\ c.dest = e.dest
<1>1. ASSUME NEW c \in Chosen(diff, tag, ren)
      PROVE  c \in Entry /\ \E e \in diff : c.src = e.src /\ c.dest = e.dest
  <2>1. PICK e \in diff : c = [e EXCEPT !.tag = e.src \in tag,
                                        !.ren = e.src \in ren /\ e.dest # e.src]
    BY DEF Chosen
  <2>2. e \in Entry /\ (e.src \in tag) \in BOOLEAN /\ (e.src \in ren /\ e.dest # e.src) \in BOOLEAN
    OBVIOUS
  <2> DEFINE x == e.src \in tag
             y == e.src \in ren /\ e.dest # e.src
  <2>3. c = [e EXCEPT !.tag = x, !.ren = y] /\ x \in BOOLEAN /\ y \in BOOLEAN
    BY <2>1, <2>2
  <2> HIDE DEF x, y
  <2> QED BY <2>2, <2>3 DEF Entry
<1> QED BY <1>1

LEMMA ConfirmCases ==
    ASSUME TagTypeOK, ReleaseKnown, Confirm
    PROVE  Moves \/ \E m : Confirms(m)
<1>1. PICK tag, ren \in SUBSET {e.src : e \in ov.diff} :
         LET chosen == Chosen(ov.diff, tag, ren)
         IN IF \A e \in chosen : ~e.tag /\ ~e.ren
            THEN ov' = Closed /\ UNCHANGED <<token, requests>>
            ELSE Request([ov EXCEPT !.phase = "Applying", !.diff = chosen],
                         [Ask("apply") EXCEPT !.of = ov.of, !.tracks = chosen])
  BY DEF Confirm, Chosen
<1> DEFINE chosen == Chosen(ov.diff, tag, ren)
           o == [ov EXCEPT !.phase = "Applying", !.diff = chosen]
           c == [Ask("apply") EXCEPT !.of = ov.of, !.tracks = chosen]
           m == [c EXCEPT !.token = token]
<1>2. ov \in Overlay /\ ov.of \in Releases /\ ov.phase = "DiffPreview"
  BY DEF TagTypeOK, ReleaseKnown, Confirm
<1>3. chosen \in SUBSET Entry
  BY <1>2, OverlayFields, ChosenTypes
<1>4. \E tg, rn : chosen = Chosen(ov.diff, tg, rn)
  OBVIOUS
<1> HIDE DEF chosen
<1>5. o \in Overlay
  BY <1>2, <1>3, OverlayEdit DEF Phases, Pending
<1>6. o.phase = "Applying" /\ o.of = ov.of /\ o.asked = ov.asked /\ o.sel = ov.sel
      /\ o.diff = chosen
  BY <1>2 DEF Overlay
<1>7. c \in RequestRecord
  BY <1>2, <1>3, RequestIntro
<1>8. c.kind = "apply" /\ c.of = ov.of
  BY DEF Ask
<1> HIDE DEF o, c
<1>9. CASE Request(o, c)
  <2>1. Sends(m) /\ ov' = [o EXCEPT !.token = token] /\ ov' \in Overlay
        /\ m.kind = c.kind /\ m.of = c.of
    BY <1>5, <1>7, <1>9, RequestSends
  <2>2. ov'.phase = o.phase /\ ov'.of = o.of /\ ov'.asked = o.asked /\ ov'.sel = o.sel
        /\ ov'.diff = o.diff
    BY <1>5, <2>1 DEF Overlay
  <2> HIDE DEF m
  <2> QED BY <1>2, <1>4, <1>6, <1>8, <2>1, <2>2 DEF Confirms
<1>10. CASE ov' = Closed /\ UNCHANGED <<token, requests>>
  <2>1. ov' \in Overlay /\ ov'.phase = "Closed" /\ ov'.token = 0
    BY <1>10, ClosedOverlay DEF Closed
  <2> QED BY <1>2, <1>10, <2>1 DEF Moves, Pending
<1> QED BY <1>1, <1>9, <1>10 DEF chosen, o, c

LEMMA KeyCases ==
    ASSUME TagTypeOK, ReleaseKnown, KeyStep
    PROVE  Moves \/ (\E m : Asks(m)) \/ (\E m : Confirms(m))
BY OpenAsks, SearchAsks, PickAsks, CloseMoves, BackMoves, ConfirmCases DEF KeyStep

\* The App's half of the types.
AppTypes ==
    /\ ov \in Overlay /\ token \in 1..MaxTokens /\ requests \in Seq(RequestRecord)
    /\ \A i \in DOMAIN requests :
          requests[i].kind \in {"details", "apply"} => requests[i].of \in Releases
    /\ ov.phase = "DiffPreview" => ov.of \in Releases

LEMMA SendTypes ==
    ASSUME TagTypeOK, ReleaseKnown, NEW m, Sends(m),
           m.kind \in {"details", "apply"} => m.of \in Releases,
           ov' \in Overlay, ov'.phase # "DiffPreview"
    PROVE  AppTypes'
<1>1. requests \in Seq(RequestRecord) /\ m \in RequestRecord
  BY DEF TagTypeOK, Sends
<1>2. requests' = Append(requests, m) /\ token' \in 1..MaxTokens
  BY DEF Sends
<1>3. requests' \in Seq(RequestRecord)
  BY <1>1, <1>2, QueueAppend
<1>4. ASSUME NEW i \in DOMAIN requests', requests'[i].kind \in {"details", "apply"}
      PROVE  requests'[i].of \in Releases
  <2>1. (i \in DOMAIN requests /\ requests'[i] = requests[i]) \/ requests'[i] = m
    BY <1>1, <1>2, QueueAppend
  <2> QED BY <1>4, <2>1 DEF ReleaseKnown
<1> QED BY <1>2, <1>3, <1>4 DEF AppTypes

\* A phase in which nothing is previewed.
LEMMA PhaseTypes ==
    ASSUME TagTypeOK, ReleaseKnown, UNCHANGED <<token, requests>>,
           ov' \in Overlay, ov'.phase # "DiffPreview"
    PROVE  AppTypes'
BY DEF AppTypes, TagTypeOK, ReleaseKnown

LEMMA KeyTypes == ASSUME TagTypeOK, ReleaseKnown, KeyStep PROVE AppTypes'
<1>1. CASE Moves
  BY <1>1, PhaseTypes DEF Moves
<1>2. ASSUME NEW m, Asks(m) PROVE AppTypes'
  BY <1>2, SendTypes DEF Asks, Asked
<1>3. ASSUME NEW m, Confirms(m) PROVE AppTypes'
  BY <1>3, SendTypes DEF Confirms
<1> QED BY <1>1, <1>2, <1>3, KeyCases

-----------------------------------------------------------------------------
(* What the App does with an answer.                                          *)

Ignores ==
    /\ UNCHANGED <<ov, token, requests>>
    /\ \/ Next1.kind = "applied"
       \/ ov = Closed
       \/ Next1.token # ov.token

Accepted == ov # Closed /\ Next1.token = ov.token /\ Next1.kind # "applied"

\* Hits, an error, or the end.
Shows ==
    /\ Accepted /\ UNCHANGED <<token, requests>>
    /\ ov' \in Overlay /\ ov'.token = ov.token /\ ov'.asked = ov.asked
    /\ ov'.phase \in {"Error", "SearchResults", "Done"}

Previews ==
    /\ Accepted /\ UNCHANGED <<token, requests>>
    /\ Next1.kind = "details" /\ Next1.of \in Releases
    /\ ov' \in Overlay /\ ov'.token = ov.token /\ ov'.asked = ov.asked /\ ov'.sel = ov.sel
    /\ ov'.phase = "DiffPreview" /\ ov'.of = Next1.of /\ ov'.diff = Diff(Next1.of)

FollowsUp(m) ==
    /\ Accepted /\ Sends(m)
    /\ Next1.kind = "acoustid" /\ m.kind \in {"recording", "search"}
    /\ ov' \in Overlay /\ ov'.phase = ov.phase /\ ov'.asked = ov.asked /\ ov'.of = ov.of
    /\ ov'.sel = ov.sel /\ ov'.diff = ov.diff

LEMMA HandleFrame ==
    ASSUME TagTypeOK, Handle
    PROVE  /\ answers # << >> /\ answers' = Tail(answers) /\ Next1 \in AnswerRecord
           /\ lib' = IF Next1.kind = "reread" THEN Next1.lib ELSE lib
           /\ UNCHANGED <<fs, tmp, known, halfway, w, dropped, faults>>
<1>1. answers # << >>
  BY DEF Handle, Stale, HandleAnswer, LibraryReread
<1>2. answers \in Seq(AnswerRecord)
  BY DEF TagTypeOK
<1>3. Next1 \in AnswerRecord
  BY <1>1, <1>2, QueueTail DEF Next1
<1> QED BY <1>1, <1>3 DEF Handle, Disk

LEMMA DiffTypes ==
    ASSUME TagTypeOK, NEW r \in Releases
    PROVE  /\ Diff(r) \in SUBSET Entry
           /\ \A e \in Diff(r) : \E s \in ov.sel : e.dest = Named[r][s]
<1>1. ov.sel \in SUBSET Songs
  BY OverlayFields DEF TagTypeOK
<1>2. ASSUME NEW e \in Diff(r)
      PROVE  e \in Entry /\ \E s \in ov.sel : e.dest = Named[r][s]
  <2>1. PICK p \in Paths : /\ lib[p].song \in ov.sel
                           /\ e = [src |-> p, dest |-> Named[r][lib[p].song],
                                   tag |-> TRUE, ren |-> TRUE]
    BY DEF Diff
  <2>2. lib[p].song \in Songs
    BY <1>1, <2>1
  <2>3. Named[r] \in [Songs -> Paths]
    BY TagAssumption
  <2>4. Named[r][lib[p].song] \in Paths
    BY <2>2, <2>3
  <2>5. e \in Entry
    BY <2>1, <2>4 DEF Entry
  <2>6. e.dest = Named[r][lib[p].song]
    BY <2>1
  <2> QED BY <2>1, <2>5, <2>6
<1> QED BY <1>2

LEMMA PhaseEdit ==
    ASSUME TagTypeOK, NEW to \in Phases
    PROVE  /\ [ov EXCEPT !.phase = to] \in Overlay
           /\ [ov EXCEPT !.phase = to].phase = to
           /\ [ov EXCEPT !.phase = to].token = ov.token
           /\ [ov EXCEPT !.phase = to].asked = ov.asked
<1>1. ov \in Overlay
  BY DEF TagTypeOK
<1> QED BY <1>1, OverlayEdit, ZenonT(30) DEF Overlay

LEMMA ErrorShows ==
    ASSUME TagTypeOK, Accepted, UNCHANGED <<token, requests>>,
           NEW to \in {"Error", "Done"}, Phase(to)
    PROVE  Shows
<1>1. to \in Phases
  BY DEF Phases
<1> QED BY <1>1, PhaseEdit DEF Phase, Shows

LEMMA HitsShow ==
    ASSUME TagTypeOK, Accepted, Next1 \in AnswerRecord, HitsShown
    PROVE  Shows
<1>1. ov \in Overlay /\ Next1.hits \in SUBSET Releases
  BY DEF TagTypeOK, AnswerRecord
<1>2. ov' = [ov EXCEPT !.phase = "SearchResults", !.hits = Next1.hits]
      /\ UNCHANGED <<token, requests>>
  BY DEF HitsShown
<1>3. ov' \in Overlay
  BY <1>1, <1>2, OverlayEdit DEF Phases
<1>4. ov'.phase = "SearchResults" /\ ov'.token = ov.token /\ ov'.asked = ov.asked
  BY <1>1, <1>2 DEF Overlay
<1> QED BY <1>2, <1>3, <1>4 DEF Shows

LEMMA LoadedPreviews ==
    ASSUME TagTypeOK, ReleaseKnown, Accepted, Next1 \in AnswerRecord, answers # << >>, ReleaseLoaded
    PROVE  Shows \/ Previews
<1>1. UNCHANGED <<token, requests>> /\ Next1.kind = "details"
  BY DEF ReleaseLoaded
<1>2. Next1.of \in Releases
  <2>1. 1 \in DOMAIN answers /\ Next1 = answers[1]
    BY QueueTail DEF Next1, TagTypeOK
  <2> QED BY <1>1, <2>1 DEF ReleaseKnown
<1>3. CASE Diff(Next1.of) = {}
  BY <1>1, <1>3, ErrorShows DEF ReleaseLoaded
<1>4. CASE Diff(Next1.of) # {}
  <2>1. ov \in Overlay /\ Diff(Next1.of) \in SUBSET Entry /\ Next1.of \in AnyRelease
    BY <1>2, DiffTypes DEF TagTypeOK, AnyRelease
  <2>2. ov' = [ov EXCEPT !.phase = "DiffPreview", !.of = Next1.of, !.diff = Diff(Next1.of)]
    BY <1>4 DEF ReleaseLoaded
  <2>3. ov' \in Overlay
    BY <2>1, <2>2, OverlayEdit DEF Phases
  <2>4. ov'.phase = "DiffPreview" /\ ov'.of = Next1.of /\ ov'.diff = Diff(Next1.of)
        /\ ov'.token = ov.token /\ ov'.asked = ov.asked /\ ov'.sel = ov.sel
    BY <2>1, <2>2 DEF Overlay
  <2> QED BY <1>1, <1>2, <2>3, <2>4 DEF Previews
<1> QED BY <1>3, <1>4

LEMMA FollowUpSends ==
    ASSUME TagTypeOK, Accepted, AcoustIdFollowUp
    PROVE  \E m : FollowsUp(m)
<1>1. PICK k \in {"recording", "search"} : Request(ov, Ask(k))
  BY DEF AcoustIdFollowUp, FollowUp
<1>2. ov \in Overlay /\ Ask(k) \in RequestRecord /\ Ask(k).kind = k
  BY RequestIntro DEF TagTypeOK, Ask, Asked
<1> DEFINE m == [Ask(k) EXCEPT !.token = token]
<1>3. Sends(m) /\ m.kind = k /\ ov' = [ov EXCEPT !.token = token] /\ ov' \in Overlay
  BY <1>1, <1>2, RequestSends
<1>4. ov'.phase = ov.phase /\ ov'.asked = ov.asked /\ ov'.of = ov.of /\ ov'.sel = ov.sel
      /\ ov'.diff = ov.diff
  BY <1>2, <1>3 DEF Overlay
<1>5. Next1.kind = "acoustid"
  BY DEF AcoustIdFollowUp
<1> HIDE DEF m
<1> QED BY <1>3, <1>4, <1>5 DEF FollowsUp

LEMMA HandleCases ==
    ASSUME TagTypeOK, ReleaseKnown, Handle
    PROVE  Ignores \/ Shows \/ Previews \/ \E m : FollowsUp(m)
<1>1. Next1 \in AnswerRecord /\ answers # << >>
  BY HandleFrame
<1>2. CASE Stale
  BY <1>2 DEF Stale, Ignores, AcceptsToken
<1>3. CASE HandleAnswer
  <2>1. Accepted
    BY <1>3 DEF HandleAnswer, AcceptsToken, Accepted
  <2>2. CASE Failed \/ NoHits
    BY <2>1, <2>2, ErrorShows DEF Failed, NoHits
  <2>3. Failed \/ HitsShown \/ NoHits \/ AcoustIdFollowUp \/ ReleaseLoaded
    BY <1>3 DEF HandleAnswer
  <2> QED BY <1>1, <2>1, <2>2, <2>3, HitsShow, LoadedPreviews, FollowUpSends
<1>4. CASE LibraryReread
  <2>1. UNCHANGED <<token, requests>> /\ Next1.kind \in {"applied", "reread"}
    BY <1>4 DEF LibraryReread
  <2>2. CASE Next1.kind = "reread" /\ AcceptsToken(Next1.token)
    <3>1. Accepted /\ Phase("Done")
      BY <1>4, <2>2 DEF LibraryReread, Accepted, AcceptsToken
    <3> QED BY <2>1, <3>1, ErrorShows
  <2>3. CASE ~(Next1.kind = "reread" /\ AcceptsToken(Next1.token))
    BY <1>4, <2>1, <2>3 DEF LibraryReread, AcceptsToken, Ignores
  <2> QED BY <2>2, <2>3
<1> QED BY <1>2, <1>3, <1>4 DEF Handle

LEMMA HandleTypes == ASSUME TagTypeOK, ReleaseKnown, Handle PROVE AppTypes'
<1>1. CASE Ignores
  BY <1>1 DEF Ignores, AppTypes, TagTypeOK, ReleaseKnown
<1>2. CASE Shows
  BY <1>2, PhaseTypes DEF Shows
<1>3. CASE Previews
  BY <1>3 DEF Previews, AppTypes, TagTypeOK, ReleaseKnown
<1>4. ASSUME NEW m, FollowsUp(m) PROVE AppTypes'
  <2>1. Sends(m) /\ m.kind \notin {"details", "apply"} /\ ov' \in Overlay
    BY <1>4 DEF FollowsUp
  <2>2. m \in RequestRecord /\ requests \in Seq(RequestRecord)
    BY <2>1 DEF Sends, TagTypeOK
  <2>3. requests' = Append(requests, m) /\ token' \in 1..MaxTokens
    BY <2>1 DEF Sends
  <2>4. requests' \in Seq(RequestRecord)
    BY <2>2, <2>3, QueueAppend
  <2>5. ASSUME NEW i \in DOMAIN requests', requests'[i].kind \in {"details", "apply"}
        PROVE  requests'[i].of \in Releases
    <3>1. (i \in DOMAIN requests /\ requests'[i] = requests[i]) \/ requests'[i] = m
      BY <2>2, <2>3, QueueAppend
    <3> QED BY <2>1, <2>5, <3>1 DEF ReleaseKnown
  <2>6. ov'.phase = "DiffPreview" => ov'.of \in Releases
    BY <1>4 DEF FollowsUp, ReleaseKnown
  <2> QED BY <2>1, <2>3, <2>4, <2>5, <2>6 DEF AppTypes
<1> QED BY <1>1, <1>2, <1>3, <1>4, HandleCases

\* The library that comes with an answer has its type.
LEMMA HandleLib ==
    ASSUME TagTypeOK, ReleaseKnown, Handle
    PROVE  /\ lib' \in [Paths -> File] /\ answers' \in Seq(AnswerRecord)
           /\ \A i \in DOMAIN answers' : answers'[i].kind = "details" => answers'[i].of \in Releases
<1>1. answers # << >> /\ answers' = Tail(answers) /\ Next1 \in AnswerRecord
      /\ lib' = IF Next1.kind = "reread" THEN Next1.lib ELSE lib
  BY HandleFrame
<1>2. answers \in Seq(AnswerRecord) /\ lib \in [Paths -> File]
  BY DEF TagTypeOK
<1>3. Next1.lib \in [Paths -> File]
  BY <1>1 DEF AnswerRecord
<1>4. answers' \in Seq(AnswerRecord)
      /\ \A i \in DOMAIN answers' : i + 1 \in DOMAIN answers /\ answers'[i] = answers[i + 1]
  BY <1>1, <1>2, QueueTail
<1> QED BY <1>1, <1>2, <1>3, <1>4 DEF ReleaseKnown

-----------------------------------------------------------------------------
(* What the worker does with a question.                                      *)

Responds(a) ==
    /\ requests # << >> /\ requests' = Tail(requests) /\ w.pc = "idle"
    /\ a \in AnswerRecord /\ answers' = Append(answers, a)
    /\ Head(requests).kind # "apply"
    /\ a.kind = Head(requests).kind /\ a.token = Head(requests).token
    /\ a.kind = "details" => a.of = Head(requests).of

LEMMA RespondCases ==
    ASSUME TagTypeOK, Respond
    PROVE  (\E a : Responds(a)) /\ UNCHANGED <<fs, tmp, known, halfway, lib, ov, token, w, dropped, faults>>
<1> DEFINE c == Head(requests)
<1>1. requests # << >> /\ requests \in Seq(RequestRecord) /\ lib \in [Paths -> File]
      /\ w.pc = "idle" /\ requests' = Tail(requests) /\ c.kind # "apply"
  BY DEF Respond, TagTypeOK
<1>2. c \in RequestRecord
  BY <1>1, QueueTail
<1>3. \E a : Tell(a) /\ \/ a = [Answer(c) EXCEPT !.ok = FALSE]
                        \/ a = Answer(c)
                        \/ \E hits \in {{}, Releases} : a = [Answer(c) EXCEPT !.hits = hits]
                        \/ /\ c.kind = "acoustid"
                           /\ \E next \in {"recording", "search"} : a = [Answer(c) EXCEPT !.of = next]
  BY DEF Respond
<1>4. PICK a : Tell(a) /\ \/ a = [Answer(c) EXCEPT !.ok = FALSE]
                          \/ a = Answer(c)
                          \/ \E hits \in {{}, Releases} : a = [Answer(c) EXCEPT !.hits = hits]
                          \/ /\ c.kind = "acoustid"
                             /\ \E next \in {"recording", "search"} : a = [Answer(c) EXCEPT !.of = next]
  BY <1>3
<1>5. c.kind \in Asked /\ c.token \in 0..MaxTokens /\ c.of \in AnyRelease
  BY <1>1, <1>2 DEF RequestRecord
<1> HIDE DEF c
<1>6. Answer(c) \in AnswerRecord /\ Answer(c).kind = c.kind /\ Answer(c).token = c.token
      /\ Answer(c).of = c.of
  BY <1>1, <1>5 DEF Answer, Note, AnswerRecord
<1>7. a \in AnswerRecord /\ a.kind = c.kind /\ a.token = c.token
      /\ (c.kind # "acoustid" => a.of = c.of)
  BY <1>4, <1>6, ZenonT(30) DEF AnswerRecord
<1>8. answers' = Append(answers, a)
  BY <1>4 DEF Tell
<1>9. UNCHANGED <<fs, tmp, known, halfway, lib, ov, token, w, dropped, faults>>
  BY DEF Respond, Disk
<1> QED BY <1>1, <1>7, <1>8, <1>9 DEF Responds, c

\* What is left on a channel of which the first request was taken is known still.
LEMMA TakenTypes ==
    ASSUME TagTypeOK, ReleaseKnown, requests # << >>, requests' = Tail(requests)
    PROVE  /\ requests' \in Seq(RequestRecord) /\ Head(requests) \in RequestRecord
           /\ \A i \in DOMAIN requests' :
                 requests'[i].kind \in {"details", "apply"} => requests'[i].of \in Releases
           /\ Head(requests).kind \in {"details", "apply"} => Head(requests).of \in Releases
<1>1. requests \in Seq(RequestRecord)
  BY DEF TagTypeOK
<1>2. /\ requests' \in Seq(RequestRecord) /\ Head(requests) \in RequestRecord
      /\ 1 \in DOMAIN requests /\ Head(requests) = requests[1]
      /\ \A i \in DOMAIN requests' : i + 1 \in DOMAIN requests /\ requests'[i] = requests[i + 1]
  BY <1>1, QueueTail
<1> QED BY <1>2 DEF ReleaseKnown

\* One more answer.
LEMMA ToldTypes ==
    ASSUME TagTypeOK, ReleaseKnown, NEW a \in AnswerRecord, answers' = Append(answers, a),
           a.kind = "details" => a.of \in Releases
    PROVE  /\ answers' \in Seq(AnswerRecord)
           /\ \A i \in DOMAIN answers' : answers'[i].kind = "details" => answers'[i].of \in Releases
<1>1. answers \in Seq(AnswerRecord)
  BY DEF TagTypeOK
<1>2. answers' \in Seq(AnswerRecord)
  BY <1>1, QueueAppend
<1>3. ASSUME NEW i \in DOMAIN answers', answers'[i].kind = "details"
      PROVE  answers'[i].of \in Releases
  <2>1. (i \in DOMAIN answers /\ answers'[i] = answers[i]) \/ answers'[i] = a
    BY <1>1, QueueAppend
  <2> QED BY <1>3, <2>1 DEF ReleaseKnown
<1> QED BY <1>2, <1>3

LEMMA RespondTypes ==
    ASSUME TagTypeOK, ReleaseKnown, Respond
    PROVE  TagTypeOK' /\ ReleaseKnown'
<1>1. PICK a : Responds(a)
  BY RespondCases
<1>2. UNCHANGED <<fs, tmp, known, halfway, lib, ov, token, w, dropped, faults>>
  BY RespondCases
<1>3. a.kind = "details" => a.of \in Releases
  BY <1>1, TakenTypes DEF Responds
<1>4. /\ answers' \in Seq(AnswerRecord) /\ requests' \in Seq(RequestRecord)
      /\ \A i \in DOMAIN answers' : answers'[i].kind = "details" => answers'[i].of \in Releases
      /\ \A i \in DOMAIN requests' :
            requests'[i].kind \in {"details", "apply"} => requests'[i].of \in Releases
  BY <1>1, <1>3, TakenTypes, ToldTypes DEF Responds
<1>5. TagTypeOK'
  BY <1>2, <1>4 DEF TagTypeOK
<1>6. ReleaseKnown'
  BY <1>2, <1>4 DEF ReleaseKnown
<1> QED BY <1>5, <1>6

LEMMA DropTypes ==
    ASSUME TagTypeOK, ReleaseKnown, DropCommand
    PROVE  TagTypeOK' /\ ReleaseKnown'
<1>1. requests # << >> /\ requests' = Tail(requests)
      /\ UNCHANGED <<fs, tmp, known, halfway, lib, ov, token, w, answers, faults>>
  BY DEF DropCommand, Disk
<1>2. /\ requests' \in Seq(RequestRecord)
      /\ \A i \in DOMAIN requests' :
            requests'[i].kind \in {"details", "apply"} => requests'[i].of \in Releases
  BY <1>1, TakenTypes
<1>3. TagTypeOK'
  BY <1>1, <1>2 DEF TagTypeOK
<1>4. ReleaseKnown'
  BY <1>1, <1>2 DEF ReleaseKnown
<1> QED BY <1>3, <1>4

-----------------------------------------------------------------------------
(* The worker writes.  What is to do is of the batch, and the file at hand is *)
(* there; outside the batch the cache knows the files; and what is to be      *)
(* renamed lands on a free path of its own, or on a file that the batch was   *)
(* to rename.                                                                 *)

OfBatch ==
    /\ w.todo \subseteq w.tracks
    /\ w.at = {} \/ \E e \in w.tracks : w.at = {e} /\ fs[e.src] # NoFile
    /\ w.at # {} => w.pc \in {"tags", "renames", "removal"}
    /\ w.pc = "removal" => w.at # {}

CacheFollows == \A p \in Paths \ halfway : w.pc = "idle" \/ p \notin Touched => known[p] = fs[p]

ToRename == IF w.pc = "tags" THEN Renaming(w.tracks) \ w.skipped ELSE w.todo

PreflightHolds ==
    w.pc \in {"tags", "renames", "removal"} =>
        /\ ToRename \subseteq Renaming(w.tracks)
        /\ \A e \in ToRename :
              /\ \A o \in Renaming(w.tracks) \ {e} : o.dest # e.dest
              /\ fs[e.dest] = NoFile \/ e.dest \in Sources(w.tracks)

\* The move between file systems that is under way.
MoveHolds ==
    w.pc \in {"renames", "removal"} =>
        \A e \in w.at :
            /\ e \in Renaming(w.tracks) /\ e.src # e.dest /\ e.dest \in halfway
            /\ \A o \in w.todo : o.dest # e.dest
            /\ fs[e.src] # NoFile /\ fs[e.src].song = fs[e.dest].song
            /\ w.pc = "removal" => fs[e.dest] = fs[e.src]

WriterTypes ==
    /\ fs \in [Paths -> File] /\ known \in [Paths -> File] /\ tmp \in [Paths -> BOOLEAN]
    /\ halfway \subseteq Paths
    /\ w \in Writer /\ faults \in [n : 0..MaxFaults, litter : BOOLEAN]
    /\ w.pc # "idle" => w.of \in Releases

WriterInv == OfBatch /\ DraftInHand /\ WholeFiles /\ CacheFollows /\ PreflightHolds /\ MoveHolds

LEMMA WriterTypesHold == TagTypeOK /\ ReleaseKnown => WriterTypes
BY DEF TagTypeOK, ReleaseKnown, WriterTypes

LEMMA FaultTypes ==
    ASSUME WriterTypes, Fault \/ UNCHANGED faults
    PROVE  faults' \in [n : 0..MaxFaults, litter : BOOLEAN] /\ faults'.litter = faults.litter
<1>1. faults \in [n : 0..MaxFaults, litter : BOOLEAN] /\ MaxFaults \in Nat
  BY TagAssumption DEF WriterTypes
<1> QED BY <1>1 DEF Fault

LEMMA LitterTypes ==
    ASSUME WriterTypes, Litter
    PROVE  faults' \in [n : 0..MaxFaults, litter : BOOLEAN] /\ faults'.litter
<1>1. faults \in [n : 0..MaxFaults, litter : BOOLEAN] /\ MaxFaults \in Nat
  BY TagAssumption DEF WriterTypes
<1> QED BY <1>1 DEF Litter

LEMMA WriterFields ==
    ASSUME NEW v \in Writer
    PROVE  /\ v.tracks \in SUBSET Entry /\ v.skipped \in SUBSET Entry /\ v.at \in SUBSET Entry
           /\ v.todo \in SUBSET Entry /\ v.moved \in SUBSET Paths
           /\ v.pc \in {"idle", "tags", "renames", "removal", "reread"}
           /\ v.token \in 0..MaxTokens /\ v.of \in AnyRelease
BY DEF Writer

LEMMA EntryFields == \A e \in Entry : e.src \in Paths /\ e.dest \in Paths
BY DEF Entry

LEMMA ApplyWrites ==
    ASSUME TagTypeOK, ReleaseKnown, WriterInv, Apply
    PROVE  WriterTypes' /\ WriterInv'
<1> DEFINE c == Head(requests)
           skip == {e \in Renaming(c.tracks) : Collides(e, c.tracks)}
           todo == {e \in c.tracks \ skip : e.tag}
<1>1. /\ w.pc = "idle" /\ requests # << >> /\ c.kind = "apply" /\ requests' = Tail(requests)
      /\ UNCHANGED <<fs, tmp, known, halfway, faults>>
      /\ w' = [Idle EXCEPT !.pc = "tags", !.token = c.token, !.of = c.of,
                           !.tracks = c.tracks, !.skipped = skip, !.todo = todo]
  BY DEF Apply, Disk
<1>2. c \in RequestRecord /\ c.of \in Releases
  BY <1>1, TakenTypes
<1>3. c.tracks \in SUBSET Entry /\ c.token \in 0..MaxTokens /\ c.of \in AnyRelease
  BY <1>2 DEF RequestRecord
<1>4. skip \in SUBSET Entry /\ todo \in SUBSET Entry /\ todo \subseteq c.tracks
  BY <1>3 DEF Renaming
<1>5. Renaming(c.tracks) \ skip = {e \in Renaming(c.tracks) : ~Collides(e, c.tracks)}
  OBVIOUS
<1> HIDE DEF c, skip, todo
<1>6. /\ w'.pc = "tags" /\ w'.token = c.token /\ w'.of = c.of /\ w'.tracks = c.tracks
      /\ w'.skipped = skip /\ w'.todo = todo /\ w'.at = {} /\ w'.moved = {}
  BY <1>1 DEF Idle
<1>7. w' \in Writer
  BY <1>1, <1>3, <1>4 DEF Idle, Writer
<1>8. WriterTypes'
  <2>1. WriterTypes
    BY WriterTypesHold
  <2> QED BY <1>1, <1>2, <1>6, <1>7, <2>1 DEF WriterTypes
<1>9. OfBatch' /\ WholeFiles' /\ MoveHolds'
  BY <1>1, <1>4, <1>6 DEF OfBatch, WriterInv, WholeFiles, MoveHolds
<1>10. DraftInHand'
  <2>1. w.at = {}
    BY <1>1 DEF WriterInv, OfBatch
  <2> QED BY <1>1, <2>1 DEF WriterInv, DraftInHand
<1>11. CacheFollows'
  BY <1>1 DEF WriterInv, CacheFollows
<1>12. PreflightHolds'
  <2>1. ToRename' = Renaming(c.tracks) \ skip
    BY <1>6 DEF ToRename, Renaming
  <2>2. \A e \in Renaming(c.tracks) \ skip :
           /\ \A o \in Renaming(c.tracks) \ {e} : o.dest # e.dest
           /\ fs[e.dest] = NoFile \/ e.dest \in Sources(c.tracks)
    BY <1>5 DEF Collides
  <2>3. Renaming(w.tracks)' = Renaming(c.tracks) /\ Sources(w.tracks)' = Sources(c.tracks)
    BY <1>6 DEF Renaming, Sources
  <2> QED BY <1>1, <2>1, <2>2, <2>3 DEF PreflightHolds
<1> QED BY <1>8, <1>9, <1>10, <1>11, <1>12 DEF WriterInv

LEMMA CopyWrites ==
    ASSUME WriterTypes, WriterInv, CopyForTags
    PROVE  WriterTypes' /\ WriterInv' /\ w'.pc # "idle" /\ w'.token = w.token
<1>1. /\ w.pc = "tags" /\ w.at = {} /\ fs' = fs /\ known' = known /\ halfway' = halfway
  BY DEF CopyForTags, Draft, Discard
<1>2. PICK e \in w.todo :
         /\ w' = [w EXCEPT !.todo = @ \ {e}] \/ w' = [w EXCEPT !.at = {e}, !.todo = @ \ {e}]
         /\ \/ w' = [w EXCEPT !.at = {e}, !.todo = @ \ {e}] /\ fs[e.src] # NoFile
                  /\ tmp' = [tmp EXCEPT ![e.src] = TRUE]
               /\ UNCHANGED faults
            \/ w' = [w EXCEPT !.todo = @ \ {e}] /\ tmp' = [tmp EXCEPT ![e.src] = FALSE]
               /\ (Fault \/ UNCHANGED faults)
            \/ w' = [w EXCEPT !.todo = @ \ {e}] /\ tmp' = [tmp EXCEPT ![e.src] = TRUE] /\ Litter
  BY DEF CopyForTags, Draft, Discard
<1>3. w \in Writer /\ w.todo \subseteq w.tracks
  BY DEF WriterTypes, WriterInv, OfBatch
<1>4. e \in Entry /\ e \in w.tracks /\ e.src \in Paths
  BY <1>2, <1>3, WriterFields, EntryFields
<1>5. /\ w' \in Writer /\ w'.pc = "tags" /\ w'.tracks = w.tracks /\ w'.skipped = w.skipped
      /\ w'.moved = w.moved /\ w'.todo = w.todo \ {e} /\ w'.of = w.of /\ w'.token = w.token
  <2>1. w.todo \ {e} \in SUBSET Entry /\ {e} \in SUBSET Entry
    BY <1>3, <1>4, WriterFields
  <2>2. CASE w' = [w EXCEPT !.todo = @ \ {e}]
    BY <1>1, <1>3, <2>1, <2>2 DEF Writer
  <2>3. CASE w' = [w EXCEPT !.at = {e}, !.todo = @ \ {e}]
    BY <1>1, <1>3, <2>1, <2>3 DEF Writer
  <2> QED BY <1>2, <2>2, <2>3
<1>6. \/ w'.at = {e} /\ fs[e.src] # NoFile /\ tmp' = [tmp EXCEPT ![e.src] = TRUE]
      \/ w'.at = {} /\ tmp' = [tmp EXCEPT ![e.src] = FALSE]
      \/ w'.at = {} /\ tmp' = [tmp EXCEPT ![e.src] = TRUE] /\ Litter
  BY <1>1, <1>2, <1>3 DEF Writer
<1>7. WriterTypes'
  <2>1. tmp \in [Paths -> BOOLEAN]
    BY DEF WriterTypes
  <2>2. tmp' \in [Paths -> BOOLEAN]
    BY <1>6, <2>1
  <2>3. faults' \in [n : 0..MaxFaults, litter : BOOLEAN]
    BY <1>2, FaultTypes, LitterTypes
  <2>4. fs' \in [Paths -> File] /\ known' \in [Paths -> File] /\ w'.of \in Releases
    BY <1>1, <1>5 DEF WriterTypes
  <2> QED BY <1>1, <1>5, <2>2, <2>3, <2>4 DEF WriterTypes
<1>8. OfBatch' /\ WholeFiles' /\ MoveHolds'
  BY <1>1, <1>3, <1>4, <1>5, <1>6 DEF OfBatch, WriterInv, WholeFiles, MoveHolds
<1>9. DraftInHand'
  <2>1. CASE Litter
    BY <2>1, LitterTypes DEF DraftInHand
  <2>2. CASE ~Litter
    <3>1. faults'.litter = faults.litter
      BY <1>2, <2>2, FaultTypes
    <3>2. SUFFICES ASSUME ~faults.litter, NEW p \in Paths, tmp'[p]
                   PROVE  \E x \in w'.at : x.src = p
      BY <1>5, <3>1 DEF DraftInHand
    <3>3. ~tmp[p]
      BY <1>1, <3>2 DEF WriterInv, DraftInHand
    <3>4. tmp \in [Paths -> BOOLEAN]
      BY DEF WriterTypes
    <3> QED BY <1>4, <1>6, <2>2, <3>2, <3>3, <3>4
  <2> QED BY <2>1, <2>2
<1>10. CacheFollows'
  <2>1. Touched' = Touched
    BY <1>5 DEF Touched
  <2> QED BY <1>1, <1>5, <2>1 DEF WriterInv, CacheFollows
<1>11. PreflightHolds'
  <2>1. ToRename' = ToRename
    BY <1>1, <1>5 DEF ToRename
  <2> QED BY <1>1, <1>5, <2>1 DEF WriterInv, PreflightHolds
<1> QED BY <1>5, <1>7, <1>8, <1>9, <1>10, <1>11 DEF WriterInv

LEMMA SwapWrites ==
    ASSUME WriterTypes, WriterInv, WriteThenSwap
    PROVE  /\ WriterTypes' /\ WriterInv' /\ w'.pc # "idle" /\ w'.token = w.token
           /\ \A p \in Paths : fs'[p].song = fs[p].song
<1>1. w.pc = "tags" /\ known' = known /\ halfway' = halfway /\ w' = [w EXCEPT !.at = {}]
  BY DEF WriteThenSwap
<1>2. PICK e \in w.at :
         /\ \/ fs' = [fs EXCEPT ![e.src].tags = w.of]
            \/ fs' = fs
         /\ tmp' = [tmp EXCEPT ![e.src] = FALSE]
         /\ Fault \/ UNCHANGED faults
  BY DEF WriteThenSwap, Discard
<1>3. w \in Writer /\ w.at = {e} /\ e \in w.tracks /\ fs[e.src] # NoFile
      /\ w.todo \subseteq w.tracks
  BY <1>2 DEF WriterTypes, WriterInv, OfBatch
<1>4. e \in Entry /\ e.src \in Paths /\ w.of \in Releases
  BY <1>1, <1>3, WriterFields, EntryFields DEF WriterTypes
<1>5. /\ w' \in Writer /\ w'.pc = "tags" /\ w'.tracks = w.tracks /\ w'.skipped = w.skipped
      /\ w'.moved = w.moved /\ w'.todo = w.todo /\ w'.of = w.of /\ w'.token = w.token
      /\ w'.at = {}
  BY <1>1, <1>3 DEF Writer
<1>6. fs \in [Paths -> File]
  BY DEF WriterTypes
<1> DEFINE new == [fs[e.src] EXCEPT !.tags = w.of]
<1>7. new \in File /\ new # NoFile /\ new.whole = fs[e.src].whole /\ new.song = fs[e.src].song
  <2> DEFINE old == fs[e.src]
  <2>1. old \in [song : Songs, tags : Releases \cup {"old"}, whole : BOOLEAN]
    BY <1>3, <1>4, <1>6 DEF File
  <2> HIDE DEF old
  <2>2. [old EXCEPT !.tags = w.of]
           \in [song : Songs, tags : Releases \cup {"old"}, whole : BOOLEAN]
    BY <1>4, <2>1
  <2>3. [old EXCEPT !.tags = w.of].whole = old.whole
        /\ [old EXCEPT !.tags = w.of].song = old.song
    BY <2>1
  <2>4. old.song # NoFile.song
    BY <2>1, TagAssumption DEF NoFile
  <2> QED BY <2>2, <2>3, <2>4 DEF File, old
<1> HIDE DEF new
<1>8. fs' = [fs EXCEPT ![e.src] = new] \/ fs' = fs
  BY <1>2, <1>4, <1>6 DEF new
<1>9. /\ fs' \in [Paths -> File] /\ \A p \in Paths : fs'[p].song = fs[p].song
      /\ \A p \in Paths : (fs'[p] = NoFile) = (fs[p] = NoFile)
      /\ \A p \in Paths : p # e.src => fs'[p] = fs[p]
      /\ \A p \in Paths : fs'[p].whole \/ p \in halfway
  <2>1. \A p \in Paths : fs[p].whole \/ p \in halfway
    BY DEF WriterInv, WholeFiles
  <2>2. CASE fs' = fs
    BY <1>6, <2>1, <2>2
  <2>3. CASE fs' = [fs EXCEPT ![e.src] = new]
    <3>1. \A p \in Paths : fs'[p] = IF p = e.src THEN new ELSE fs[p]
      BY <1>6, <2>3
    <3>2. fs' \in [Paths -> File]
      BY <1>6, <1>7, <2>3
    <3> QED BY <1>3, <1>7, <2>1, <3>1, <3>2
  <2> QED BY <1>8, <2>2, <2>3
<1>10. WriterTypes'
  <2>1. tmp' \in [Paths -> BOOLEAN]
    BY <1>2 DEF WriterTypes
  <2>2. faults' \in [n : 0..MaxFaults, litter : BOOLEAN]
    BY <1>2, FaultTypes
  <2>3. known' \in [Paths -> File] /\ w'.of \in Releases
    BY <1>1, <1>4, <1>5 DEF WriterTypes
  <2> QED BY <1>1, <1>5, <1>9, <2>1, <2>2, <2>3 DEF WriterTypes
<1>11. OfBatch' /\ WholeFiles' /\ MoveHolds'
  BY <1>1, <1>3, <1>5, <1>9 DEF OfBatch, WholeFiles, MoveHolds
<1>12. DraftInHand'
  <2>1. faults'.litter = faults.litter
    BY <1>2, FaultTypes
  <2>2. SUFFICES ASSUME ~faults.litter, NEW p \in Paths, tmp'[p]
                 PROVE  FALSE
    BY <2>1 DEF DraftInHand
  <2>3. tmp \in [Paths -> BOOLEAN]
    BY DEF WriterTypes
  <2>4. p # e.src /\ tmp[p]
    BY <1>2, <1>4, <2>2, <2>3
  <2> QED BY <1>3, <2>2, <2>4 DEF WriterInv, DraftInHand
<1>13. CacheFollows'
  <2>1. Touched' = Touched /\ e.src \in Touched
    BY <1>3, <1>5 DEF Touched
  <2> QED BY <1>1, <1>5, <1>9, <2>1 DEF WriterInv, CacheFollows
<1>14. PreflightHolds'
  <2>1. ToRename' = ToRename /\ Renaming(w.tracks)' = Renaming(w.tracks)
        /\ Sources(w.tracks)' = Sources(w.tracks)
    BY <1>1, <1>5 DEF ToRename, Renaming, Sources
  <2>2. /\ ToRename \subseteq Renaming(w.tracks)
        /\ \A x \in ToRename :
              /\ \A o \in Renaming(w.tracks) \ {x} : o.dest # x.dest
              /\ fs[x.dest] = NoFile \/ x.dest \in Sources(w.tracks)
    BY <1>1 DEF WriterInv, PreflightHolds
  <2>3. \A x \in ToRename : x.dest \in Paths
    BY <1>3, <2>2, WriterFields, EntryFields DEF Renaming
  <2> QED BY <1>9, <2>1, <2>2, <2>3 DEF PreflightHolds
<1> QED BY <1>5, <1>9, <1>10, <1>11, <1>12, <1>13, <1>14 DEF WriterInv

LEMMA WrittenWrites ==
    ASSUME WriterTypes, WriterInv, TagsWritten
    PROVE  WriterTypes' /\ WriterInv' /\ w'.pc # "idle" /\ w'.token = w.token
<1>1. /\ w.pc = "tags" /\ w.at = {} /\ UNCHANGED <<fs, tmp, known, halfway, faults>>
      /\ w' = [w EXCEPT !.pc = "renames", !.todo = Renaming(w.tracks) \ w.skipped]
  BY DEF TagsWritten, Disk
<1>2. w \in Writer
  BY DEF WriterTypes
<1>3. Renaming(w.tracks) \ w.skipped \in SUBSET Entry
      /\ Renaming(w.tracks) \ w.skipped \subseteq w.tracks
  BY <1>2, WriterFields DEF Renaming
<1>4. /\ w' \in Writer /\ w'.pc = "renames" /\ w'.tracks = w.tracks /\ w'.at = {}
      /\ w'.moved = w.moved /\ w'.of = w.of /\ w'.token = w.token
      /\ w'.todo = Renaming(w.tracks) \ w.skipped
  BY <1>1, <1>2, <1>3 DEF Writer
<1>5. WriterTypes'
  BY <1>1, <1>4 DEF WriterTypes
<1>6. OfBatch' /\ WholeFiles' /\ DraftInHand' /\ MoveHolds'
  BY <1>1, <1>3, <1>4 DEF WriterInv, OfBatch, WholeFiles, DraftInHand, MoveHolds
<1>7. CacheFollows'
  <2>1. Touched' = Touched
    BY <1>4 DEF Touched
  <2> QED BY <1>1, <1>4, <2>1 DEF WriterInv, CacheFollows
<1>8. PreflightHolds'
  <2>1. ToRename' = ToRename /\ Renaming(w.tracks)' = Renaming(w.tracks)
        /\ Sources(w.tracks)' = Sources(w.tracks)
    BY <1>1, <1>4 DEF ToRename, Renaming, Sources
  <2> QED BY <1>1, <1>4, <2>1 DEF WriterInv, PreflightHolds
<1> QED BY <1>4, <1>5, <1>6, <1>7, <1>8 DEF WriterInv

\* A rename loses no song but one whose file the batch was to rename.
RenameSafe == \A p \in Paths : fs[p] # NoFile /\ ~There(fs', fs[p].song) => p \in Sources(w.tracks)

LEMMA RenameWrites ==
    ASSUME WriterTypes, WriterInv, Rename
    PROVE  WriterTypes' /\ WriterInv' /\ w'.pc # "idle" /\ w'.token = w.token /\ RenameSafe
<1>1. w.pc = "renames" /\ w.at = {} /\ UNCHANGED <<tmp, known>>
  BY DEF Rename
<1>2. PICK e \in w.todo :
         /\ \/ /\ fs[e.src] # NoFile
               /\ fs' = [fs EXCEPT ![e.dest] = fs[e.src], ![e.src] = NoFile]
               /\ w' = Renamed(e) /\ halfway' = Follow(e)
            \/ fs' = fs /\ halfway' = halfway /\ w' = [w EXCEPT !.todo = @ \ {e}]
         /\ Fault \/ UNCHANGED faults
  BY DEF Rename
<1>3. w \in Writer /\ w.todo \subseteq w.tracks /\ w.at = {}
  BY <1>1 DEF WriterTypes, WriterInv, OfBatch
<1>4. e \in Entry /\ e \in w.tracks /\ e.src \in Paths /\ e.dest \in Paths
  BY <1>2, <1>3, WriterFields, EntryFields
<1>5. /\ w' \in Writer /\ w'.pc = "renames" /\ w'.tracks = w.tracks /\ w'.at = {}
      /\ w'.of = w.of /\ w'.token = w.token /\ w'.todo = w.todo \ {e}
      /\ w'.moved \in {w.moved, w.moved \cup {e.dest}}
      /\ (fs' = fs /\ halfway' = halfway) \/ w'.moved = w.moved \cup {e.dest}
  <2>1. w.todo \ {e} \in SUBSET Entry /\ w.moved \cup {e.dest} \in SUBSET Paths
    BY <1>3, <1>4, WriterFields
  <2>2. CASE fs' = fs /\ halfway' = halfway /\ w' = [w EXCEPT !.todo = @ \ {e}]
    BY <1>1, <1>3, <2>1, <2>2 DEF Writer
  <2>3. CASE w' = Renamed(e)
    BY <1>1, <1>3, <2>1, <2>3 DEF Writer, Renamed
  <2> QED BY <1>2, <2>2, <2>3
<1>6. fs \in [Paths -> File] /\ NoFile \in File /\ NoFile.whole /\ halfway \subseteq Paths
  BY DEF WriterTypes, File, NoFile
<1>7. \/ fs' = fs /\ halfway' = halfway
      \/ /\ fs' \in [Paths -> File] /\ fs[e.src] # NoFile
         /\ halfway' = Follow(e)
         /\ \A p \in Paths : fs'[p] = IF p = e.src THEN NoFile
                                      ELSE IF p = e.dest THEN fs[e.src] ELSE fs[p]
  <2>1. CASE fs' = [fs EXCEPT ![e.dest] = fs[e.src], ![e.src] = NoFile] /\ halfway' = Follow(e)
             /\ fs[e.src] # NoFile
    <3>1. fs' \in [Paths -> File]
      BY <1>4, <1>6, <2>1
    <3>2. \A p \in Paths : fs'[p] = IF p = e.src THEN NoFile
                                    ELSE IF p = e.dest THEN fs[e.src] ELSE fs[p]
      BY <1>4, <1>6, <2>1
    <3> QED BY <2>1, <3>1, <3>2
  <2> QED BY <1>2, <2>1
<1>8. fs' \in [Paths -> File] /\ (\A p \in Paths : fs'[p].whole \/ p \in halfway')
      /\ halfway' \subseteq Paths
      /\ \A p \in Paths \ {e.src, e.dest} : fs'[p] = fs[p] /\ (p \in halfway' <=> p \in halfway)
  BY <1>4, <1>6, <1>7 DEF WriterInv, WholeFiles, Follow
<1>9. WriterTypes'
  <2>1. faults' \in [n : 0..MaxFaults, litter : BOOLEAN]
    BY <1>2, FaultTypes
  <2> QED BY <1>1, <1>5, <1>8, <2>1 DEF WriterTypes
<1>10. OfBatch' /\ WholeFiles' /\ MoveHolds'
  BY <1>3, <1>5, <1>8 DEF OfBatch, WholeFiles, MoveHolds
<1>11. DraftInHand'
  <2>1. faults'.litter = faults.litter
    BY <1>2, FaultTypes
  <2> QED BY <1>1, <1>3, <1>5, <2>1 DEF WriterInv, DraftInHand
<1>12. CacheFollows'
  <2>1. Touched \subseteq Touched' /\ e.src \in Touched' /\ ((fs' = fs /\ halfway' = halfway) \/ e.dest \in Touched')
    BY <1>4, <1>5 DEF Touched
  <2>2. SUFFICES ASSUME NEW p \in Paths \ halfway', p \notin Touched' PROVE known[p] = fs'[p]
    BY <1>1, <1>5 DEF CacheFollows
  <2>3. fs'[p] = fs[p] /\ p \notin halfway
    BY <1>8, <2>1, <2>2
  <2> QED BY <2>1, <2>2, <2>3 DEF WriterInv, CacheFollows
<1>13. /\ w.todo \subseteq Renaming(w.tracks)
       /\ \A x \in w.todo : /\ \A o \in Renaming(w.tracks) \ {x} : o.dest # x.dest
                            /\ fs[x.dest] = NoFile \/ x.dest \in Sources(w.tracks)
  BY <1>1 DEF WriterInv, PreflightHolds, ToRename
<1>14. PreflightHolds'
  <2>1. ToRename' = w.todo \ {e} /\ Renaming(w.tracks)' = Renaming(w.tracks)
        /\ Sources(w.tracks)' = Sources(w.tracks)
    BY <1>1, <1>5 DEF ToRename, Renaming, Sources
  <2>2. ASSUME NEW x \in w.todo, x # e
        PROVE  fs'[x.dest] = NoFile \/ x.dest \in Sources(w.tracks)
    <3>1. x.dest \in Paths /\ x.dest # e.dest
      BY <1>2, <1>3, <1>13, <2>2, WriterFields, EntryFields
    <3> QED BY <1>6, <1>7, <1>13, <3>1
  <2> QED BY <1>13, <2>1, <2>2 DEF PreflightHolds
<1>15. RenameSafe
  <2> SUFFICES ASSUME NEW p \in Paths, fs[p] # NoFile, p \notin Sources(w.tracks)
               PROVE  There(fs', fs[p].song)
    BY DEF RenameSafe
  <2>1. e.src \in Sources(w.tracks)
    BY <1>2, <1>13 DEF Sources
  <2>2. p # e.src /\ p # e.dest
    BY <1>2, <1>13, <2>1
  <2> QED BY <1>8, <2>2 DEF There
<1> QED BY <1>5, <1>9, <1>10, <1>11, <1>12, <1>14, <1>15 DEF WriterInv

\* A move between file systems.
LEMMA AcrossWrites ==
    ASSUME WriterTypes, WriterInv, CopyAcross
    PROVE  WriterTypes' /\ WriterInv' /\ w'.pc # "idle" /\ w'.token = w.token /\ RenameSafe
<1>1. w.pc = "renames" /\ w.at = {} /\ UNCHANGED <<tmp, known, faults>>
  BY DEF CopyAcross
<1>2. PICK e \in w.todo :
         /\ fs[e.src] # NoFile /\ Across(e)
         /\ fs' = [fs EXCEPT ![e.dest] = [fs[e.src] EXCEPT !.whole = FALSE]]
         /\ halfway' = halfway \cup {e.dest}
         /\ w' = [w EXCEPT !.at = {e}, !.todo = @ \ {e}]
  BY DEF CopyAcross
<1>3. w \in Writer /\ w.todo \subseteq w.tracks
  BY DEF WriterTypes, WriterInv, OfBatch
<1>4. e \in Entry /\ e \in w.tracks /\ e.src \in Paths /\ e.dest \in Paths /\ e.src # e.dest
  BY <1>2, <1>3, WriterFields, EntryFields DEF Across
<1>5. /\ w' \in Writer /\ w'.pc = "renames" /\ w'.tracks = w.tracks /\ w'.at = {e}
      /\ w'.of = w.of /\ w'.token = w.token /\ w'.todo = w.todo \ {e} /\ w'.moved = w.moved
  <2>1. w.todo \ {e} \in SUBSET Entry /\ {e} \in SUBSET Entry
    BY <1>3, <1>4, WriterFields
  <2> QED BY <1>1, <1>2, <1>3, <2>1 DEF Writer
<1>6. fs \in [Paths -> File] /\ halfway \subseteq Paths
  BY DEF WriterTypes
<1> DEFINE part == [fs[e.src] EXCEPT !.whole = FALSE]
<1>7. part \in File /\ part.song = fs[e.src].song
  <2>1. fs[e.src] \in [song : Songs, tags : Releases \cup {"old"}, whole : BOOLEAN]
    BY <1>2, <1>4, <1>6 DEF File
  <2> QED BY <2>1 DEF File
<1> HIDE DEF part
<1>8. fs' = [fs EXCEPT ![e.dest] = part]
  BY <1>2 DEF part
<1>9. /\ fs' \in [Paths -> File] /\ halfway' \subseteq Paths
      /\ fs'[e.dest] = part /\ \A p \in Paths \ {e.dest} : fs'[p] = fs[p]
  BY <1>2, <1>4, <1>6, <1>7, <1>8
<1>10. WriterTypes'
  BY <1>1, <1>5, <1>9 DEF WriterTypes
<1>11. /\ w.todo \subseteq Renaming(w.tracks)
       /\ \A x \in w.todo : /\ \A o \in Renaming(w.tracks) \ {x} : o.dest # x.dest
                            /\ fs[x.dest] = NoFile \/ x.dest \in Sources(w.tracks)
  BY <1>1 DEF WriterInv, PreflightHolds, ToRename
<1>12. OfBatch' /\ WholeFiles'
  <2>1. OfBatch'
    BY <1>2, <1>3, <1>4, <1>5, <1>9 DEF OfBatch
  <2>2. \A p \in Paths : fs'[p].whole \/ p \in halfway'
    BY <1>2, <1>9 DEF WriterInv, WholeFiles
  <2> QED BY <1>2, <1>4, <1>5, <1>7, <1>9, <2>1, <2>2 DEF WholeFiles
<1>13. DraftInHand'
  BY <1>1 DEF WriterInv, DraftInHand
<1>14. CacheFollows'
  <2>1. Touched' = Touched
    BY <1>5 DEF Touched
  <2> QED BY <1>1, <1>2, <1>5, <1>9, <2>1 DEF WriterInv, CacheFollows
<1>15. PreflightHolds'
  <2>1. ToRename' = w.todo \ {e} /\ Renaming(w.tracks)' = Renaming(w.tracks)
        /\ Sources(w.tracks)' = Sources(w.tracks)
    BY <1>1, <1>5 DEF ToRename, Renaming, Sources
  <2>2. ASSUME NEW x \in w.todo, x # e
        PROVE  fs'[x.dest] = NoFile \/ x.dest \in Sources(w.tracks)
    <3>1. x.dest \in Paths /\ x.dest # e.dest
      BY <1>2, <1>3, <1>11, <2>2, WriterFields, EntryFields
    <3> QED BY <1>9, <1>11, <3>1
  <2> QED BY <1>11, <2>1, <2>2 DEF PreflightHolds
<1>16. MoveHolds'
  <2>1. \A o \in w.todo \ {e} : o.dest # e.dest
    BY <1>2, <1>11
  <2>2. Renaming(w.tracks)' = Renaming(w.tracks)
    BY <1>5 DEF Renaming
  <2> QED BY <1>2, <1>4, <1>5, <1>7, <1>9, <1>11, <2>1, <2>2 DEF MoveHolds
<1>17. RenameSafe
  <2> SUFFICES ASSUME NEW p \in Paths, fs[p] # NoFile, p \notin Sources(w.tracks)
               PROVE  There(fs', fs[p].song)
    BY DEF RenameSafe
  <2>1. p # e.dest
    BY <1>2, <1>11
  <2> QED BY <1>9, <2>1 DEF There
<1> QED BY <1>5, <1>10, <1>12, <1>13, <1>14, <1>15, <1>16, <1>17 DEF WriterInv

LEMMA EndWrites ==
    ASSUME WriterTypes, WriterInv, EndCopy \/ RemoveSource
    PROVE  /\ WriterTypes' /\ WriterInv' /\ w'.pc # "idle" /\ w'.token = w.token
           /\ \A p \in Paths : fs[p] # NoFile => There(fs', fs[p].song)
<1>1. w.pc \in {"renames", "removal"} /\ UNCHANGED <<tmp, known>>
  BY DEF EndCopy, RemoveSource
<1>2. PICK e \in w.at :
         /\ \/ /\ w.pc = "renames" /\ fs' = [fs EXCEPT ![e.dest] = fs[e.src]]
               /\ w' = [w EXCEPT !.pc = "removal"] /\ halfway' = halfway
            \/ /\ w' = [w EXCEPT !.pc = "renames", !.at = {}] /\ fs' = fs /\ halfway' = halfway
            \/ /\ w.pc = "removal" /\ fs' = [fs EXCEPT ![e.src] = NoFile]
               /\ w' = [Renamed(e) EXCEPT !.pc = "renames"] /\ halfway' = Follow(e)
         /\ Fault \/ UNCHANGED faults
  <2>1. CASE EndCopy
    <3>1. PICK e \in w.at :
             /\ \/ fs' = [fs EXCEPT ![e.dest] = fs[e.src]] /\ w' = [w EXCEPT !.pc = "removal"]
                \/ w' = [w EXCEPT !.at = {}] /\ fs' = fs
             /\ Fault \/ UNCHANGED faults
      BY <2>1 DEF EndCopy
    <3>2. w.pc = "renames" /\ halfway' = halfway
      BY <2>1 DEF EndCopy
    <3>3. [w EXCEPT !.at = {}] = [w EXCEPT !.pc = "renames", !.at = {}]
      BY <3>2 DEF WriterTypes, Writer
    <3> QED BY <3>1, <3>2, <3>3
  <2>2. CASE RemoveSource
    BY <2>2 DEF RemoveSource
  <2> QED BY <2>1, <2>2
<1>3. w \in Writer /\ w.todo \subseteq w.tracks /\ w.at = {e} /\ e \in w.tracks
  BY <1>2 DEF WriterTypes, WriterInv, OfBatch
<1>4. e \in Entry /\ e.src \in Paths /\ e.dest \in Paths
  BY <1>3, WriterFields, EntryFields
<1>5. /\ e \in Renaming(w.tracks) /\ e.src # e.dest /\ e.dest \in halfway
      /\ \A o \in w.todo : o.dest # e.dest
      /\ fs[e.src] # NoFile /\ fs[e.src].song = fs[e.dest].song
      /\ w.pc = "removal" => fs[e.dest] = fs[e.src]
  BY <1>1, <1>2 DEF WriterInv, MoveHolds
<1>6. e \notin w.todo
  BY <1>5
<1>7. /\ w' \in Writer /\ w'.pc \in {"renames", "removal"} /\ w'.tracks = w.tracks
      /\ w'.of = w.of /\ w'.token = w.token /\ w'.todo = w.todo
      /\ w'.moved = w.moved \/ (w.pc = "removal" /\ w'.moved = w.moved \cup {e.dest})
      /\ \/ /\ w'.pc = "removal" /\ w'.at = {e} /\ halfway' = halfway
            /\ fs' = [fs EXCEPT ![e.dest] = fs[e.src]] /\ w.pc = "renames"
         \/ w'.pc = "renames" /\ w'.at = {} /\ fs' = fs /\ halfway' = halfway
         \/ /\ w'.pc = "renames" /\ w'.at = {} /\ halfway' = Follow(e) /\ w.pc = "removal"
            /\ fs' = [fs EXCEPT ![e.src] = NoFile] /\ w'.moved = w.moved \cup {e.dest}
  <2>1. w.todo \ {e} = w.todo /\ w.moved \cup {e.dest} \in SUBSET Paths
    BY <1>3, <1>4, <1>6, WriterFields
  <2>2. CASE w' = [w EXCEPT !.pc = "removal"]
    BY <1>2, <1>3, <2>2 DEF Writer, Renamed
  <2>3. CASE w' = [w EXCEPT !.pc = "renames", !.at = {}] /\ fs' = fs /\ halfway' = halfway
    BY <1>3, <2>3 DEF Writer
  <2>4. CASE /\ w.pc = "removal" /\ fs' = [fs EXCEPT ![e.src] = NoFile]
             /\ w' = [Renamed(e) EXCEPT !.pc = "renames"] /\ halfway' = Follow(e)
    BY <1>3, <2>1, <2>4 DEF Writer, Renamed
  <2> QED BY <1>2, <2>2, <2>3, <2>4
<1>8. fs \in [Paths -> File] /\ NoFile \in File /\ NoFile.whole /\ halfway \subseteq Paths
  BY DEF WriterTypes, File, NoFile
<1>9. /\ fs' \in [Paths -> File] /\ halfway' \subseteq Paths
      /\ \A p \in Paths \ {e.src, e.dest} : fs'[p] = fs[p] /\ (p \in halfway' <=> p \in halfway)
      /\ fs'[e.dest] = fs[e.dest] \/ fs'[e.dest] = fs[e.src]
      /\ fs'[e.src] = fs[e.src] \/ (w.pc = "removal" /\ fs'[e.src] = NoFile)
  BY <1>4, <1>5, <1>7, <1>8 DEF Follow
<1>10. WriterTypes'
  <2>1. faults' \in [n : 0..MaxFaults, litter : BOOLEAN]
    BY <1>2, FaultTypes
  <2> QED BY <1>1, <1>7, <1>9, <2>1 DEF WriterTypes
<1>11. OfBatch' /\ MoveHolds'
  <2>1. Renaming(w.tracks)' = Renaming(w.tracks)
    BY <1>7 DEF Renaming
  <2>2. CASE w'.at = {}
    BY <1>3, <1>7, <2>2 DEF OfBatch, MoveHolds
  <2>3. CASE /\ w'.pc = "removal" /\ w'.at = {e} /\ halfway' = halfway
             /\ fs' = [fs EXCEPT ![e.dest] = fs[e.src]]
    <3>1. fs'[e.src] = fs[e.src] /\ fs'[e.dest] = fs[e.src]
      BY <1>4, <1>5, <1>8, <2>3
    <3> QED BY <1>3, <1>5, <1>7, <2>1, <2>3, <3>1 DEF OfBatch, MoveHolds
  <2> QED BY <1>7, <2>2, <2>3
<1>12. WholeFiles'
  <2>1. \A p \in Paths : fs[p].whole \/ p \in halfway
    BY DEF WriterInv, WholeFiles
  <2>2. \A p \in Paths : fs'[p].whole \/ p \in halfway'
    <3>1. CASE fs' = fs /\ halfway' = halfway
      BY <2>1, <3>1
    <3>2. CASE halfway' = halfway /\ fs' = [fs EXCEPT ![e.dest] = fs[e.src]]
      BY <1>5, <1>8, <2>1, <3>2
    <3>3. CASE halfway' = Follow(e) /\ w.pc = "removal" /\ fs' = [fs EXCEPT ![e.src] = NoFile]
      <4>1. fs'[e.src] = NoFile /\ fs'[e.dest] = fs[e.src]
        BY <1>4, <1>5, <1>8, <3>3
      <4>2. fs[e.src].whole \/ e.dest \in halfway'
        BY <1>4, <2>1, <3>3 DEF Follow
      <4> QED BY <1>8, <1>9, <2>1, <4>1, <4>2
    <3> QED BY <1>7, <3>1, <3>2, <3>3
  <2>3. w'.pc \in {"renames", "removal"} =>
           \A x \in w'.at : fs'[x.src] # NoFile /\ fs'[x.src].song = fs'[x.dest].song
    BY <1>11 DEF MoveHolds
  <2> QED BY <2>2, <2>3 DEF WholeFiles
<1>13. DraftInHand'
  <2>1. faults'.litter = faults.litter
    BY <1>2, FaultTypes
  <2> QED BY <1>1, <1>3, <1>7, <2>1 DEF WriterInv, DraftInHand
<1>14. CacheFollows'
  <2>1. /\ Touched \subseteq Touched' /\ e.src \in Touched'
        /\ (halfway' = halfway) \/ e.dest \in Touched'
    BY <1>3, <1>7 DEF Touched
  <2>2. SUFFICES ASSUME NEW p \in Paths \ halfway', p \notin Touched' PROVE known[p] = fs'[p]
    BY <1>1, <1>7 DEF CacheFollows
  <2>3. p # e.src /\ p # e.dest
    BY <1>5, <2>1, <2>2
  <2>4. fs'[p] = fs[p] /\ p \notin halfway
    BY <1>9, <2>2, <2>3
  <2> QED BY <1>1, <2>1, <2>2, <2>4 DEF WriterInv, CacheFollows
<1>15. PreflightHolds'
  <2>1. ToRename' = w.todo /\ ToRename = w.todo /\ Renaming(w.tracks)' = Renaming(w.tracks)
        /\ Sources(w.tracks)' = Sources(w.tracks)
    BY <1>1, <1>7 DEF ToRename, Renaming, Sources
  <2>2. /\ w.todo \subseteq Renaming(w.tracks)
        /\ \A x \in w.todo : /\ \A o \in Renaming(w.tracks) \ {x} : o.dest # x.dest
                             /\ fs[x.dest] = NoFile \/ x.dest \in Sources(w.tracks)
    BY <1>1, <2>1 DEF WriterInv, PreflightHolds
  <2>3. ASSUME NEW x \in w.todo
        PROVE  fs'[x.dest] = NoFile \/ x.dest \in Sources(w.tracks)
    <3>1. x.dest \in Paths /\ x.dest # e.dest
      BY <1>3, <1>5, WriterFields, EntryFields
    <3>2. e.src \in Sources(w.tracks)
      BY <1>5 DEF Sources
    <3> QED BY <1>9, <2>2, <3>1, <3>2
  <2> QED BY <2>1, <2>2, <2>3 DEF PreflightHolds
<1>16. ASSUME NEW p \in Paths, fs[p] # NoFile PROVE There(fs', fs[p].song)
  <2>1. CASE p # e.src
    BY <1>5, <1>9, <2>1 DEF There
  <2>2. CASE p = e.src
    BY <1>4, <1>5, <1>9, <2>2 DEF There
  <2> QED BY <2>1, <2>2
<1> QED BY <1>7, <1>10, <1>11, <1>12, <1>13, <1>14, <1>15, <1>16 DEF WriterInv

LEMMA AppliedWrites ==
    ASSUME WriterTypes, WriterInv, TagsApplied
    PROVE  WriterTypes' /\ WriterInv' /\ w'.pc # "idle" /\ w'.token = w.token
<1>1. /\ w.pc = "renames" /\ w.at = {} /\ UNCHANGED <<fs, tmp, known, halfway, faults>> /\ w' = [w EXCEPT !.pc = "reread"]
  BY DEF TagsApplied, Disk
<1>2. w \in Writer /\ w.at = {}
  BY <1>1 DEF WriterTypes
<1>3. /\ w' \in Writer /\ w'.pc = "reread" /\ w'.tracks = w.tracks /\ w'.at = {}
      /\ w'.moved = w.moved /\ w'.of = w.of /\ w'.token = w.token /\ w'.todo = w.todo
  BY <1>1, <1>2 DEF Writer
<1>4. WriterTypes'
  BY <1>1, <1>3 DEF WriterTypes
<1>5. OfBatch' /\ WholeFiles' /\ DraftInHand' /\ PreflightHolds' /\ MoveHolds'
  BY <1>1, <1>2, <1>3 DEF WriterInv, OfBatch, WholeFiles, DraftInHand, PreflightHolds, MoveHolds
<1>6. CacheFollows'
  <2>1. Touched' = Touched
    BY <1>3 DEF Touched
  <2> QED BY <1>1, <1>3, <2>1 DEF WriterInv, CacheFollows
<1> QED BY <1>3, <1>4, <1>5, <1>6 DEF WriterInv

LEMMA IdleWriter == Idle \in Writer /\ Idle.pc = "idle" /\ Idle.todo = {} /\ Idle.at = {}
                    /\ Idle.tracks = {} /\ Idle.token = 0
BY TagAssumption DEF Idle, Writer, AnyRelease

LEMMA RereadWrites ==
    ASSUME WriterTypes, WriterInv, RereadPaths
    PROVE  WriterTypes' /\ WriterInv' /\ w'.pc = "idle"
<1>1. /\ w.pc = "reread" /\ UNCHANGED <<fs, tmp, halfway, faults>> /\ w' = Idle
      /\ known' = [p \in Paths |-> IF p \in Touched THEN fs[p] ELSE known[p]]
  BY DEF RereadPaths
<1>2. fs \in [Paths -> File] /\ known \in [Paths -> File]
  BY DEF WriterTypes
<1>3. known' \in [Paths -> File] /\ \A p \in Paths \ halfway : known'[p] = fs[p]
  <2>1. known' \in [Paths -> File]
    BY <1>1, <1>2
  <2>2. \A p \in Paths \ halfway : p \notin Touched => known[p] = fs[p]
    BY DEF WriterInv, CacheFollows
  <2> QED BY <1>1, <2>1, <2>2
<1>4. WriterTypes'
  BY <1>1, <1>3, IdleWriter DEF WriterTypes
<1>5. OfBatch' /\ WholeFiles' /\ PreflightHolds' /\ CacheFollows' /\ MoveHolds'
  BY <1>1, <1>3, IdleWriter DEF WriterInv, OfBatch, WholeFiles, PreflightHolds, CacheFollows, MoveHolds
<1>6. DraftInHand'
  <2>1. w.at = {}
    BY <1>1 DEF WriterInv, OfBatch
  <2> QED BY <1>1, <2>1 DEF WriterInv, DraftInHand
<1> QED BY <1>1, <1>4, <1>5, <1>6, IdleWriter DEF WriterInv

\* The next process finds the files as they are.
LEMMA QuitWrites ==
    ASSUME WriterTypes, WriterInv, Quit
    PROVE  WriterTypes' /\ WriterInv'
<1>1. UNCHANGED <<fs, tmp, halfway>> /\ w' = Idle /\ known' = fs /\ Litter
  BY DEF Quit
<1>2. faults' \in [n : 0..MaxFaults, litter : BOOLEAN] /\ faults'.litter
  BY <1>1, LitterTypes
<1>3. WriterTypes'
  BY <1>1, <1>2, IdleWriter DEF WriterTypes
<1>4. OfBatch' /\ WholeFiles' /\ PreflightHolds' /\ CacheFollows' /\ DraftInHand' /\ MoveHolds'
  BY <1>1, <1>2, IdleWriter DEF WriterInv, OfBatch, WholeFiles, PreflightHolds, CacheFollows,
     DraftInHand, MoveHolds
<1> QED BY <1>3, <1>4 DEF WriterInv

\* Who does not write leaves the files, the writer and the faults alone.
LEMMA OthersWrite ==
    ASSUME WriterTypes, WriterInv, UNCHANGED <<fs, tmp, known, halfway, w, faults>>
    PROVE  WriterTypes' /\ WriterInv'
BY DEF WriterTypes, WriterInv, OfBatch, WholeFiles, PreflightHolds, CacheFollows, DraftInHand, MoveHolds,
       Touched, ToRename, Renaming, Sources

-----------------------------------------------------------------------------
(* The library follows the cache, and the cache the files.                    *)

\* The library of the last reread under way is what the cache has.
LastReread(i) ==
    /\ answers[i].kind = "reread"
    /\ \A k \in DOMAIN answers : k > i => answers[k].kind # "reread"

LibraryFollows ==
    /\ \A i \in DOMAIN answers : LastReread(i) => answers[i].lib = known
    /\ (\A i \in DOMAIN answers : answers[i].kind # "reread") => lib = known

\* An answer that carries no reread library.
LEMMA ToldFollows ==
    ASSUME TagTypeOK, LibraryFollows, NEW a \in AnswerRecord, a.kind # "reread",
           answers' = Append(answers, a), UNCHANGED <<known, lib>>
    PROVE  LibraryFollows'
<1>1. answers \in Seq(AnswerRecord)
  BY DEF TagTypeOK
<1>2. /\ \A i \in DOMAIN answers' : (i \in DOMAIN answers /\ answers'[i] = answers[i])
                                    \/ answers'[i] = a
      /\ \A i \in DOMAIN answers : i \in DOMAIN answers' /\ answers'[i] = answers[i]
  BY <1>1, QueueAppend
<1> QED BY <1>2 DEF LibraryFollows, LastReread

LEMMA HandleFollows ==
    ASSUME TagTypeOK, LibraryFollows, Handle
    PROVE  LibraryFollows'
<1>1. /\ answers # << >> /\ answers' = Tail(answers) /\ known' = known
      /\ lib' = IF Next1.kind = "reread" THEN Next1.lib ELSE lib
  BY HandleFrame
<1>2. answers \in Seq(AnswerRecord)
  BY DEF TagTypeOK
<1>3. /\ 1 \in DOMAIN answers /\ Next1 = answers[1]
      /\ \A i \in DOMAIN answers' : i + 1 \in DOMAIN answers /\ answers'[i] = answers[i + 1]
      /\ \A i \in DOMAIN answers : i = 1 \/ (i - 1 \in DOMAIN answers' /\ answers'[i - 1] = answers[i])
      /\ DOMAIN answers \subseteq Nat /\ DOMAIN answers' \subseteq Nat \ {0}
  BY <1>1, <1>2, QueueTail DEF Next1
<1>4. ASSUME NEW i \in DOMAIN answers', LastReread(i)'
      PROVE  answers'[i].lib = known
  <2>1. i + 1 \in DOMAIN answers /\ answers'[i] = answers[i + 1] /\ i \in Nat \ {0}
    BY <1>3
  <2>2. answers[i + 1].kind = "reread"
    BY <1>4, <2>1 DEF LastReread
  <2>3. ASSUME NEW k \in DOMAIN answers, k > i + 1 PROVE answers[k].kind # "reread"
    <3>1. k - 1 \in DOMAIN answers' /\ answers'[k - 1] = answers[k] /\ k - 1 > i
      BY <1>3, <2>1, <2>3
    <3> QED BY <1>4, <3>1 DEF LastReread
  <2> QED BY <2>1, <2>2, <2>3 DEF LibraryFollows, LastReread
<1>5. ASSUME \A i \in DOMAIN answers' : answers'[i].kind # "reread"
      PROVE  lib' = known
  <2>1. \A i \in DOMAIN answers : i # 1 => answers[i].kind # "reread"
    BY <1>3, <1>5
  <2>2. CASE Next1.kind = "reread"
    <3>1. LastReread(1)
      BY <1>3, <2>1, <2>2 DEF LastReread
    <3> QED BY <1>1, <1>3, <2>2, <3>1 DEF LibraryFollows
  <2>3. CASE Next1.kind # "reread"
    BY <1>1, <1>3, <2>1, <2>3 DEF LibraryFollows
  <2> QED BY <2>2, <2>3
<1> QED BY <1>1, <1>4, <1>5 DEF LibraryFollows

\* What TagsApplied and RereadPaths tell the App.
LEMMA WriterTells ==
    ASSUME TagTypeOK, ReleaseKnown, w.pc # "idle"
    PROVE  /\ Note("applied", w.token, w.of) \in AnswerRecord
           /\ Note("applied", w.token, w.of).kind = "applied"
           /\ Note("applied", w.token, w.of).token = w.token
           /\ \A l \in [Paths -> File] :
                 LET a == [Note("reread", w.token, w.of) EXCEPT !.lib = l]
                 IN a \in AnswerRecord /\ a.kind = "reread" /\ a.token = w.token /\ a.lib = l
<1>1. w.token \in 0..MaxTokens /\ w.of \in AnyRelease /\ lib \in [Paths -> File]
  BY WriterFields DEF TagTypeOK
<1> QED BY <1>1 DEF Note, AnswerRecord

LEMMA RereadFollows ==
    ASSUME TagTypeOK, ReleaseKnown, WriterTypes', RereadPaths
    PROVE  /\ LibraryFollows'
           /\ \E a \in AnswerRecord : /\ a.kind = "reread" /\ a.token = w.token
                                      /\ answers' = Append(answers, a)
<1> DEFINE a == [Note("reread", w.token, w.of) EXCEPT !.lib = known']
<1>1. w.pc # "idle" /\ answers' = Append(answers, a)
  BY DEF RereadPaths, Tell
<1>2. known' \in [Paths -> File]
  BY DEF WriterTypes
<1>3. a \in AnswerRecord /\ a.kind = "reread" /\ a.token = w.token /\ a.lib = known'
  BY <1>1, <1>2, WriterTells
<1> HIDE DEF a
<1>4. answers \in Seq(AnswerRecord)
  BY DEF TagTypeOK
<1>5. /\ \A i \in DOMAIN answers' :
            \/ i \in DOMAIN answers /\ answers'[i] = answers[i]
            \/ answers'[i] = a
      /\ Len(answers) + 1 \in DOMAIN answers' /\ answers'[Len(answers) + 1] = a
      /\ \A i \in DOMAIN answers : i < Len(answers) + 1
  BY <1>1, <1>3, <1>4, QueueAppend
<1>6. ASSUME NEW i \in DOMAIN answers', LastReread(i)' PROVE answers'[i].lib = known'
  <2>1. CASE i \in DOMAIN answers /\ answers'[i] = answers[i]
    BY <1>3, <1>5, <1>6, <2>1 DEF LastReread
  <2> QED BY <1>3, <1>5, <2>1
<1> QED BY <1>1, <1>3, <1>5, <1>6 DEF LibraryFollows

-----------------------------------------------------------------------------
(* The conversation.  Numbers are given out once; an answer with the number   *)
(* of the overlay is to what it asked last; and from Confirm to the reread    *)
(* nothing else is under way under the number of the overlay.                 *)

TokensOld ==
    /\ ov.token < token
    /\ w.pc # "idle" => 1 <= w.token /\ w.token < token
    /\ \A i \in DOMAIN requests : 1 <= requests[i].token /\ requests[i].token < token
    /\ \A i \in DOMAIN answers : 1 <= answers[i].token /\ answers[i].token < token

DetailsAsked ==
    /\ \A i \in DOMAIN requests :
          requests[i].kind = "details" /\ requests[i].token = ov.token => requests[i].of = ov.asked
    /\ \A i \in DOMAIN answers :
          answers[i].kind = "details" /\ answers[i].token = ov.token => answers[i].of = ov.asked

Sending == \E i \in DOMAIN requests : requests[i].kind = "apply"

ApplyInSight ==
    /\ \A i \in DOMAIN requests :
          requests[i].kind = "apply" => ov.phase = "Applying" /\ ov.token = requests[i].token
    /\ w.pc # "idle" => ov.phase = "Applying" /\ ov.token = w.token
    /\ ov.phase = "Applying" =>
          /\ \A i \in DOMAIN requests : requests[i].token = ov.token => requests[i].kind = "apply"
          /\ \A i \in DOMAIN answers :
                answers[i].token = ov.token => answers[i].kind \in {"applied", "reread"}
          /\ \A i, k \in DOMAIN requests :
                requests[i].kind = "apply" /\ requests[k].kind = "apply" => i = k
          /\ Sending => w.pc = "idle"
          /\ w.pc # "idle" \/ Sending =>
                \A i \in DOMAIN answers : answers[i].token = ov.token => answers[i].kind = "applied"

TalkInv == TokensOld /\ DetailsAsked /\ ApplyInSight /\ PreviewIsAsked /\ WaitsForAnswer

Quiet == UNCHANGED <<answers, w, dropped>>

\* What a request that is sent adds to the channel.
LEMMA SentQueue ==
    ASSUME TagTypeOK, NEW m, Sends(m)
    PROVE  /\ \A i \in DOMAIN requests' : \/ i \in DOMAIN requests /\ requests'[i] = requests[i]
                                          \/ i \notin DOMAIN requests /\ requests'[i] = m
                                                /\ i = Len(requests) + 1
           /\ \A i \in DOMAIN requests : i \in DOMAIN requests' /\ requests'[i] = requests[i]
           /\ Len(requests) + 1 \in DOMAIN requests' /\ requests'[Len(requests) + 1] = m
           /\ m.token = token /\ ov'.token = token /\ token' = token + 1 /\ token \in Nat
           /\ m.token \in Nat /\ ov.token \in Nat /\ ov'.token \in Nat
<1>1. requests \in Seq(RequestRecord) /\ m \in RequestRecord /\ requests' = Append(requests, m)
      /\ token \in 1..MaxTokens /\ MaxTokens \in Nat /\ ov.token \in 0..MaxTokens
  BY TagAssumption, OverlayFields DEF TagTypeOK, Sends
<1>2. m.token = token /\ ov'.token = token /\ token' = token + 1 /\ token \in Nat
      /\ m.token \in Nat /\ ov.token \in Nat /\ ov'.token \in Nat
  BY <1>1 DEF Sends
<1> QED BY <1>1, <1>2, QueueAppend

\* Numbers are natural numbers.
LEMMA Numbers ==
    ASSUME TagTypeOK
    PROVE  /\ token \in Nat /\ ov.token \in Nat /\ w.token \in Nat
           /\ \A i \in DOMAIN requests : requests[i].token \in Nat
           /\ \A i \in DOMAIN answers : answers[i].token \in Nat
<1>1. ov.token \in 0..MaxTokens /\ w.token \in 0..MaxTokens /\ token \in 1..MaxTokens
      /\ MaxTokens \in Nat
  BY TagAssumption, OverlayFields, WriterFields DEF TagTypeOK
<1>2. \A i \in DOMAIN requests : requests[i] \in RequestRecord
  BY ElementOfSeq, LenProperties DEF TagTypeOK
<1>3. \A i \in DOMAIN answers : answers[i] \in AnswerRecord
  BY ElementOfSeq, LenProperties DEF TagTypeOK
<1>4. \A m \in RequestRecord : m.token \in 0..MaxTokens
  BY DEF RequestRecord
<1>5. \A m \in AnswerRecord : m.token \in 0..MaxTokens
  BY DEF AnswerRecord
<1> QED BY <1>1, <1>2, <1>3, <1>4, <1>5

LEMMA MovesTalk ==
    ASSUME TagTypeOK, TalkInv, Moves, Quiet
    PROVE  TalkInv'
<1>1. /\ UNCHANGED <<answers, w, dropped, token, requests>>
      /\ ov.phase # "Applying" /\ ov'.phase \notin Pending \cup {"DiffPreview"}
      /\ ov'.token \in {0, ov.token} /\ (ov'.token = 0 \/ ov'.asked = ov.asked)
      /\ ov'.phase # "Applying"
  BY DEF Quiet, Moves, Pending
<1>2. TokensOld /\ DetailsAsked /\ ApplyInSight /\ 0 < token /\ token \in Nat
  BY Numbers, TagAssumption DEF TalkInv, TagTypeOK
<1>3. TokensOld'
  BY <1>1, <1>2 DEF TokensOld
<1>4. DetailsAsked'
  BY <1>1, <1>2 DEF DetailsAsked, TokensOld
<1>5. ApplyInSight'
  BY <1>1, <1>2 DEF ApplyInSight, Sending
<1>6. PreviewIsAsked' /\ WaitsForAnswer'
  BY <1>1 DEF PreviewIsAsked, WaitsForAnswer
<1> QED BY <1>3, <1>4, <1>5, <1>6 DEF TalkInv

\* A request under a new number, by an overlay that will wait for it.
LEMMA SendsTalk ==
    ASSUME TagTypeOK, TalkInv, NEW m, Sends(m), Quiet
    PROVE  /\ TokensOld' /\ WaitsForAnswer'
           /\ (m.kind = "details" => m.of = ov'.asked) => DetailsAsked'
<1>1. UNCHANGED <<answers, w, dropped>> /\ TokensOld
  BY DEF Quiet, TalkInv
<1>2. TokensOld'
  <2>1. ov'.token < token' /\ (w'.pc # "idle" => 1 <= w'.token /\ w'.token < token')
    BY <1>1, SentQueue, Numbers DEF TokensOld
  <2>2. ASSUME NEW i \in DOMAIN requests'
        PROVE  1 <= requests'[i].token /\ requests'[i].token < token'
    BY <1>1, SentQueue, Numbers, TagAssumption, SMTT(30) DEF TokensOld, TagTypeOK
  <2>3. \A i \in DOMAIN answers' : 1 <= answers'[i].token /\ answers'[i].token < token'
    BY <1>1, SentQueue, Numbers DEF TokensOld
  <2> QED BY <2>1, <2>2, <2>3 DEF TokensOld
<1>3. WaitsForAnswer'
  BY SentQueue DEF WaitsForAnswer, InFlight
<1>4. ASSUME m.kind = "details" => m.of = ov'.asked
      PROVE  DetailsAsked'
  <2>1. \A i \in DOMAIN answers' : answers'[i].token # ov'.token
    BY <1>1, SentQueue, Numbers DEF TokensOld
  <2>2. \A i \in DOMAIN requests : requests[i].token # ov'.token
    BY <1>1, SentQueue, Numbers DEF TokensOld
  <2>3. ASSUME NEW i \in DOMAIN requests', requests'[i].kind = "details",
               requests'[i].token = ov'.token
        PROVE  requests'[i].of = ov'.asked
    BY <1>4, <2>2, <2>3, SentQueue
  <2> QED BY <2>1, <2>3 DEF DetailsAsked
<1> QED BY <1>2, <1>3, <1>4

LEMMA AsksTalk ==
    ASSUME TagTypeOK, TalkInv, NEW m, Asks(m), Quiet
    PROVE  TalkInv'
<1>1. UNCHANGED <<answers, w, dropped>> /\ ApplyInSight
  BY DEF Quiet, TalkInv
<1>2. /\ Sends(m) /\ ov.phase # "Applying" /\ m.kind # "apply"
      /\ ov'.phase \in {"SearchPending", "LoadingRelease"}
      /\ m.kind = "details" => m.of = ov'.asked
  BY DEF Asks, Asked
<1>3. ApplyInSight'
  <2>1. w.pc = "idle" /\ \A i \in DOMAIN requests : requests[i].kind # "apply"
    BY <1>1, <1>2 DEF ApplyInSight
  <2>2. \A i \in DOMAIN requests' : requests'[i].kind # "apply"
    BY <1>2, <2>1, SentQueue
  <2> QED BY <1>1, <1>2, <2>1, <2>2 DEF ApplyInSight
<1>4. PreviewIsAsked'
  BY <1>2 DEF PreviewIsAsked
<1> QED BY <1>2, <1>3, <1>4, SendsTalk DEF TalkInv

LEMMA ConfirmsTalk ==
    ASSUME TagTypeOK, TalkInv, NEW m, Confirms(m), Quiet
    PROVE  TalkInv'
<1>1. UNCHANGED <<answers, w, dropped>> /\ ApplyInSight /\ TokensOld /\ PreviewIsAsked
  BY DEF Quiet, TalkInv
<1>2. /\ Sends(m) /\ ov.phase = "DiffPreview" /\ m.kind = "apply"
      /\ ov'.phase = "Applying" /\ ov'.of = ov.of /\ ov'.asked = ov.asked /\ ov'.sel = ov.sel
  BY DEF Confirms
<1>3. ApplyInSight'
  <2>1. w.pc = "idle" /\ \A i \in DOMAIN requests : requests[i].kind # "apply"
    BY <1>1, <1>2 DEF ApplyInSight
  <2>2. \A i \in DOMAIN requests : requests[i].token # ov'.token
    BY <1>1, <1>2, SentQueue, Numbers DEF TokensOld
  <2>3. \A i \in DOMAIN answers : answers[i].token # ov'.token
    BY <1>1, <1>2, SentQueue, Numbers DEF TokensOld
  <2>4. \A i \in DOMAIN requests' :
           \/ requests'[i].kind # "apply" /\ requests'[i].token # ov'.token
           \/ requests'[i] = m /\ i = Len(requests) + 1
    BY <1>2, <2>1, <2>2, SentQueue
  <2>5. m.token = ov'.token
    BY <1>2 DEF Sends
  <2> QED BY <1>1, <1>2, <2>1, <2>3, <2>4, <2>5 DEF ApplyInSight, Sending
<1>4. PreviewIsAsked'
  <2>1. PICK tag, ren : ov'.diff = Chosen(ov.diff, tag, ren)
    BY DEF Confirms
  <2>2. ov.diff \in SUBSET Entry
    BY OverlayFields DEF TagTypeOK
  <2>3. ov.of = ov.asked /\ \A e \in ov.diff : \E s \in ov.sel : e.dest \in {Named[ov.of][s], e.src}
    BY <1>1, <1>2 DEF PreviewIsAsked
  <2>4. \A e \in ov'.diff : \E x \in ov.diff : e.src = x.src /\ e.dest = x.dest
    BY <2>1, <2>2, ChosenTypes
  <2>5. \A e \in ov'.diff : \E s \in ov'.sel : e.dest \in {Named[ov'.of][s], e.src}
    BY <1>2, <2>3, <2>4
  <2> QED BY <1>2, <2>3, <2>5 DEF PreviewIsAsked
<1>5. TokensOld' /\ WaitsForAnswer' /\ DetailsAsked'
  BY <1>2, SendsTalk
<1> QED BY <1>3, <1>4, <1>5 DEF TalkInv

-----------------------------------------------------------------------------
(* The App takes an answer.                                                   *)

LEMMA TakenAnswer ==
    ASSUME TagTypeOK, Handle
    PROVE  /\ UNCHANGED <<w, dropped>>
           /\ 1 \in DOMAIN answers /\ Next1 = answers[1]
           /\ \A i \in DOMAIN answers' : i + 1 \in DOMAIN answers /\ answers'[i] = answers[i + 1]
           /\ \A i \in DOMAIN answers :
                 i = 1 \/ (i - 1 \in DOMAIN answers' /\ answers'[i - 1] = answers[i])
<1>1. answers # << >> /\ answers' = Tail(answers) /\ UNCHANGED <<w, dropped>>
  BY HandleFrame
<1>2. answers \in Seq(AnswerRecord)
  BY DEF TagTypeOK
<1> QED BY <1>1, <1>2, QueueTail DEF Next1

LEMMA IgnoresTalk ==
    ASSUME TagTypeOK, TalkInv, Handle, Ignores
    PROVE  TalkInv'
<1>1. UNCHANGED <<ov, token, requests, w, dropped>>
  BY TakenAnswer DEF Ignores
<1>2. TokensOld' /\ DetailsAsked'
  BY <1>1, TakenAnswer DEF TalkInv, TokensOld, DetailsAsked
<1>3. ApplyInSight'
  BY <1>1, TakenAnswer DEF TalkInv, ApplyInSight, Sending
<1>4. PreviewIsAsked'
  BY <1>1 DEF TalkInv, PreviewIsAsked
<1>5. WaitsForAnswer'
  <2> SUFFICES ASSUME ov.phase \in Pending PROVE InFlight(ov.token)'
    BY <1>1 DEF WaitsForAnswer
  <2>1. InFlight(ov.token)
    BY DEF TalkInv, WaitsForAnswer
  <2>2. ov # Closed
    BY DEF Closed, Pending
  <2>3. ASSUME NEW i \in DOMAIN answers, answers[i].token = ov.token, answers[i].kind # "applied"
        PROVE  \E k \in DOMAIN answers' : answers'[k].token = ov.token /\ answers'[k].kind # "applied"
    <3>1. i # 1
      BY <2>2, <2>3, TakenAnswer DEF Ignores
    <3> QED BY <2>3, <3>1, TakenAnswer
  <2> QED BY <1>1, <2>1, <2>3 DEF InFlight
<1> QED BY <1>2, <1>3, <1>4, <1>5 DEF TalkInv

\* An answer that an overlay in Applying accepts is the reread, after which nothing of
\* it is under way.
LEMMA AcceptedEnds ==
    ASSUME TagTypeOK, TalkInv, Handle, Accepted
    PROVE  /\ w.pc = "idle" /\ ~Sending
           /\ ov.phase = "Applying" => Next1.kind = "reread"
<1>1. Next1 = answers[1] /\ 1 \in DOMAIN answers /\ Next1.token = ov.token /\ Next1.kind # "applied"
  BY TakenAnswer DEF Accepted
<1> QED BY <1>1 DEF TalkInv, ApplyInSight, Sending

LEMMA ShowsTalk ==
    ASSUME TagTypeOK, TalkInv, Handle, Shows \/ Previews
    PROVE  TalkInv'
<1>1. /\ UNCHANGED <<token, requests, w, dropped>> /\ Accepted
      /\ ov'.token = ov.token /\ ov'.asked = ov.asked
      /\ ov'.phase \in {"Error", "SearchResults", "Done", "DiffPreview"}
  BY TakenAnswer DEF Shows, Previews
<1>2. TokensOld' /\ DetailsAsked'
  BY <1>1, TakenAnswer DEF TalkInv, TokensOld, DetailsAsked
<1>3. ApplyInSight'
  BY <1>1, AcceptedEnds DEF ApplyInSight, Sending
<1>4. PreviewIsAsked'
  <2>1. CASE Shows
    BY <2>1 DEF Shows, PreviewIsAsked
  <2>2. CASE Previews
    <3>1. /\ Next1.kind = "details" /\ Next1.of \in Releases /\ Next1.token = ov.token
          /\ ov'.of = Next1.of /\ ov'.diff = Diff(Next1.of) /\ ov'.sel = ov.sel
      BY <2>2 DEF Previews, Accepted
    <3>2. Next1.of = ov.asked
      BY <3>1, TakenAnswer DEF TalkInv, DetailsAsked
    <3>3. \A e \in Diff(Next1.of) : \E s \in ov.sel : e.dest = Named[Next1.of][s]
      BY <3>1, DiffTypes
    <3> QED BY <1>1, <3>1, <3>2, <3>3 DEF PreviewIsAsked
  <2> QED BY <2>1, <2>2
<1>5. WaitsForAnswer'
  BY <1>1 DEF WaitsForAnswer, Pending
<1> QED BY <1>2, <1>3, <1>4, <1>5 DEF TalkInv

LEMMA FollowsUpTalk ==
    ASSUME TagTypeOK, TalkInv, Handle, NEW m, FollowsUp(m)
    PROVE  TalkInv'
<1>1. /\ UNCHANGED <<w, dropped>> /\ Accepted /\ Sends(m) /\ m.kind \notin {"details", "apply"}
      /\ ov'.phase = ov.phase /\ ov'.asked = ov.asked /\ ov'.of = ov.of
      /\ ov'.sel = ov.sel /\ ov'.diff = ov.diff /\ Next1.kind = "acoustid"
  BY TakenAnswer DEF FollowsUp
<1>2. ov.phase # "Applying" /\ w.pc = "idle" /\ ~Sending
  BY <1>1, AcceptedEnds
<1>3. TokensOld'
  <2>1. TokensOld
    BY DEF TalkInv
  <2>2. \A i \in DOMAIN requests' : 1 <= requests'[i].token /\ requests'[i].token < token'
    BY <1>1, <2>1, SentQueue, Numbers, TagAssumption, SMTT(30) DEF TokensOld, TagTypeOK
  <2>3. \A i \in DOMAIN answers' : 1 <= answers'[i].token /\ answers'[i].token < token'
    BY <1>1, <2>1, SentQueue, TakenAnswer, Numbers DEF TokensOld
  <2>4. ov'.token < token'
    BY <1>1, SentQueue
  <2> QED BY <1>1, <1>2, <2>2, <2>3, <2>4 DEF TokensOld
<1>4. DetailsAsked'
  <2>1. TokensOld
    BY DEF TalkInv
  <2>2. \A i \in DOMAIN answers' : answers'[i].token # ov'.token
    BY <1>1, <2>1, SentQueue, TakenAnswer, Numbers DEF TokensOld
  <2>3. \A i \in DOMAIN requests : requests[i].token # ov'.token
    BY <1>1, <2>1, SentQueue, Numbers DEF TokensOld
  <2>4. \A i \in DOMAIN requests' : requests'[i].kind = "details" => requests'[i].token # ov'.token
    BY <1>1, <2>3, SentQueue
  <2> QED BY <2>2, <2>4 DEF DetailsAsked
<1>5. ApplyInSight'
  <2>1. \A i \in DOMAIN requests' : requests'[i].kind # "apply"
    BY <1>1, <1>2, SentQueue DEF Sending
  <2> QED BY <1>1, <1>2, <2>1 DEF ApplyInSight
<1>6. PreviewIsAsked'
  BY <1>1 DEF TalkInv, PreviewIsAsked
<1>7. WaitsForAnswer'
  BY <1>1, SentQueue DEF WaitsForAnswer, InFlight
<1> QED BY <1>3, <1>4, <1>5, <1>6, <1>7 DEF TalkInv

-----------------------------------------------------------------------------
(* The worker takes a request.                                                *)

LEMMA TakenRequest ==
    ASSUME TagTypeOK, requests # << >>, requests' = Tail(requests)
    PROVE  /\ 1 \in DOMAIN requests /\ Head(requests) = requests[1]
           /\ \A i \in DOMAIN requests' : /\ i + 1 \in DOMAIN requests
                                          /\ requests'[i] = requests[i + 1]
                                          /\ i + 1 # 1 /\ i \in Nat
           /\ \A i \in DOMAIN requests :
                 i = 1 \/ (i - 1 \in DOMAIN requests' /\ requests'[i - 1] = requests[i])
<1>1. requests \in Seq(RequestRecord)
  BY DEF TagTypeOK
<1>2. \A i \in DOMAIN requests' : i \in Nat \ {0}
  BY <1>1, QueueTail
<1> QED BY <1>1, <1>2, QueueTail

LEMMA ToldAnswer ==
    ASSUME TagTypeOK, NEW a \in AnswerRecord, answers' = Append(answers, a)
    PROVE  /\ \A i \in DOMAIN answers' : \/ i \in DOMAIN answers /\ answers'[i] = answers[i]
                                         \/ answers'[i] = a
           /\ \A i \in DOMAIN answers : i \in DOMAIN answers' /\ answers'[i] = answers[i]
           /\ Len(answers) + 1 \in DOMAIN answers' /\ answers'[Len(answers) + 1] = a
<1>1. answers \in Seq(AnswerRecord)
  BY DEF TagTypeOK
<1> QED BY <1>1, QueueAppend

LEMMA RespondTalk ==
    ASSUME TagTypeOK, TalkInv, Respond
    PROVE  TalkInv'
<1>1. PICK a : Responds(a)
  BY RespondCases
<1>2. UNCHANGED <<ov, token, w, dropped>>
  BY RespondCases
<1> DEFINE c == requests[1]
<1>3. /\ 1 \in DOMAIN requests /\ c.kind # "apply" /\ a.kind = c.kind /\ a.token = c.token
      /\ a.kind = "details" => a.of = c.of
      /\ a \in AnswerRecord /\ requests # << >> /\ requests' = Tail(requests)
      /\ answers' = Append(answers, a) /\ w.pc = "idle"
  BY <1>1, TakenRequest DEF Responds
<1>4. c.kind \in Asked
  <2>1. Head(requests) \in RequestRecord
    BY <1>3, QueueTail DEF TagTypeOK
  <2> QED BY <1>3, <2>1, TakenRequest DEF RequestRecord
<1>5. TokensOld'
  <2>1. \A i \in DOMAIN requests' : 1 <= requests'[i].token /\ requests'[i].token < token
    BY <1>3, TakenRequest DEF TalkInv, TokensOld
  <2>2. \A i \in DOMAIN answers' : 1 <= answers'[i].token /\ answers'[i].token < token
    BY <1>3, ToldAnswer DEF TalkInv, TokensOld
  <2> QED BY <1>2, <2>1, <2>2 DEF TalkInv, TokensOld
<1>6. DetailsAsked'
  <2>1. DetailsAsked
    BY DEF TalkInv
  <2>2. \A i \in DOMAIN requests' :
           requests'[i].kind = "details" /\ requests'[i].token = ov.token => requests'[i].of = ov.asked
    BY <1>3, <2>1, TakenRequest DEF DetailsAsked
  <2>3. \A i \in DOMAIN answers' :
           answers'[i].kind = "details" /\ answers'[i].token = ov.token => answers'[i].of = ov.asked
    BY <1>3, <2>1, ToldAnswer DEF DetailsAsked
  <2> QED BY <1>2, <2>2, <2>3 DEF DetailsAsked
<1>7. ApplyInSight'
  <2>1. ApplyInSight
    BY DEF TalkInv
  <2>2. /\ \A i \in DOMAIN requests' :
              requests'[i].kind = "apply" => ov.phase = "Applying" /\ ov.token = requests'[i].token
        /\ Sending' => Sending
    BY <1>3, <2>1, TakenRequest DEF ApplyInSight, Sending
  <2>3. ASSUME ov.phase = "Applying"
        PROVE  /\ \A i \in DOMAIN requests' : requests'[i].token = ov.token => requests'[i].kind = "apply"
               /\ \A i, k \in DOMAIN requests' :
                     requests'[i].kind = "apply" /\ requests'[k].kind = "apply" => i = k
               /\ a.token # ov.token
    <3>1. \A i \in DOMAIN requests' : requests'[i].token = ov.token => requests'[i].kind = "apply"
      BY <1>3, <2>1, <2>3, TakenRequest DEF ApplyInSight
    <3>2. ASSUME NEW i \in DOMAIN requests', NEW k \in DOMAIN requests',
                 requests'[i].kind = "apply", requests'[k].kind = "apply"
          PROVE  i = k
      <4>1. i + 1 = k + 1
        BY <1>3, <2>1, <2>3, <3>2, TakenRequest DEF ApplyInSight
      <4>2. i \in Nat /\ k \in Nat
        BY <1>3, TakenRequest
      <4> QED BY <4>1, <4>2
    <3>3. a.token # ov.token
      BY <1>3, <2>1, <2>3 DEF ApplyInSight
    <3> QED BY <3>1, <3>2, <3>3
  <2>4. \A i \in DOMAIN answers' : \/ i \in DOMAIN answers /\ answers'[i] = answers[i]
                                   \/ answers'[i] = a
    BY <1>3, ToldAnswer
  <2> QED BY <1>2, <1>3, <2>1, <2>2, <2>3, <2>4 DEF ApplyInSight
<1>8. PreviewIsAsked'
  BY <1>2 DEF TalkInv, PreviewIsAsked
<1>9. WaitsForAnswer'
  <2> SUFFICES ASSUME ov.phase \in Pending PROVE InFlight(ov.token)'
    BY <1>2 DEF WaitsForAnswer
  <2>1. InFlight(ov.token)
    BY DEF TalkInv, WaitsForAnswer
  <2>2. ASSUME NEW i \in DOMAIN requests, requests[i].token = ov.token
        PROVE  InFlight(ov.token)'
    <3>1. CASE i = 1
      <4>1. a.token = ov.token /\ a.kind # "applied"
        BY <1>3, <1>4, <2>2, <3>1 DEF Asked
      <4> QED BY <1>2, <1>3, <4>1, ToldAnswer DEF InFlight
    <3>2. CASE i # 1
      BY <1>2, <1>3, <2>2, <3>2, TakenRequest, ZenonT(30) DEF InFlight
    <3> QED BY <3>1, <3>2
  <2>3. ASSUME NEW i \in DOMAIN answers, answers[i].token = ov.token, answers[i].kind # "applied"
        PROVE  InFlight(ov.token)'
    BY <1>2, <1>3, <2>3, ToldAnswer DEF InFlight
  <2> QED BY <1>2, <2>1, <2>2, <2>3 DEF InFlight
<1> QED BY <1>5, <1>6, <1>7, <1>8, <1>9 DEF TalkInv

\* Apply, or a sync that throws the request away.
LEMMA TakesTalk ==
    ASSUME TagTypeOK, TalkInv, requests # << >>, requests' = Tail(requests),
           UNCHANGED <<ov, token, answers>>,
           \/ /\ Head(requests).kind = "apply" /\ dropped' = dropped
              /\ w'.pc # "idle" /\ w'.token = Head(requests).token
           \/ /\ w' = w /\ dropped' = dropped \cup {Head(requests).token}
    PROVE  TalkInv'
<1> DEFINE c == requests[1]
<1>1. 1 \in DOMAIN requests /\ Head(requests) = c
  BY TakenRequest
<1>2. TokensOld'
  <2>1. \A i \in DOMAIN requests' : 1 <= requests'[i].token /\ requests'[i].token < token
    BY TakenRequest DEF TalkInv, TokensOld
  <2>2. w'.pc # "idle" => 1 <= w'.token /\ w'.token < token
    BY <1>1 DEF TalkInv, TokensOld
  <2> QED BY <2>1, <2>2 DEF TalkInv, TokensOld
<1>3. DetailsAsked'
  BY TakenRequest DEF TalkInv, DetailsAsked
<1>4. ApplyInSight'
  <2>1. ApplyInSight
    BY DEF TalkInv
  <2>2. /\ \A i \in DOMAIN requests' :
              requests'[i].kind = "apply" => ov.phase = "Applying" /\ ov.token = requests'[i].token
        /\ Sending' => Sending
    BY <2>1, TakenRequest DEF ApplyInSight, Sending
  <2>3. ASSUME ov.phase = "Applying"
        PROVE  /\ \A i \in DOMAIN requests' : requests'[i].token = ov.token => requests'[i].kind = "apply"
               /\ \A i, k \in DOMAIN requests' :
                     requests'[i].kind = "apply" /\ requests'[k].kind = "apply" => i = k
    <3>1. \A i \in DOMAIN requests' : requests'[i].token = ov.token => requests'[i].kind = "apply"
      BY <2>1, <2>3, TakenRequest DEF ApplyInSight
    <3>2. ASSUME NEW i \in DOMAIN requests', NEW k \in DOMAIN requests',
                 requests'[i].kind = "apply", requests'[k].kind = "apply"
          PROVE  i = k
      <4>1. i + 1 = k + 1
        BY <2>1, <2>3, <3>2, TakenRequest DEF ApplyInSight
      <4>2. i \in Nat /\ k \in Nat
        BY TakenRequest
      <4> QED BY <4>1, <4>2
    <3> QED BY <3>1, <3>2
  <2>4. CASE w' = w
    BY <2>1, <2>2, <2>3, <2>4 DEF ApplyInSight
  <2>5. CASE c.kind = "apply" /\ w'.token = c.token
    <3>1. Sending /\ ov.phase = "Applying" /\ ov.token = c.token
      BY <1>1, <2>1, <2>5 DEF ApplyInSight, Sending
    <3>2. ~Sending'
      <4> SUFFICES ASSUME NEW i \in DOMAIN requests', requests'[i].kind = "apply" PROVE FALSE
        BY DEF Sending
      <4>1. i + 1 \in DOMAIN requests /\ requests[i + 1].kind = "apply" /\ i + 1 # 1
        BY TakenRequest
      <4> QED BY <1>1, <2>1, <2>5, <3>1, <4>1 DEF ApplyInSight
    <3> QED BY <2>1, <2>2, <2>3, <2>5, <3>1, <3>2 DEF ApplyInSight
  <2> QED BY <1>1, <2>4, <2>5
<1>5. PreviewIsAsked'
  BY DEF TalkInv, PreviewIsAsked
<1>6. WaitsForAnswer'
  <2> SUFFICES ASSUME ov.phase \in Pending PROVE InFlight(ov.token)'
    BY DEF WaitsForAnswer
  <2>1. InFlight(ov.token)
    BY DEF TalkInv, WaitsForAnswer
  <2>2. ASSUME NEW i \in DOMAIN requests, requests[i].token = ov.token
        PROVE  InFlight(ov.token)'
    <3>1. CASE i = 1
      BY <1>1, <2>2, <3>1 DEF InFlight
    <3>2. CASE i # 1
      BY <2>2, <3>2, TakenRequest DEF InFlight
    <3> QED BY <3>1, <3>2
  <2>3. CASE w.pc # "idle" /\ w.token = ov.token
    <3>1. CASE w' = w
      BY <2>3, <3>1 DEF InFlight
    <3>2. CASE Head(requests).kind = "apply"
      BY <1>1, <2>3, <3>2 DEF TalkInv, ApplyInSight, Sending
    <3> QED BY <3>1, <3>2
  <2> QED BY <2>1, <2>2, <2>3 DEF InFlight
<1> QED BY <1>2, <1>3, <1>4, <1>5, <1>6 DEF TalkInv

-----------------------------------------------------------------------------
(* The worker goes on, and tells the App.                                     *)

LEMMA WritingTalk ==
    ASSUME TagTypeOK, TalkInv, UNCHANGED <<ov, token, requests, answers, dropped>>,
           w.pc # "idle", w'.pc # "idle", w'.token = w.token
    PROVE  TalkInv'
<1>1. TokensOld' /\ DetailsAsked'
  BY DEF TalkInv, TokensOld, DetailsAsked
<1>2. ApplyInSight'
  BY DEF TalkInv, ApplyInSight, Sending
<1>3. PreviewIsAsked' /\ WaitsForAnswer'
  BY DEF TalkInv, PreviewIsAsked, WaitsForAnswer, InFlight
<1> QED BY <1>1, <1>2, <1>3 DEF TalkInv

LEMMA TellsTalk ==
    ASSUME TagTypeOK, TalkInv, UNCHANGED <<ov, token, requests, dropped>>, w.pc # "idle",
           NEW a \in AnswerRecord, answers' = Append(answers, a), a.token = w.token,
           \/ a.kind = "applied" /\ w'.pc # "idle" /\ w'.token = w.token
           \/ a.kind = "reread" /\ w'.pc = "idle"
    PROVE  TalkInv'
<1>1. TokensOld'
  <2>1. \A i \in DOMAIN answers' : 1 <= answers'[i].token /\ answers'[i].token < token
    BY ToldAnswer DEF TalkInv, TokensOld
  <2> QED BY <2>1 DEF TalkInv, TokensOld
<1>2. DetailsAsked'
  BY ToldAnswer DEF TalkInv, DetailsAsked
<1>3. ApplyInSight'
  <2>1. ov.phase = "Applying" /\ ov.token = w.token /\ ~Sending
    BY DEF TalkInv, ApplyInSight
  <2>2. \A i \in DOMAIN answers' : \/ i \in DOMAIN answers /\ answers'[i] = answers[i]
                                   \/ answers'[i] = a
    BY ToldAnswer
  <2>3. ~Sending' /\ Sending' = Sending
    BY <2>1 DEF Sending
  <2> QED BY <2>1, <2>2, <2>3 DEF TalkInv, ApplyInSight
<1>4. PreviewIsAsked'
  BY DEF TalkInv, PreviewIsAsked
<1>5. WaitsForAnswer'
  <2> SUFFICES ASSUME ov.phase \in Pending PROVE InFlight(ov.token)'
    BY DEF WaitsForAnswer
  <2>1. ov.token = w.token
    BY DEF TalkInv, ApplyInSight
  <2>2. CASE a.kind = "reread"
    BY <2>1, <2>2, ToldAnswer DEF InFlight
  <2>3. CASE w'.pc # "idle" /\ w'.token = w.token
    BY <2>1, <2>3 DEF InFlight
  <2> QED BY <2>2, <2>3
<1> QED BY <1>1, <1>2, <1>3, <1>4, <1>5 DEF TalkInv

-----------------------------------------------------------------------------
(* The inductive invariant of the tag manager.                                *)

TagInv == TagTypeOK /\ ReleaseKnown /\ WriterInv /\ LibraryFollows /\ TalkInv

LEMMA TagInitInv == TagInit => TagInv
<1> SUFFICES ASSUME TagInit PROVE TagInv
  OBVIOUS
<1>1. /\ requests = << >> /\ answers = << >> /\ ov = Closed /\ token = 1 /\ w = Idle
      /\ known = fs /\ lib = fs /\ tmp = [p \in Paths |-> FALSE]
      /\ faults = [n |-> 0, litter |-> FALSE]
  BY DEF TagInit
<1>2. fs \in [Paths -> File] /\ (\A p \in Paths : fs[p].whole) /\ halfway = {}
  <2>1. \A p \in Paths : (\E s \in Songs : Places[s] = p) =>
           (CHOOSE s \in Songs : Places[s] = p) \in Songs
    OBVIOUS
  <2>2. \A s \in Songs : [song |-> s, tags |-> "old", whole |-> TRUE] \in File
    BY DEF File
  <2>3. NoFile \in File /\ NoFile.whole
    BY DEF File, NoFile
  <2>4. \A p \in Paths : fs[p] \in File /\ fs[p].whole
    BY <2>1, <2>2, <2>3 DEF TagInit
  <2>5. fs = [p \in Paths |-> fs[p]]
    BY DEF TagInit
  <2> QED BY <2>4, <2>5 DEF TagInit
<1>3. DOMAIN requests = {} /\ DOMAIN answers = {}
  BY <1>1, EmptySeq
<1>4. TagTypeOK
  <2>1. requests \in Seq(RequestRecord) /\ answers \in Seq(AnswerRecord)
    BY <1>1, EmptySeq
  <2>2. ov \in Overlay /\ w \in Writer
    BY <1>1, ClosedOverlay, IdleWriter
  <2>3. token \in 1..MaxTokens /\ faults \in [n : 0..MaxFaults, litter : BOOLEAN]
    BY <1>1, TagAssumption
  <2>4. tmp \in [Paths -> BOOLEAN]
    BY <1>1
  <2> QED BY <1>1, <1>2, <2>1, <2>2, <2>3, <2>4 DEF TagTypeOK
<1>5. w.pc = "idle" /\ w.todo = {} /\ w.at = {} /\ w.token = 0
      /\ ov.phase = "Closed" /\ ov.token = 0
  BY <1>1, IdleWriter DEF Closed
<1>6. ReleaseKnown
  BY <1>3, <1>5 DEF ReleaseKnown
<1>7. WriterInv
  BY <1>1, <1>2, <1>5 DEF WriterInv, OfBatch, DraftInHand, WholeFiles, CacheFollows, PreflightHolds, MoveHolds
<1>8. LibraryFollows
  BY <1>1, <1>3 DEF LibraryFollows
<1>9. TalkInv
  BY <1>1, <1>3, <1>5 DEF TalkInv, TokensOld, DetailsAsked, ApplyInSight, Sending,
     PreviewIsAsked, WaitsForAnswer, Pending
<1> QED BY <1>4, <1>6, <1>7, <1>8, <1>9 DEF TagInv

\* Types from their parts.
LEMMA TypesTogether ==
    ASSUME AppTypes', WriterTypes', lib' \in [Paths -> File], answers' \in Seq(AnswerRecord),
           \A i \in DOMAIN answers' : answers'[i].kind = "details" => answers'[i].of \in Releases
    PROVE  TagTypeOK' /\ ReleaseKnown'
BY DEF AppTypes, WriterTypes, TagTypeOK, ReleaseKnown

LEMMA AppTypesStay ==
    ASSUME TagTypeOK, ReleaseKnown, UNCHANGED <<ov, token, requests>>
    PROVE  AppTypes'
BY DEF TagTypeOK, ReleaseKnown, AppTypes

LEMMA AnswersStay ==
    ASSUME TagTypeOK, ReleaseKnown, UNCHANGED <<lib, answers>>
    PROVE  /\ lib' \in [Paths -> File] /\ answers' \in Seq(AnswerRecord)
           /\ \A i \in DOMAIN answers' : answers'[i].kind = "details" => answers'[i].of \in Releases
BY DEF TagTypeOK, ReleaseKnown

LEMMA LibraryStays ==
    ASSUME LibraryFollows, UNCHANGED <<known, lib, answers>>
    PROVE  LibraryFollows'
BY DEF LibraryFollows, LastReread

LEMMA OverlayInv == ASSUME TagInv, KeyStep PROVE TagInv'
<1>1. TagTypeOK /\ ReleaseKnown /\ WriterInv /\ LibraryFollows /\ TalkInv /\ WriterTypes
  BY WriterTypesHold DEF TagInv
<1>2. UNCHANGED <<fs, tmp, known, lib, w, answers, dropped, halfway, faults>>
  BY KeyFrame
<1>3. WriterTypes' /\ WriterInv' /\ LibraryFollows'
  BY <1>1, <1>2, OthersWrite, LibraryStays
<1>4. TagTypeOK' /\ ReleaseKnown'
  BY <1>1, <1>2, <1>3, KeyTypes, AnswersStay, TypesTogether
<1>5. TalkInv'
  BY <1>1, <1>2, KeyCases, MovesTalk, AsksTalk, ConfirmsTalk DEF Quiet
<1> QED BY <1>3, <1>4, <1>5 DEF TagInv

LEMMA HandleInv == ASSUME TagInv, Handle PROVE TagInv'
<1>1. TagTypeOK /\ ReleaseKnown /\ WriterInv /\ LibraryFollows /\ TalkInv /\ WriterTypes
  BY WriterTypesHold DEF TagInv
<1>2. UNCHANGED <<fs, tmp, known, halfway, w, faults>>
  BY <1>1, HandleFrame
<1>3. WriterTypes' /\ WriterInv' /\ LibraryFollows'
  BY <1>1, <1>2, OthersWrite, HandleFollows
<1>4. TagTypeOK' /\ ReleaseKnown'
  BY <1>1, <1>3, HandleTypes, HandleLib, TypesTogether
<1>5. TalkInv'
  BY <1>1, HandleCases, IgnoresTalk, ShowsTalk, FollowsUpTalk
<1> QED BY <1>3, <1>4, <1>5 DEF TagInv

LEMMA TakeInv == ASSUME TagInv, Respond \/ DropCommand \/ Apply PROVE TagInv'
<1>1. TagTypeOK /\ ReleaseKnown /\ WriterInv /\ LibraryFollows /\ TalkInv /\ WriterTypes
  BY WriterTypesHold DEF TagInv
<1>2. CASE Respond
  <2>1. PICK a : Responds(a)
    BY <1>1, <1>2, RespondCases
  <2>2. UNCHANGED <<fs, tmp, known, halfway, lib, w, faults>>
    BY <1>1, <1>2, RespondCases
  <2>3. a \in AnswerRecord /\ answers' = Append(answers, a) /\ a.kind # "reread"
    <3>1. requests # << >> /\ a.kind = Head(requests).kind /\ Head(requests) \in RequestRecord
      BY <1>1, <2>1, QueueTail DEF Responds, TagTypeOK
    <3> QED BY <2>1, <3>1 DEF Responds, RequestRecord, Asked
  <2>4. LibraryFollows'
    BY <1>1, <2>2, <2>3, ToldFollows
  <2> QED BY <1>1, <1>2, <2>2, <2>4, OthersWrite, RespondTypes, RespondTalk DEF TagInv
<1>3. CASE DropCommand
  <2>1. /\ requests # << >> /\ requests' = Tail(requests)
        /\ dropped' = dropped \cup {Head(requests).token}
        /\ UNCHANGED <<fs, tmp, known, halfway, lib, ov, token, w, answers, faults>>
    BY <1>3 DEF DropCommand, Disk
  <2>2. TalkInv'
    BY <1>1, <2>1, TakesTalk
  <2> QED BY <1>1, <1>3, <2>1, <2>2, OthersWrite, DropTypes, LibraryStays DEF TagInv
<1>4. CASE Apply
  <2>1. /\ requests # << >> /\ requests' = Tail(requests) /\ Head(requests).kind = "apply"
        /\ UNCHANGED <<fs, tmp, known, lib, ov, token, answers, dropped, halfway, faults>>
        /\ w'.pc # "idle" /\ w'.token = Head(requests).token
    BY <1>4 DEF Apply, Disk, Idle
  <2>2. TalkInv'
    BY <1>1, <2>1, TakesTalk
  <2>3. WriterTypes' /\ WriterInv'
    BY <1>1, <1>4, ApplyWrites
  <2>4. AppTypes'
    <3>1. /\ requests' \in Seq(RequestRecord)
          /\ \A i \in DOMAIN requests' :
                requests'[i].kind \in {"details", "apply"} => requests'[i].of \in Releases
      BY <1>1, <2>1, TakenTypes
    <3> QED BY <1>1, <2>1, <3>1 DEF AppTypes, TagTypeOK, ReleaseKnown
  <2>5. TagTypeOK' /\ ReleaseKnown'
    BY <1>1, <2>1, <2>3, <2>4, AnswersStay, TypesTogether
  <2> QED BY <1>1, <2>1, <2>2, <2>3, <2>5, LibraryStays DEF TagInv
<1> QED BY <1>2, <1>3, <1>4

WriteStep == CopyForTags \/ WriteThenSwap \/ TagsWritten \/ Rename \/ CopyAcross \/ EndCopy \/ RemoveSource

LEMMA WriteInv ==
    ASSUME TagInv, WriteStep \/ TagsApplied \/ RereadPaths PROVE TagInv'
<1>1. TagTypeOK /\ ReleaseKnown /\ WriterInv /\ LibraryFollows /\ TalkInv /\ WriterTypes
  BY WriterTypesHold DEF TagInv
<1>2. /\ UNCHANGED <<lib, ov, token, requests, dropped>> /\ w.pc # "idle"
      /\ AppTypes'
  <2>1. UNCHANGED <<lib, ov, token, requests, dropped>> /\ w.pc # "idle"
    BY DEF WriteStep, CopyForTags, WriteThenSwap, TagsWritten, Rename, CopyAcross, EndCopy, RemoveSource, TagsApplied, RereadPaths
  <2> QED BY <1>1, <2>1, AppTypesStay
<1>3. CASE WriteStep
  <2>1. WriterTypes' /\ WriterInv' /\ w'.pc # "idle" /\ w'.token = w.token
    BY <1>1, <1>3, CopyWrites, SwapWrites, WrittenWrites, RenameWrites, AcrossWrites, EndWrites DEF WriteStep
  <2>2. UNCHANGED <<known, answers>>
    BY <1>3 DEF WriteStep, CopyForTags, WriteThenSwap, TagsWritten, Rename, CopyAcross, EndCopy, RemoveSource, Disk
  <2>3. TalkInv' /\ LibraryFollows'
    BY <1>1, <1>2, <2>1, <2>2, WritingTalk, LibraryStays
  <2>4. TagTypeOK' /\ ReleaseKnown'
    BY <1>1, <1>2, <2>1, <2>2, AnswersStay, TypesTogether
  <2> QED BY <2>1, <2>3, <2>4 DEF TagInv
<1>4. CASE TagsApplied
  <2>1. WriterTypes' /\ WriterInv' /\ w'.pc # "idle" /\ w'.token = w.token
    BY <1>1, <1>4, AppliedWrites
  <2>2. known' = known /\ answers' = Append(answers, Note("applied", w.token, w.of))
    BY <1>4 DEF TagsApplied, Disk, Tell
  <2> DEFINE a == Note("applied", w.token, w.of)
  <2>3. a \in AnswerRecord /\ a.kind = "applied" /\ a.token = w.token
    BY <1>1, <1>2, WriterTells
  <2> HIDE DEF a
  <2>4. answers' = Append(answers, a)
    BY <2>2 DEF a
  <2>5. TalkInv' /\ LibraryFollows'
    BY <1>1, <1>2, <2>1, <2>2, <2>3, <2>4, TellsTalk, ToldFollows
  <2>6. TagTypeOK' /\ ReleaseKnown'
    <3>1. lib' \in [Paths -> File]
      BY <1>1, <1>2 DEF TagTypeOK
    <3> QED BY <1>1, <1>2, <2>1, <2>3, <2>4, <3>1, ToldTypes, TypesTogether
  <2> QED BY <2>1, <2>5, <2>6 DEF TagInv
<1>5. CASE RereadPaths
  <2>1. WriterTypes' /\ WriterInv' /\ w'.pc = "idle"
    BY <1>1, <1>5, RereadWrites
  <2>2. LibraryFollows'
    BY <1>1, <1>5, <2>1, RereadFollows
  <2>3. PICK a \in AnswerRecord : a.kind = "reread" /\ a.token = w.token
                                  /\ answers' = Append(answers, a)
    BY <1>1, <1>5, <2>1, RereadFollows
  <2>4. TalkInv'
    BY <1>1, <1>2, <2>1, <2>3, TellsTalk
  <2>5. TagTypeOK' /\ ReleaseKnown'
    <3>1. lib' \in [Paths -> File]
      BY <1>1, <1>2 DEF TagTypeOK
    <3> QED BY <1>1, <1>2, <2>1, <2>3, <3>1, ToldTypes, TypesTogether
  <2> QED BY <2>1, <2>2, <2>4, <2>5 DEF TagInv
<1> QED BY <1>3, <1>4, <1>5

LEMMA QuitInv == ASSUME TagInv, Quit PROVE TagInv'
<1>1. TagTypeOK /\ WriterInv /\ WriterTypes
  BY WriterTypesHold DEF TagInv
<1>2. /\ ov' = Closed /\ token' = 1 /\ requests' = << >> /\ answers' = << >> /\ w' = Idle
      /\ known' = fs /\ lib' = fs
  BY DEF Quit
<1>3. DOMAIN requests' = {} /\ DOMAIN answers' = {}
  BY <1>2, EmptySeq
<1>4. w'.pc = "idle" /\ ov'.phase = "Closed" /\ ov'.token = 0
  BY <1>2, IdleWriter DEF Closed
<1>5. WriterTypes' /\ WriterInv'
  BY <1>1, QuitWrites
<1>6. TagTypeOK' /\ ReleaseKnown'
  <2>1. requests' \in Seq(RequestRecord) /\ answers' \in Seq(AnswerRecord)
    BY <1>2, EmptySeq
  <2>2. ov' \in Overlay /\ token' \in 1..MaxTokens /\ lib' \in [Paths -> File]
    BY <1>1, <1>2, ClosedOverlay, TagAssumption DEF TagTypeOK
  <2>3. AppTypes'
    BY <1>3, <1>4, <2>1, <2>2 DEF AppTypes
  <2> QED BY <1>3, <1>5, <2>1, <2>2, <2>3, TypesTogether
<1>7. LibraryFollows'
  BY <1>2, <1>3 DEF LibraryFollows
<1>8. TalkInv'
  BY <1>2, <1>3, <1>4 DEF TalkInv, TokensOld, DetailsAsked, ApplyInSight, Sending,
     PreviewIsAsked, WaitsForAnswer, Pending
<1> QED BY <1>5, <1>6, <1>7, <1>8 DEF TagInv

LEMMA TagNextInv == TagInv /\ [TagNext]_tagVars => TagInv'
<1> SUFFICES ASSUME TagInv, [TagNext]_tagVars PROVE TagInv'
  OBVIOUS
<1>1. CASE KeyStep
  BY <1>1, OverlayInv
<1>2. CASE Respond \/ DropCommand \/ Apply
  BY <1>2, TakeInv
<1>3. CASE WriteStep \/ TagsApplied \/ RereadPaths
  BY <1>3, WriteInv
<1>4. CASE Handle
  BY <1>4, HandleInv
<1>5. CASE Quit
  BY <1>5, QuitInv
<1>6. CASE UNCHANGED tagVars
  <2>1. UNCHANGED <<fs, tmp, known, lib, ov, token, requests, w, answers, dropped, halfway, faults>>
    BY <1>6 DEF tagVars
  <2>2. TagTypeOK' /\ ReleaseKnown'
    BY <2>1 DEF TagInv, TagTypeOK, ReleaseKnown
  <2>3. WriterInv'
    BY <2>1, WriterTypesHold, OthersWrite DEF TagInv
  <2>4. LibraryFollows'
    BY <2>1, LibraryStays DEF TagInv
  <2>5. TalkInv'
    BY <2>1 DEF TagInv, TalkInv, TokensOld, DetailsAsked, ApplyInSight, Sending,
       PreviewIsAsked, WaitsForAnswer, InFlight
  <2> QED BY <2>2, <2>3, <2>4, <2>5 DEF TagInv
<1> QED BY <1>1, <1>2, <1>3, <1>4, <1>5, <1>6 DEF TagNext, Worker, KeyStep, WriteStep

\* What the worker, the cache, the library and the overlay keep in every state.
THEOREM TagInvariance == TagSpec => []TagInv
BY TagInitInv, TagNextInv, PTL DEF TagSpec

\* The files, the overlay, the worker and both channels keep their types, for any
\* songs, releases, names, selections and bounds.
THEOREM TagTypes == TagSpec => []TagTypeOK
<1>1. TagInv => TagTypeOK
  BY DEF TagInv
<1> QED BY <1>1, TagInvariance, PTL

\* write_track_tags and write_then_swap leave every music file whole at every moment,
\* through failures of a write and the end of the process, but for the new file of a
\* move between file systems (perform_rename) that is under way or broke off.
THEOREM FilesStayWhole == TagSpec => []WholeFiles
<1>1. TagInv => WholeFiles
  BY DEF TagInv, WriterInv
<1> QED BY <1>1, TagInvariance, PTL

\* No .tagtmp is left but that of the file being written, unless the process ended or
\* the copy broke off.
THEOREM DraftsAreRemoved == TagSpec => []DraftInHand
<1>1. TagInv => DraftInHand
  BY DEF TagInv, WriterInv
<1> QED BY <1>1, TagInvariance, PTL

\* After an apply and its reread the App's library and the cache are what is on disk,
\* whichever of its writes and renames failed, but for what a move between file systems
\* left where it was to go.
THEOREM LibraryIsDisk == TagSpec => []LibraryAgrees
<1>1. TagInv => LibraryAgrees
  <2> SUFFICES ASSUME TagInv, w.pc = "idle", answers = << >>
               PROVE  \A p \in Paths \ halfway : lib[p] = fs[p] /\ known[p] = fs[p]
    BY DEF LibraryAgrees
  <2>1. DOMAIN answers = {}
    BY EmptySeq
  <2>2. lib = known
    BY <2>1 DEF TagInv, LibraryFollows
  <2>3. \A p \in Paths \ halfway : known[p] = fs[p]
    BY DEF TagInv, WriterInv, CacheFollows
  <2> QED BY <2>2, <2>3
<1> QED BY <1>1, TagInvariance, PTL

\* The worker writes only under the overlay that asked for it, which shows Applying and
\* takes no key until the reread.
THEOREM WrittenInSight == TagSpec => []InPlainSight
<1>1. TagInv => InPlainSight
  BY DEF TagInv, TalkInv, ApplyInSight, InPlainSight
<1> QED BY <1>1, TagInvariance, PTL

\* What handle_mb_release_loaded previews, and Confirm applies, is the release this
\* overlay asked for last, for its own songs.
THEOREM PreviewHolds == TagSpec => []PreviewIsAsked
<1>1. TagInv => PreviewIsAsked
  BY DEF TagInv, TalkInv
<1> QED BY <1>1, TagInvariance, PTL

\* An overlay that waits has its request in a channel or with the worker, unless a sync
\* threw it away.
THEOREM WaitingHasRequest == TagSpec => []WaitsForAnswer
<1>1. TagInv => WaitsForAnswer
  BY DEF TagInv, TalkInv
<1> QED BY <1>1, TagInvariance, PTL

\* apply_release_diff overwrites the audio of no file but one that its own batch was to
\* rename: no step loses a song outside the sources of the batch.
THEOREM NoOutsiderLost == TagSpec => OutsidersSafe
<1>1. ASSUME TagInv, [TagNext]_tagVars
      PROVE  [\A p \in Paths : fs[p] # NoFile /\ ~There(fs', fs[p].song) =>
                 p \in Sources(w.tracks)]_tagVars
  <2>1. WriterTypes /\ WriterInv /\ TagTypeOK
    BY <1>1, WriterTypesHold DEF TagInv
  <2>2. CASE Rename
    BY <2>1, <2>2, RenameWrites DEF RenameSafe
  <2>3. CASE WriteThenSwap
    BY <2>1, <2>3, SwapWrites DEF There
  <2>9. CASE CopyAcross
    BY <2>1, <2>9, AcrossWrites DEF RenameSafe
  <2>10. CASE EndCopy \/ RemoveSource
    BY <2>1, <2>10, EndWrites
  <2>4. CASE UNCHANGED fs
    BY <2>4 DEF There
  <2>5. CASE KeyStep
    BY <2>4, <2>5, KeyFrame
  <2>6. CASE Handle
    BY <2>1, <2>4, <2>6, HandleFrame
  <2>7. CASE Respond \/ DropCommand \/ Apply
    BY <2>4, <2>7 DEF Respond, DropCommand, Apply, Disk
  <2>8. CASE CopyForTags \/ TagsWritten \/ TagsApplied \/ RereadPaths \/ Quit
    BY <2>4, <2>8 DEF CopyForTags, Draft, TagsWritten, TagsApplied, RereadPaths, Quit, Disk
  <2> QED BY <1>1, <2>2, <2>3, <2>5, <2>6, <2>7, <2>8, <2>9, <2>10 DEF TagNext, Worker, KeyStep
<1> QED BY <1>1, TagInvariance, PTL DEF TagSpec, OutsidersSafe

=============================================================================
